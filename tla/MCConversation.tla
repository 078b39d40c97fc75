----------------------------- MODULE MCConversation -----------------------------
(* One page, two turns, and at most two of: a click or a start of speech, a    *)
(* start of the microphone (twice, if that is all), a lost connection.  Enough  *)
(* for a turn that is stopped, or lost, while the next one has begun.          *)
EXTENDS Conversation
=============================================================================

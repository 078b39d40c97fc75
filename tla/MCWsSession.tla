----------------------------- MODULE MCWsSession -----------------------------
(* WsSession with one browser, which also holds the microphone, and queues of  *)
(* one slot, so that every wait between the threads happens.                  *)
EXTENDS WsSession

CONSTANT s1
MCSessions == {s1}
=============================================================================

---------------------------- MODULE MCChatService ----------------------------
(* ChatService with one stopping thread, three tasks and a cache of a few      *)
(* tokens, so that it also fills up.                                          *)
EXTENDS ChatService

CONSTANT io
MCStoppers == {io}
=============================================================================

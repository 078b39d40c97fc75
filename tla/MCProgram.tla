-------------------------------- MODULE MCProgram --------------------------------
(* Two connections, queues of one place: every thread may find every queue it  *)
(* needs full, a session goes while another's callback is under way, and a      *)
(* second Ctrl+C comes while the first is dealt with.                          *)
EXTENDS Program
=============================================================================

------------------------------- MODULE MCHistory -------------------------------
(* Two connections over the life of a process or two, and two roles.  They      *)
(* come one after the other, the one that may have the microphone first.       *)
EXTENDS History

CONSTANTS c1, c2
MCConns == {c1, c2}
MCRoles == {"echo", "poet"}
MCUntitled == {1}

\* The connections come in one order.
InTurn(c) == c = c2 => conns[c1].status # "new"

\* Next, with that order.
MCNext ==
  \/ \E c \in Conns : InTurn(c) /\ Accept(c)
  \/ \E c \in Conns : Close(c) \/ Free(c) \/ NewSession(c)
  \/ \E c \in Conns, r \in Roles : SetRole(c, r)
  \/ SubmitRestart
  \/ \E t \in Threads : ToolReply(t) \/ SubmitChat(t)
  \/ \E t \in Threads, c \in Conns : Ask(t, c)
  \/ Worker
  \/ Crash

MCSpec == Init /\ [][MCNext]_vars
=============================================================================

------------------------------ MODULE SessionStore ------------------------------
(***************************************************************************)
(* src/src/storage/session_store.cpp: the sessions and their messages in       *)
(* SQLite.  Every operation holds the store's mutex, so it is one step; each    *)
(* statement of it commits by itself, so it may fail, or the process may die,  *)
(* between two of them.  The tables outlive the process.                      *)
(*                                                                         *)
(* A session is named by the position of its row; an id that names no row is    *)
(* accepted, because foreign keys are not enforced.  A message's content is     *)
(* the turn it belongs to.                                                  *)
(***************************************************************************)
EXTENDS Integers, Sequences, FiniteSets

CONSTANTS
  Roles,         \* the roles of the configuration
  Limit,         \* the messages a reader gets
  Untitled       \* the turns whose question is the placeholder title itself

ASSUME StoreAssumption == Limit \in Nat /\ Untitled \subseteq Nat \ {0}

Placeholder == 0     \* the title of a new session
NoRole == "none"

VARIABLES
  sessions,      \* rows of "sessions": role_id and title
  messages       \* rows of "messages"; touched (history): the session row was
                 \* updated after the message row was inserted

storeVars == <<sessions, messages>>

\* How AppendMessage ends: at the first statement, at the second, or well.
Outcomes == {"refused", "inserted", "stored"}

StoreInit == sessions = <<>> /\ messages = <<>>

\* CreateSession gives the new row the next id.
NextId == Len(sessions) + 1
CreateSession(role) ==
  sessions' = Append(sessions, [role |-> role, title |-> Placeholder])

Title(turn) == IF turn \in Untitled THEN Placeholder ELSE turn

\* Mutant: any message is made the title.
BugAppendMessage(sid, from, turn, outcome) ==
  /\ messages' = IF outcome = "refused" THEN messages
                 ELSE Append(messages, [sid |-> sid, from |-> from, turn |-> turn,
                                        touched |-> outcome = "stored"])
  /\ sessions' = IF /\ outcome = "stored" /\ sid \in DOMAIN sessions
                    /\ sessions[sid].title = Placeholder
                 THEN [sessions EXCEPT ![sid].title = Title(turn)]
                 ELSE sessions

\* AppendMessage: INSERT INTO messages, then UPDATE sessions: a session still
\* called by the placeholder takes the user's words for its title.
AppendMessage(sid, from, turn, outcome) ==
  /\ messages' = IF outcome = "refused" THEN messages
                 ELSE Append(messages, [sid |-> sid, from |-> from, turn |-> turn,
                                        touched |-> outcome = "stored"])
  /\ sessions' = IF /\ outcome = "stored" /\ sid \in DOMAIN sessions
                    /\ sessions[sid].title = Placeholder /\ from = "user"
                 THEN [sessions EXCEPT ![sid].title = Title(turn)]
                 ELSE sessions

\* SetSessionRole: an id that names no row updates none.
SetSessionRole(sid, role) ==
  sessions' = IF sid \in DOMAIN sessions
              THEN [sessions EXCEPT ![sid].role = role] ELSE sessions

\* ListMessages: the rows a reader of a session gets, in the order of their ids:
\* the oldest, up to the limit.
RowsOf(sid) == {i \in DOMAIN messages : messages[i].sid = sid}
ListMessages(sid) ==
  {i \in RowsOf(sid) : Cardinality(RowsOf(sid) \intersect 1..i) <= Limit}
=============================================================================

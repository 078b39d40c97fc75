--------------------------------- MODULE History ---------------------------------
(***************************************************************************)
(* Who writes what into the store: the connections of                         *)
(* src/src/server/ws_session.cpp, the LLM worker that runs their callbacks,     *)
(* and a process that may die and start again over the same tables.           *)
(*                                                                         *)
(* session_id_ is written by the LLM worker, when a reset has run, and read by  *)
(* the IO and the audio thread with no lock: a reader may see the old id, the   *)
(* new one, or a mixture that names no session.  role_id_ is written by the IO  *)
(* thread and read by the LLM worker in the same way.  Callbacks hold weak      *)
(* pointers: they do nothing once their connection is freed.  Interrupts and    *)
(* the microphone are WsSession and SpeechMic; here a turn is what it stores.   *)
(***************************************************************************)
EXTENDS SessionStore

CONSTANTS
  Conns,         \* the connections of all times: a browser that reconnects is
                 \* a new one
  Mic,           \* the one that holds the microphone
  ActiveRole,    \* active_role of the configuration
  MaxInputs,     \* bound: turns started, set_role and reset messages
  MaxFaults      \* bound: calls of the store or of the model that fail,
                 \* and deaths of the process

ASSUME HistoryAssumption ==
  /\ Mic \in Conns /\ ActiveRole \in Roles /\ NoRole \notin Roles
  /\ MaxInputs \in Nat /\ MaxFaults \in Nat

Torn == -1           \* an id read while it is being overwritten
NoSession == 0       \* session_id_ is empty: nothing is stored
TornRole == "torn"
Threads == {"io", "audio"}

VARIABLES
  conns,         \* status, session_id_ and role_id_ of each connection
  newId,         \* the id being written into session_id_ (0: none)
  newRole,       \* the role being written into role_id_ (NoRole: none)
  tasks,         \* the chat queue
  running,       \* the task the worker is at
  prompt,        \* the role whose prompt the model was given
  promptBy,      \* history: the connection that asked for it
  failed,        \* history: the connections whose last change of role failed
  adrift,        \* history: the sessions made while their connection's role was
                 \* not the prompt's, or whose role the store has refused
  pc, call,      \* the IO and the audio thread: StartChatTurn, HandleSetRole
  turns,         \* history: the turns started
  switches,      \* history: how many set_role and reset messages came
  faults         \* history: how many calls failed, or deaths

procVars == <<conns, newId, newRole, tasks, running, prompt, promptBy, failed, adrift,
              pc, call>>
vars == <<storeVars, procVars, turns, switches, faults>>

Task == [kind : {"chat"}, conn : Conns, arg : 1..MaxInputs]
        \union [kind : {"reset"}, conn : Conns, arg : {0}]
        \union [kind : {"restart"}, conn : Conns, arg : Roles]
NoTask == [kind |-> "none", conn |-> Mic, arg |-> 0]
NoCall == [conn |-> Mic, turn |-> 0]

TypeOK ==
  /\ sessions \in Seq([role : Roles \union {TornRole}, title : 0..MaxInputs])
  /\ messages \in Seq([sid : Int, from : {"user", "assistant"},
                       turn : 1..MaxInputs, touched : BOOLEAN])
  /\ conns \in [Conns -> [status : {"new", "open", "closing", "gone"},
                          sid : Nat, role : Roles]]
  /\ newId \in [Conns -> Nat] /\ newRole \in [Conns -> Roles \union {NoRole}]
  /\ tasks \in Seq(Task) /\ running \in Task \union {NoTask}
  /\ prompt \in Roles \union {NoRole} /\ promptBy \subseteq Conns
  /\ failed \subseteq Conns /\ adrift \subseteq Nat
  /\ pc \in [Threads -> {"idle", "role", "tool", "submit"}]
  /\ call \in [Threads -> [conn : Conns, turn : 0..MaxInputs]]
  /\ turns \in Seq([conn : Conns, thread : Threads, tool : BOOLEAN,
                    reset : BOOLEAN, lost : BOOLEAN])
  /\ switches \in 0..MaxInputs /\ faults \in 0..MaxFaults

\* The start of the process: main opens the store, ChatService::Create gives
\* the model the prompt of the active role.
Boot ==
  /\ newId' = [c \in Conns |-> NoSession]
  /\ newRole' = [c \in Conns |-> NoRole]
  /\ tasks' = <<>> /\ running' = NoTask
  /\ prompt' = ActiveRole /\ promptBy' = {} /\ failed' = {} /\ adrift' = {}
  /\ pc' = [t \in Threads |-> "idle"] /\ call' = [t \in Threads |-> NoCall]

Init ==
  /\ StoreInit
  /\ conns = [c \in Conns |-> [status |-> "new", sid |-> NoSession,
                               role |-> ActiveRole]]
  /\ newId = [c \in Conns |-> NoSession]
  /\ newRole = [c \in Conns |-> NoRole]
  /\ tasks = <<>> /\ running = NoTask
  /\ prompt = ActiveRole /\ promptBy = {} /\ failed = {} /\ adrift = {}
  /\ pc = [t \in Threads |-> "idle"] /\ call = [t \in Threads |-> NoCall]
  /\ turns = <<>> /\ switches = 0 /\ faults = 0

MoreInput == Len(turns) + switches < MaxInputs

\* One more fault, if bad.
Count(bad) == faults' = faults + (IF bad THEN 1 ELSE 0) /\ faults' <= MaxFaults

\* The process dies, at any moment, and is started again.
Crash ==
  /\ Boot
  /\ conns' = [c \in Conns |->
                 IF conns[c].status = "new" THEN conns[c]
                 ELSE [conns[c] EXCEPT !.status = "gone"]]
  /\ conns' # conns
  /\ turns' = [i \in DOMAIN turns |-> [turns[i] EXCEPT !.lost = TRUE]]
  /\ Count(TRUE)
  /\ UNCHANGED <<storeVars, switches>>

-----------------------------------------------------------------------------
(* Data races: what a thread may read while another one writes. *)

SeenId(c) == IF newId[c] = NoSession THEN {conns[c].sid}
             ELSE {conns[c].sid, newId[c], Torn}
SeenRole(c) == IF newRole[c] = NoRole THEN {conns[c].role}
               ELSE {conns[c].role, newRole[c], TornRole}

\* weak.lock() finds the connection.
Alive(c) == conns[c].status \in {"open", "closing"}

\* Persist: nothing, without a session; else AppendMessage, whatever comes of
\* it.
Persist(c, from, turn, outcome) ==
  \E sid \in SeenId(c) :
    IF sid = NoSession
    THEN outcome = "refused" /\ UNCHANGED <<storeVars, faults>>
    ELSE AppendMessage(sid, from, turn, outcome) /\ Count(outcome # "stored")

\* A session for the connection.
OpenSession(c, role) ==
  /\ CreateSession(role)
  /\ adrift' = IF conns[c].role = prompt /\ newRole[c] = NoRole
               THEN adrift ELSE adrift \union {NextId}

-----------------------------------------------------------------------------
(* The IO thread, and the audio thread in StartChatTurn. *)

\* OnAccept: a session of its own for every connection, if the store lets it.
Accept(c) ==
  /\ pc["io"] = "idle" /\ conns[c].status = "new"
  /\ \/ /\ OpenSession(c, conns[c].role)
        /\ conns' = [conns EXCEPT ![c].status = "open", ![c].sid = NextId]
        /\ Count(FALSE)
     \/ /\ conns' = [conns EXCEPT ![c].status = "open"]
        /\ Count(TRUE)
        /\ UNCHANGED <<sessions, adrift>>
  /\ UNCHANGED <<messages, newId, newRole, tasks, running, prompt, promptBy, failed, pc,
                 call, turns, switches>>

\* OnRead fails; the object lives on while a handler or a callback holds it ...
Close(c) ==
  /\ pc["io"] = "idle" /\ conns[c].status = "open"
  /\ conns' = [conns EXCEPT ![c].status = "closing"]
  /\ UNCHANGED <<storeVars, newId, newRole, tasks, running, prompt, promptBy, failed,
                 adrift, pc, call, turns, switches, faults>>

\* ... and is freed after that.
Free(c) ==
  /\ conns[c].status = "closing"
  /\ \A t \in Threads : pc[t] # "idle" => call[t].conn # c
  /\ newId[c] = NoSession
  /\ conns' = [conns EXCEPT ![c].status = "gone"]
  /\ UNCHANGED <<storeVars, newId, newRole, tasks, running, prompt, promptBy, failed,
                 adrift, pc, call, turns, switches, faults>>

\* A reset of the connection waits, or runs.
ResetDue(c) ==
  \/ \E i \in DOMAIN tasks : tasks[i].kind = "reset" /\ tasks[i].conn = c
  \/ running.kind = "reset" /\ running.conn = c

\* StartChatTurn stores the question; then a tool has the answer, or the model
\* is asked for it.
Ask(t, c) ==
  /\ pc[t] = "idle" /\ MoreInput
  /\ IF t = "io" THEN conns[c].status = "open" ELSE Alive(c) /\ c = Mic
  /\ \E outcome \in Outcomes, hit \in BOOLEAN :
       /\ Persist(c, "user", Len(turns) + 1, outcome)
       /\ turns' = Append(turns, [conn |-> c, thread |-> t, tool |-> hit,
                                  reset |-> ResetDue(c),
                                  lost |-> outcome = "refused"])
       /\ pc' = [pc EXCEPT ![t] = IF hit THEN "tool" ELSE "submit"]
  /\ call' = [call EXCEPT ![t] = [conn |-> c, turn |-> Len(turns) + 1]]
  /\ UNCHANGED <<conns, newId, newRole, tasks, running, prompt, promptBy, failed,
                 adrift, switches>>

\* The reply of a turn, if there is any: Persist("assistant", ...).
StoreReply(c, turn) ==
  \E outcome \in Outcomes :
    /\ Persist(c, "assistant", turn, outcome)
    /\ turns' = [turns EXCEPT ![turn].lost = @ \/ outcome = "refused"]

\* ReplyDirect
ToolReply(t) ==
  /\ pc[t] = "tool"
  /\ StoreReply(call[t].conn, call[t].turn)
  /\ pc' = [pc EXCEPT ![t] = "idle"]
  /\ call' = [call EXCEPT ![t] = NoCall]
  /\ UNCHANGED <<conns, newId, newRole, tasks, running, prompt, promptBy, failed,
                 adrift, switches>>

\* Mutant: the latest task is served first.
BugSubmit(task) == tasks' = <<task>> \o tasks

\* Mutant: a task is dropped while another one waits.
BugTrySubmit(task) == tasks' = IF tasks = <<>> THEN <<task>> ELSE tasks

\* SubmitChat, SubmitReset, SubmitRestart
Submit(task) == tasks' = Append(tasks, task)

SubmitChat(t) ==
  /\ pc[t] = "submit"
  /\ Submit([kind |-> "chat", conn |-> call[t].conn, arg |-> call[t].turn])
  /\ pc' = [pc EXCEPT ![t] = "idle"]
  /\ call' = [call EXCEPT ![t] = NoCall]
  /\ UNCHANGED <<storeVars, conns, newId, newRole, running, prompt, promptBy, failed,
                 adrift, turns, switches, faults>>

\* Mutant: the new session is made at once.
BugNewSession(c) ==
  /\ pc["io"] = "idle" /\ conns[c].status = "open" /\ MoreInput
  /\ OpenSession(c, conns[c].role)
  /\ conns' = [conns EXCEPT ![c].sid = NextId]
  /\ switches' = switches + 1
  /\ UNCHANGED <<messages, newId, newRole, tasks, turns, running, prompt, promptBy,
                 failed, pc, call, faults>>

\* HandleNewSession: the session goes on until the worker has run the reset.
NewSession(c) ==
  /\ pc["io"] = "idle" /\ conns[c].status = "open" /\ MoreInput
  /\ Submit([kind |-> "reset", conn |-> c, arg |-> 0])
  /\ turns' = [i \in DOMAIN turns |->
                 IF \E t \in Threads : /\ pc[t] \in {"tool", "submit"}
                                       /\ call[t].turn = i /\ call[t].conn = c
                 THEN [turns[i] EXCEPT !.reset = TRUE] ELSE turns[i]]
  /\ switches' = switches + 1
  /\ UNCHANGED <<storeVars, conns, newId, newRole, running, prompt, promptBy, failed,
                 adrift, pc, call, faults>>

\* HandleSetRole writes role_id_ ...
SetRole(c, r) ==
  /\ pc["io"] = "idle" /\ conns[c].status = "open" /\ MoreInput
  /\ newRole' = [newRole EXCEPT ![c] = r]
  /\ pc' = [pc EXCEPT !["io"] = "role"]
  /\ call' = [call EXCEPT !["io"] = [conn |-> c, turn |-> 0]]
  /\ switches' = switches + 1
  /\ UNCHANGED <<storeVars, conns, newId, tasks, running, prompt, promptBy, failed,
                 adrift, turns, faults>>

\* ... and submits the restart.
SubmitRestart ==
  LET c == call["io"].conn
  IN  /\ pc["io"] = "role"
      /\ conns' = [conns EXCEPT ![c].role = newRole[c]]
      /\ newRole' = [newRole EXCEPT ![c] = NoRole]
      /\ Submit([kind |-> "restart", conn |-> c, arg |-> newRole[c]])
      /\ pc' = [pc EXCEPT !["io"] = "idle"]
      /\ call' = [call EXCEPT !["io"] = NoCall]
      /\ UNCHANGED <<storeVars, newId, running, prompt, promptBy, failed, adrift,
                     turns, switches, faults>>

-----------------------------------------------------------------------------
(* The LLM worker. *)

Pop ==
  /\ running.kind = "none" /\ tasks # <<>>
  /\ running' = Head(tasks) /\ tasks' = Tail(tasks)
  /\ UNCHANGED <<storeVars, conns, newId, newRole, prompt, promptBy, failed, adrift,
                 pc, call, turns, switches, faults>>

\* on_done: what there is of the reply is stored.
FinishChat ==
  /\ running.kind = "chat"
  /\ running' = NoTask
  /\ \/ Alive(running.conn) /\ StoreReply(running.conn, running.arg)
     \/ /\ turns' = [turns EXCEPT ![running.arg].lost = TRUE]
        /\ UNCHANGED <<storeVars, faults>>
  /\ UNCHANGED <<conns, newId, newRole, tasks, prompt, promptBy, failed, adrift, pc,
                 call, switches>>

\* The reset has run, or failed; on success a session is created, or not, and
\* its id is written into session_id_ ...
FinishReset ==
  LET c == running.conn
  IN  /\ running.kind = "reset" /\ newId[c] = NoSession
      /\ \/ /\ Alive(c)
            /\ \E role \in SeenRole(c) : OpenSession(c, role)
            /\ newId' = [newId EXCEPT ![c] = NextId]
            /\ UNCHANGED <<running, faults>>
         \/ /\ running' = NoTask
            /\ Count(Alive(c))
            /\ UNCHANGED <<sessions, adrift, newId>>
      /\ UNCHANGED <<messages, conns, newRole, tasks, prompt, promptBy, failed, pc, call,
                     turns, switches>>

\* ... until it is there as a whole.
EndSwitch ==
  LET c == running.conn
  IN  /\ running.kind = "reset" /\ newId[c] # NoSession
      /\ conns' = [conns EXCEPT ![c].sid = newId[c]]
      /\ newId' = [newId EXCEPT ![c] = NoSession]
      /\ running' = NoTask
      /\ UNCHANGED <<storeVars, newRole, tasks, prompt, promptBy, failed, adrift, pc,
                     call, turns, switches, faults>>

\* The model has the new prompt ...
RestartDone(c) ==
  /\ prompt' = running.arg /\ failed' = failed \ {c}
  /\ LET sid == conns[c].sid
     IN \/ /\ Alive(c)
           /\ SetSessionRole(sid, running.arg)
           /\ promptBy' = {c} /\ adrift' = adrift \ {sid}
           /\ Count(FALSE)
        \* The store refuses the role, which nobody looks at.
        \/ /\ Alive(c)
           /\ promptBy' = {c} /\ adrift' = adrift \union {sid}
           /\ Count(TRUE) /\ UNCHANGED sessions
        \/ /\ ~Alive(c)
           /\ promptBy' = {}
           /\ Count(FALSE) /\ UNCHANGED <<sessions, adrift>>

\* Mutant: the session is given the role without a look at ok.
BugRestartFailed(c) ==
  /\ \/ UNCHANGED <<prompt, promptBy>>
     \/ prompt' = NoRole /\ promptBy' = {}
  /\ failed' = failed \union {c}
  /\ SetSessionRole(conns[c].sid, running.arg)
  /\ Count(TRUE) /\ UNCHANGED adrift

\* ... or the restart failed, with the old prompt or none left.  role_id_ stays
\* the role that was asked for.
RestartFailed(c) ==
  /\ \/ UNCHANGED <<prompt, promptBy>>
     \/ prompt' = NoRole /\ promptBy' = {}
  /\ failed' = failed \union {c}
  /\ Count(TRUE) /\ UNCHANGED <<sessions, adrift>>

FinishRestart ==
  /\ running.kind = "restart"
  /\ running' = NoTask
  /\ RestartDone(running.conn) \/ RestartFailed(running.conn)
  /\ UNCHANGED <<messages, conns, newId, newRole, tasks, pc, call, turns, switches>>

-----------------------------------------------------------------------------
Worker == Pop \/ FinishChat \/ FinishReset \/ EndSwitch \/ FinishRestart

Next ==
  \/ \E c \in Conns : Accept(c) \/ Close(c) \/ Free(c) \/ NewSession(c)
  \/ \E c \in Conns, r \in Roles : SetRole(c, r)
  \/ SubmitRestart
  \/ \E t \in Threads : ToolReply(t) \/ SubmitChat(t)
  \/ \E t \in Threads, c \in Conns : Ask(t, c)
  \/ Worker
  \/ Crash

Spec == Init /\ [][Next]_vars

-----------------------------------------------------------------------------
(* Correctness. *)

\* A question and its reply are filed in one session, which exists, unless a
\* reset of that connection was under way when the turn was started, or was asked
\* for while it was being started.
\* (ws_session.cpp:248-255, 322, 386-405)
FiledTogether ==
  \A i, j \in DOMAIN messages :
    messages[i].turn = messages[j].turn =>
      \/ messages[i].sid = messages[j].sid /\ messages[i].sid \in DOMAIN sessions
      \/ turns[messages[i].turn].reset

\* What a reader of a session sees, in the order of the rows: no message twice,
\* no reply before its question or without it, if that was filed there, and the
\* replies to the questions of one thread in the order in which it asked them, a
\* tool's reply excepted, which does not wait for the model.
\* (ws_session.cpp:284-352, session_store.cpp:145-171)
Readable ==
  \A s \in DOMAIN sessions : \A j \in ListMessages(s) : \A i \in RowsOf(s) :
    /\ i # j => messages[i].turn # messages[j].turn \/ messages[i].from # messages[j].from
    /\ messages[i].turn = messages[j].turn /\ messages[i].from = "user"
         => i <= j /\ i \in ListMessages(s)
    /\ /\ messages[i].from = "assistant" /\ messages[j].from = "assistant"
       /\ turns[messages[i].turn].thread = turns[messages[j].turn].thread
       /\ ~turns[messages[i].turn].tool /\ ~turns[messages[j].turn].tool
       /\ messages[i].turn < messages[j].turn
       => i < j

AtRest == /\ tasks = <<>> /\ running.kind = "none"
          /\ \A t \in Threads : pc[t] = "idle"

\* When nothing is under way every question that was stored has its reply
\* stored, unless the store refused one of them, the reply was empty (as any
\* reply of the model may be here), the connection was gone by then, or the
\* process died.
\* (ws_session.cpp:248-282, 318-322)
QuestionsAnswered ==
  AtRest => \A n \in DOMAIN turns :
    \/ turns[n].lost
    \/ \A from \in {"user", "assistant"} :
         \E i \in DOMAIN messages : messages[i].turn = n /\ messages[i].from = from

\* A session is called by the first question stored in it, whatever died or
\* failed in between: one whose second statement failed does not count, nor
\* does one that is the placeholder itself.  (session_store.cpp:173-215)
TitleIsFirstQuestion ==
  \A s \in DOMAIN sessions :
    LET asked == {i \in RowsOf(s) : /\ messages[i].from = "user" /\ messages[i].touched
                                    /\ messages[i].turn \notin Untitled}
    IN  IF asked = {} THEN sessions[s].title = Placeholder
        ELSE \E i \in asked : /\ \A j \in asked : i <= j
                              /\ sessions[s].title = messages[i].turn

\* When nothing is under way a connection that gave the model its present prompt
\* has the role of it, whatever others asked for and failed to get since then;
\* and so has its session, whatever resets ran in between and whatever else the
\* connection has asked for in vain.  Two cases are excepted: a connection whose
\* own last change of role failed has taken that role for its own nevertheless,
\* and a session made meanwhile, or whose role the store refused, is filed under
\* another one.  (ws_session.cpp:356-405)
RoleFollowsPrompt ==
  AtRest => \A c \in promptBy :
    /\ conns[c].role = prompt \/ c \in failed
    /\ conns[c].sid \in DOMAIN sessions \ adrift =>
         sessions[conns[c].sid].role = prompt
=============================================================================

------------------------------ MODULE HistoryProofs ------------------------------
(* What is filed in the store, for any numbers of connections, roles, turns,    *)
(* resets, failures and deaths of the process.                               *)
EXTENDS History, FiniteSetTheorems, SequenceTheorems, TLAPS

SessionRow == [role : Roles \union {TornRole}, title : 0..MaxInputs]
MessageRow == [sid : Int, from : {"user", "assistant"}, turn : 1..MaxInputs,
               touched : BOOLEAN]
TurnRow == [conn : Conns, thread : Threads, tool : BOOLEAN, reset : BOOLEAN,
            lost : BOOLEAN]

\* Every turn and every switch is one of MaxInputs inputs.
Bounded == Len(turns) + switches <= MaxInputs

\* Ids name sessions that have been made, one is being written only by the
\* worker inside a reset of that connection, a role only by the IO thread
\* inside HandleSetRole.
IdsInv ==
  /\ \A c \in Conns : conns[c].sid <= Len(sessions) /\ newId[c] <= Len(sessions)
  /\ \A c \in Conns : newId[c] # NoSession => running.kind = "reset" /\ running.conn = c
  /\ \A c \in Conns : newRole[c] # NoRole => pc["io"] = "role" /\ call["io"].conn = c
  /\ pc["io"] = "role" => newRole[call["io"].conn] # NoRole

\* Turn n of connection c may still store a message.
Open(n, c) ==
  \/ \E t \in Threads : /\ pc[t] \in {"tool", "submit"}
                        /\ call[t].turn = n /\ call[t].conn = c
  \/ \E i \in 1..Len(tasks) : /\ tasks[i].kind = "chat"
                              /\ tasks[i].arg = n /\ tasks[i].conn = c
  \/ running.kind = "chat" /\ running.arg = n /\ running.conn = c

ResetAt(i, c) == tasks[i].kind = "reset" /\ tasks[i].conn = c
ResetRuns(c) == running.kind = "reset" /\ running.conn = c

\* No reset comes between a turn and its reply, unless the turn knows of it.
OpenInv ==
  /\ \A n \in Nat, c \in Conns :
       Open(n, c) => /\ n \in 1..Len(turns) /\ turns[n].conn = c
                     /\ conns[c].status # "new"
  /\ \A t \in Threads :
       pc[t] \in {"tool", "submit"} /\ ~turns[call[t].turn].reset
         => /\ \A i \in 1..Len(tasks) : ~ResetAt(i, call[t].conn)
            /\ ~ResetRuns(call[t].conn)
  /\ \A i \in 1..Len(tasks) :
       tasks[i].kind = "chat" /\ ~turns[tasks[i].arg].reset
         => /\ \A j \in 1..i - 1 : ~ResetAt(j, tasks[i].conn)
            /\ ~ResetRuns(tasks[i].conn)

\* What has been stored of a turn is filed together, and as long as there may
\* be more, where that will be filed.
FileInv ==
  /\ \A i \in 1..Len(messages) :
       /\ messages[i].turn \in 1..Len(turns)
       /\ turns[messages[i].turn].reset \/ messages[i].sid \in 1..Len(sessions)
  /\ \A n \in 1..Len(turns) :
       Open(n, turns[n].conn) /\ ~turns[n].reset
         => \A i \in 1..Len(messages) :
              messages[i].turn = n => messages[i].sid = conns[turns[n].conn].sid
  /\ \A i, j \in 1..Len(messages) :
       messages[i].turn = messages[j].turn
         => messages[i].sid = messages[j].sid \/ turns[messages[i].turn].reset

RestartAt(i, c) == tasks[i].kind = "restart" /\ tasks[i].conn = c
Waiting(c) == \E i \in 1..Len(tasks) : RestartAt(i, c)
RestartRuns(c) == running.kind = "restart" /\ running.conn = c

\* The last restart on its way brings the role the connection has; if there is
\* none, and the model was given its prompt for this connection, whose last change
\* of role did not fail, that is the role of the prompt and of the connection.
RestartInv ==
  /\ \A c \in Conns, i \in 1..Len(tasks) :
       RestartAt(i, c) /\ (\A j \in i + 1..Len(tasks) : ~RestartAt(j, c))
         => tasks[i].arg = conns[c].role
  /\ \A c \in Conns :
       RestartRuns(c) /\ ~Waiting(c) => running.arg = conns[c].role

PromptInv ==
  \A c \in promptBy \ failed :
    ~Waiting(c) /\ ~RestartRuns(c) /\ newRole[c] = NoRole => conns[c].role = prompt

\* The session of the connection the model has its prompt from has the role of
\* the prompt, whatever else is under way or has failed, unless it is adrift.
DriftInv ==
  \A c \in promptBy : \A s \in {conns[c].sid, newId[c]} :
    s \in 1..Len(sessions) \ adrift => sessions[s].role = prompt

Inv ==
  /\ TypeOK /\ Bounded /\ IdsInv /\ OpenInv /\ FileInv /\ RestartInv /\ PromptInv
  /\ DriftInv

-----------------------------------------------------------------------------
(* The operations of the store. *)

\* A message of turn n, to or for connection c, has been added, or nothing.
Stored(n, c) ==
  /\ sessions' \in Seq(SessionRow) /\ Len(sessions') = Len(sessions)
  /\ \A s \in 1..Len(sessions) : sessions'[s].role = sessions[s].role
  /\ messages' \in Seq(MessageRow)
  /\ \/ messages' = messages
     \/ /\ Len(messages') = Len(messages) + 1
        /\ \A i \in 1..Len(messages) : messages'[i] = messages[i]
        /\ messages'[Len(messages) + 1].turn = n
        /\ messages'[Len(messages) + 1].sid \in SeenId(c) \ {NoSession}

LEMMA RowTypes ==
  ASSUME TypeOK
  PROVE  /\ sessions \in Seq(SessionRow) /\ Len(sessions) \in Nat
         /\ DOMAIN sessions = 1..Len(sessions)
         /\ messages \in Seq(MessageRow) /\ Len(messages) \in Nat
         /\ DOMAIN messages = 1..Len(messages)
         /\ turns \in Seq(TurnRow) /\ Len(turns) \in Nat /\ DOMAIN turns = 1..Len(turns)
         /\ tasks \in Seq(Task) /\ Len(tasks) \in Nat /\ DOMAIN tasks = 1..Len(tasks)
         /\ \A i \in 1..Len(sessions) : sessions[i] \in SessionRow
         /\ \A i \in 1..Len(messages) : messages[i] \in MessageRow
         /\ \A i \in 1..Len(turns) : turns[i] \in TurnRow
         /\ \A i \in 1..Len(tasks) : tasks[i] \in Task
<1>1. sessions \in Seq(SessionRow) /\ messages \in Seq(MessageRow) /\ turns \in Seq(TurnRow)
      /\ tasks \in Seq(Task)
  BY DEF TypeOK, SessionRow, MessageRow, TurnRow
<1> QED BY <1>1, LenProperties, ElementOfSeq

\* A session is made for a connection.
LEMMA Created ==
  ASSUME TypeOK, NEW role \in Roles \union {TornRole}, CreateSession(role)
  PROVE  /\ sessions' \in Seq(SessionRow) /\ Len(sessions') = Len(sessions) + 1
         /\ \A s \in 1..Len(sessions) : sessions'[s] = sessions[s]
         /\ sessions'[Len(sessions) + 1].role = role
<1>1. [role |-> role, title |-> Placeholder] \in SessionRow
  BY HistoryAssumption DEF SessionRow, Placeholder
<1> QED BY <1>1, RowTypes, AppendProperties DEF CreateSession

\* Persist stores at most one message, where session_id_ says.
LEMMA Persisted ==
  ASSUME TypeOK, NEW c \in Conns, NEW from \in {"user", "assistant"},
         NEW n \in 1..MaxInputs, NEW outcome \in Outcomes, Persist(c, from, n, outcome)
  PROVE  Stored(n, c) /\ faults' \in 0..MaxFaults
<1> USE RowTypes
<1>1. SeenId(c) \subseteq Int
  BY DEF SeenId, TypeOK, Torn
<1>2. CASE UNCHANGED <<storeVars, faults>>
  BY <1>2 DEF Stored, storeVars, TypeOK
<1>3. ASSUME NEW sid \in SeenId(c), sid # NoSession, AppendMessage(sid, from, n, outcome),
             Count(outcome # "stored")
      PROVE  Stored(n, c) /\ faults' \in 0..MaxFaults
  <2>1. faults' \in 0..MaxFaults
    BY <1>3, HistoryAssumption DEF Count, TypeOK
  <2>2. Title(n) \in 0..MaxInputs
    BY HistoryAssumption DEF Title, Placeholder
  <2>3. /\ sessions' \in Seq(SessionRow) /\ Len(sessions') = Len(sessions)
        /\ \A s \in 1..Len(sessions) : sessions'[s].role = sessions[s].role
    <3>1. CASE sessions' = sessions
      BY <3>1
    <3>2. CASE sid \in DOMAIN sessions /\ sessions' = [sessions EXCEPT ![sid].title = Title(n)]
      <4>1. [sessions[sid] EXCEPT !.title = Title(n)] \in SessionRow
            /\ [sessions[sid] EXCEPT !.title = Title(n)].role = sessions[sid].role
        BY <2>2, <3>2 DEF SessionRow
      <4>2. sessions' = [sessions EXCEPT ![sid] = [sessions[sid] EXCEPT !.title = Title(n)]]
        BY <3>2
      <4> QED BY <3>2, <4>1, <4>2, ExceptSeq
    <3> QED BY <1>3, <3>1, <3>2 DEF AppendMessage
  <2>4. CASE messages' = messages
    BY <2>1, <2>3, <2>4 DEF Stored
  <2>5. CASE messages' = Append(messages, [sid |-> sid, from |-> from, turn |-> n,
                                           touched |-> outcome = "stored"])
    <3> DEFINE row == [sid |-> sid, from |-> from, turn |-> n,
                       touched |-> outcome = "stored"]
    <3>1. row \in MessageRow /\ row.turn = n /\ row.sid \in SeenId(c) \ {NoSession}
      BY <1>1, <1>3 DEF MessageRow
    <3>2. messages' = Append(messages, row)
      BY <2>5
    <3> HIDE DEF row
    <3>3. /\ messages' \in Seq(MessageRow) /\ Len(messages') = Len(messages) + 1
          /\ \A i \in 1..Len(messages) : messages'[i] = messages[i]
          /\ messages'[Len(messages) + 1] = row
      BY <3>1, <3>2, AppendProperties
    <3> QED BY <2>1, <2>3, <3>1, <3>3 DEF Stored
  <2> QED BY <1>3, <2>4, <2>5 DEF AppendMessage
<1> QED BY <1>2, <1>3 DEF Persist

\* The turns are there as before, but for "lost".
TurnsKept ==
  /\ turns' \in Seq(TurnRow) /\ Len(turns') = Len(turns)
  /\ \A i \in 1..Len(turns) : turns'[i].conn = turns[i].conn
                              /\ turns'[i].reset = turns[i].reset

\* A turn has lost its question or its reply, or has not.
LEMMA Lost ==
  ASSUME TypeOK, NEW n \in 1..Len(turns), NEW b \in BOOLEAN,
         turns' = [turns EXCEPT ![n].lost = b]
  PROVE  TurnsKept
<1> DEFINE row == [turns[n] EXCEPT !.lost = b]
<1>1. row \in TurnRow /\ row.conn = turns[n].conn /\ row.reset = turns[n].reset
  BY RowTypes DEF TurnRow
<1>2. turns' = [turns EXCEPT ![n] = row]
  OBVIOUS
<1> HIDE DEF row
<1>3. /\ [turns EXCEPT ![n] = row] \in Seq(TurnRow)
      /\ Len([turns EXCEPT ![n] = row]) = Len(turns)
      /\ \A i \in 1..Len(turns) :
           [turns EXCEPT ![n] = row][i] = IF i = n THEN row ELSE turns[i]
  BY <1>1, RowTypes, ExceptSeq
<1>4. /\ turns' \in Seq(TurnRow) /\ Len(turns') = Len(turns)
      /\ \A i \in 1..Len(turns) : turns'[i] = IF i = n THEN row ELSE turns[i]
  BY <1>2, <1>3, Zenon
<1> QED BY <1>1, <1>4 DEF TurnsKept

\* The reply of a turn.
LEMMA Replied ==
  ASSUME TypeOK, NEW c \in Conns, NEW n \in 1..Len(turns), n \in 1..MaxInputs,
         StoreReply(c, n)
  PROVE  Stored(n, c) /\ faults' \in 0..MaxFaults /\ TurnsKept
<1> USE RowTypes
<1>1. PICK outcome \in Outcomes :
        /\ Persist(c, "assistant", n, outcome)
        /\ turns' = [turns EXCEPT ![n].lost = @ \/ outcome = "refused"]
  BY DEF StoreReply
<1>2. (turns[n].lost \/ outcome = "refused") \in BOOLEAN
  OBVIOUS
<1>3. TurnsKept
  BY <1>1, <1>2, Lost
<1> QED BY <1>1, <1>3, Persisted

\* A reset, or the death of the process, is noted in some of the turns.
LEMMA Noted ==
  ASSUME TypeOK, NEW S, NEW dead \in BOOLEAN,
         turns' = [i \in DOMAIN turns |->
                     IF i \notin S THEN turns[i]
                     ELSE IF dead THEN [turns[i] EXCEPT !.lost = TRUE]
                          ELSE [turns[i] EXCEPT !.reset = TRUE]]
  PROVE  /\ turns' \in Seq(TurnRow) /\ Len(turns') = Len(turns)
         /\ \A i \in 1..Len(turns) :
              /\ turns'[i].conn = turns[i].conn
              /\ turns'[i].reset = (turns[i].reset \/ (i \in S /\ ~dead))
<1> USE RowTypes
<1>1. \A i \in 1..Len(turns) :
        /\ [turns[i] EXCEPT !.lost = TRUE] \in TurnRow
        /\ [turns[i] EXCEPT !.lost = TRUE].conn = turns[i].conn
        /\ [turns[i] EXCEPT !.lost = TRUE].reset = turns[i].reset
        /\ [turns[i] EXCEPT !.reset = TRUE] \in TurnRow
        /\ [turns[i] EXCEPT !.reset = TRUE].conn = turns[i].conn
        /\ [turns[i] EXCEPT !.reset = TRUE].reset = TRUE
  BY DEF TurnRow
<1>2. \A i \in 1..Len(turns) : turns[i].reset \in BOOLEAN
  BY DEF TurnRow
<1>3. \A i \in 1..Len(turns) :
        /\ turns'[i] \in TurnRow
        /\ turns'[i].conn = turns[i].conn
        /\ turns'[i].reset = (turns[i].reset \/ (i \in S /\ ~dead))
  <2> TAKE i \in 1..Len(turns)
  <2>1. CASE i \notin S
    BY <1>2, <2>1
  <2>2. CASE i \in S /\ dead
    BY <1>1, <1>2, <2>2
  <2>3. CASE i \in S /\ ~dead
    BY <1>1, <1>2, <2>3
  <2> QED BY <2>1, <2>2, <2>3
<1>4. DOMAIN turns' = 1..Len(turns)
  OBVIOUS
<1>5. turns' \in [1..Len(turns) -> TurnRow]
  BY <1>3, <1>4
<1>6. turns' \in Seq(TurnRow) /\ Len(turns') = Len(turns)
  BY <1>5, SeqDef
<1> QED BY <1>3, <1>6

\* A task joins the queue.
LEMMA Submitted ==
  ASSUME TypeOK, NEW task \in Task, Submit(task)
  PROVE  /\ tasks' \in Seq(Task) /\ Len(tasks') = Len(tasks) + 1
         /\ \A i \in 1..Len(tasks) : tasks'[i] = tasks[i]
         /\ tasks'[Len(tasks) + 1] = task
BY RowTypes, AppendProperties DEF Submit

\* The worker takes one.
LEMMA Popped ==
  ASSUME TypeOK, Pop
  PROVE  /\ tasks' \in Seq(Task) /\ Len(tasks') = Len(tasks) - 1 /\ Len(tasks) > 0
         /\ \A i \in 1..Len(tasks') : tasks'[i] = tasks[i + 1]
         /\ running' = tasks[1] /\ running' \in Task /\ running.kind = "none"
<1>1. tasks # <<>> /\ running' = Head(tasks) /\ tasks' = Tail(tasks) /\ running.kind = "none"
  BY DEF Pop
<1>2. Len(tasks) > 0 /\ Head(tasks) = tasks[1]
  BY <1>1, RowTypes, EmptySeq
<1> QED BY <1>1, <1>2, RowTypes, HeadTailProperties

\* The kind of a task says what its argument is.
LEMMA TaskKinds ==
  ASSUME NEW task \in Task
  PROVE  /\ task.conn \in Conns /\ task.kind \in {"chat", "reset", "restart"}
         /\ task.kind = "chat" => task.arg \in 1..MaxInputs
         /\ task.kind = "restart" => task.arg \in Roles
BY DEF Task

-----------------------------------------------------------------------------
(* The connections and the threads that serve them. *)

Statuses == {"new", "open", "closing", "gone"}
Labels == {"idle", "role", "tool", "submit"}
ConnRow == [status : Statuses, sid : Nat, role : Roles]
CallRow == [conn : Conns, turn : 0..MaxInputs]

\* Connection c has become this, and no other one has changed.
ConnIs(c, status, sid, role) ==
  /\ conns' \in [Conns -> ConnRow]
  /\ conns'[c].status = status /\ conns'[c].sid = sid /\ conns'[c].role = role
  /\ \A d \in Conns \ {c} : conns'[d] = conns[d]

LEMMA ConnTypes ==
  ASSUME TypeOK
  PROVE  /\ conns \in [Conns -> ConnRow]
         /\ \A c \in Conns : /\ conns[c] \in ConnRow /\ conns[c].status \in Statuses
                            /\ conns[c].sid \in Nat /\ conns[c].role \in Roles
         /\ pc \in [Threads -> Labels] /\ call \in [Threads -> CallRow]
         /\ \A t \in Threads : call[t].conn \in Conns /\ call[t].turn \in 0..MaxInputs
BY DEF TypeOK, ConnRow, CallRow, Labels, Statuses

LEMMA StatusChanges ==
  ASSUME TypeOK, NEW c \in Conns, NEW status \in Statuses,
         conns' = [conns EXCEPT ![c].status = status]
  PROVE  ConnIs(c, status, conns[c].sid, conns[c].role)
<1> DEFINE row == [conns[c] EXCEPT !.status = status]
<1>1. /\ row \in ConnRow /\ row.status = status /\ row.sid = conns[c].sid
      /\ row.role = conns[c].role
  BY ConnTypes DEF ConnRow
<1>2. conns' = [conns EXCEPT ![c] = row]
  BY ConnTypes
<1> HIDE DEF row
<1> QED BY <1>1, <1>2, ConnTypes DEF ConnIs

LEMMA Opens ==
  ASSUME TypeOK, NEW c \in Conns, NEW status \in Statuses, NEW sid \in Nat,
         conns' = [conns EXCEPT ![c].status = status, ![c].sid = sid]
  PROVE  ConnIs(c, status, sid, conns[c].role)
<1> DEFINE row == [conns[c] EXCEPT !.status = status, !.sid = sid]
<1>1. /\ row \in ConnRow /\ row.status = status /\ row.sid = sid
      /\ row.role = conns[c].role
  BY ConnTypes DEF ConnRow
<1>2. conns' = [conns EXCEPT ![c] = row]
  BY ConnTypes DEF ConnRow
<1> HIDE DEF row
<1> QED BY <1>1, <1>2, ConnTypes DEF ConnIs

LEMMA IdChanges ==
  ASSUME TypeOK, NEW c \in Conns, NEW sid \in Nat,
         conns' = [conns EXCEPT ![c].sid = sid]
  PROVE  ConnIs(c, conns[c].status, sid, conns[c].role)
<1> DEFINE row == [conns[c] EXCEPT !.sid = sid]
<1>1. /\ row \in ConnRow /\ row.status = conns[c].status /\ row.sid = sid
      /\ row.role = conns[c].role
  BY ConnTypes DEF ConnRow
<1>2. conns' = [conns EXCEPT ![c] = row]
  BY ConnTypes
<1> HIDE DEF row
<1> QED BY <1>1, <1>2, ConnTypes DEF ConnIs

LEMMA RoleChanges ==
  ASSUME TypeOK, NEW c \in Conns, NEW role \in Roles,
         conns' = [conns EXCEPT ![c].role = role]
  PROVE  ConnIs(c, conns[c].status, conns[c].sid, role)
<1> DEFINE row == [conns[c] EXCEPT !.role = role]
<1>1. /\ row \in ConnRow /\ row.status = conns[c].status /\ row.sid = conns[c].sid
      /\ row.role = role
  BY ConnTypes DEF ConnRow
<1>2. conns' = [conns EXCEPT ![c] = row]
  BY ConnTypes
<1> HIDE DEF row
<1> QED BY <1>1, <1>2, ConnTypes DEF ConnIs

\* A thread goes on, inside a call or to the next one.
LEMMA ThreadGoesOn ==
  ASSUME TypeOK, NEW t \in Threads, NEW label \in Labels, NEW row \in CallRow
  PROVE  /\ [pc EXCEPT ![t] = label] \in [Threads -> Labels]
         /\ [call EXCEPT ![t] = row] \in [Threads -> CallRow]
         /\ NoCall \in CallRow
BY ConnTypes, HistoryAssumption DEF NoCall, CallRow

\* Faults are counted up to the bound.
LEMMA Counted ==
  ASSUME TypeOK, NEW bad, Count(bad)
  PROVE  faults' \in 0..MaxFaults
BY HistoryAssumption DEF Count, TypeOK

\* NewSession: the turns of the connection whose question is stored but not
\* submitted will know of the reset.
LEMMA ResetNoted ==
  ASSUME TypeOK, NEW c \in Conns, NewSession(c)
  PROVE  /\ turns' \in Seq(TurnRow) /\ Len(turns') = Len(turns)
         /\ \A i \in 1..Len(turns) : /\ turns'[i].conn = turns[i].conn
                                     /\ turns[i].reset => turns'[i].reset
         /\ \A t \in Threads :
              /\ pc[t] \in {"tool", "submit"} /\ call[t].conn = c
              /\ call[t].turn \in 1..Len(turns)
              => turns'[call[t].turn].reset
<1> DEFINE S == {i \in DOMAIN turns : \E t \in Threads :
                   pc[t] \in {"tool", "submit"} /\ call[t].turn = i /\ call[t].conn = c}
<1>1. turns' = [i \in DOMAIN turns |->
                  IF i \notin S THEN turns[i]
                  ELSE IF FALSE THEN [turns[i] EXCEPT !.lost = TRUE]
                       ELSE [turns[i] EXCEPT !.reset = TRUE]]
  BY DEF NewSession
<1>2. /\ turns' \in Seq(TurnRow) /\ Len(turns') = Len(turns)
      /\ \A i \in 1..Len(turns) : /\ turns'[i].conn = turns[i].conn
                                  /\ turns'[i].reset = (turns[i].reset \/ (i \in S /\ ~FALSE))
  <2> HIDE DEF S
  <2> QED BY <1>1, Noted
<1>3. \A t \in Threads :
        /\ pc[t] \in {"tool", "submit"} /\ call[t].conn = c
        /\ call[t].turn \in 1..Len(turns)
        => call[t].turn \in S
  BY RowTypes
<1> HIDE DEF S
<1> QED BY <1>2, <1>3

\* Crash: the turns are lost, and the connections.
LEMMA DeathNoted ==
  ASSUME TypeOK, Crash
  PROVE  TurnsKept
<1>1. turns' = [i \in DOMAIN turns |->
                  IF i \notin DOMAIN turns THEN turns[i]
                  ELSE IF TRUE THEN [turns[i] EXCEPT !.lost = TRUE]
                       ELSE [turns[i] EXCEPT !.reset = TRUE]]
  BY DEF Crash
<1>2. \A i \in 1..Len(turns) : turns[i].reset \in BOOLEAN
  BY RowTypes DEF TurnRow
<1>3. /\ turns' \in Seq(TurnRow) /\ Len(turns') = Len(turns)
      /\ \A i \in 1..Len(turns) :
           /\ turns'[i].conn = turns[i].conn
           /\ turns'[i].reset = (turns[i].reset \/ (i \in DOMAIN turns /\ ~TRUE))
  BY <1>1, Noted
<1> QED BY <1>2, <1>3 DEF TurnsKept

LEMMA Died ==
  ASSUME TypeOK, Crash
  PROVE  /\ conns' \in [Conns -> ConnRow]
         /\ \A c \in Conns : conns'[c].sid = conns[c].sid /\ conns'[c].role = conns[c].role
<1>1. ASSUME NEW c \in Conns
      PROVE  /\ [conns[c] EXCEPT !.status = "gone"] \in ConnRow
             /\ [conns[c] EXCEPT !.status = "gone"].sid = conns[c].sid
             /\ [conns[c] EXCEPT !.status = "gone"].role = conns[c].role
  BY ConnTypes DEF ConnRow, Statuses
<1>2. conns' = [c \in Conns |-> IF conns[c].status = "new" THEN conns[c]
                               ELSE [conns[c] EXCEPT !.status = "gone"]]
  BY DEF Crash
<1> QED BY <1>1, <1>2, ConnTypes

-----------------------------------------------------------------------------
(* What the steps do to what the invariants are about. *)

\* The session being made counts as adrift, or not.
Drifts(c) ==
  adrift' = IF conns[c].role = prompt /\ newRole[c] = NoRole
            THEN adrift ELSE adrift \union {Len(sessions) + 1}

\* A connection is accepted, with a session or without.
LEMMA Accepted ==
  ASSUME TypeOK, NEW c \in Conns, Accept(c)
  PROVE  /\ conns[c].status = "new"
         /\ \/ /\ ConnIs(c, "open", Len(sessions) + 1, conns[c].role)
               /\ sessions' \in Seq(SessionRow) /\ Len(sessions') = Len(sessions) + 1
               /\ \A s \in 1..Len(sessions) : sessions'[s] = sessions[s]
               /\ sessions'[Len(sessions) + 1].role = conns[c].role
               /\ Drifts(c)
            \/ /\ ConnIs(c, "open", conns[c].sid, conns[c].role)
               /\ UNCHANGED <<sessions, adrift>>
         /\ UNCHANGED <<messages, newId, newRole, tasks, running, prompt, promptBy,
                        failed, pc, call, turns, switches>>
<1> USE RowTypes, ConnTypes
<1>1. "open" \in Statuses /\ Len(sessions) + 1 \in Nat
  BY DEF Statuses
<1>2. CASE /\ OpenSession(c, conns[c].role)
           /\ conns' = [conns EXCEPT ![c].status = "open", ![c].sid = NextId]
  <2>1. conns' = [conns EXCEPT ![c].status = "open", ![c].sid = Len(sessions) + 1]
    BY <1>2 DEF NextId
  <2>2. ConnIs(c, "open", Len(sessions) + 1, conns[c].role)
    BY <1>1, <2>1, Opens
  <2>3. /\ sessions' \in Seq(SessionRow) /\ Len(sessions') = Len(sessions) + 1
        /\ \A s \in 1..Len(sessions) : sessions'[s] = sessions[s]
        /\ sessions'[Len(sessions) + 1].role = conns[c].role
    BY <1>2, Created DEF OpenSession
  <2>4. Drifts(c)
    BY <1>2 DEF OpenSession, NextId, Drifts
  <2> QED BY <2>2, <2>3, <2>4 DEF Accept
<1>3. CASE conns' = [conns EXCEPT ![c].status = "open"] /\ UNCHANGED <<sessions, adrift>>
  <2>1. ConnIs(c, "open", conns[c].sid, conns[c].role)
    BY <1>1, <1>3, StatusChanges
  <2> QED BY <1>3, <2>1 DEF Accept
<1> QED BY <1>2, <1>3 DEF Accept

LEMMA AcceptedConn ==
  ASSUME TypeOK, NEW c \in Conns, Accept(c)
  PROVE  \E sid \in Nat : ConnIs(c, "open", sid, conns[c].role)
<1>1. Len(sessions) + 1 \in Nat /\ conns[c].sid \in Nat
  BY RowTypes, ConnTypes
<1>2. \/ ConnIs(c, "open", Len(sessions) + 1, conns[c].role)
      \/ ConnIs(c, "open", conns[c].sid, conns[c].role)
  BY Accepted
<1> QED BY <1>1, <1>2

\* It is closed, or freed.
LEMMA Closed ==
  ASSUME TypeOK, NEW c \in Conns, Close(c) \/ Free(c)
  PROVE  /\ \E status \in Statuses \ {"new"} : ConnIs(c, status, conns[c].sid, conns[c].role)
         /\ UNCHANGED <<storeVars, newId, newRole, tasks, running, prompt, promptBy,
                        failed, adrift, pc, call, turns, switches>>
<1>1. PICK status \in Statuses \ {"new"} : conns' = [conns EXCEPT ![c].status = status]
  BY DEF Close, Free, Statuses
<1>2. ConnIs(c, status, conns[c].sid, conns[c].role)
  BY <1>1, StatusChanges
<1> QED BY <1>2 DEF Close, Free

\* A thread stores the reply of a tool.
LEMMA ToolReplied ==
  ASSUME TypeOK, OpenInv, NEW t \in Threads, ToolReply(t)
  PROVE  /\ Open(call[t].turn, call[t].conn) /\ call[t].turn \in 1..Len(turns)
         /\ Stored(call[t].turn, call[t].conn) /\ faults' \in 0..MaxFaults /\ TurnsKept
<1> USE RowTypes, ConnTypes
<1>1. Open(call[t].turn, call[t].conn)
  BY DEF ToolReply, Open
<1>2. call[t].turn \in 1..Len(turns) /\ call[t].turn \in 1..MaxInputs
  BY <1>1 DEF OpenInv
<1> QED BY <1>1, <1>2, Replied DEF ToolReply

\* The worker stores the reply of the model, or there is nothing to store.
LEMMA ChatFinished ==
  ASSUME TypeOK, OpenInv, FinishChat
  PROVE  /\ running.kind = "chat" /\ running.conn \in Conns
         /\ Open(running.arg, running.conn) /\ running.arg \in 1..Len(turns)
         /\ Stored(running.arg, running.conn) \/ UNCHANGED storeVars
         /\ faults' \in 0..MaxFaults /\ TurnsKept
<1> USE RowTypes
<1>1. running \in Task /\ running.kind = "chat" /\ Open(running.arg, running.conn)
  BY DEF FinishChat, Open, NoTask, TypeOK
<1>2. running.arg \in 1..MaxInputs /\ running.conn \in Conns
  BY <1>1, TaskKinds
<1>3. running.arg \in 1..Len(turns)
  BY <1>1, <1>2 DEF OpenInv
<1>4. CASE StoreReply(running.conn, running.arg)
  BY <1>1, <1>2, <1>3, <1>4, Replied
<1>5. CASE turns' = [turns EXCEPT ![running.arg].lost = TRUE] /\ UNCHANGED <<storeVars, faults>>
  <2>1. TurnsKept
    BY <1>3, <1>5, Lost
  <2> QED BY <1>1, <1>2, <1>3, <1>5, <2>1 DEF TypeOK
<1> QED BY <1>4, <1>5 DEF FinishChat

\* A question is stored, and a turn begins.
LEMMA Asked ==
  ASSUME TypeOK, Bounded, NEW t \in Threads, NEW c \in Conns, Ask(t, c)
  PROVE  /\ pc[t] = "idle" /\ conns[c].status # "new"
         /\ Len(turns) + 1 \in 1..MaxInputs
         /\ Stored(Len(turns) + 1, c) /\ faults' \in 0..MaxFaults
         /\ turns' \in Seq(TurnRow) /\ Len(turns') = Len(turns) + 1
         /\ \A i \in 1..Len(turns) : turns'[i] = turns[i]
         /\ turns'[Len(turns) + 1].conn = c
         /\ turns'[Len(turns) + 1].reset = ResetDue(c)
         /\ Len(turns') + switches <= MaxInputs
         /\ \E label \in {"tool", "submit"} : pc' = [pc EXCEPT ![t] = label]
         /\ call' = [call EXCEPT ![t] = [conn |-> c, turn |-> Len(turns) + 1]]
         /\ UNCHANGED <<conns, newId, newRole, tasks, running, prompt, promptBy, failed,
                        adrift, switches>>
<1> USE RowTypes
<1>1. Len(turns) + 1 \in 1..MaxInputs /\ switches \in Nat
  BY HistoryAssumption DEF Ask, MoreInput, TypeOK
<1>2. PICK outcome \in Outcomes, hit \in BOOLEAN :
        /\ Persist(c, "user", Len(turns) + 1, outcome)
        /\ turns' = Append(turns, [conn |-> c, thread |-> t, tool |-> hit,
                                   reset |-> ResetDue(c), lost |-> outcome = "refused"])
        /\ pc' = [pc EXCEPT ![t] = IF hit THEN "tool" ELSE "submit"]
  BY DEF Ask
<1>3. Stored(Len(turns) + 1, c) /\ faults' \in 0..MaxFaults
  BY <1>1, <1>2, Persisted
<1>4. ResetDue(c) \in BOOLEAN /\ (outcome = "refused") \in BOOLEAN
  BY DEF ResetDue
<1> DEFINE row == [conn |-> c, thread |-> t, tool |-> hit, reset |-> ResetDue(c),
                   lost |-> outcome = "refused"]
<1>5. row \in TurnRow /\ row.conn = c /\ row.reset = ResetDue(c)
  BY <1>4 DEF TurnRow
<1>6. turns' = Append(turns, row)
  BY <1>2
<1> HIDE DEF row
<1>7. /\ turns' \in Seq(TurnRow) /\ Len(turns') = Len(turns) + 1
      /\ \A i \in 1..Len(turns) : turns'[i] = turns[i]
      /\ turns'[Len(turns) + 1] = row
  BY <1>5, <1>6, AppendProperties
<1>8. \E label \in {"tool", "submit"} : pc' = [pc EXCEPT ![t] = label]
  BY <1>2
<1>9. Len(turns') + switches <= MaxInputs
  BY <1>1, <1>7, HistoryAssumption DEF Ask, MoreInput
<1>10. pc[t] = "idle" /\ conns[c].status # "new"
  BY DEF Ask, Alive
<1> QED BY <1>1, <1>3, <1>5, <1>7, <1>8, <1>9, <1>10 DEF Ask

\* The worker has made a session, or the reset is over.
LEMMA ResetFinished ==
  ASSUME TypeOK, FinishReset
  PROVE  LET c == running.conn
         IN  /\ running.kind = "reset" /\ newId[c] = NoSession /\ c \in Conns
             /\ \/ /\ sessions' \in Seq(SessionRow) /\ Len(sessions') = Len(sessions) + 1
                   /\ \A s \in 1..Len(sessions) : sessions'[s] = sessions[s]
                   /\ sessions'[Len(sessions) + 1].role \in SeenRole(c)
                   /\ newId' = [newId EXCEPT ![c] = Len(sessions) + 1]
                   /\ running' = running /\ Drifts(c)
                \/ running' = NoTask /\ UNCHANGED <<sessions, adrift, newId>>
             /\ faults' \in 0..MaxFaults
             /\ UNCHANGED <<messages, conns, newRole, tasks, prompt, promptBy, failed,
                            pc, call, turns, switches>>
<1> DEFINE c == running.conn
<1>1. c \in Conns /\ faults \in 0..MaxFaults
  BY HistoryAssumption, TaskKinds DEF TypeOK, NoTask
<1>2. CASE /\ \E role \in SeenRole(c) : OpenSession(c, role)
           /\ newId' = [newId EXCEPT ![c] = NextId]
           /\ UNCHANGED <<running, faults>>
  <2>1. PICK role \in SeenRole(c) : OpenSession(c, role)
    BY <1>2
  <2>2. role \in Roles \union {TornRole}
    BY <1>1, ConnTypes DEF SeenRole, TypeOK
  <2>3. /\ sessions' \in Seq(SessionRow) /\ Len(sessions') = Len(sessions) + 1
        /\ \A s \in 1..Len(sessions) : sessions'[s] = sessions[s]
        /\ sessions'[Len(sessions) + 1].role = role
    BY <2>1, <2>2, Created DEF OpenSession
  <2>4. Drifts(c)
    BY <2>1 DEF OpenSession, NextId, Drifts
  <2> QED BY <1>1, <1>2, <2>3, <2>4 DEF FinishReset, NextId
<1>3. CASE running' = NoTask /\ Count(Alive(c)) /\ UNCHANGED <<sessions, adrift, newId>>
  BY <1>1, <1>3, Counted DEF FinishReset
<1> QED BY <1>2, <1>3 DEF FinishReset

\* The id has been written.
LEMMA Switched ==
  ASSUME TypeOK, EndSwitch
  PROVE  LET c == running.conn
         IN  /\ running.kind = "reset" /\ newId[c] # NoSession /\ c \in Conns
             /\ ConnIs(c, conns[c].status, newId[c], conns[c].role)
             /\ newId' = [newId EXCEPT ![c] = NoSession] /\ running' = NoTask
             /\ UNCHANGED <<storeVars, newRole, tasks, prompt, promptBy, failed,
                            adrift, pc, call, turns, switches, faults>>
<1>1. running.conn \in Conns /\ newId[running.conn] \in Nat
  BY HistoryAssumption, TaskKinds DEF TypeOK, NoTask
<1> QED BY <1>1, IdChanges DEF EndSwitch

\* The model has a new prompt and the session its role, or not.
LEMMA RestartFinished ==
  ASSUME TypeOK, FinishRestart
  PROVE  LET c == running.conn
             s == conns[c].sid
         IN  /\ running.kind = "restart" /\ running' = NoTask
             /\ c \in Conns /\ running.arg \in Roles
             /\ sessions' \in Seq(SessionRow) /\ Len(sessions') = Len(sessions)
             /\ \/ /\ prompt' = running.arg /\ promptBy' = {c}
                   /\ s \in 1..Len(sessions) \ adrift' => sessions'[s].role = running.arg
                \/ prompt' \in {running.arg, NoRole} /\ promptBy' = {}
                \/ /\ failed' = failed \union {c}
                   /\ UNCHANGED <<sessions, prompt, promptBy, adrift>>
             /\ failed' \subseteq Conns /\ adrift' \subseteq Nat
             /\ faults' \in 0..MaxFaults
             /\ UNCHANGED <<messages, conns, newId, newRole, tasks, pc, call, turns, switches>>
<1> USE RowTypes, ConnTypes DEF FinishRestart
<1> DEFINE c == running.conn
           s == conns[c].sid
<1>1. /\ running \in Task /\ c \in Conns /\ running.arg \in Roles /\ s \in Nat
      /\ failed \subseteq Conns /\ adrift \subseteq Nat
  BY TaskKinds DEF TypeOK, NoTask
<1>2. faults' \in 0..MaxFaults
  BY Counted DEF RestartDone, RestartFailed
<1>3. CASE RestartDone(c)
  <2>0. prompt' = running.arg /\ failed' = failed \ {c}
    BY <1>3 DEF RestartDone
  <2>1. CASE promptBy' = {c} /\ adrift' = adrift \ {s} /\ SetSessionRole(s, running.arg)
    <3> DEFINE row == [sessions[s] EXCEPT !.role = running.arg]
    <3>1. CASE s \notin 1..Len(sessions)
      BY <1>1, <1>2, <2>0, <2>1, <3>1 DEF SetSessionRole
    <3>2. CASE s \in 1..Len(sessions)
      <4>1. row \in SessionRow /\ row.role = running.arg
        BY <1>1, <3>2 DEF SessionRow
      <4>2. sessions' = [sessions EXCEPT ![s] = row]
        BY <2>1, <3>2 DEF SetSessionRole
      <4> HIDE DEF row
      <4>3. /\ sessions' \in Seq(SessionRow) /\ Len(sessions') = Len(sessions)
            /\ sessions'[s] = row
        BY <3>2, <4>1, <4>2, ExceptSeq
      <4> QED BY <1>1, <1>2, <2>0, <2>1, <4>1, <4>3
    <3> QED BY <3>1, <3>2
  <2>2. CASE promptBy' = {c} /\ adrift' = adrift \union {s} /\ UNCHANGED sessions
    BY <1>1, <1>2, <2>0, <2>2
  <2>3. CASE promptBy' = {} /\ UNCHANGED <<sessions, adrift>>
    BY <1>1, <1>2, <2>0, <2>3
  <2> QED BY <1>3, <2>1, <2>2, <2>3 DEF RestartDone
<1>4. CASE RestartFailed(c)
  BY <1>1, <1>2, <1>4 DEF RestartFailed
<1> QED BY <1>3, <1>4

-----------------------------------------------------------------------------
(* Types. *)

LEMMA TypeStep ==
  ASSUME TypeOK, Bounded, IdsInv, OpenInv, [Next]_vars
  PROVE  TypeOK' /\ Bounded'
<1> USE RowTypes, ConnTypes, HistoryAssumption DEF storeVars, Bounded
<1>0. (/\ sessions' \in Seq(SessionRow) /\ messages' \in Seq(MessageRow)
       /\ turns' \in Seq(TurnRow) /\ conns' \in [Conns -> ConnRow]
       /\ pc' \in [Threads -> Labels] /\ call' \in [Threads -> CallRow]
       /\ newId' \in [Conns -> Nat] /\ newRole' \in [Conns -> Roles \union {NoRole}]
       /\ tasks' \in Seq(Task) /\ running' \in Task \union {NoTask}
       /\ prompt' \in Roles \union {NoRole} /\ promptBy' \subseteq Conns
       /\ failed' \subseteq Conns /\ adrift' \subseteq Nat
       /\ switches' \in 0..MaxInputs /\ faults' \in 0..MaxFaults) => TypeOK'
  BY DEF TypeOK, SessionRow, MessageRow, TurnRow, ConnRow, CallRow, Labels, Statuses
<1>1. /\ \A c \in Conns : newId[c] \in Nat /\ newRole[c] \in Roles \union {NoRole}
      /\ running.conn \in Conns
      /\ newId \in [Conns -> Nat] /\ newRole \in [Conns -> Roles \union {NoRole}]
      /\ running \in Task \union {NoTask}
      /\ prompt \in Roles \union {NoRole} /\ promptBy \subseteq Conns
      /\ failed \subseteq Conns /\ adrift \subseteq Nat
      /\ switches \in 0..MaxInputs /\ faults \in 0..MaxFaults
  BY DEF TypeOK, NoTask, Task
<1>2. \A c \in Conns : Drifts(c) => adrift' \subseteq Nat
  <2>1. Len(sessions) + 1 \in Nat
    OBVIOUS
  <2> QED BY <1>1, <2>1 DEF Drifts
<1>3. ASSUME NEW c \in Conns, Accept(c)
      PROVE  TypeOK' /\ Bounded'
  <2>1. faults' \in 0..MaxFaults
    BY <1>3, Counted DEF Accept
  <2>2. adrift' \subseteq Nat
    <3>1. Drifts(c) \/ UNCHANGED adrift
      BY <1>3, Accepted
    <3> QED BY <1>1, <1>2, <3>1
  <2> QED BY <1>0, <1>1, <1>3, <2>1, <2>2, Accepted DEF ConnIs
<1>4. ASSUME NEW c \in Conns, Close(c) \/ Free(c)
      PROVE  TypeOK' /\ Bounded'
  <2>1. UNCHANGED faults
    BY <1>4 DEF Close, Free
  <2> QED BY <1>0, <1>1, <1>4, <2>1, Closed DEF ConnIs
<1>5. ASSUME NEW c \in Conns, NewSession(c)
      PROVE  TypeOK' /\ Bounded'
  <2>1. [kind |-> "reset", conn |-> c, arg |-> 0] \in Task
    BY DEF Task
  <2>2. tasks' \in Seq(Task)
    BY <1>5, <2>1, Submitted DEF NewSession
  <2>3. turns' \in Seq(TurnRow) /\ Len(turns') = Len(turns)
    BY <1>5, ResetNoted
  <2>4. Len(turns') + switches' <= MaxInputs /\ switches' \in 0..MaxInputs
    BY <1>1, <1>5, <2>3 DEF NewSession, MoreInput
  <2> QED BY <1>0, <1>1, <1>5, <2>2, <2>3, <2>4 DEF NewSession
<1>6. ASSUME NEW c \in Conns, NEW r \in Roles, SetRole(c, r)
      PROVE  TypeOK' /\ Bounded'
  <2>1. newRole' \in [Conns -> Roles \union {NoRole}]
    BY <1>1, <1>6 DEF SetRole
  <2>2. [conn |-> c, turn |-> 0] \in CallRow /\ "io" \in Threads /\ "role" \in Labels
    BY DEF CallRow, Threads, Labels
  <2>3. pc' \in [Threads -> Labels] /\ call' \in [Threads -> CallRow]
    BY <1>6, <2>2, ThreadGoesOn DEF SetRole
  <2>4. Len(turns') + switches' <= MaxInputs /\ switches' \in 0..MaxInputs
    BY <1>1, <1>6 DEF SetRole, MoreInput
  <2> QED BY <1>0, <1>1, <1>6, <2>1, <2>3, <2>4 DEF SetRole
<1>7. CASE SubmitRestart
  <2> DEFINE c == call["io"].conn
  <2>1. c \in Conns /\ newRole[c] \in Roles
    BY <1>1, <1>7 DEF SubmitRestart, IdsInv, Threads
  <2>2. [kind |-> "restart", conn |-> c, arg |-> newRole[c]] \in Task
    BY <2>1 DEF Task
  <2>3. tasks' \in Seq(Task)
    BY <1>7, <2>2, Submitted DEF SubmitRestart
  <2>4. conns' \in [Conns -> ConnRow]
    <3>1. conns' = [conns EXCEPT ![c].role = newRole[c]]
      BY <1>7 DEF SubmitRestart
    <3> QED BY <2>1, <3>1, RoleChanges DEF ConnIs
  <2>5. newRole' \in [Conns -> Roles \union {NoRole}]
    BY <1>1, <1>7 DEF SubmitRestart
  <2>6. pc' \in [Threads -> Labels] /\ call' \in [Threads -> CallRow]
    BY <1>7, ThreadGoesOn DEF SubmitRestart, Threads, Labels
  <2> QED BY <1>0, <1>1, <1>7, <2>3, <2>4, <2>5, <2>6 DEF SubmitRestart
<1>8. ASSUME NEW t \in Threads, ToolReply(t)
      PROVE  TypeOK' /\ Bounded'
  <2>3. Stored(call[t].turn, call[t].conn) /\ faults' \in 0..MaxFaults /\ TurnsKept
    BY <1>8, ToolReplied
  <2>4. pc' \in [Threads -> Labels] /\ call' \in [Threads -> CallRow]
    BY <1>8, ThreadGoesOn DEF ToolReply, Labels
  <2> QED BY <1>0, <1>1, <1>8, <2>3, <2>4 DEF ToolReply, Stored, TurnsKept
<1>9. ASSUME NEW t \in Threads, SubmitChat(t)
      PROVE  TypeOK' /\ Bounded'
  <2>1. Open(call[t].turn, call[t].conn) /\ call[t].turn \in 0..MaxInputs
    BY <1>9 DEF SubmitChat, Open
  <2>2. call[t].turn \in 1..MaxInputs
    BY <1>1, <2>1 DEF OpenInv
  <2>3. [kind |-> "chat", conn |-> call[t].conn, arg |-> call[t].turn] \in Task
    BY <1>1, <2>2 DEF Task
  <2>4. tasks' \in Seq(Task)
    BY <1>9, <2>3, Submitted DEF SubmitChat
  <2>5. pc' \in [Threads -> Labels] /\ call' \in [Threads -> CallRow]
    BY <1>9, ThreadGoesOn DEF SubmitChat, Labels
  <2> QED BY <1>0, <1>1, <1>9, <2>4, <2>5 DEF SubmitChat
<1>10. ASSUME NEW t \in Threads, NEW c \in Conns, Ask(t, c)
       PROVE  TypeOK' /\ Bounded'
  <2>1. [conn |-> c, turn |-> Len(turns) + 1] \in CallRow
        /\ {"tool", "submit"} \subseteq Labels
    BY <1>10, Asked DEF CallRow, Labels
  <2>2. PICK label \in {"tool", "submit"} : pc' = [pc EXCEPT ![t] = label]
    BY <1>10, Asked
  <2>3. call' = [call EXCEPT ![t] = [conn |-> c, turn |-> Len(turns) + 1]]
    BY <1>10, Asked
  <2>4. pc' \in [Threads -> Labels] /\ call' \in [Threads -> CallRow]
    BY <2>1, <2>2, <2>3, ThreadGoesOn
  <2> QED BY <1>0, <1>1, <1>10, <2>4, Asked DEF Stored
<1>11. CASE Pop
  BY <1>0, <1>1, <1>11, Popped DEF Pop
<1>12. CASE FinishChat
  BY <1>0, <1>1, <1>12, ChatFinished DEF FinishChat, Stored, TurnsKept
<1>13. CASE FinishReset
  <2>1. newId' \in [Conns -> Nat] /\ running' \in Task \union {NoTask}
        /\ sessions' \in Seq(SessionRow)
    <3>1. CASE /\ newId' = [newId EXCEPT ![running.conn] = Len(sessions) + 1]
               /\ running' = running /\ sessions' \in Seq(SessionRow)
      BY <1>1, <3>1
    <3>2. CASE running' = NoTask /\ UNCHANGED <<sessions, newId>>
      BY <1>1, <3>2
    <3> QED BY <1>13, <3>1, <3>2, ResetFinished
  <2>2. adrift' \subseteq Nat
    <3>1. Drifts(running.conn) \/ UNCHANGED adrift
      BY <1>13, ResetFinished
    <3> QED BY <1>1, <1>2, <3>1
  <2> QED BY <1>0, <1>1, <1>13, <2>1, <2>2, ResetFinished
<1>14. CASE EndSwitch
  <2>1. conns' \in [Conns -> ConnRow]
    BY <1>14, Switched DEF ConnIs
  <2>2. newId' \in [Conns -> Nat]
    <3>1. newId' = [newId EXCEPT ![running.conn] = NoSession]
      BY <1>14 DEF EndSwitch
    <3> QED BY <1>1, <3>1 DEF NoSession
  <2> QED BY <1>0, <1>1, <1>14, <2>1, <2>2, Switched
<1>15. CASE FinishRestart
  BY <1>0, <1>1, <1>15, RestartFinished
<1>16. CASE Crash
  <2>1. turns' \in Seq(TurnRow) /\ Len(turns') = Len(turns)
    BY <1>16, DeathNoted DEF TurnsKept
  <2>2. conns' \in [Conns -> ConnRow]
    BY <1>16, Died
  <2>3. /\ newId' \in [Conns -> Nat] /\ newRole' \in [Conns -> Roles \union {NoRole}]
        /\ tasks' \in Seq(Task) /\ running' \in Task \union {NoTask}
        /\ prompt' \in Roles \union {NoRole} /\ promptBy' \subseteq Conns
        /\ failed' \subseteq Conns /\ adrift' \subseteq Nat
    BY <1>16, EmptySeq DEF Crash, Boot, NoSession
  <2>4. pc' \in [Threads -> Labels] /\ call' \in [Threads -> CallRow]
    BY <1>16 DEF Crash, Boot, NoCall, Labels, CallRow
  <2>5. faults' \in 0..MaxFaults
    BY <1>16, Counted DEF Crash
  <2> QED BY <1>0, <1>1, <1>16, <2>1, <2>2, <2>3, <2>4, <2>5 DEF Crash
<1>17. CASE UNCHANGED vars
  BY <1>17 DEF vars, procVars, TypeOK
<1> QED BY <1>3, <1>4, <1>5, <1>6, <1>7, <1>8, <1>9, <1>10, <1>11, <1>12, <1>13, <1>14, <1>15,
           <1>16, <1>17 DEF Next, Worker
-----------------------------------------------------------------------------
(* Ids and roles being written. *)

LEMMA IdsStep ==
  ASSUME TypeOK, Bounded, IdsInv, OpenInv, [Next]_vars
  PROVE  IdsInv'
<1> USE RowTypes, ConnTypes, HistoryAssumption DEF storeVars, IdsInv
<1>1. /\ \A c \in Conns : newId[c] \in Nat /\ newRole[c] \in Roles \union {NoRole}
      /\ running.conn \in Conns
      /\ newId \in [Conns -> Nat] /\ newRole \in [Conns -> Roles \union {NoRole}]
  <2>1. newId \in [Conns -> Nat] /\ newRole \in [Conns -> Roles \union {NoRole}]
        /\ running \in Task \union {NoTask}
    BY DEF TypeOK
  <2>2. running.conn \in Conns
    BY <2>1, TaskKinds DEF NoTask
  <2> QED BY <2>1, <2>2
<1>2. ASSUME /\ \A c \in Conns : conns'[c].sid = conns[c].sid
             /\ Len(sessions') \in Nat /\ Len(sessions) <= Len(sessions')
             /\ UNCHANGED <<newId, newRole>>
             /\ \A c \in Conns : newId[c] # NoSession => running' = running
             /\ pc'["io"] = "role" <=> pc["io"] = "role"
             /\ pc["io"] = "role" => call'["io"] = call["io"]
      PROVE  IdsInv'
  <2>1. \A c \in Conns : conns'[c].sid <= Len(sessions') /\ newId'[c] <= Len(sessions')
    BY <1>1, <1>2
  <2>2. \A c \in Conns : newId'[c] # NoSession => running'.kind = "reset" /\ running'.conn = c
    BY <1>2
  <2>3. /\ \A c \in Conns : newRole'[c] # NoRole => pc'["io"] = "role" /\ call'["io"].conn = c
        /\ pc'["io"] = "role" => newRole'[call'["io"].conn] # NoRole
    BY <1>2
  <2> QED BY <2>1, <2>2, <2>3
<1>3. ASSUME NEW c \in Conns, Accept(c)
      PROVE  IdsInv'
  <2>1. UNCHANGED <<newId, newRole, running, pc, call>>
    BY <1>3, Accepted
  <2>2. /\ Len(sessions') \in Nat /\ Len(sessions) <= Len(sessions')
        /\ \A d \in Conns : conns'[d].sid <= Len(sessions')
    <3>1. CASE /\ ConnIs(c, "open", Len(sessions) + 1, conns[c].role)
               /\ Len(sessions') = Len(sessions) + 1
      BY <3>1 DEF ConnIs
    <3>2. CASE ConnIs(c, "open", conns[c].sid, conns[c].role) /\ sessions' = sessions
      BY <3>2 DEF ConnIs
    <3> QED BY <1>3, <3>1, <3>2, Accepted
  <2>3. \A d \in Conns : conns'[d].sid <= Len(sessions') /\ newId'[d] <= Len(sessions')
    BY <1>1, <2>1, <2>2
  <2> QED BY <2>1, <2>3
<1>4. ASSUME NEW c \in Conns, Close(c) \/ Free(c)
      PROVE  IdsInv'
  <2>1. \A d \in Conns : conns'[d].sid = conns[d].sid
    BY <1>4, Closed DEF ConnIs
  <2> QED BY <1>2, <1>4, <2>1, Closed
<1>5. ASSUME NEW c \in Conns, NewSession(c)
      PROVE  IdsInv'
  BY <1>2, <1>5 DEF NewSession
<1>6. ASSUME NEW c \in Conns, NEW r \in Roles, SetRole(c, r)
      PROVE  IdsInv'
  <2>1. /\ newRole' = [newRole EXCEPT ![c] = r] /\ pc["io"] = "idle"
        /\ pc'["io"] = "role" /\ call'["io"].conn = c
        /\ UNCHANGED <<sessions, conns, newId, running>>
    BY <1>6 DEF SetRole, Threads, CallRow
  <2> QED BY <1>1, <2>1
<1>7. CASE SubmitRestart
  <2> DEFINE c == call["io"].conn
  <2>1. /\ newRole' = [newRole EXCEPT ![c] = NoRole] /\ pc["io"] = "role" /\ pc'["io"] = "idle"
        /\ c \in Conns /\ newRole[c] \in Roles
        /\ conns' = [conns EXCEPT ![c].role = newRole[c]]
        /\ UNCHANGED <<sessions, newId, running>>
    BY <1>1, <1>7 DEF SubmitRestart, Threads
  <2>2. ConnIs(c, conns[c].status, conns[c].sid, newRole[c])
    BY <2>1, RoleChanges
  <2>3. \A d \in Conns : conns'[d].sid = conns[d].sid
    BY <2>1, <2>2 DEF ConnIs
  <2>4. \A d \in Conns : newRole[d] # NoRole => d = c
    BY <2>1
  <2> QED BY <1>1, <2>1, <2>3, <2>4
<1>8. ASSUME NEW t \in Threads, ToolReply(t) \/ SubmitChat(t)
      PROVE  IdsInv'
  <2>1. Len(sessions') = Len(sessions)
    BY <1>8, ToolReplied DEF Stored, SubmitChat
  <2>2. /\ pc[t] # "role" /\ pc' = [pc EXCEPT ![t] = "idle"]
        /\ call' = [call EXCEPT ![t] = NoCall]
        /\ UNCHANGED <<conns, newId, newRole, running>>
    BY <1>8 DEF ToolReply, SubmitChat
  <2>3. /\ pc'["io"] = "role" <=> pc["io"] = "role"
        /\ pc["io"] = "role" => call'["io"] = call["io"]
    BY <2>2 DEF Threads
  <2> QED BY <1>2, <2>1, <2>2, <2>3
<1>9. ASSUME NEW t \in Threads, NEW c \in Conns, Ask(t, c)
      PROVE  IdsInv'
  <2>1. PICK label \in {"tool", "submit"} : pc' = [pc EXCEPT ![t] = label]
    BY <1>9, Asked
  <2>2. /\ pc[t] = "idle" /\ Len(sessions') = Len(sessions)
        /\ call' = [call EXCEPT ![t] = [conn |-> c, turn |-> Len(turns) + 1]]
        /\ UNCHANGED <<conns, newId, newRole, running>>
    BY <1>9, Asked DEF Stored
  <2>3. /\ pc'["io"] = "role" <=> pc["io"] = "role"
        /\ pc["io"] = "role" => call'["io"] = call["io"]
    BY <2>1, <2>2 DEF Threads
  <2> QED BY <1>2, <2>2, <2>3
<1>10. CASE Pop
  <2>1. running.kind = "none" /\ UNCHANGED <<sessions, conns, newId, newRole, pc, call>>
    BY <1>10 DEF Pop
  <2> QED BY <1>2, <2>1
<1>11. CASE FinishChat
  <2>1. Len(sessions') = Len(sessions) /\ running.kind = "chat"
    BY <1>11, ChatFinished DEF Stored
  <2> QED BY <1>2, <1>11, <2>1 DEF FinishChat
<1>12. CASE FinishReset
  <2> DEFINE c == running.conn
  <2>1. /\ running.kind = "reset" /\ newId[c] = NoSession /\ c \in Conns
        /\ UNCHANGED <<conns, newRole, pc, call>>
    BY <1>12, ResetFinished
  <2>2. CASE /\ Len(sessions') = Len(sessions) + 1 /\ running' = running
             /\ newId' = [newId EXCEPT ![c] = Len(sessions) + 1]
    <3>1. \A d \in Conns : newId'[d] = IF d = c THEN Len(sessions) + 1 ELSE newId[d]
      BY <1>1, <2>2
    <3>2. \A d \in Conns : conns[d].sid <= Len(sessions') /\ newId'[d] <= Len(sessions')
      BY <1>1, <2>2, <3>1
    <3> QED BY <1>1, <2>1, <2>2, <3>1, <3>2
  <2>3. CASE running' = NoTask /\ UNCHANGED <<sessions, newId>>
    <3>1. \A d \in Conns : newId[d] = NoSession
      BY <2>1
    <3> QED BY <1>2, <2>1, <2>3, <3>1
  <2> QED BY <1>12, <2>2, <2>3, ResetFinished
<1>13. CASE EndSwitch
  <2> DEFINE c == running.conn
  <2>1. /\ c \in Conns /\ ConnIs(c, conns[c].status, newId[c], conns[c].role)
        /\ newId' = [newId EXCEPT ![c] = NoSession]
        /\ UNCHANGED <<sessions, newRole, pc, call>>
    BY <1>13, Switched
  <2>2. \A d \in Conns : newId'[d] = NoSession
    BY <1>1, <2>1
  <2>3. \A d \in Conns : conns'[d].sid \in {conns[d].sid, newId[d]}
    BY <2>1 DEF ConnIs
  <2>4. \A d \in Conns : conns'[d].sid <= Len(sessions')
    BY <2>1, <2>3
  <2>5. \A d \in Conns : newId'[d] <= Len(sessions')
    BY <2>1, <2>2 DEF NoSession
  <2>6. UNCHANGED <<newRole, pc, call>>
    BY <2>1
  <2> QED BY <2>2, <2>4, <2>5, <2>6
<1>14. CASE FinishRestart
  <2>1. Len(sessions') = Len(sessions) /\ running.kind = "restart"
        /\ UNCHANGED <<conns, newId, newRole, pc, call>>
    BY <1>14, RestartFinished
  <2> QED BY <1>2, <2>1
<1>15. CASE Crash
  <2>1. /\ \A c \in Conns : newId'[c] = NoSession /\ newRole'[c] = NoRole
        /\ pc'["io"] = "idle" /\ UNCHANGED sessions
    BY <1>15 DEF Crash, Boot, Threads
  <2> QED BY <1>15, <2>1, Died DEF NoSession
<1>16. CASE UNCHANGED vars
  BY <1>16 DEF vars, procVars
<1> QED BY <1>3, <1>4, <1>5, <1>6, <1>7, <1>8, <1>9, <1>10, <1>11, <1>12, <1>13, <1>14, <1>15,
           <1>16 DEF Next, Worker

-----------------------------------------------------------------------------
(* Turns that may still store something. *)

\* Turns stay, a reset is not forgotten, nor that a connection was accepted.
Grow ==
  /\ turns' \in Seq(TurnRow) /\ Len(turns) <= Len(turns')
  /\ \A i \in 1..Len(turns) : /\ turns'[i].conn = turns[i].conn
                              /\ turns[i].reset => turns'[i].reset
  /\ \A c \in Conns : conns[c].status # "new" => conns'[c].status # "new"

\* A thread that is at a turn was there before.
Quiet == \A t \in Threads : pc'[t] \in {"tool", "submit"} => pc'[t] = pc[t] /\ call'[t] = call[t]

OpenSame == \A n \in Nat, c \in Conns : Open(n, c)' => Open(n, c)

LEMMA OpenTurns ==
  ASSUME TypeOK, OpenInv
  PROVE  /\ \A t \in Threads : pc[t] \in {"tool", "submit"}
              => call[t].turn \in 1..Len(turns) /\ turns[call[t].turn].conn = call[t].conn
         /\ \A i \in 1..Len(tasks) :
              /\ tasks[i].conn \in Conns
              /\ tasks[i].kind = "chat"
                   => tasks[i].arg \in 1..Len(turns) /\ turns[tasks[i].arg].conn = tasks[i].conn
         /\ running.kind = "chat" => running.arg \in 1..Len(turns)
<1> USE RowTypes, ConnTypes
<1>1. ASSUME NEW t \in Threads, pc[t] \in {"tool", "submit"}
      PROVE  call[t].turn \in 1..Len(turns) /\ turns[call[t].turn].conn = call[t].conn
  <2>1. call[t].turn \in Nat /\ Open(call[t].turn, call[t].conn)
    BY <1>1 DEF Open
  <2> QED BY <2>1 DEF OpenInv
<1>2. ASSUME NEW i \in 1..Len(tasks)
      PROVE  /\ tasks[i].conn \in Conns
             /\ tasks[i].kind = "chat"
                  => tasks[i].arg \in 1..Len(turns) /\ turns[tasks[i].arg].conn = tasks[i].conn
  <2>1. tasks[i] \in Task /\ tasks[i].conn \in Conns
    BY TaskKinds
  <2>2. ASSUME tasks[i].kind = "chat"
        PROVE  tasks[i].arg \in 1..Len(turns) /\ turns[tasks[i].arg].conn = tasks[i].conn
    <3>1. tasks[i].arg \in Nat
      BY <2>1, <2>2, TaskKinds
    <3>2. Open(tasks[i].arg, tasks[i].conn)
      BY <2>2 DEF Open
    <3> QED BY <2>1, <3>1, <3>2 DEF OpenInv
  <2> QED BY <2>1, <2>2
<1>3. ASSUME running.kind = "chat"
      PROVE  running.arg \in 1..Len(turns)
  <2>1. running \in Task
    BY <1>3 DEF TypeOK, NoTask
  <2>2. running.arg \in Nat /\ running.conn \in Conns /\ Open(running.arg, running.conn)
    BY <1>3, <2>1, TaskKinds DEF Open
  <2> QED BY <2>2 DEF OpenInv
<1> QED BY <1>1, <1>2, <1>3

\* The first part of OpenInv.
LEMMA OpenKept ==
  ASSUME TypeOK, OpenInv, Grow, OpenSame
  PROVE  \A n \in Nat, c \in Conns :
           Open(n, c)' => /\ n \in 1..Len(turns') /\ turns'[n].conn = c
                          /\ conns'[c].status # "new"
<1> SUFFICES ASSUME NEW n \in Nat, NEW c \in Conns, Open(n, c)'
             PROVE  n \in 1..Len(turns') /\ turns'[n].conn = c /\ conns'[c].status # "new"
  OBVIOUS
<1>1. Open(n, c)
  BY DEF OpenSame
<1>2. n \in 1..Len(turns) /\ turns[n].conn = c /\ conns[c].status # "new"
  BY <1>1 DEF OpenInv
<1>3. Len(turns') \in Nat
  BY LenProperties DEF Grow
<1> QED BY <1>2, <1>3, RowTypes DEF Grow

\* Nothing is submitted, and the worker goes on or has finished.
LEMMA ServedOn ==
  ASSUME TypeOK, OpenInv, Grow, Quiet, tasks' = tasks, running' \in {running, NoTask}
  PROVE  OpenInv' /\ OpenSame
<1> USE RowTypes
<1>1. OpenSame
  <2> SUFFICES ASSUME NEW n \in Nat, NEW c \in Conns, Open(n, c)'
               PROVE  Open(n, c)
    BY DEF OpenSame
  <2>1. CASE \E t \in Threads : /\ pc'[t] \in {"tool", "submit"}
                                /\ call'[t].turn = n /\ call'[t].conn = c
    BY <2>1 DEF Open, Quiet
  <2>2. CASE \E i \in 1..Len(tasks) : /\ tasks[i].kind = "chat"
                                      /\ tasks[i].arg = n /\ tasks[i].conn = c
    BY <2>2 DEF Open
  <2>3. CASE running'.kind = "chat" /\ running'.arg = n /\ running'.conn = c
    BY <2>3 DEF Open, NoTask
  <2> QED BY <2>1, <2>2, <2>3 DEF Open
<1>2. \A c \in Conns : running'.kind = "reset" /\ running'.conn = c => ResetRuns(c)
  BY DEF ResetRuns, NoTask
<1>4. ASSUME NEW t \in Threads, pc'[t] \in {"tool", "submit"}, ~turns'[call'[t].turn].reset
      PROVE  /\ \A i \in 1..Len(tasks) : ~ResetAt(i, call[t].conn)
             /\ ~(running'.kind = "reset" /\ running'.conn = call[t].conn)
             /\ call'[t] = call[t]
  <2>1. pc[t] \in {"tool", "submit"} /\ call'[t] = call[t]
    BY <1>4 DEF Quiet
  <2>2. call[t].turn \in 1..Len(turns) /\ call[t].conn \in Conns
    BY <2>1, OpenTurns, ConnTypes
  <2>3. ~turns[call[t].turn].reset
    BY <1>4, <2>1, <2>2 DEF Grow
  <2> QED BY <1>2, <2>1, <2>2, <2>3 DEF OpenInv
<1>5. ASSUME NEW i \in 1..Len(tasks), tasks[i].kind = "chat", ~turns'[tasks[i].arg].reset
      PROVE  /\ \A j \in 1..i - 1 : ~ResetAt(j, tasks[i].conn)
             /\ ~(running'.kind = "reset" /\ running'.conn = tasks[i].conn)
  <2>1. tasks[i].arg \in 1..Len(turns) /\ tasks[i].conn \in Conns
    BY <1>5, OpenTurns
  <2>2. ~turns[tasks[i].arg].reset
    BY <1>5, <2>1 DEF Grow
  <2>3. (\A j \in 1..i - 1 : ~ResetAt(j, tasks[i].conn)) /\ ~ResetRuns(tasks[i].conn)
    BY <1>5, <2>2 DEF OpenInv
  <2> QED BY <1>2, <2>1, <2>3
<1>6. \A t \in Threads :
       pc'[t] \in {"tool", "submit"} /\ ~turns'[call'[t].turn].reset
         => /\ \A i \in 1..Len(tasks') :
                 ~(tasks'[i].kind = "reset" /\ tasks'[i].conn = call'[t].conn)
            /\ ~(running'.kind = "reset" /\ running'.conn = call'[t].conn)
  BY <1>4 DEF ResetAt
<1>7. \A i \in 1..Len(tasks') :
       tasks'[i].kind = "chat" /\ ~turns'[tasks'[i].arg].reset
         => /\ \A j \in 1..i - 1 :
                 ~(tasks'[j].kind = "reset" /\ tasks'[j].conn = tasks'[i].conn)
            /\ ~(running'.kind = "reset" /\ running'.conn = tasks'[i].conn)
  BY <1>5 DEF ResetAt
<1>8. \A n \in Nat, c \in Conns :
           Open(n, c)' => /\ n \in 1..Len(turns') /\ turns'[n].conn = c
                          /\ conns'[c].status # "new"
  BY <1>1, OpenKept
<1> QED BY <1>1, <1>6, <1>7, <1>8 DEF OpenInv, ResetAt, ResetRuns

\* A task is submitted.
LEMMA SubmittedOn ==
  ASSUME TypeOK, OpenInv, Grow, Quiet, NEW task \in Task, Submit(task), running' = running,
         task.kind = "chat" =>
           /\ Open(task.arg, task.conn)
           /\ ~turns[task.arg].reset => /\ \A i \in 1..Len(tasks) : ~ResetAt(i, task.conn)
                                        /\ ~ResetRuns(task.conn),
         task.kind = "reset" =>
           \A t \in Threads : pc'[t] \in {"tool", "submit"} /\ call[t].conn = task.conn
                                => turns'[call[t].turn].reset
  PROVE  OpenInv' /\ OpenSame
<1> USE RowTypes
<1>0. /\ Len(tasks') = Len(tasks) + 1 /\ tasks'[Len(tasks) + 1] = task
      /\ \A i \in 1..Len(tasks) : tasks'[i] = tasks[i]
      /\ \A i \in 1..Len(tasks') : i \in 1..Len(tasks) \/ i = Len(tasks) + 1
  BY Submitted
<1>1. OpenSame
  <2> SUFFICES ASSUME NEW n \in Nat, NEW c \in Conns, Open(n, c)'
               PROVE  Open(n, c)
    BY DEF OpenSame
  <2>1. CASE \E i \in 1..Len(tasks') : /\ tasks'[i].kind = "chat"
                                       /\ tasks'[i].arg = n /\ tasks'[i].conn = c
    BY <1>0, <2>1 DEF Open
  <2>2. CASE \E t \in Threads : /\ pc'[t] \in {"tool", "submit"}
                                /\ call'[t].turn = n /\ call'[t].conn = c
    BY <2>2 DEF Open, Quiet
  <2>3. CASE running'.kind = "chat" /\ running'.arg = n /\ running'.conn = c
    BY <2>3 DEF Open
  <2> QED BY <2>1, <2>2, <2>3 DEF Open
<1>2. task.conn \in Conns /\ (task.kind = "chat" => task.arg \in Nat)
  BY TaskKinds
<1>4. ASSUME NEW t \in Threads, pc'[t] \in {"tool", "submit"}, ~turns'[call'[t].turn].reset
      PROVE  /\ \A i \in 1..Len(tasks) : ~ResetAt(i, call[t].conn)
             /\ ~(task.kind = "reset" /\ task.conn = call[t].conn)
             /\ ~ResetRuns(call[t].conn)
             /\ call'[t] = call[t]
  <2>1. pc[t] \in {"tool", "submit"} /\ call'[t] = call[t]
    BY <1>4 DEF Quiet
  <2>2. call[t].turn \in 1..Len(turns) /\ call[t].conn \in Conns
    BY <2>1, OpenTurns, ConnTypes
  <2>3. ~turns[call[t].turn].reset
    BY <1>4, <2>1, <2>2 DEF Grow
  <2>4. ~(task.kind = "reset" /\ task.conn = call[t].conn)
    BY <1>4, <2>1
  <2> QED BY <2>1, <2>2, <2>3, <2>4 DEF OpenInv
<1>5. ASSUME NEW i \in 1..Len(tasks), tasks[i].kind = "chat", ~turns'[tasks[i].arg].reset
      PROVE  /\ \A j \in 1..i - 1 : ~ResetAt(j, tasks[i].conn)
             /\ ~ResetRuns(tasks[i].conn)
  <2>1. tasks[i].arg \in 1..Len(turns) /\ tasks[i].conn \in Conns
    BY <1>5, OpenTurns
  <2>2. ~turns[tasks[i].arg].reset
    BY <1>5, <2>1 DEF Grow
  <2> QED BY <1>5, <2>2 DEF OpenInv
<1>9. ASSUME task.kind = "chat", ~turns'[task.arg].reset
      PROVE  /\ \A j \in 1..Len(tasks) : ~ResetAt(j, task.conn)
             /\ ~ResetRuns(task.conn)
  <2>1. task.arg \in 1..Len(turns)
    BY <1>2, <1>9 DEF OpenInv
  <2> QED BY <1>9, <2>1 DEF Grow
<1>6. \A t \in Threads :
       pc'[t] \in {"tool", "submit"} /\ ~turns'[call'[t].turn].reset
         => /\ \A i \in 1..Len(tasks') :
                 ~(tasks'[i].kind = "reset" /\ tasks'[i].conn = call'[t].conn)
            /\ ~(running'.kind = "reset" /\ running'.conn = call'[t].conn)
  BY <1>0, <1>4 DEF ResetAt, ResetRuns
<1>7. \A i \in 1..Len(tasks') :
       tasks'[i].kind = "chat" /\ ~turns'[tasks'[i].arg].reset
         => /\ \A j \in 1..i - 1 :
                 ~(tasks'[j].kind = "reset" /\ tasks'[j].conn = tasks'[i].conn)
            /\ ~(running'.kind = "reset" /\ running'.conn = tasks'[i].conn)
  <2> SUFFICES ASSUME NEW i \in 1..Len(tasks'), tasks'[i].kind = "chat",
                      ~turns'[tasks'[i].arg].reset
               PROVE  /\ \A j \in 1..i - 1 :
                           ~(tasks'[j].kind = "reset" /\ tasks'[j].conn = tasks'[i].conn)
                      /\ ~(running'.kind = "reset" /\ running'.conn = tasks'[i].conn)
    OBVIOUS
  <2>1. CASE i \in 1..Len(tasks)
    <3>1. tasks'[i] = tasks[i] /\ \A j \in 1..i - 1 : tasks'[j] = tasks[j]
      BY <1>0, <2>1
    <3> QED BY <1>5, <2>1, <3>1 DEF ResetAt, ResetRuns
  <2>2. CASE i = Len(tasks) + 1
    <3>1. tasks'[i] = task /\ \A j \in 1..i - 1 : j \in 1..Len(tasks) /\ tasks'[j] = tasks[j]
      BY <1>0, <2>2
    <3> QED BY <1>9, <3>1 DEF ResetAt, ResetRuns
  <2> QED BY <1>0, <2>1, <2>2
<1>8. \A n \in Nat, c \in Conns :
           Open(n, c)' => /\ n \in 1..Len(turns') /\ turns'[n].conn = c
                          /\ conns'[c].status # "new"
  BY <1>1, OpenKept
<1> QED BY <1>1, <1>6, <1>7, <1>8 DEF OpenInv, ResetAt, ResetRuns

\* The worker takes a task.
LEMMA PoppedOn ==
  ASSUME TypeOK, OpenInv, Pop
  PROVE  OpenInv' /\ OpenSame
<1> USE RowTypes
<1>1. UNCHANGED <<conns, pc, call, turns>>
  BY DEF Pop
<1>0. /\ Len(tasks) \in Nat /\ Len(tasks') = Len(tasks) - 1 /\ 1 \in 1..Len(tasks)
      /\ \A i \in 1..Len(tasks') : i + 1 \in 1..Len(tasks) /\ tasks'[i] = tasks[i + 1]
      /\ running' = tasks[1] /\ running.kind = "none"
  <2>1. /\ Len(tasks) \in Nat /\ Len(tasks') = Len(tasks) - 1 /\ Len(tasks) > 0
        /\ \A i \in 1..Len(tasks') : tasks'[i] = tasks[i + 1]
        /\ running' = tasks[1] /\ running.kind = "none"
    BY Popped
  <2> QED BY <2>1
<1>2. OpenSame
  <2> SUFFICES ASSUME NEW n \in Nat, NEW c \in Conns, Open(n, c)'
               PROVE  Open(n, c)
    BY DEF OpenSame
  <2>1. CASE \E i \in 1..Len(tasks') : /\ tasks'[i].kind = "chat"
                                       /\ tasks'[i].arg = n /\ tasks'[i].conn = c
    BY <1>0, <2>1 DEF Open
  <2>2. CASE \E t \in Threads : /\ pc'[t] \in {"tool", "submit"}
                                /\ call'[t].turn = n /\ call'[t].conn = c
    BY <1>1, <2>2 DEF Open
  <2>3. CASE running'.kind = "chat" /\ running'.arg = n /\ running'.conn = c
    BY <1>0, <2>3 DEF Open
  <2> QED BY <2>1, <2>2, <2>3 DEF Open
<1>6. \A t \in Threads :
       pc'[t] \in {"tool", "submit"} /\ ~turns'[call'[t].turn].reset
         => /\ \A i \in 1..Len(tasks') :
                 ~(tasks'[i].kind = "reset" /\ tasks'[i].conn = call'[t].conn)
            /\ ~(running'.kind = "reset" /\ running'.conn = call'[t].conn)
  BY <1>0, <1>1 DEF OpenInv, ResetAt
<1>7. \A i \in 1..Len(tasks') :
       tasks'[i].kind = "chat" /\ ~turns'[tasks'[i].arg].reset
         => /\ \A j \in 1..i - 1 :
                 ~(tasks'[j].kind = "reset" /\ tasks'[j].conn = tasks'[i].conn)
            /\ ~(running'.kind = "reset" /\ running'.conn = tasks'[i].conn)
  <2> SUFFICES ASSUME NEW i \in 1..Len(tasks'), tasks'[i].kind = "chat",
                      ~turns'[tasks'[i].arg].reset
               PROVE  /\ \A j \in 1..i - 1 :
                           ~(tasks'[j].kind = "reset" /\ tasks'[j].conn = tasks'[i].conn)
                      /\ ~(running'.kind = "reset" /\ running'.conn = tasks'[i].conn)
    OBVIOUS
  <2>1. \A j \in 1..(i + 1) - 1 : ~ResetAt(j, tasks'[i].conn)
    BY <1>0, <1>1 DEF OpenInv
  <2>2. \A j \in 1..i - 1 : tasks'[j] = tasks[j + 1] /\ j + 1 \in 1..(i + 1) - 1
    BY <1>0
  <2>3. 1 \in 1..(i + 1) - 1
    BY <1>0
  <2> QED BY <1>0, <2>1, <2>2, <2>3 DEF ResetAt
<1>8. \A n \in Nat, c \in Conns :
           Open(n, c)' => /\ n \in 1..Len(turns') /\ turns'[n].conn = c
                          /\ conns'[c].status # "new"
  BY <1>1, <1>2 DEF OpenInv, OpenSame
<1> QED BY <1>2, <1>6, <1>7, <1>8 DEF OpenInv, ResetAt, ResetRuns

\* A thread begins a turn.
LEMMA AskedOn ==
  ASSUME TypeOK, Bounded, OpenInv, NEW t \in Threads, NEW c \in Conns, Ask(t, c)
  PROVE  /\ OpenInv'
         /\ \A n \in Nat, d \in Conns :
              Open(n, d)' => Open(n, d) \/ (n = Len(turns) + 1 /\ d = c)
<1> USE RowTypes, ConnTypes
<1> DEFINE new == Len(turns) + 1
<1>1. PICK label \in {"tool", "submit"} : pc' = [pc EXCEPT ![t] = label]
  BY Asked
<1>2. /\ pc[t] = "idle" /\ conns[c].status # "new"
      /\ \A i \in 1..Len(turns) : turns'[i] = turns[i]
      /\ Len(turns') = new /\ turns'[new].conn = c /\ turns'[new].reset = ResetDue(c)
      /\ call' = [call EXCEPT ![t] = [conn |-> c, turn |-> new]]
      /\ UNCHANGED <<conns, tasks, running>>
  BY Asked
<1>3. /\ pc'[t] = label /\ call'[t].conn = c /\ call'[t].turn = new
      /\ \A u \in Threads \ {t} : pc'[u] = pc[u] /\ call'[u] = call[u]
  BY <1>1, <1>2
<1>4. \A n \in Nat, d \in Conns : Open(n, d)' => Open(n, d) \/ (n = new /\ d = c)
  BY <1>2, <1>3 DEF Open
<1>5. \A n \in Nat, d \in Conns :
           Open(n, d)' => /\ n \in 1..Len(turns') /\ turns'[n].conn = d
                          /\ conns'[d].status # "new"
  BY <1>2, <1>4 DEF OpenInv
<1>6. ASSUME NEW u \in Threads,
             pc'[u] \in {"tool", "submit"}, ~turns'[call'[u].turn].reset
      PROVE  /\ \A i \in 1..Len(tasks) : ~ResetAt(i, call'[u].conn)
             /\ ~ResetRuns(call'[u].conn)
  <2>1. CASE u = t
    BY <1>2, <1>3, <1>6, <2>1 DEF ResetDue, ResetAt, ResetRuns
  <2>2. CASE u # t
    <3>1. pc[u] \in {"tool", "submit"} /\ call'[u] = call[u]
      BY <1>3, <1>6, <2>2
    <3>2. call[u].turn \in 1..Len(turns)
      BY <3>1, OpenTurns
    <3> QED BY <1>2, <1>6, <3>1, <3>2 DEF OpenInv
  <2> QED BY <2>1, <2>2
<1>7. ASSUME NEW i \in 1..Len(tasks), tasks[i].kind = "chat", ~turns'[tasks[i].arg].reset
      PROVE  /\ \A j \in 1..i - 1 : ~ResetAt(j, tasks[i].conn)
             /\ ~ResetRuns(tasks[i].conn)
  BY <1>2, <1>7, OpenTurns DEF OpenInv
<1>8. \A u \in Threads :
       pc'[u] \in {"tool", "submit"} /\ ~turns'[call'[u].turn].reset
         => /\ \A i \in 1..Len(tasks') :
                 ~(tasks'[i].kind = "reset" /\ tasks'[i].conn = call'[u].conn)
            /\ ~(running'.kind = "reset" /\ running'.conn = call'[u].conn)
  BY <1>2, <1>6 DEF ResetAt, ResetRuns
<1>9. \A i \in 1..Len(tasks') :
       tasks'[i].kind = "chat" /\ ~turns'[tasks'[i].arg].reset
         => /\ \A j \in 1..i - 1 :
                 ~(tasks'[j].kind = "reset" /\ tasks'[j].conn = tasks'[i].conn)
            /\ ~(running'.kind = "reset" /\ running'.conn = tasks'[i].conn)
  BY <1>2, <1>7 DEF ResetAt, ResetRuns
<1> QED BY <1>4, <1>5, <1>8, <1>9 DEF OpenInv, ResetAt, ResetRuns

LEMMA GrowStep ==
  ASSUME TypeOK, Bounded, IdsInv, OpenInv, [Next]_vars
  PROVE  Grow
<1> USE RowTypes, ConnTypes
<1>1. ASSUME UNCHANGED <<conns, turns>>
      PROVE  Grow
  BY <1>1 DEF Grow
<1>2. ASSUME UNCHANGED conns, TurnsKept
      PROVE  Grow
  BY <1>2 DEF Grow, TurnsKept
<1>3. ASSUME NEW c \in Conns, Accept(c)
      PROVE  Grow
  <2>1. PICK sid \in Nat : ConnIs(c, "open", sid, conns[c].role)
    BY <1>3, AcceptedConn
  <2>2. UNCHANGED turns
    BY <1>3, Accepted
  <2> QED BY <2>1, <2>2 DEF Grow, ConnIs
<1>4. ASSUME NEW c \in Conns, Close(c) \/ Free(c)
      PROVE  Grow
  <2>1. PICK status \in Statuses \ {"new"} : ConnIs(c, status, conns[c].sid, conns[c].role)
    BY <1>4, Closed
  <2>2. UNCHANGED turns
    BY <1>4, Closed
  <2> QED BY <2>1, <2>2 DEF Grow, ConnIs
<1>5. ASSUME NEW c \in Conns, NewSession(c)
      PROVE  Grow
  <2>1. UNCHANGED conns
    BY <1>5 DEF NewSession
  <2> QED BY <1>5, <2>1, ResetNoted DEF Grow
<1>6. ASSUME NEW c \in Conns, NEW r \in Roles, SetRole(c, r)
      PROVE  Grow
  BY <1>1, <1>6 DEF SetRole
<1>7. CASE SubmitRestart
  <2> DEFINE c == call["io"].conn
  <2>1. /\ c \in Conns /\ newRole[c] \in Roles
        /\ conns' = [conns EXCEPT ![c].role = newRole[c]] /\ UNCHANGED turns
    BY <1>7 DEF SubmitRestart, Threads, IdsInv, TypeOK
  <2>2. ConnIs(c, conns[c].status, conns[c].sid, newRole[c])
    BY <2>1, RoleChanges
  <2> QED BY <2>1, <2>2 DEF Grow, ConnIs
<1>8. ASSUME NEW t \in Threads, ToolReply(t)
      PROVE  Grow
  <2>1. UNCHANGED conns
    BY <1>8 DEF ToolReply
  <2> QED BY <1>2, <1>8, <2>1, ToolReplied
<1>9. ASSUME NEW t \in Threads, SubmitChat(t)
      PROVE  Grow
  BY <1>1, <1>9 DEF SubmitChat
<1>10. ASSUME NEW t \in Threads, NEW c \in Conns, Ask(t, c)
       PROVE  Grow
  BY <1>10, Asked DEF Grow
<1>11. CASE Pop
  BY <1>1, <1>11 DEF Pop
<1>12. CASE FinishChat
  <2>1. UNCHANGED conns
    BY <1>12 DEF FinishChat
  <2> QED BY <1>2, <1>12, <2>1, ChatFinished
<1>13. CASE FinishReset
  BY <1>1, <1>13 DEF FinishReset
<1>14. CASE EndSwitch
  BY <1>14, Switched DEF Grow, ConnIs
<1>15. CASE FinishRestart
  BY <1>1, <1>15 DEF FinishRestart
<1>16. CASE Crash
  <2>1. conns' = [c \in Conns |-> IF conns[c].status = "new" THEN conns[c]
                                  ELSE [conns[c] EXCEPT !.status = "gone"]]
    BY <1>16 DEF Crash
  <2>2. \A c \in Conns : [conns[c] EXCEPT !.status = "gone"].status = "gone"
    BY DEF ConnRow
  <2>3. \A c \in Conns : conns[c].status # "new" => conns'[c].status # "new"
    BY <2>1, <2>2
  <2> QED BY <1>16, <2>3, DeathNoted DEF Grow, TurnsKept
<1>17. CASE UNCHANGED vars
  BY <1>1, <1>17 DEF vars, procVars
<1> QED BY <1>3, <1>4, <1>5, <1>6, <1>7, <1>8, <1>9, <1>10, <1>11, <1>12, <1>13, <1>14, <1>15,
           <1>16, <1>17 DEF Next, Worker

\* Only Ask opens a turn, and OpenInv is kept.
LEMMA OpenStep ==
  ASSUME TypeOK, Bounded, IdsInv, OpenInv, [Next]_vars
  PROVE  /\ OpenInv'
         /\ OpenSame \/ \E t \in Threads, c \in Conns : Ask(t, c)
<1> USE RowTypes, ConnTypes, GrowStep
<1>1. ASSUME Quiet, tasks' = tasks, running' \in {running, NoTask}
      PROVE  OpenInv' /\ OpenSame
  BY <1>1, ServedOn
<1>2. ASSUME UNCHANGED <<pc, call>>, tasks' = tasks, running' \in {running, NoTask}
      PROVE  OpenInv' /\ OpenSame
  BY <1>1, <1>2 DEF Quiet
<1>3. ASSUME NEW c \in Conns, Accept(c)
      PROVE  OpenInv' /\ OpenSame
  BY <1>2, <1>3, Accepted
<1>4. ASSUME NEW c \in Conns, Close(c) \/ Free(c)
      PROVE  OpenInv' /\ OpenSame
  BY <1>2, <1>4, Closed
<1>5. ASSUME NEW c \in Conns, NewSession(c)
      PROVE  OpenInv' /\ OpenSame
  <2> DEFINE task == [kind |-> "reset", conn |-> c, arg |-> 0]
  <2>1. /\ task \in Task /\ task.kind = "reset" /\ task.conn = c
        /\ Submit(task) /\ UNCHANGED <<pc, call, running>>
    BY <1>5 DEF NewSession, Task
  <2>2. Quiet
    BY <2>1 DEF Quiet
  <2>3. \A t \in Threads : pc'[t] \in {"tool", "submit"} /\ call[t].conn = c
                             => turns'[call[t].turn].reset
    BY <1>5, <2>1, ResetNoted, OpenTurns
  <2> HIDE DEF task
  <2> QED BY <2>1, <2>2, <2>3, SubmittedOn
<1>6. ASSUME NEW c \in Conns, NEW r \in Roles, SetRole(c, r)
      PROVE  OpenInv' /\ OpenSame
  <2>1. Quiet /\ UNCHANGED <<tasks, running>>
    BY <1>6 DEF SetRole, Quiet, Threads
  <2> QED BY <1>1, <2>1
<1>7. CASE SubmitRestart
  <2> DEFINE c == call["io"].conn
             task == [kind |-> "restart", conn |-> c, arg |-> newRole[c]]
  <2>1. /\ c \in Conns /\ newRole[c] \in Roles /\ Submit(task) /\ UNCHANGED running
        /\ pc' = [pc EXCEPT !["io"] = "idle"] /\ call' = [call EXCEPT !["io"] = NoCall]
    BY <1>7 DEF SubmitRestart, Threads, IdsInv, TypeOK
  <2>2. task \in Task /\ task.kind = "restart"
    BY <2>1 DEF Task
  <2>3. Quiet
    BY <2>1 DEF Quiet, Threads
  <2> HIDE DEF task
  <2> QED BY <2>1, <2>2, <2>3, SubmittedOn
<1>8. ASSUME NEW t \in Threads, ToolReply(t)
      PROVE  OpenInv' /\ OpenSame
  <2>1. Quiet /\ UNCHANGED <<tasks, running>>
    BY <1>8 DEF ToolReply, Quiet
  <2> QED BY <1>1, <2>1
<1>9. ASSUME NEW t \in Threads, SubmitChat(t)
      PROVE  OpenInv' /\ OpenSame
  <2> DEFINE n == call[t].turn
             c == call[t].conn
             task == [kind |-> "chat", conn |-> c, arg |-> n]
  <2>1. /\ c \in Conns /\ n \in 1..Len(turns) /\ pc[t] = "submit"
        /\ Submit(task) /\ UNCHANGED running
        /\ pc' = [pc EXCEPT ![t] = "idle"] /\ call' = [call EXCEPT ![t] = NoCall]
    BY <1>9, OpenTurns DEF SubmitChat
  <2>2. n \in 1..MaxInputs
    BY <2>1
  <2>3. task \in Task /\ task.kind = "chat" /\ task.conn = c /\ task.arg = n
    BY <2>1, <2>2 DEF Task
  <2>4. Quiet
    BY <2>1 DEF Quiet
  <2>5. Open(n, c)
    BY <2>1 DEF Open
  <2>6. ~turns[n].reset => /\ \A i \in 1..Len(tasks) : ~ResetAt(i, c)
                           /\ ~ResetRuns(c)
    BY <2>1 DEF OpenInv
  <2> HIDE DEF task
  <2> QED BY <2>1, <2>3, <2>4, <2>5, <2>6, SubmittedOn
<1>10. ASSUME NEW t \in Threads, NEW c \in Conns, Ask(t, c)
       PROVE  OpenInv'
  BY <1>10, AskedOn
<1>11. CASE Pop
  BY <1>11, PoppedOn
<1>12. CASE FinishChat
  BY <1>2, <1>12 DEF FinishChat
<1>13. CASE FinishReset
  BY <1>2, <1>13 DEF FinishReset
<1>14. CASE EndSwitch
  BY <1>2, <1>14 DEF EndSwitch
<1>15. CASE FinishRestart
  BY <1>2, <1>15 DEF FinishRestart
<1>16. CASE Crash
  <2>1. /\ tasks' = <<>> /\ running' = NoTask /\ \A t \in Threads : pc'[t] = "idle"
    BY <1>16 DEF Crash, Boot
  <2>2. Len(tasks') = 0
    BY <2>1, EmptySeq
  <2>3. \A n \in Nat, c \in Conns : ~Open(n, c)'
    BY <2>1, <2>2 DEF Open, NoTask
  <2>4. OpenSame
    BY <2>3 DEF OpenSame
  <2> QED BY <2>1, <2>2, <2>3, <2>4 DEF OpenInv
<1>17. CASE UNCHANGED vars
  BY <1>2, <1>17 DEF vars, procVars
<1> QED BY <1>3, <1>4, <1>5, <1>6, <1>7, <1>8, <1>9, <1>10, <1>11, <1>12, <1>13, <1>14, <1>15,
           <1>16, <1>17 DEF Next, Worker
-----------------------------------------------------------------------------
(* Where messages are filed. *)

\* While a turn that no reset concerns is open its connection keeps its id.
IdStays ==
  \A n \in 1..Len(turns) :
    Open(n, turns[n].conn) /\ ~turns'[n].reset
      => conns'[turns[n].conn].sid = conns[turns[n].conn].sid

LEMMA TurnsTyped ==
  ASSUME turns' \in Seq(TurnRow)
  PROVE  Len(turns') \in Nat /\ \A n \in 1..Len(turns') : turns'[n].conn \in Conns
<1>1. ASSUME NEW n \in 1..Len(turns')
      PROVE  turns'[n] \in TurnRow
  BY ElementOfSeq
<1>2. \A n \in 1..Len(turns') : turns'[n].conn \in Conns
  BY <1>1 DEF TurnRow
<1> QED BY <1>2, LenProperties

\* Nothing is stored.
LEMMA NothingFiled ==
  ASSUME TypeOK, OpenInv, FileInv, Grow, OpenSame, IdStays, messages' = messages,
         Len(sessions') \in Nat, Len(sessions) <= Len(sessions')
  PROVE  FileInv'
<1> USE RowTypes
<1>1. Len(turns') \in Nat
  BY LenProperties DEF Grow
<1>2. \A i \in 1..Len(messages') :
        /\ messages'[i].turn \in 1..Len(turns')
        /\ turns'[messages'[i].turn].reset \/ messages'[i].sid \in 1..Len(sessions')
  <2> SUFFICES ASSUME NEW i \in 1..Len(messages)
               PROVE  /\ messages[i].turn \in 1..Len(turns')
                      /\ turns'[messages[i].turn].reset \/ messages[i].sid \in 1..Len(sessions')
    OBVIOUS
  <2>1. messages[i].turn \in 1..Len(turns)
    BY DEF FileInv
  <2>2. turns[messages[i].turn].reset \/ messages[i].sid \in 1..Len(sessions)
    BY DEF FileInv
  <2>3. turns[messages[i].turn].reset => turns'[messages[i].turn].reset
    BY <2>1 DEF Grow
  <2> QED BY <1>1, <2>1, <2>2, <2>3 DEF Grow
<1>3. \A n \in 1..Len(turns') :
        Open(n, turns[n].conn)' /\ ~turns'[n].reset
          => \A i \in 1..Len(messages') :
               messages'[i].turn = n => messages'[i].sid = conns'[turns'[n].conn].sid
  <2> SUFFICES ASSUME NEW n \in 1..Len(turns'), NEW c \in Conns, c = turns'[n].conn,
                      Open(n, c)', ~turns'[n].reset, NEW i \in 1..Len(messages'),
                      messages'[i].turn = n
               PROVE  messages'[i].sid = conns'[c].sid
    <3>1. \A n \in 1..Len(turns') : turns'[n].conn \in Conns
      BY TurnsTyped DEF Grow
    <3> QED BY <3>1 DEF Open
  <2>1. n \in Nat /\ Open(n, c)
    BY <1>1 DEF OpenSame
  <2>2. n \in 1..Len(turns) /\ turns[n].conn = c
    BY <2>1 DEF OpenInv
  <2>3. ~turns[n].reset /\ conns'[c].sid = conns[c].sid
    BY <2>1, <2>2 DEF Grow, IdStays
  <2> QED BY <2>1, <2>2, <2>3 DEF FileInv
<1>4. \A i, j \in 1..Len(messages') :
        messages'[i].turn = messages'[j].turn
          => messages'[i].sid = messages'[j].sid \/ turns'[messages'[i].turn].reset
  BY DEF FileInv, Grow
<1> QED BY <1>2, <1>3, <1>4 DEF FileInv

\* A message of an open turn is stored, or not.
LEMMA OneFiled ==
  ASSUME TypeOK, IdsInv, OpenInv, FileInv, Grow, OpenSame, UNCHANGED conns,
         NEW c \in Conns, NEW n \in 1..Len(turns), Open(n, c), Stored(n, c),
         ~turns[n].reset => ~ResetRuns(c)
  PROVE  FileInv'
<1> USE RowTypes, ConnTypes
<1>1. Len(turns') \in Nat /\ \A m \in 1..Len(turns') : turns'[m].conn \in Conns
  BY TurnsTyped DEF Grow
<1>2. IdStays
  BY DEF IdStays
<1>3. Len(sessions') = Len(sessions)
  BY DEF Stored
<1>4. CASE messages' = messages
  BY <1>2, <1>3, <1>4, NothingFiled
<1>5. CASE messages' # messages
  <2> DEFINE k == Len(messages) + 1
  <2>1. /\ Len(messages') = k /\ \A i \in 1..Len(messages) : messages'[i] = messages[i]
        /\ messages'[k].turn = n /\ messages'[k].sid \in SeenId(c) \ {NoSession}
    BY <1>5 DEF Stored
  <2>2. turns[n].conn = c
    BY DEF OpenInv
  <2>3. ASSUME ~turns[n].reset
        PROVE  messages'[k].sid = conns[c].sid /\ conns[c].sid \in 1..Len(sessions)
    <3>1. newId[c] = NoSession
      BY <2>3 DEF IdsInv, ResetRuns
    <3>2. messages'[k].sid = conns[c].sid /\ conns[c].sid # 0
      BY <2>1, <3>1 DEF SeenId, NoSession
    <3>3. conns[c].sid \in Nat /\ conns[c].sid <= Len(sessions)
      BY DEF IdsInv
    <3> QED BY <3>2, <3>3
  <2>4. \A i \in 1..Len(messages') : i \in 1..Len(messages) \/ i = k
    BY <2>1
  <2>5. \A m \in 1..Len(turns) : ~turns'[m].reset => ~turns[m].reset
    BY DEF Grow
  <2>6. \A i \in 1..Len(messages') :
          /\ messages'[i].turn \in 1..Len(turns')
          /\ turns'[messages'[i].turn].reset \/ messages'[i].sid \in 1..Len(sessions')
    <3>1. ASSUME NEW i \in 1..Len(messages)
          PROVE  /\ messages[i].turn \in 1..Len(turns')
                 /\ turns'[messages[i].turn].reset \/ messages[i].sid \in 1..Len(sessions')
      <4>1. messages[i].turn \in 1..Len(turns)
        BY DEF FileInv
      <4>2. turns[messages[i].turn].reset \/ messages[i].sid \in 1..Len(sessions)
        BY DEF FileInv
      <4> QED BY <1>1, <1>3, <4>1, <4>2 DEF Grow
    <3>2. n \in 1..Len(turns') /\ (turns'[n].reset \/ messages'[k].sid \in 1..Len(sessions'))
      BY <1>1, <1>3, <2>3, <2>5 DEF Grow
    <3> QED BY <2>1, <2>4, <3>1, <3>2
  <2>7. \A m \in 1..Len(turns') :
          Open(m, turns[m].conn)' /\ ~turns'[m].reset
            => \A i \in 1..Len(messages') :
                 messages'[i].turn = m => messages'[i].sid = conns'[turns'[m].conn].sid
    <3> SUFFICES ASSUME NEW m \in 1..Len(turns'), NEW d \in Conns, d = turns'[m].conn,
                        Open(m, d)', ~turns'[m].reset, NEW i \in 1..Len(messages'),
                        messages'[i].turn = m
                 PROVE  messages'[i].sid = conns[d].sid
      BY <1>1 DEF Open
    <3>1. m \in Nat /\ Open(m, d)
      BY <1>1 DEF OpenSame
    <3>2. m \in 1..Len(turns) /\ turns[m].conn = d /\ ~turns[m].reset
      BY <2>5, <3>1 DEF OpenInv
    <3>3. CASE i \in 1..Len(messages)
      <4>1. \A l \in 1..Len(messages) : messages[l].turn = m => messages[l].sid = conns[d].sid
        BY <3>1, <3>2 DEF FileInv
      <4> QED BY <2>1, <3>3, <4>1
    <3>4. CASE i = k
      BY <2>1, <2>2, <2>3, <3>2, <3>4
    <3> QED BY <2>4, <3>3, <3>4
  <2>8. \A i, j \in 1..Len(messages') :
          messages'[i].turn = messages'[j].turn
            => messages'[i].sid = messages'[j].sid \/ turns'[messages'[i].turn].reset
    <3>1. ASSUME NEW i \in 1..Len(messages), NEW j \in 1..Len(messages),
                 messages[i].turn = messages[j].turn, ~turns'[messages[i].turn].reset
          PROVE  messages[i].sid = messages[j].sid
      <4>1. messages[i].turn \in 1..Len(turns)
        BY DEF FileInv
      <4>2. ~turns[messages[i].turn].reset
        BY <2>5, <3>1, <4>1
      <4> QED BY <3>1, <4>2 DEF FileInv
    <3>2. ASSUME NEW i \in 1..Len(messages), messages[i].turn = n, ~turns'[n].reset
          PROVE  messages[i].sid = messages'[k].sid
      <4>1. ~turns[n].reset
        BY <2>5, <3>2
      <4> QED BY <2>2, <2>3, <3>2, <4>1 DEF FileInv
    <3> SUFFICES ASSUME NEW i \in 1..Len(messages'), NEW j \in 1..Len(messages'),
                        messages'[i].turn = messages'[j].turn,
                        ~turns'[messages'[i].turn].reset
                 PROVE  messages'[i].sid = messages'[j].sid
      OBVIOUS
    <3>3. CASE i = k /\ j = k
      BY <3>3
    <3>4. CASE i \in 1..Len(messages) /\ j = k
      BY <2>1, <3>2, <3>4
    <3>5. CASE i = k /\ j \in 1..Len(messages)
      BY <2>1, <3>2, <3>5
    <3>6. CASE i \in 1..Len(messages) /\ j \in 1..Len(messages)
      BY <2>1, <3>1, <3>6
    <3> QED BY <2>4, <3>3, <3>4, <3>5, <3>6
  <2> QED BY <2>6, <2>7, <2>8 DEF FileInv
<1> QED BY <1>4, <1>5

\* The question of a new turn is stored, or not.
LEMMA QuestionFiled ==
  ASSUME TypeOK, Bounded, IdsInv, OpenInv, FileInv, NEW t \in Threads, NEW c \in Conns,
         Ask(t, c)
  PROVE  FileInv'
<1> USE RowTypes, ConnTypes
<1> DEFINE n == Len(turns) + 1
           k == Len(messages) + 1
<1>1. /\ \A i \in 1..Len(turns) : turns'[i] = turns[i]
      /\ Len(turns') = n /\ turns'[n].conn = c /\ turns'[n].reset = ResetDue(c)
      /\ UNCHANGED conns /\ Stored(n, c)
  BY Asked
<1>2. \A m \in Nat, d \in Conns : Open(m, d)' => Open(m, d) \/ (m = n /\ d = c)
  BY AskedOn
<1>3. Len(sessions') = Len(sessions)
  BY <1>1 DEF Stored
<1>4. /\ \A i \in 1..Len(messages) : messages'[i] = messages[i] /\ messages[i].turn \in 1..Len(turns)
      /\ \A i \in 1..Len(messages') : i \in 1..Len(messages) \/ i = k
  BY <1>1 DEF Stored, FileInv
<1>5. ASSUME k \in 1..Len(messages')
      PROVE  /\ messages'[k].turn = n
             /\ ~turns'[n].reset => messages'[k].sid = conns[c].sid
                                    /\ conns[c].sid \in 1..Len(sessions)
  <2>1. messages'[k].turn = n /\ messages'[k].sid \in SeenId(c) \ {NoSession}
    BY <1>1, <1>5 DEF Stored
  <2>2. ASSUME ~turns'[n].reset
        PROVE  messages'[k].sid = conns[c].sid /\ conns[c].sid \in 1..Len(sessions)
    <3>1. newId[c] = NoSession
      BY <1>1, <2>2 DEF IdsInv, ResetDue
    <3>2. messages'[k].sid = conns[c].sid /\ conns[c].sid # 0
      BY <2>1, <3>1 DEF SeenId, NoSession
    <3>3. conns[c].sid \in Nat /\ conns[c].sid <= Len(sessions)
      BY DEF IdsInv
    <3> QED BY <3>2, <3>3
  <2> QED BY <2>1, <2>2
<1>6. \A i \in 1..Len(messages') :
        /\ messages'[i].turn \in 1..Len(turns')
        /\ turns'[messages'[i].turn].reset \/ messages'[i].sid \in 1..Len(sessions')
  <2> SUFFICES ASSUME NEW i \in 1..Len(messages')
               PROVE  /\ messages'[i].turn \in 1..Len(turns')
                      /\ turns'[messages'[i].turn].reset \/ messages'[i].sid \in 1..Len(sessions')
    OBVIOUS
  <2>1. CASE i \in 1..Len(messages)
    BY <1>1, <1>3, <1>4, <2>1 DEF FileInv
  <2>2. CASE i = k
    BY <1>1, <1>3, <1>5, <2>2
  <2> QED BY <1>4, <2>1, <2>2
<1>7. \A m \in 1..Len(turns') :
        Open(m, turns[m].conn)' /\ ~turns'[m].reset
          => \A i \in 1..Len(messages') :
               messages'[i].turn = m => messages'[i].sid = conns'[turns'[m].conn].sid
  <2> SUFFICES ASSUME NEW m \in 1..Len(turns'), NEW d \in Conns, d = turns'[m].conn,
                      Open(m, d)', ~turns'[m].reset, NEW i \in 1..Len(messages'),
                      messages'[i].turn = m
               PROVE  messages'[i].sid = conns[d].sid
    <3>1. \A m \in 1..Len(turns') : turns'[m].conn \in Conns
      BY Asked, TurnsTyped
    <3> QED BY <1>1, <3>1 DEF Open
  <2>1. CASE m = n
    <3>1. n \notin 1..Len(turns)
      OBVIOUS
    <3>2. i = k
      BY <1>4, <2>1, <3>1
    <3>3. messages'[k].sid = conns[c].sid
      BY <1>5, <2>1, <3>2
    <3> QED BY <1>1, <2>1, <3>2, <3>3
  <2>2. CASE m \in 1..Len(turns)
    <3>1. i \in 1..Len(messages) /\ messages'[i] = messages[i]
      BY <1>4, <1>5, <2>2
    <3>2. Open(m, d) /\ turns'[m] = turns[m]
      BY <1>1, <1>2, <2>2
    <3> QED BY <2>2, <3>1, <3>2 DEF FileInv
  <2> QED BY <1>1, <2>1, <2>2
<1>8. \A i, j \in 1..Len(messages') :
        messages'[i].turn = messages'[j].turn
          => messages'[i].sid = messages'[j].sid \/ turns'[messages'[i].turn].reset
  <2>1. \A i, j \in 1..Len(messages) :
          messages[i].turn = messages[j].turn
            => messages[i].sid = messages[j].sid \/ turns'[messages[i].turn].reset
    BY <1>1, <1>4 DEF FileInv
  <2>2. \A i \in 1..Len(messages) : messages[i].turn # n
    BY <1>4
  <2> SUFFICES ASSUME NEW i \in 1..Len(messages'), NEW j \in 1..Len(messages'),
                      messages'[i].turn = messages'[j].turn
               PROVE  messages'[i].sid = messages'[j].sid \/ turns'[messages'[i].turn].reset
    OBVIOUS
  <2>3. CASE i = k /\ j = k
    BY <2>3
  <2>4. CASE i \in 1..Len(messages) /\ j = k
    BY <1>4, <1>5, <2>2, <2>4
  <2>5. CASE i = k /\ j \in 1..Len(messages)
    BY <1>4, <1>5, <2>2, <2>5
  <2>6. CASE i \in 1..Len(messages) /\ j \in 1..Len(messages)
    BY <1>4, <2>1, <2>6
  <2> QED BY <1>4, <2>3, <2>4, <2>5, <2>6
<1> QED BY <1>6, <1>7, <1>8 DEF FileInv

LEMMA FileStep ==
  ASSUME TypeOK, Bounded, IdsInv, OpenInv, FileInv, [Next]_vars
  PROVE  FileInv'
<1> USE RowTypes, ConnTypes, GrowStep, OpenStep
<1>1. ASSUME OpenSame, \A d \in Conns : conns'[d].sid = conns[d].sid,
             UNCHANGED messages, Len(sessions') \in Nat, Len(sessions) <= Len(sessions')
      PROVE  FileInv'
  <2>1. \A n \in 1..Len(turns) : turns[n].conn \in Conns
    BY DEF TurnRow
  <2>2. IdStays
    BY <1>1, <2>1 DEF IdStays
  <2> QED BY <1>1, <2>2, NothingFiled
<1>2. ASSUME NEW t \in Threads, NEW c \in Conns, Ask(t, c)
      PROVE  FileInv'
  BY <1>2, QuestionFiled
<1>3. ASSUME ~\E t \in Threads, c \in Conns : Ask(t, c)
      PROVE  FileInv'
  <2> USE <1>3
  <2>1. OpenSame
    OBVIOUS
  <2>2. ASSUME NEW c \in Conns, Accept(c)
        PROVE  FileInv'
    <3>1. ASSUME NEW n \in Nat, Open(n, c)
          PROVE  FALSE
      BY <2>2, <3>1 DEF OpenInv, Accept
    <3>2. \A d \in Conns \ {c} : conns'[d].sid = conns[d].sid
      <4>1. PICK sid \in Nat : ConnIs(c, "open", sid, conns[c].role)
        BY <2>2, AcceptedConn
      <4> QED BY <4>1 DEF ConnIs
    <3>3. IdStays
      BY <3>1, <3>2 DEF IdStays, TurnRow
    <3>4. messages' = messages /\ Len(sessions') \in Nat /\ Len(sessions) <= Len(sessions')
      BY <2>2, Accepted
    <3> QED BY <2>1, <3>3, <3>4, NothingFiled
  <2>3. ASSUME NEW c \in Conns, Close(c) \/ Free(c)
        PROVE  FileInv'
    <3>1. \A d \in Conns : conns'[d].sid = conns[d].sid
      BY <2>3, Closed DEF ConnIs
    <3>2. UNCHANGED storeVars
      BY <2>3, Closed
    <3> QED BY <1>1, <2>1, <3>1, <3>2 DEF storeVars
  <2>4. ASSUME NEW c \in Conns, NewSession(c)
        PROVE  FileInv'
    BY <1>1, <2>1, <2>4 DEF NewSession, storeVars
  <2>5. ASSUME NEW c \in Conns, NEW r \in Roles, SetRole(c, r)
        PROVE  FileInv'
    BY <1>1, <2>1, <2>5 DEF SetRole, storeVars
  <2>6. CASE SubmitRestart
    <3> DEFINE c == call["io"].conn
    <3>1. /\ c \in Conns /\ newRole[c] \in Roles /\ UNCHANGED storeVars
          /\ conns' = [conns EXCEPT ![c].role = newRole[c]]
      BY <2>6 DEF SubmitRestart, Threads, IdsInv, TypeOK
    <3>2. ConnIs(c, conns[c].status, conns[c].sid, newRole[c])
      BY <3>1, RoleChanges
    <3>3. \A d \in Conns : conns'[d].sid = conns[d].sid
      BY <3>2 DEF ConnIs
    <3> QED BY <1>1, <2>1, <3>1, <3>3 DEF storeVars
  <2>7. ASSUME NEW t \in Threads, ToolReply(t)
        PROVE  FileInv'
    <3> DEFINE n == call[t].turn
               c == call[t].conn
    <3>1. /\ UNCHANGED conns /\ Open(n, c) /\ n \in 1..Len(turns) /\ Stored(n, c)
          /\ pc[t] = "tool"
      BY <2>7, ToolReplied DEF ToolReply
    <3>2. ~turns[n].reset => ~ResetRuns(c)
      BY <3>1 DEF OpenInv
    <3> QED BY <2>1, <3>1, <3>2, OneFiled
  <2>8. ASSUME NEW t \in Threads, SubmitChat(t)
        PROVE  FileInv'
    BY <1>1, <2>1, <2>8 DEF SubmitChat, storeVars
  <2>9. CASE Pop
    BY <1>1, <2>1, <2>9 DEF Pop, storeVars
  <2>10. CASE FinishChat
    <3>1. /\ running.kind = "chat" /\ running.conn \in Conns
          /\ Open(running.arg, running.conn) /\ running.arg \in 1..Len(turns)
          /\ Stored(running.arg, running.conn) \/ UNCHANGED storeVars
      BY <2>10, ChatFinished
    <3>2. UNCHANGED conns /\ ~ResetRuns(running.conn)
      BY <2>10 DEF FinishChat, ResetRuns
    <3>3. CASE Stored(running.arg, running.conn)
      BY <2>1, <3>1, <3>2, <3>3, OneFiled
    <3>4. CASE UNCHANGED storeVars
      BY <1>1, <2>1, <3>2, <3>4 DEF storeVars
    <3> QED BY <3>1, <3>3, <3>4
  <2>11. CASE FinishReset
    <3>1. UNCHANGED <<messages, conns>>
      BY <2>11 DEF FinishReset
    <3>2. Len(sessions') \in Nat /\ Len(sessions) <= Len(sessions')
      BY <2>11, ResetFinished
    <3> QED BY <1>1, <2>1, <3>1, <3>2
  <2>12. CASE EndSwitch
    <3> DEFINE c == running.conn
    <3>1. /\ c \in Conns /\ ResetRuns(c) /\ running.kind = "reset"
          /\ ConnIs(c, conns[c].status, newId[c], conns[c].role)
          /\ UNCHANGED <<sessions, messages, turns>>
      BY <2>12, Switched DEF ResetRuns, storeVars
    <3>2. ASSUME NEW n \in 1..Len(turns), Open(n, c), ~turns[n].reset
          PROVE  FALSE
      BY <3>1, <3>2 DEF Open, OpenInv
    <3>3. \A d \in Conns \ {c} : conns'[d].sid = conns[d].sid
      BY <3>1 DEF ConnIs
    <3>4. \A n \in 1..Len(turns) : turns[n].conn \in Conns
      BY DEF TurnRow
    <3>5. IdStays
      BY <3>1, <3>2, <3>3, <3>4 DEF IdStays
    <3> QED BY <2>1, <3>1, <3>5, NothingFiled
  <2>13. CASE FinishRestart
    <3>1. UNCHANGED <<messages, conns>>
      BY <2>13 DEF FinishRestart
    <3>2. Len(sessions') = Len(sessions)
      BY <2>13, RestartFinished
    <3> QED BY <1>1, <2>1, <3>1, <3>2
  <2>14. CASE Crash
    <3>1. UNCHANGED storeVars
      BY <2>14 DEF Crash
    <3> QED BY <1>1, <2>1, <2>14, <3>1, Died DEF storeVars
  <2>15. CASE UNCHANGED vars
    BY <1>1, <2>1, <2>15 DEF vars, procVars, storeVars
  <2> QED BY <2>2, <2>3, <2>4, <2>5, <2>6, <2>7, <2>8, <2>9, <2>10, <2>11, <2>12, <2>13, <2>14,
             <2>15 DEF Next, Worker
<1> QED BY <1>2, <1>3
-----------------------------------------------------------------------------
(* Roles. *)

RolesStay == \A c \in Conns : conns'[c].role = conns[c].role

\* No restart is submitted, and the worker goes on or has finished.
LEMMA RestartsServed ==
  ASSUME TypeOK, RestartInv, RolesStay, tasks' = tasks, running' \in {running, NoTask}
  PROVE  RestartInv'
<1>1. \A c \in Conns : (Waiting(c)' <=> Waiting(c)) /\ (RestartRuns(c)' => running' = running)
  BY DEF Waiting, RestartAt, RestartRuns, NoTask
<1> QED BY <1>1 DEF RestartInv, RolesStay, RestartAt, RestartRuns

\* A task is submitted: a restart brings the role its connection has now.
LEMMA RestartsSubmitted ==
  ASSUME TypeOK, RestartInv, NEW task \in Task, Submit(task), running' = running,
         \A c \in Conns : ~(task.kind = "restart" /\ task.conn = c)
                            => conns'[c].role = conns[c].role,
         task.kind = "restart" => task.arg = conns'[task.conn].role
  PROVE  /\ RestartInv'
         /\ \A c \in Conns : Waiting(c) => Waiting(c)'
         /\ task.kind = "restart" => Waiting(task.conn)'
<1> USE RowTypes
<1> DEFINE k == Len(tasks) + 1
<1>1. /\ Len(tasks') = k /\ tasks'[k] = task
      /\ \A i \in 1..Len(tasks) : tasks'[i] = tasks[i] /\ i \in 1..Len(tasks')
      /\ \A i \in 1..Len(tasks') : i \in 1..Len(tasks) \/ i = k
      /\ k \in 1..Len(tasks')
  BY Submitted
<1>2. \A c \in Conns : Waiting(c) => Waiting(c)'
  BY <1>1 DEF Waiting, RestartAt
<1>3. task.kind = "restart" => Waiting(task.conn)'
  BY <1>1 DEF Waiting, RestartAt
<1>4. ASSUME NEW c \in Conns, NEW i \in 1..Len(tasks'), RestartAt(i, c)',
             \A j \in i + 1..Len(tasks') : ~RestartAt(j, c)'
      PROVE  tasks'[i].arg = conns'[c].role
  <2>1. CASE i = k
    BY <1>1, <1>4, <2>1 DEF RestartAt
  <2>2. CASE i \in 1..Len(tasks)
    <3>1. k \in i + 1..Len(tasks') /\ \A j \in i + 1..Len(tasks) : j \in i + 1..Len(tasks')
      BY <1>1, <2>2
    <3>2. ~(task.kind = "restart" /\ task.conn = c)
      BY <1>1, <1>4, <3>1 DEF RestartAt
    <3>3. RestartAt(i, c) /\ \A j \in i + 1..Len(tasks) : ~RestartAt(j, c)
      BY <1>1, <1>4, <2>2, <3>1 DEF RestartAt
    <3>4. tasks[i].arg = conns[c].role
      BY <2>2, <3>3 DEF RestartInv
    <3> QED BY <1>1, <2>2, <3>2, <3>4
  <2> QED BY <1>1, <2>1, <2>2
<1>5. ASSUME NEW c \in Conns, RestartRuns(c)', ~Waiting(c)'
      PROVE  running'.arg = conns'[c].role
  <2>1. RestartRuns(c) /\ ~Waiting(c)
    BY <1>2, <1>5 DEF RestartRuns
  <2>2. ~(task.kind = "restart" /\ task.conn = c)
    BY <1>3, <1>5
  <2> QED BY <2>1, <2>2 DEF RestartInv
<1> QED BY <1>2, <1>3, <1>4, <1>5 DEF RestartInv

LEMMA RestartsPopped ==
  ASSUME TypeOK, RestartInv, Pop
  PROVE  /\ RestartInv'
         /\ \A c \in Conns : ~Waiting(c)' /\ ~RestartRuns(c)' => ~Waiting(c) /\ ~RestartRuns(c)
<1> USE RowTypes
<1>1. /\ UNCHANGED conns /\ Len(tasks') = Len(tasks) - 1 /\ Len(tasks) > 0
      /\ \A i \in 1..Len(tasks') : tasks'[i] = tasks[i + 1]
      /\ running' = tasks[1] /\ running.kind = "none"
  BY Popped DEF Pop
<1>2. /\ 1 \in 1..Len(tasks)
      /\ \A i \in 1..Len(tasks') : i + 1 \in 1..Len(tasks)
      /\ \A i \in 1..Len(tasks) : i = 1 \/ i - 1 \in 1..Len(tasks')
  BY <1>1
<1>3. \A c \in Conns, i \in 1..Len(tasks') : RestartAt(i, c)' <=> RestartAt(i + 1, c)
  BY <1>1 DEF RestartAt
<1>4. \A c \in Conns : RestartRuns(c)' <=> RestartAt(1, c)
  BY <1>1 DEF RestartAt, RestartRuns
<1>5. ASSUME NEW c \in Conns, ~Waiting(c)', NEW i \in 1..Len(tasks), i # 1
      PROVE  ~RestartAt(i, c)
  <2>1. i - 1 \in 1..Len(tasks') /\ (i - 1) + 1 = i
    BY <1>2, <1>5
  <2>2. RestartAt(i - 1, c)' <=> RestartAt((i - 1) + 1, c)
    BY <1>3, <2>1
  <2>3. ~RestartAt(i - 1, c)'
    BY <1>5, <2>1 DEF Waiting
  <2> QED BY <2>1, <2>2, <2>3
<1>6. ASSUME NEW c \in Conns, ~Waiting(c)', ~RestartRuns(c)'
      PROVE  ~Waiting(c) /\ ~RestartRuns(c)
  <2>1. ~RestartRuns(c)
    BY <1>1 DEF RestartRuns
  <2>2. \A i \in 1..Len(tasks) : ~RestartAt(i, c)
    BY <1>4, <1>5, <1>6
  <2> QED BY <2>1, <2>2 DEF Waiting
<1>7. ASSUME NEW c \in Conns, NEW i \in 1..Len(tasks'), RestartAt(i, c)',
             \A j \in i + 1..Len(tasks') : ~RestartAt(j, c)'
      PROVE  tasks'[i].arg = conns'[c].role
  <2>1. i + 1 \in 1..Len(tasks) /\ RestartAt(i + 1, c) /\ tasks'[i] = tasks[i + 1]
    BY <1>1, <1>2, <1>3, <1>7
  <2>2. ASSUME NEW j \in (i + 1) + 1..Len(tasks)
        PROVE  ~RestartAt(j, c)
    <3>1. /\ j - 1 \in i + 1..Len(tasks') /\ j - 1 \in 1..Len(tasks') /\ (j - 1) + 1 = j
      BY <1>1, <2>2
    <3>2. RestartAt(j - 1, c)' <=> RestartAt((j - 1) + 1, c)
      BY <1>3, <3>1
    <3>3. ~RestartAt(j - 1, c)'
      BY <1>7, <3>1
    <3> QED BY <3>1, <3>2, <3>3
  <2>3. tasks[i + 1].arg = conns[c].role
    BY <2>1, <2>2 DEF RestartInv
  <2> QED BY <1>1, <2>1, <2>3
<1>8. ASSUME NEW c \in Conns, RestartRuns(c)', ~Waiting(c)'
      PROVE  running'.arg = conns'[c].role
  <2>1. RestartAt(1, c) /\ 1 \in 1..Len(tasks)
    BY <1>2, <1>4, <1>8
  <2>2. \A j \in 1 + 1..Len(tasks) : ~RestartAt(j, c)
    BY <1>5, <1>8
  <2>3. tasks[1].arg = conns[c].role
    BY <2>1, <2>2 DEF RestartInv
  <2> QED BY <1>1, <2>3
<1> QED BY <1>6, <1>7, <1>8 DEF RestartInv

\* What the model and the connection agree on stays so.
LEMMA PromptStays ==
  ASSUME PromptInv, UNCHANGED <<prompt, promptBy, failed>>,
         \A c \in promptBy \ failed :
           ~Waiting(c)' /\ ~RestartRuns(c)' /\ newRole'[c] = NoRole
             => /\ ~Waiting(c) /\ ~RestartRuns(c) /\ newRole[c] = NoRole
                /\ conns'[c].role = conns[c].role
  PROVE  PromptInv'
<1> SUFFICES ASSUME NEW c \in promptBy \ failed,
                    ~Waiting(c)' /\ ~RestartRuns(c)', newRole'[c] = NoRole
             PROVE  conns'[c].role = prompt'
  BY DEF PromptInv
<1>1. /\ ~Waiting(c) /\ ~RestartRuns(c) /\ newRole[c] = NoRole
      /\ conns'[c].role = conns[c].role
  OBVIOUS
<1>2. conns[c].role = prompt
  BY <1>1 DEF PromptInv
<1> QED BY <1>1, <1>2

\* Nothing is submitted, and the worker goes on or has finished something other
\* than a restart.
LEMMA RolesServed ==
  ASSUME TypeOK, RestartInv, PromptInv, UNCHANGED <<tasks, prompt, promptBy, failed>>,
         running' = running \/ (running' = NoTask /\ running.kind # "restart"),
         RolesStay, \A c \in Conns : newRole'[c] = NoRole => newRole[c] = NoRole
  PROVE  RestartInv' /\ PromptInv'
<1>1. RestartInv'
  BY RestartsServed
<1>2. \A c \in promptBy \ failed : c \in Conns
  BY DEF TypeOK
<1>3. \A c \in promptBy \ failed :
        ~Waiting(c)' /\ ~RestartRuns(c)' /\ newRole'[c] = NoRole
          => /\ ~Waiting(c) /\ ~RestartRuns(c) /\ newRole[c] = NoRole
             /\ conns'[c].role = conns[c].role
  BY <1>2 DEF Waiting, RestartAt, RestartRuns, RolesStay
<1> QED BY <1>1, <1>3, PromptStays

\* A connection changes in other ways than its role.
LEMMA RoleStays ==
  ASSUME NEW c \in Conns, NEW status, NEW sid, ConnIs(c, status, sid, conns[c].role)
  PROVE  RolesStay
BY DEF ConnIs, RolesStay

LEMMA RoleStep ==
  ASSUME TypeOK, Bounded, IdsInv, OpenInv, RestartInv, PromptInv, [Next]_vars
  PROVE  RestartInv' /\ PromptInv'
<1> USE RowTypes, ConnTypes, HistoryAssumption
<1>0. /\ \A c \in Conns : newId[c] \in Nat /\ newRole[c] \in Roles \union {NoRole}
      /\ newId \in [Conns -> Nat] /\ newRole \in [Conns -> Roles \union {NoRole}]
      /\ promptBy \subseteq Conns
  BY DEF TypeOK
<1>1. ASSUME UNCHANGED conns
      PROVE  RolesStay
  BY <1>1 DEF RolesStay
<1>3. ASSUME NEW c \in Conns, Accept(c)
      PROVE  RestartInv' /\ PromptInv'
  <2>1. UNCHANGED <<newRole, tasks, running, prompt, promptBy, failed>>
    BY <1>3, Accepted
  <2>2. RolesStay
    <3>1. \E sid \in Nat : ConnIs(c, "open", sid, conns[c].role)
      BY <1>3, AcceptedConn
    <3> QED BY <3>1, RoleStays
  <2> QED BY <2>1, <2>2, RolesServed
<1>4. ASSUME NEW c \in Conns, Close(c) \/ Free(c)
      PROVE  RestartInv' /\ PromptInv'
  <2>1. PICK status \in Statuses : ConnIs(c, status, conns[c].sid, conns[c].role)
    BY <1>4, Closed
  <2>2. UNCHANGED <<newRole, tasks, running, prompt, promptBy, failed>>
    BY <1>4, Closed
  <2>3. RolesStay
    BY <2>1, RoleStays
  <2> QED BY <2>2, <2>3, RolesServed
<1>5. ASSUME NEW task \in Task, task.kind # "restart", Submit(task),
             UNCHANGED <<conns, newRole, running, prompt, promptBy, failed>>
      PROVE  RestartInv' /\ PromptInv'
  <2>1. RestartInv' /\ \A c \in Conns : Waiting(c) => Waiting(c)'
    BY <1>5, RestartsSubmitted
  <2>2. \A c \in promptBy \ failed :
          ~Waiting(c)' /\ ~RestartRuns(c)' /\ newRole'[c] = NoRole
            => /\ ~Waiting(c) /\ ~RestartRuns(c) /\ newRole[c] = NoRole
               /\ conns'[c].role = conns[c].role
    BY <1>0, <1>5, <2>1 DEF RestartRuns
  <2> QED BY <1>5, <2>1, <2>2, PromptStays
<1>6. ASSUME NEW c \in Conns, NewSession(c)
      PROVE  RestartInv' /\ PromptInv'
  <2> DEFINE task == [kind |-> "reset", conn |-> c, arg |-> 0]
  <2>1. task \in Task /\ task.kind # "restart"
    BY DEF Task
  <2>2. Submit(task) /\ UNCHANGED <<conns, newRole, running, prompt, promptBy, failed>>
    BY <1>6 DEF NewSession
  <2> HIDE DEF task
  <2> QED BY <1>5, <2>1, <2>2
<1>7. ASSUME NEW c \in Conns, NEW r \in Roles, SetRole(c, r)
      PROVE  RestartInv' /\ PromptInv'
  <2>1. /\ newRole' = [newRole EXCEPT ![c] = r]
        /\ UNCHANGED <<conns, tasks, running, prompt, promptBy, failed>>
    BY <1>7 DEF SetRole
  <2>2. \A d \in Conns : newRole'[d] = NoRole => newRole[d] = NoRole
    BY <1>0, <2>1
  <2> QED BY <1>1, <2>1, <2>2, RolesServed
<1>8. CASE SubmitRestart
  <2>0. PICK c \in Conns, role \in Roles : c = call["io"].conn /\ role = newRole[c]
    BY <1>8 DEF SubmitRestart, Threads, IdsInv, TypeOK
  <2> DEFINE task == [kind |-> "restart", conn |-> c, arg |-> role]
  <2>1. /\ Submit(task)
        /\ newRole' = [newRole EXCEPT ![c] = NoRole]
        /\ UNCHANGED <<running, prompt, promptBy, failed>>
        /\ conns' = [conns EXCEPT ![c].role = role]
    BY <1>8, <2>0 DEF SubmitRestart
  <2>2. ConnIs(c, conns[c].status, conns[c].sid, role)
    BY <2>1, RoleChanges
  <2>3. task \in Task /\ task.kind = "restart" /\ task.conn = c /\ task.arg = role
    BY <2>1 DEF Task
  <2> HIDE DEF task
  <2>4. /\ RestartInv' /\ Waiting(c)' /\ \A d \in Conns : Waiting(d) => Waiting(d)'
    <3>1. /\ \A d \in Conns : ~(task.kind = "restart" /\ task.conn = d)
                                => conns'[d].role = conns[d].role
          /\ task.arg = conns'[task.conn].role
      BY <2>2, <2>3 DEF ConnIs
    <3>2. /\ RestartInv' /\ \A d \in Conns : Waiting(d) => Waiting(d)'
          /\ \E d \in Conns : d = c /\ Waiting(d)'
      <4>1. /\ Len(tasks') = Len(tasks) + 1 /\ tasks'[Len(tasks) + 1] = task
        BY <2>1, <2>3, Submitted
      <4>2. Waiting(c)'
        BY <2>3, <4>1 DEF Waiting, RestartAt
      <4> QED BY <2>1, <2>3, <3>1, <4>2, RestartsSubmitted
    <3> QED BY <3>2
  <2>5. \A d \in promptBy \ failed :
          ~Waiting(d)' /\ ~RestartRuns(d)' /\ newRole'[d] = NoRole
            => /\ ~Waiting(d) /\ ~RestartRuns(d) /\ newRole[d] = NoRole
               /\ conns'[d].role = conns[d].role
    <3> SUFFICES ASSUME NEW d \in Conns, ~Waiting(d)', ~RestartRuns(d)', newRole'[d] = NoRole
                 PROVE  /\ ~Waiting(d) /\ ~RestartRuns(d) /\ newRole[d] = NoRole
                        /\ conns'[d].role = conns[d].role
      BY <1>0
    <3>1. d # c
      BY <2>4
    <3>2. ~Waiting(d) /\ ~RestartRuns(d)
      BY <2>1, <2>4 DEF RestartRuns
    <3> QED BY <1>0, <2>1, <2>2, <3>1, <3>2 DEF ConnIs
  <2> QED BY <2>1, <2>4, <2>5, PromptStays
<1>9. ASSUME NEW t \in Threads, ToolReply(t)
      PROVE  RestartInv' /\ PromptInv'
  <2>1. UNCHANGED <<conns, newRole, tasks, running, prompt, promptBy, failed>>
    BY <1>9 DEF ToolReply
  <2> QED BY <1>1, <2>1, RolesServed
<1>10. ASSUME NEW t \in Threads, SubmitChat(t)
       PROVE  RestartInv' /\ PromptInv'
  <2> DEFINE task == [kind |-> "chat", conn |-> call[t].conn, arg |-> call[t].turn]
  <2>1. call[t].turn \in 1..MaxInputs
    BY <1>10, OpenTurns DEF SubmitChat
  <2>2. task \in Task /\ task.kind # "restart"
    BY <2>1 DEF Task
  <2>3. Submit(task) /\ UNCHANGED <<conns, newRole, running, prompt, promptBy, failed>>
    BY <1>10 DEF SubmitChat
  <2> HIDE DEF task
  <2> QED BY <1>5, <2>2, <2>3
<1>11. ASSUME NEW t \in Threads, NEW c \in Conns, Ask(t, c)
       PROVE  RestartInv' /\ PromptInv'
  <2>1. UNCHANGED <<conns, newRole, tasks, running, prompt, promptBy, failed>>
    BY <1>11 DEF Ask
  <2> QED BY <1>1, <2>1, RolesServed
<1>12. CASE Pop
  <2>1. /\ RestartInv'
        /\ \A c \in Conns : ~Waiting(c)' /\ ~RestartRuns(c)' => ~Waiting(c) /\ ~RestartRuns(c)
    BY <1>12, RestartsPopped
  <2>2. UNCHANGED <<conns, newRole, prompt, promptBy, failed>>
    BY <1>12 DEF Pop
  <2>3. \A c \in promptBy \ failed :
          ~Waiting(c)' /\ ~RestartRuns(c)' /\ newRole'[c] = NoRole
            => /\ ~Waiting(c) /\ ~RestartRuns(c) /\ newRole[c] = NoRole
               /\ conns'[c].role = conns[c].role
    BY <1>0, <2>1, <2>2
  <2> QED BY <2>1, <2>2, <2>3, PromptStays
<1>13. CASE FinishChat
  <2>1. /\ UNCHANGED <<conns, newRole, tasks, prompt, promptBy, failed>>
        /\ running' = NoTask /\ running.kind # "restart"
    BY <1>13 DEF FinishChat
  <2> QED BY <1>1, <2>1, RolesServed
<1>14. CASE FinishReset
  <2>1. /\ running.kind = "reset" /\ running' \in {running, NoTask}
        /\ UNCHANGED <<conns, newRole, tasks, prompt, promptBy, failed>>
    BY <1>14, ResetFinished
  <2> QED BY <1>1, <2>1, RolesServed
<1>15. CASE EndSwitch
  <2>1. /\ running.conn \in Conns /\ running' = NoTask /\ running.kind # "restart"
        /\ ConnIs(running.conn, conns[running.conn].status, newId[running.conn],
                  conns[running.conn].role)
        /\ UNCHANGED <<newRole, tasks, prompt, promptBy, failed>>
    BY <1>15, Switched
  <2>2. RolesStay
    BY <2>1, RoleStays
  <2> QED BY <2>1, <2>2, RolesServed
<1>16. CASE FinishRestart
  <2>0. PICK c \in Conns : c = running.conn
    BY <1>16, RestartFinished
  <2>1. /\ running.kind = "restart" /\ running' = NoTask
        /\ UNCHANGED <<conns, newRole, tasks>>
        /\ \/ prompt' = running.arg /\ promptBy' = {c}
           \/ promptBy' = {}
           \/ failed' = failed \union {c} /\ UNCHANGED <<prompt, promptBy>>
    BY <1>16, <2>0, RestartFinished
  <2>2. RestartInv'
    BY <2>1, RestartsServed DEF RolesStay
  <2>3. CASE promptBy' = {}
    BY <2>2, <2>3 DEF PromptInv
  <2>4. CASE prompt' = running.arg /\ promptBy' = {c}
    <3> SUFFICES ASSUME ~Waiting(c)'
                 PROVE  conns'[c].role = prompt'
      BY <2>2, <2>4 DEF PromptInv
    <3>1. RestartRuns(c) /\ ~Waiting(c)
      BY <2>0, <2>1 DEF RestartRuns, Waiting, RestartAt
    <3>2. running.arg = conns[c].role
      BY <2>1, <3>1 DEF RestartInv
    <3> QED BY <2>1, <2>4, <3>2
  \* Another connection's prompt stays, and so does what follows from it.
  <2>5. CASE failed' = failed \union {c} /\ UNCHANGED <<prompt, promptBy>>
    <3> SUFFICES ASSUME NEW d \in promptBy \ failed, d # c,
                        ~Waiting(d)', ~RestartRuns(d)', newRole'[d] = NoRole
                 PROVE  conns'[d].role = prompt'
      BY <2>2, <2>5 DEF PromptInv
    <3>1. ~Waiting(d) /\ ~RestartRuns(d) /\ newRole[d] = NoRole
      BY <2>0, <2>1 DEF RestartRuns, Waiting, RestartAt
    <3> QED BY <2>1, <2>5, <3>1 DEF PromptInv
  <2> QED BY <2>1, <2>3, <2>4, <2>5
<1>17. CASE Crash
  <2>1. promptBy' = {} /\ tasks' = <<>> /\ running' = NoTask
    BY <1>17 DEF Crash, Boot
  <2>2. Len(tasks') = 0
    BY <2>1, EmptySeq
  <2> QED BY <2>1, <2>2 DEF RestartInv, PromptInv, RestartAt, RestartRuns, NoTask
<1>18. CASE UNCHANGED vars
  BY <1>1, <1>18, RolesServed DEF vars, procVars
<1> QED BY <1>3, <1>4, <1>6, <1>7, <1>8, <1>9, <1>10, <1>11, <1>12, <1>13, <1>14, <1>15, <1>16,
           <1>17, <1>18 DEF Next, Worker

-----------------------------------------------------------------------------
(* The roles the sessions are filed under. *)

\* Sessions keep their roles, and connections their ids or those being written.
LEMMA DriftStays ==
  ASSUME TypeOK, IdsInv, DriftInv, UNCHANGED <<prompt, promptBy, adrift>>,
         Len(sessions') = Len(sessions),
         \A s \in 1..Len(sessions) : sessions'[s].role = sessions[s].role,
         \A c \in Conns : /\ conns'[c].sid \in {conns[c].sid, newId[c]}
                          /\ newId'[c] \in {newId[c], NoSession}
  PROVE  DriftInv'
<1> USE RowTypes, ConnTypes
<1> SUFFICES ASSUME NEW c \in promptBy, NEW s \in {conns'[c].sid, newId'[c]},
                    s \in 1..Len(sessions) \ adrift
             PROVE  sessions[s].role = prompt
  BY DEF DriftInv
<1>1. c \in Conns
  BY DEF TypeOK
<1>2. s \in {conns[c].sid, newId[c]}
  BY <1>1 DEF NoSession
<1> QED BY <1>2 DEF DriftInv

\* A session is made for one of them.
LEMMA DriftGrows ==
  ASSUME TypeOK, IdsInv, DriftInv, UNCHANGED <<prompt, promptBy>>,
         NEW c \in Conns, Drifts(c), Len(sessions') = Len(sessions) + 1,
         \A s \in 1..Len(sessions) : sessions'[s] = sessions[s],
         sessions'[Len(sessions) + 1].role \in SeenRole(c),
         \A d \in Conns : /\ conns'[d].sid \in {conns[d].sid} \union
                               (IF d = c THEN {Len(sessions) + 1} ELSE {})
                          /\ newId'[d] \in {newId[d]} \union
                               (IF d = c THEN {Len(sessions) + 1} ELSE {})
  PROVE  DriftInv'
<1> USE RowTypes, ConnTypes
<1> SUFFICES ASSUME NEW d \in promptBy, NEW s \in {conns'[d].sid, newId'[d]},
                    s \in 1..Len(sessions') \ adrift'
             PROVE  sessions'[s].role = prompt
  BY DEF DriftInv
<1>1. d \in Conns /\ newId[d] \in Nat
  BY DEF TypeOK
<1>2. s \notin adrift
  BY DEF Drifts
<1>3. CASE s \in {conns[d].sid, newId[d]}
  <2>1. s \in 1..Len(sessions)
    BY <1>1, <1>3 DEF IdsInv
  <2> QED BY <1>2, <1>3, <2>1 DEF DriftInv
<1>4. CASE d = c /\ s = Len(sessions) + 1
  <2>1. conns[c].role = prompt /\ newRole[c] = NoRole
    BY <1>4 DEF Drifts
  <2> QED BY <1>4, <2>1 DEF SeenRole
<1> QED BY <1>1, <1>3, <1>4

LEMMA DriftStep ==
  ASSUME TypeOK, Bounded, IdsInv, OpenInv, DriftInv, [Next]_vars
  PROVE  DriftInv'
<1> USE RowTypes, ConnTypes, HistoryAssumption
<1>0. /\ \A c \in Conns : newId[c] \in Nat
      /\ newId \in [Conns -> Nat] /\ promptBy \subseteq Conns
  BY DEF TypeOK
<1>1. ASSUME UNCHANGED <<sessions, conns, newId, prompt, promptBy, adrift>>
      PROVE  DriftInv'
  BY <1>1 DEF DriftInv
<1>2. ASSUME NEW n, NEW c \in Conns, Stored(n, c),
             UNCHANGED <<conns, newId, prompt, promptBy, adrift>>
      PROVE  DriftInv'
  BY <1>2, DriftStays DEF Stored
<1>3. ASSUME NEW c \in Conns, Accept(c)
      PROVE  DriftInv'
  <2>1. UNCHANGED <<newId, prompt, promptBy>>
    BY <1>3, Accepted
  <2>2. CASE /\ ConnIs(c, "open", Len(sessions) + 1, conns[c].role)
             /\ Len(sessions') = Len(sessions) + 1
             /\ \A s \in 1..Len(sessions) : sessions'[s] = sessions[s]
             /\ sessions'[Len(sessions) + 1].role = conns[c].role
             /\ Drifts(c)
    <3>1. conns[c].role \in SeenRole(c)
      BY DEF SeenRole
    <3>2. \A d \in Conns : conns'[d].sid = IF d = c THEN Len(sessions) + 1 ELSE conns[d].sid
      BY <2>2 DEF ConnIs
    <3> QED BY <2>1, <2>2, <3>1, <3>2, DriftGrows
  <2>3. CASE /\ ConnIs(c, "open", conns[c].sid, conns[c].role)
             /\ UNCHANGED <<sessions, adrift>>
    <3>1. \A d \in Conns : conns'[d].sid = conns[d].sid
      BY <2>3 DEF ConnIs
    <3> QED BY <2>1, <2>3, <3>1, DriftStays
  <2> QED BY <1>3, <2>2, <2>3, Accepted
<1>4. ASSUME NEW c \in Conns, Close(c) \/ Free(c)
      PROVE  DriftInv'
  <2>1. PICK status \in Statuses : ConnIs(c, status, conns[c].sid, conns[c].role)
    BY <1>4, Closed
  <2>2. UNCHANGED <<sessions, newId, prompt, promptBy, adrift>>
    BY <1>4, Closed DEF storeVars
  <2>3. \A d \in Conns : conns'[d].sid = conns[d].sid
    BY <2>1 DEF ConnIs
  <2> QED BY <2>2, <2>3, DriftStays
<1>5. ASSUME NEW c \in Conns, NEW r \in Roles, SetRole(c, r)
      PROVE  DriftInv'
  BY <1>1, <1>5 DEF SetRole, storeVars
<1>6. ASSUME NEW c \in Conns, NewSession(c)
      PROVE  DriftInv'
  BY <1>1, <1>6 DEF NewSession, storeVars
<1>7. CASE SubmitRestart
  <2>1. PICK c \in Conns, role \in Roles :
          /\ conns' = [conns EXCEPT ![c].role = role]
          /\ UNCHANGED <<sessions, newId, prompt, promptBy, adrift>>
    BY <1>7 DEF SubmitRestart, storeVars, Threads, IdsInv, TypeOK
  <2>2. \A d \in Conns : conns'[d].sid = conns[d].sid
    BY <2>1, RoleChanges DEF ConnIs
  <2> QED BY <2>1, <2>2, DriftStays
<1>8. ASSUME NEW t \in Threads, ToolReply(t)
      PROVE  DriftInv'
  <2>1. UNCHANGED <<conns, newId, prompt, promptBy, adrift>>
    BY <1>8 DEF ToolReply
  <2> QED BY <1>2, <1>8, <2>1, ToolReplied
<1>9. ASSUME NEW t \in Threads, SubmitChat(t)
      PROVE  DriftInv'
  BY <1>1, <1>9 DEF SubmitChat, storeVars
<1>10. ASSUME NEW t \in Threads, NEW c \in Conns, Ask(t, c)
       PROVE  DriftInv'
  <2>1. UNCHANGED <<conns, newId, prompt, promptBy, adrift>>
    BY <1>10, Asked
  <2> QED BY <1>2, <1>10, <2>1, Asked
<1>11. CASE Pop
  BY <1>1, <1>11 DEF Pop, storeVars
<1>12. CASE FinishChat
  <2>1. UNCHANGED <<conns, newId, prompt, promptBy, adrift>>
    BY <1>12 DEF FinishChat
  <2> QED BY <1>1, <1>2, <1>12, <2>1, ChatFinished DEF storeVars
<1>13. CASE FinishReset
  <2> DEFINE c == running.conn
  <2>1. c \in Conns /\ UNCHANGED <<conns, prompt, promptBy>>
    BY <1>13, ResetFinished
  <2>2. CASE /\ Len(sessions') = Len(sessions) + 1
             /\ \A s \in 1..Len(sessions) : sessions'[s] = sessions[s]
             /\ sessions'[Len(sessions) + 1].role \in SeenRole(c)
             /\ newId' = [newId EXCEPT ![c] = Len(sessions) + 1]
             /\ Drifts(c)
    <3>1. \A d \in Conns : newId'[d] = IF d = c THEN Len(sessions) + 1 ELSE newId[d]
      BY <1>0, <2>1, <2>2
    <3> QED BY <2>1, <2>2, <3>1, DriftGrows
  <2>3. CASE UNCHANGED <<sessions, adrift, newId>>
    BY <1>1, <2>1, <2>3
  <2> QED BY <1>13, <2>2, <2>3, ResetFinished
<1>14. CASE EndSwitch
  <2> DEFINE c == running.conn
  <2>1. /\ c \in Conns /\ ConnIs(c, conns[c].status, newId[c], conns[c].role)
        /\ newId' = [newId EXCEPT ![c] = NoSession]
        /\ UNCHANGED <<sessions, prompt, promptBy, adrift>>
    BY <1>14, Switched DEF storeVars
  <2>2. \A d \in Conns : /\ conns'[d].sid \in {conns[d].sid, newId[d]}
                         /\ newId'[d] \in {newId[d], NoSession}
    BY <1>0, <2>1 DEF ConnIs
  <2> QED BY <2>1, <2>2, DriftStays
<1>15. CASE FinishRestart
  <2> DEFINE c == running.conn
             s == conns[c].sid
  <2>1. /\ running.kind = "restart" /\ c \in Conns /\ UNCHANGED <<conns, newId>>
        /\ Len(sessions') = Len(sessions)
        /\ \/ /\ prompt' = running.arg /\ promptBy' = {c}
              /\ s \in 1..Len(sessions) \ adrift' => sessions'[s].role = running.arg
           \/ promptBy' = {}
           \/ UNCHANGED <<sessions, prompt, promptBy, adrift>>
    BY <1>15, RestartFinished
  <2>2. newId[c] = 0
    BY <2>1 DEF IdsInv, NoSession
  <2>3. CASE /\ prompt' = running.arg /\ promptBy' = {c}
             /\ s \in 1..Len(sessions) \ adrift' => sessions'[s].role = running.arg
    BY <2>1, <2>2, <2>3 DEF DriftInv
  <2>4. CASE promptBy' = {}
    BY <2>4 DEF DriftInv
  <2>5. CASE UNCHANGED <<sessions, prompt, promptBy, adrift>>
    BY <1>1, <2>1, <2>5
  <2> QED BY <2>1, <2>3, <2>4, <2>5
<1>16. CASE Crash
  BY <1>16 DEF Crash, Boot, DriftInv
<1>17. CASE UNCHANGED vars
  BY <1>1, <1>17 DEF vars, procVars, storeVars
<1> QED BY <1>3, <1>4, <1>5, <1>6, <1>7, <1>8, <1>9, <1>10, <1>11, <1>12, <1>13, <1>14, <1>15,
           <1>16, <1>17 DEF Next, Worker

-----------------------------------------------------------------------------
(* The theorems. *)

LEMMA InvHolds == Spec => []Inv
<1>1. Init => Inv
  <2> SUFFICES ASSUME Init
               PROVE  Inv
    OBVIOUS
  <2>1. /\ sessions = <<>> /\ messages = <<>> /\ tasks = <<>> /\ turns = <<>>
        /\ Len(sessions) = 0 /\ Len(messages) = 0 /\ Len(tasks) = 0 /\ Len(turns) = 0
    BY EmptySeq DEF Init, StoreInit
  <2>2. TypeOK
    BY <2>1, EmptySeq, HistoryAssumption
       DEF Init, StoreInit, TypeOK, NoSession, NoTask, NoCall, Threads
  <2>3. Bounded
    BY <2>1, HistoryAssumption DEF Init, Bounded
  <2>4. IdsInv
    BY <2>1 DEF Init, IdsInv, NoSession, Threads
  <2>5. \A n, c : ~Open(n, c)
    BY <2>1 DEF Init, Open, NoTask
  <2>6. OpenInv /\ FileInv
    BY <2>1, <2>5 DEF Init, OpenInv, FileInv
  <2>7. RestartInv /\ PromptInv /\ DriftInv
    BY <2>1 DEF Init, RestartInv, PromptInv, DriftInv, RestartRuns, NoTask
  <2> QED BY <2>2, <2>3, <2>4, <2>6, <2>7 DEF Inv
<1>2. Inv /\ [Next]_vars => Inv'
  BY TypeStep, IdsStep, OpenStep, FileStep, RoleStep, DriftStep DEF Inv
<1> QED BY <1>1, <1>2, PTL DEF Spec

\* Every variable keeps its type, whatever is stored, refused, reset or dies.
THEOREM TypeCorrect == Spec => []TypeOK
BY InvHolds, PTL DEF Inv

\* For any numbers of connections, turns and resets, with any failures and
\* deaths of the process and for whatever the unlocked session_id_ reads as, a
\* question and its reply are filed in one session that exists, unless a reset
\* of that connection was under way.  (ws_session.cpp:248-255, 322, 386-405)
THEOREM FiledTheorem == Spec => []FiledTogether
<1>1. Inv => FiledTogether
  BY RowTypes DEF Inv, FileInv, FiledTogether
<1> QED BY <1>1, InvHolds, PTL

\* When nothing is under way the connection that gave the model its present prompt
\* has the role of it, whatever others have failed to change since, unless its own
\* last change has failed; and its session is filed under that role, whatever has
\* failed, unless it was made while the connection's role was another one or the
\* store refused the role.  (ws_session.cpp:356-405)
THEOREM RoleTheorem == Spec => []RoleFollowsPrompt
<1>1. Inv => RoleFollowsPrompt
  <2> SUFFICES ASSUME Inv, AtRest, NEW c \in promptBy
               PROVE  /\ conns[c].role = prompt \/ c \in failed
                      /\ conns[c].sid \in DOMAIN sessions \ adrift
                           => sessions[conns[c].sid].role = prompt
    BY DEF RoleFollowsPrompt
  <2>1. /\ Len(tasks) = 0 /\ running.kind = "none" /\ pc["io"] = "idle" /\ c \in Conns
        /\ DOMAIN sessions = 1..Len(sessions)
    BY RowTypes, EmptySeq DEF AtRest, Threads, Inv, TypeOK
  <2>2. ~Waiting(c) /\ ~RestartRuns(c) /\ newRole[c] = NoRole
    BY <2>1 DEF Waiting, RestartRuns, Inv, IdsInv
  <2>3. conns[c].role = prompt \/ c \in failed
    BY <2>1, <2>2 DEF Inv, PromptInv
  <2> QED BY <2>1, <2>3 DEF Inv, DriftInv
<1> QED BY <1>1, InvHolds, PTL

-----------------------------------------------------------------------------
(* The rows of the store, and what is still to come of the turns. *)

\* A turn has its reply in the store; the worker is at it; it is the i-th task;
\* the thread that started it has not replied or submitted it yet.
Answered(n) == \E i \in 1..Len(messages) :
                 messages[i].turn = n /\ messages[i].from = "assistant"
Runs(n) == running.kind = "chat" /\ running.arg = n
Waits(n, i) == i \in 1..Len(tasks) /\ tasks[i].kind = "chat" /\ tasks[i].arg = n
Queued(n) == \E i \in 1..Len(tasks) : Waits(n, i)
Asks(n) == \E t \in Threads : pc[t] \in {"tool", "submit"} /\ call[t].turn = n

\* Two turns of one thread that go through the queue, or one and the same.
InLine(n, m) ==
  /\ turns[n].thread = turns[m].thread
  /\ ~turns[n].tool /\ ~turns[m].tool
Paired(n, m) == n = m \/ InLine(n, m)

\* Turns of one thread go along in order, and each is at one place only.
LineInv ==
  \A n, m \in 1..Len(turns) :
    Paired(n, m) =>
      /\ Answered(n) /\ (Runs(m) \/ Queued(m) \/ Asks(m)) => n < m
      /\ Runs(n) /\ (Queued(m) \/ Asks(m)) => n < m
      /\ Queued(n) /\ Asks(m) => n < m
      /\ \A i, j \in 1..Len(tasks) : i < j /\ Waits(n, i) /\ Waits(m, j) => n < m

\* A turn in the hands of a thread was started by it, and the answer of a tool
\* is on its way only if there is one.
ThreadInv ==
  \A t \in Threads :
    pc[t] \in {"tool", "submit"} =>
      /\ turns[call[t].turn].thread = t
      /\ pc[t] = "tool" => turns[call[t].turn].tool

\* No message is stored twice, no reply before its question, and the replies
\* to the questions of a thread are stored in order.
RowInv ==
  \A i, j \in 1..Len(messages) :
    /\ messages[i].turn = messages[j].turn /\ messages[i].from = messages[j].from => i = j
    /\ /\ messages[i].turn = messages[j].turn
       /\ messages[i].from = "user" /\ messages[j].from = "assistant"
       => i < j
    /\ /\ messages[i].from = "assistant" /\ messages[j].from = "assistant"
       /\ InLine(messages[i].turn, messages[j].turn)
       /\ messages[i].turn < messages[j].turn
       => i < j

\* A turn that has lost nothing has its question in the store, and its reply is
\* there or on its way.
Questioned(n) == \E i \in 1..Len(messages) :
                   messages[i].turn = n /\ messages[i].from = "user"
AnswerInv ==
  \A n \in 1..Len(turns) :
    ~turns[n].lost => /\ Questioned(n)
                      /\ Answered(n) \/ Runs(n) \/ Queued(n) \/ Asks(n)

\* No message is filed under an id that is still to come, and the title of a
\* session is the first question that made one.
Named(i, s) == /\ messages[i].sid = s /\ messages[i].from = "user" /\ messages[i].touched
               /\ messages[i].turn \notin Untitled
TitleInv ==
  /\ \A i \in 1..Len(messages) : messages[i].sid <= Len(sessions)
  /\ \A s \in 1..Len(sessions) :
       \/ sessions[s].title = Placeholder /\ \A i \in 1..Len(messages) : ~Named(i, s)
       \/ \E i \in 1..Len(messages) :
            /\ Named(i, s) /\ sessions[s].title = messages[i].turn
            /\ \A j \in 1..i - 1 : ~Named(j, s)

\* What is noted of a turn besides stays.
TurnsStay ==
  /\ turns' \in Seq(TurnRow) /\ Len(turns) <= Len(turns')
  /\ \A n \in 1..Len(turns) : /\ turns'[n].thread = turns[n].thread
                              /\ turns'[n].tool = turns[n].tool
                              /\ turns[n].lost => turns'[n].lost

\* A message has been filed.
Filed(sid, from, n, touched) ==
  /\ Len(messages') = Len(messages) + 1
  /\ \A i \in 1..Len(messages) : messages'[i] = messages[i]
  /\ messages'[Len(messages) + 1] = [sid |-> sid, from |-> from, turn |-> n,
                                     touched |-> touched]
  /\ Len(sessions') = Len(sessions)
  /\ \A s \in 1..Len(sessions) :
       sessions'[s].title = IF /\ touched /\ s = sid /\ from = "user"
                               /\ sessions[s].title = Placeholder
                            THEN Title(n) ELSE sessions[s].title

LEMMA Filing ==
  ASSUME TypeOK, NEW c \in Conns, NEW from \in {"user", "assistant"},
         NEW n \in 1..MaxInputs, NEW outcome \in Outcomes, Persist(c, from, n, outcome)
  PROVE  \/ outcome = "refused" /\ messages' = messages /\ sessions' = sessions
         \/ \E sid \in SeenId(c) \ {NoSession}, touched \in BOOLEAN : Filed(sid, from, n, touched)
<1> USE RowTypes
<1>1. SeenId(c) \subseteq Int
  BY DEF SeenId, TypeOK, Torn
<1>2. CASE outcome = "refused" /\ UNCHANGED storeVars
  BY <1>2 DEF storeVars
<1>3. ASSUME NEW sid \in SeenId(c), sid # NoSession, AppendMessage(sid, from, n, outcome)
      PROVE  \/ outcome = "refused" /\ messages' = messages /\ sessions' = sessions
             \/ \E touched \in BOOLEAN : Filed(sid, from, n, touched)
  <2>1. CASE outcome = "refused"
    BY <1>3, <2>1 DEF AppendMessage
  <2>2. CASE outcome # "refused"
    <3> DEFINE touched == outcome = "stored"
               row == [sid |-> sid, from |-> from, turn |-> n, touched |-> touched]
    <3>1. row \in MessageRow /\ touched \in BOOLEAN
      BY <1>1, <1>3 DEF MessageRow
    <3>2. messages' = Append(messages, row)
      BY <1>3, <2>2 DEF AppendMessage
    <3>3. /\ Len(messages') = Len(messages) + 1
          /\ \A i \in 1..Len(messages) : messages'[i] = messages[i]
          /\ messages'[Len(messages) + 1] = row
      <4> HIDE DEF row
      <4> QED BY <3>1, <3>2, AppendProperties
    <3>4. /\ Len(sessions') = Len(sessions)
          /\ \A s \in 1..Len(sessions) :
               sessions'[s].title = IF /\ touched /\ s = sid /\ from = "user"
                                       /\ sessions[s].title = Placeholder
                                    THEN Title(n) ELSE sessions[s].title
      <4>1. CASE /\ touched /\ sid \in DOMAIN sessions
                 /\ sessions[sid].title = Placeholder /\ from = "user"
        <5>1. sessions' = [sessions EXCEPT ![sid].title = Title(n)]
          BY <1>3, <4>1 DEF AppendMessage
        <5>2. DOMAIN sessions' = 1..Len(sessions) /\ Len(sessions') = Len(sessions)
          BY <5>1
        <5>3. sessions[sid] \in SessionRow
          BY <4>1
        <5> QED BY <4>1, <5>1, <5>2, <5>3 DEF SessionRow
      <4>2. CASE ~ (/\ touched /\ sid \in DOMAIN sessions
                    /\ sessions[sid].title = Placeholder /\ from = "user")
        <5>1. sessions' = sessions
          BY <1>3, <4>2 DEF AppendMessage
        <5> QED BY <4>2, <5>1
      <4> QED BY <4>1, <4>2
    <3> HIDE DEF touched
    <3>5. Filed(sid, from, n, touched)
      BY <3>3, <3>4 DEF Filed
    <3> QED BY <3>1, <3>5
  <2> QED BY <2>1, <2>2
<1> QED BY <1>2, <1>3 DEF Persist

\* The reply of turn n is filed, or lost.
ReplyFiled(n) ==
  /\ TurnsStay /\ Len(turns') = Len(turns)
  /\ \/ turns'[n].lost /\ messages' = messages /\ sessions' = sessions
     \/ \E c \in Conns : \E sid \in SeenId(c) \ {NoSession}, touched \in BOOLEAN :
          Filed(sid, "assistant", n, touched)

LEMMA LostStays ==
  ASSUME TypeOK, NEW n \in 1..Len(turns), NEW b \in BOOLEAN, turns[n].lost => b,
         turns' = [turns EXCEPT ![n].lost = b]
  PROVE  TurnsStay /\ Len(turns') = Len(turns) /\ turns'[n].lost = b
<1> DEFINE row == [turns[n] EXCEPT !.lost = b]
<1>1. /\ row \in TurnRow /\ row.thread = turns[n].thread /\ row.tool = turns[n].tool
      /\ row.lost = b
  BY RowTypes DEF TurnRow
<1>2. turns' = [turns EXCEPT ![n] = row]
  OBVIOUS
<1> HIDE DEF row
<1>3. /\ [turns EXCEPT ![n] = row] \in Seq(TurnRow)
      /\ Len([turns EXCEPT ![n] = row]) = Len(turns)
      /\ \A i \in 1..Len(turns) :
           [turns EXCEPT ![n] = row][i] = IF i = n THEN row ELSE turns[i]
  BY <1>1, RowTypes, ExceptSeq
<1>4. /\ turns' \in Seq(TurnRow) /\ Len(turns') = Len(turns)
      /\ \A i \in 1..Len(turns) : turns'[i] = IF i = n THEN row ELSE turns[i]
  BY <1>2, <1>3, Zenon
<1>5. Len(turns) <= Len(turns')
  BY <1>4, RowTypes
<1> QED BY <1>1, <1>4, <1>5 DEF TurnsStay

LEMMA ReplyStored ==
  ASSUME TypeOK, NEW c \in Conns, NEW n \in 1..Len(turns), n \in 1..MaxInputs,
         StoreReply(c, n)
  PROVE  ReplyFiled(n)
<1>1. PICK outcome \in Outcomes :
        /\ Persist(c, "assistant", n, outcome)
        /\ turns' = [turns EXCEPT ![n].lost = @ \/ outcome = "refused"]
  BY DEF StoreReply
<1>2. (turns[n].lost \/ outcome = "refused") \in BOOLEAN
  OBVIOUS
<1>3. /\ TurnsStay /\ Len(turns') = Len(turns)
      /\ turns'[n].lost = (turns[n].lost \/ outcome = "refused")
  BY <1>1, <1>2, LostStays
<1>4. \/ outcome = "refused" /\ messages' = messages /\ sessions' = sessions
      \/ \E sid \in SeenId(c) \ {NoSession}, touched \in BOOLEAN :
           Filed(sid, "assistant", n, touched)
  BY <1>1, Filing
<1> QED BY <1>3, <1>4 DEF ReplyFiled

LEMMA ToolReplyFiled ==
  ASSUME TypeOK, OpenInv, NEW t \in Threads, ToolReply(t)
  PROVE  /\ ReplyFiled(call[t].turn) /\ call[t].turn \in 1..Len(turns)
         /\ pc[t] = "tool" /\ pc' = [pc EXCEPT ![t] = "idle"]
         /\ call' = [call EXCEPT ![t] = NoCall] /\ UNCHANGED <<tasks, running>>
<1>1. call[t].turn \in 1..Len(turns) /\ call[t].turn \in 1..MaxInputs /\ call[t].conn \in Conns
  <2>1. Open(call[t].turn, call[t].conn) /\ call[t].turn \in 0..MaxInputs
        /\ call[t].conn \in Conns
    BY ConnTypes DEF ToolReply, Open
  <2> QED BY <2>1, RowTypes, HistoryAssumption DEF OpenInv
<1> QED BY <1>1, ReplyStored DEF ToolReply

LEMMA ChatReplyFiled ==
  ASSUME TypeOK, OpenInv, FinishChat
  PROVE  /\ ReplyFiled(running.arg) /\ running.arg \in 1..Len(turns)
         /\ Runs(running.arg) /\ running' = NoTask /\ UNCHANGED <<tasks, pc, call>>
<1>1. running.arg \in 1..Len(turns) /\ running.kind = "chat" /\ running.conn \in Conns
  BY ChatFinished
<1>2. running.arg \in 1..MaxInputs
  BY <1>1, TaskKinds DEF TypeOK, NoTask
<1>3. CASE StoreReply(running.conn, running.arg)
  BY <1>1, <1>2, <1>3, ReplyStored DEF FinishChat, Runs
<1>4. CASE turns' = [turns EXCEPT ![running.arg].lost = TRUE] /\ UNCHANGED <<storeVars, faults>>
  <2>1. TurnsStay /\ Len(turns') = Len(turns) /\ turns'[running.arg].lost
    BY <1>1, <1>4, LostStays
  <2> QED BY <1>1, <1>4, <2>1 DEF FinishChat, Runs, ReplyFiled, storeVars
<1> QED BY <1>3, <1>4 DEF FinishChat

\* The question of a new turn is filed, or lost.
LEMMA QuestionStored ==
  ASSUME TypeOK, Bounded, NEW t \in Threads, NEW c \in Conns, Ask(t, c),
         NEW n \in Nat, n = Len(turns) + 1
  PROVE  /\ TurnsStay /\ Len(turns') = n /\ turns'[n].thread = t
         /\ \/ turns'[n].lost /\ messages' = messages /\ sessions' = sessions
            \/ \E sid \in SeenId(c) \ {NoSession}, touched \in BOOLEAN :
                 Filed(sid, "user", n, touched)
         /\ pc[t] = "idle"
         /\ pc' = [pc EXCEPT ![t] = IF turns'[n].tool THEN "tool" ELSE "submit"]
         /\ call' = [call EXCEPT ![t] = [conn |-> c, turn |-> n]]
         /\ UNCHANGED <<tasks, running>>
<1> USE RowTypes
<1>1. n \in 1..MaxInputs /\ pc[t] = "idle" /\ UNCHANGED <<tasks, running>>
  BY Asked
<1>2. PICK outcome \in Outcomes, hit \in BOOLEAN :
        /\ Persist(c, "user", n, outcome)
        /\ turns' = Append(turns, [conn |-> c, thread |-> t, tool |-> hit,
                                   reset |-> ResetDue(c), lost |-> outcome = "refused"])
        /\ pc' = [pc EXCEPT ![t] = IF hit THEN "tool" ELSE "submit"]
  BY DEF Ask
<1>3. ResetDue(c) \in BOOLEAN /\ (outcome = "refused") \in BOOLEAN
  BY DEF ResetDue
<1> DEFINE row == [conn |-> c, thread |-> t, tool |-> hit, reset |-> ResetDue(c),
                   lost |-> outcome = "refused"]
<1>4. row \in TurnRow /\ row.thread = t /\ row.tool = hit /\ row.lost = (outcome = "refused")
  BY <1>3 DEF TurnRow
<1>5. turns' = Append(turns, row)
  BY <1>2
<1> HIDE DEF row
<1>6. /\ turns' \in Seq(TurnRow) /\ Len(turns') = n
      /\ \A i \in 1..Len(turns) : turns'[i] = turns[i]
      /\ turns'[n] = row
  BY <1>4, <1>5, AppendProperties
<1>7. TurnsStay
  BY <1>6 DEF TurnsStay
<1>8. \/ outcome = "refused" /\ messages' = messages /\ sessions' = sessions
      \/ \E sid \in SeenId(c) \ {NoSession}, touched \in BOOLEAN :
           Filed(sid, "user", n, touched)
  BY <1>1, <1>2, Filing
<1>9. call' = [call EXCEPT ![t] = [conn |-> c, turn |-> n]]
  BY DEF Ask
<1>10. TurnsStay /\ Len(turns') = n /\ turns'[n].thread = t
  BY <1>4, <1>6, <1>7
<1>11. \/ turns'[n].lost /\ messages' = messages /\ sessions' = sessions
      \/ \E sid \in SeenId(c) \ {NoSession}, touched \in BOOLEAN :
           Filed(sid, "user", n, touched)
  BY <1>4, <1>6, <1>8
<1>12. pc' = [pc EXCEPT ![t] = IF turns'[n].tool THEN "tool" ELSE "submit"]
  BY <1>2, <1>4, <1>6
<1> QED BY <1>1, <1>9, <1>10, <1>11, <1>12

\* Nothing is filed, no turn begins, and none on its way goes on.
Still ==
  /\ messages' = messages /\ TurnsStay /\ Len(turns') = Len(turns)
  /\ \A n \in Nat : Runs(n)' <=> Runs(n)
  /\ \A n, i \in Nat : Waits(n, i)' <=> Waits(n, i)
  /\ \A n \in Nat : Queued(n)' <=> Queued(n)
  /\ \A t \in Threads :
       pc[t] \in {"tool", "submit"} \/ pc'[t] \in {"tool", "submit"}
         => pc'[t] = pc[t] /\ call'[t] = call[t]

LEMMA SameTurns ==
  ASSUME TypeOK, UNCHANGED turns
  PROVE  TurnsStay /\ Len(turns') = Len(turns)
BY RowTypes DEF TurnsStay

\* A task that is no turn joins the queue.
LEMMA OtherTask ==
  ASSUME TypeOK, NEW task \in Task, task.kind # "chat", Submit(task)
  PROVE  /\ \A n, i \in Nat : Waits(n, i)' <=> Waits(n, i)
         /\ \A n \in Nat : Queued(n)' <=> Queued(n)
<1>1. /\ Len(tasks') = Len(tasks) + 1 /\ tasks'[Len(tasks) + 1] = task
      /\ \A i \in 1..Len(tasks) : tasks'[i] = tasks[i]
  BY Submitted
<1>2. \A n, i \in Nat : Waits(n, i)' <=> Waits(n, i)
  BY <1>1, RowTypes DEF Waits
<1>3. \A n : Queued(n) => Queued(n)'
  BY <1>1, RowTypes DEF Waits, Queued
<1>4. ASSUME NEW n, Queued(n)'
      PROVE  Queued(n)
  <2>1. PICK i \in 1..Len(tasks') : Waits(n, i)'
    BY <1>4 DEF Queued
  <2>2. i \in 1..Len(tasks) /\ tasks'[i] = tasks[i]
    BY <1>1, <2>1, RowTypes DEF Waits
  <2> QED BY <2>1, <2>2 DEF Waits, Queued
<1> QED BY <1>2, <1>3, <1>4

LEMMA StillStep ==
  ASSUME TypeOK, IdsInv,
         \/ \E c \in Conns : Accept(c) \/ Close(c) \/ Free(c) \/ NewSession(c)
         \/ \E c \in Conns, r \in Roles : SetRole(c, r)
         \/ SubmitRestart \/ FinishReset \/ EndSwitch \/ FinishRestart \/ UNCHANGED vars
  PROVE  Still
<1> USE RowTypes, ConnTypes
<1>1. ASSUME UNCHANGED <<messages, turns, tasks>>,
             \A t \in Threads :
               pc[t] \in {"tool", "submit"} \/ pc'[t] \in {"tool", "submit"}
                 => pc'[t] = pc[t] /\ call'[t] = call[t],
             running' = running \/ (running.kind # "chat" /\ running' = NoTask)
      PROVE  Still
  BY <1>1, SameTurns DEF Still, Runs, Waits, Queued, NoTask
<1>2. ASSUME NEW c \in Conns, Accept(c) \/ Close(c) \/ Free(c)
      PROVE  Still
  BY <1>1, <1>2 DEF Accept, Close, Free, storeVars
<1>3. ASSUME NEW c \in Conns, NewSession(c)
      PROVE  Still
  <2>1. [kind |-> "reset", conn |-> c, arg |-> 0] \in Task
    BY DEF Task
  <2>2. /\ \A n, i \in Nat : Waits(n, i)' <=> Waits(n, i)
        /\ \A n \in Nat : Queued(n)' <=> Queued(n)
    BY <1>3, <2>1, OtherTask DEF NewSession
  <2>3. /\ turns' \in Seq(TurnRow) /\ Len(turns') = Len(turns)
    BY <1>3, ResetNoted
  <2>4. \A n \in 1..Len(turns) : /\ turns'[n].thread = turns[n].thread
                                 /\ turns'[n].tool = turns[n].tool
                                 /\ turns'[n].lost = turns[n].lost
    <3>1. \A n \in 1..Len(turns) : turns[n] \in TurnRow
      OBVIOUS
    <3>2. \A n \in 1..Len(turns) : turns'[n] \in {turns[n], [turns[n] EXCEPT !.reset = TRUE]}
      BY <1>3 DEF NewSession
    <3> QED BY <3>1, <3>2 DEF TurnRow
  <2>5. UNCHANGED <<messages, running, pc, call>>
    BY <1>3 DEF NewSession, storeVars
  <2>6. TurnsStay
    BY <2>3, <2>4 DEF TurnsStay
  <2>7. \A n \in Nat : Runs(n)' <=> Runs(n)
    BY <2>5 DEF Runs
  <2> QED BY <2>2, <2>3, <2>5, <2>6, <2>7 DEF Still
<1>4. ASSUME NEW c \in Conns, NEW r \in Roles, SetRole(c, r)
      PROVE  Still
  BY <1>1, <1>4 DEF SetRole, storeVars, Threads
<1>5. CASE SubmitRestart
  <2>1. call["io"].conn \in Conns /\ newRole[call["io"].conn] \in Roles
    BY <1>5 DEF SubmitRestart, IdsInv, Threads, TypeOK
  <2>2. [kind |-> "restart", conn |-> call["io"].conn, arg |-> newRole[call["io"].conn]] \in Task
    BY <2>1 DEF Task
  <2>3. /\ \A n, i \in Nat : Waits(n, i)' <=> Waits(n, i)
        /\ \A n \in Nat : Queued(n)' <=> Queued(n)
    BY <1>5, <2>2, OtherTask DEF SubmitRestart
  <2>4. UNCHANGED <<messages, turns, running>> /\ pc["io"] = "role"
        /\ pc' = [pc EXCEPT !["io"] = "idle"] /\ call' = [call EXCEPT !["io"] = NoCall]
    BY <1>5 DEF SubmitRestart, storeVars
  <2>5. \A t \in Threads :
          pc[t] \in {"tool", "submit"} \/ pc'[t] \in {"tool", "submit"}
            => pc'[t] = pc[t] /\ call'[t] = call[t]
    BY <2>4 DEF Threads
  <2> QED BY <2>3, <2>4, <2>5, SameTurns DEF Still, Runs
<1>6. CASE FinishReset
  BY <1>1, <1>6 DEF FinishReset, storeVars
<1>7. CASE EndSwitch
  BY <1>1, <1>7 DEF EndSwitch, storeVars
<1>8. CASE FinishRestart
  BY <1>1, <1>8 DEF FinishRestart, storeVars
<1>9. CASE UNCHANGED vars
  BY <1>1, <1>9 DEF vars, procVars, storeVars
<1> QED BY <1>2, <1>3, <1>4, <1>5, <1>6, <1>7, <1>8, <1>9

\* The process dies: what is filed stays, and nothing else.
LEMMA NothingLeft ==
  ASSUME TypeOK, Crash
  PROVE  /\ messages' = messages /\ sessions' = sessions
         /\ TurnsStay /\ Len(turns') = Len(turns)
         /\ \A n \in 1..Len(turns) : turns'[n].lost
         /\ \A n, i \in Nat : ~Runs(n)' /\ ~Waits(n, i)' /\ ~Queued(n)' /\ ~Asks(n)'
         /\ \A t \in Threads : pc'[t] = "idle"
<1> USE RowTypes
<1>1. /\ turns' \in Seq(TurnRow) /\ Len(turns') = Len(turns)
  BY DeathNoted DEF TurnsKept
<1>2. \A n \in 1..Len(turns) : turns'[n] = [turns[n] EXCEPT !.lost = TRUE]
  BY DEF Crash
<1>3. \A n \in 1..Len(turns) : /\ turns'[n].thread = turns[n].thread
                               /\ turns'[n].tool = turns[n].tool /\ turns'[n].lost
  <2>1. \A n \in 1..Len(turns) : turns[n] \in TurnRow
    OBVIOUS
  <2> QED BY <1>2, <2>1 DEF TurnRow
<1>4. /\ messages' = messages /\ sessions' = sessions /\ tasks' = <<>> /\ running' = NoTask
      /\ \A t \in Threads : pc'[t] = "idle"
  BY DEF Crash, Boot, storeVars
<1>5. Len(tasks') = 0
  BY <1>4, EmptySeq
<1>6. \A n, i \in Nat : ~Runs(n)' /\ ~Waits(n, i)' /\ ~Queued(n)' /\ ~Asks(n)'
  BY <1>4, <1>5 DEF Runs, Waits, Queued, Asks, NoTask
<1>7. TurnsStay
  BY <1>1, <1>3 DEF TurnsStay
<1> QED BY <1>1, <1>3, <1>4, <1>6, <1>7

\* A thread submits its turn.
LEMMA TurnSubmitted ==
  ASSUME TypeOK, OpenInv, NEW t \in Threads, SubmitChat(t)
  PROVE  /\ call[t].turn \in 1..Len(turns) /\ pc[t] = "submit"
         /\ pc' = [pc EXCEPT ![t] = "idle"] /\ call' = [call EXCEPT ![t] = NoCall]
         /\ UNCHANGED <<storeVars, turns, running>> /\ Len(tasks') = Len(tasks) + 1
         /\ \A n, i \in Nat :
              Waits(n, i)' <=> Waits(n, i) \/ (n = call[t].turn /\ i = Len(tasks) + 1)
         /\ \A n \in Nat : Queued(n)' <=> Queued(n) \/ n = call[t].turn
<1> USE RowTypes, ConnTypes
<1>1. call[t].turn \in 1..Len(turns) /\ call[t].turn \in 1..MaxInputs
  <2>1. Open(call[t].turn, call[t].conn)
    BY DEF SubmitChat, Open
  <2> QED BY <2>1, HistoryAssumption DEF OpenInv
<1> DEFINE task == [kind |-> "chat", conn |-> call[t].conn, arg |-> call[t].turn]
<1>2. task \in Task /\ task.kind = "chat" /\ task.arg = call[t].turn /\ Submit(task)
  BY <1>1 DEF Task, SubmitChat
<1> HIDE DEF task
<1>3. /\ Len(tasks') = Len(tasks) + 1 /\ tasks'[Len(tasks) + 1] = task
      /\ \A i \in 1..Len(tasks) : tasks'[i] = tasks[i]
  BY <1>2, Submitted
<1>4. \A n, i \in Nat :
        Waits(n, i)' <=> Waits(n, i) \/ (n = call[t].turn /\ i = Len(tasks) + 1)
  BY <1>2, <1>3 DEF Waits
<1>5. ASSUME NEW n, Queued(n) \/ n = call[t].turn
      PROVE  Queued(n)'
  <2>1. Len(tasks) + 1 \in 1..Len(tasks') /\ \A i \in 1..Len(tasks) : i \in 1..Len(tasks')
    BY <1>3
  <2>2. CASE n = call[t].turn
    BY <1>2, <1>3, <2>1, <2>2 DEF Waits, Queued
  <2>3. CASE Queued(n)
    BY <1>3, <2>1, <2>3 DEF Waits, Queued
  <2> QED BY <1>5, <2>2, <2>3
<1>6. \A n : Queued(n)' => Queued(n) \/ n = call[t].turn
  BY <1>2, <1>3 DEF Waits, Queued
<1> QED BY <1>1, <1>3, <1>4, <1>5, <1>6 DEF SubmitChat

\* The worker takes the first task.
LEMMA TurnPopped ==
  ASSUME TypeOK, Pop
  PROVE  /\ UNCHANGED <<storeVars, turns, pc, call>>
         /\ \A n \in Nat : ~Runs(n) /\ (Runs(n)' <=> Waits(n, 1))
         /\ \A n, i \in Nat : Waits(n, i)' <=> i > 0 /\ Waits(n, i + 1)
         /\ \A n \in Nat : Queued(n)' => \E i \in Nat : i > 1 /\ Waits(n, i)
         /\ \A n \in Nat : Queued(n) => Queued(n)' \/ Waits(n, 1)
<1> USE RowTypes
<1>1. /\ Len(tasks') = Len(tasks) - 1 /\ Len(tasks) > 0
      /\ \A i \in 1..Len(tasks') : tasks'[i] = tasks[i + 1]
      /\ running' = tasks[1] /\ running.kind = "none"
  BY Popped
<1>2. \A n, i \in Nat : Waits(n, i)' <=> i > 0 /\ Waits(n, i + 1)
  BY <1>1 DEF Waits
<1>3. \A n \in Nat : ~Runs(n) /\ (Runs(n)' <=> Waits(n, 1))
  BY <1>1 DEF Runs, Waits
<1>4. \A n \in Nat : Queued(n)' => \E i \in Nat : i > 1 /\ Waits(n, i)
  BY <1>1 DEF Queued, Waits
<1>5. ASSUME NEW n \in Nat, Queued(n)
      PROVE  Queued(n)' \/ Waits(n, 1)
  <2>1. PICK i \in 1..Len(tasks) : Waits(n, i)
    BY <1>5 DEF Queued
  <2>2. CASE i # 1
    <3>1. i - 1 \in 1..Len(tasks') /\ (i - 1) + 1 = i
      BY <1>1, <2>2
    <3>2. tasks'[i - 1] = tasks[i]
      BY <1>1, <3>1
    <3> QED BY <2>1, <3>1, <3>2 DEF Queued, Waits
  <2> QED BY <2>1, <2>2
<1> QED BY <1>2, <1>3, <1>4, <1>5 DEF Pop

\* A reply is filed: nobody else is answered, and what was filed stays.
LEMMA RepliesAre ==
  ASSUME TypeOK, NEW n \in 1..Len(turns), ReplyFiled(n)
  PROVE  /\ \A m \in Nat : Answered(m) => Answered(m)'
         /\ \A m \in Nat : Answered(m)' => Answered(m) \/ m = n
         /\ Answered(n)' \/ turns'[n].lost
         /\ \A m \in Nat : Questioned(m) => Questioned(m)'
<1> USE RowTypes
<1>1. CASE turns'[n].lost /\ messages' = messages
  BY <1>1 DEF Answered, Questioned
<1>2. ASSUME NEW sid, NEW touched, Filed(sid, "assistant", n, touched)
      PROVE  /\ \A m \in Nat : Answered(m) => Answered(m)'
             /\ \A m \in Nat : Answered(m)' => Answered(m) \/ m = n
             /\ Answered(n)'
             /\ \A m \in Nat : Questioned(m) => Questioned(m)'
  <2>1. /\ Len(messages') = Len(messages) + 1
        /\ \A i \in 1..Len(messages) : messages'[i] = messages[i]
        /\ messages'[Len(messages) + 1].turn = n
        /\ messages'[Len(messages) + 1].from = "assistant"
    BY <1>2 DEF Filed
  <2>2. \A m \in Nat : Answered(m) => Answered(m)'
    BY <2>1 DEF Answered
  <2>3. \A m \in Nat : Answered(m)' => Answered(m) \/ m = n
    BY <2>1 DEF Answered
  <2>4. Answered(n)'
    BY <2>1 DEF Answered
  <2>5. \A m \in Nat : Questioned(m) => Questioned(m)'
    BY <2>1 DEF Questioned
  <2> QED BY <2>2, <2>3, <2>4, <2>5
<1> QED BY <1>1, <1>2 DEF ReplyFiled

LEMMA Queue == \A n, i : Waits(n, i) => i \in 1..Len(tasks) /\ Queued(n)
BY DEF Waits, Queued

LEMMA PairsStay ==
  ASSUME TypeOK, TurnsStay
  PROVE  \A n, m \in 1..Len(turns) :
           /\ n \in 1..Len(turns') /\ m \in 1..Len(turns')
           /\ Paired(n, m)' <=> Paired(n, m)
           /\ InLine(n, m)' <=> InLine(n, m)
<1>1. \A n \in 1..Len(turns) : n \in 1..Len(turns')
  BY RowTypes, LenProperties DEF TurnsStay
<1>2. \A n \in 1..Len(turns) : /\ turns'[n].thread = turns[n].thread
                               /\ turns'[n].tool = turns[n].tool
  BY DEF TurnsStay
<1> QED BY <1>1, <1>2 DEF InLine, Paired

\* Where the turns may be when nothing moves.
LEMMA StillThere ==
  ASSUME TypeOK, Still
  PROVE  \A n \in Nat : /\ Answered(n)' <=> Answered(n)
                        /\ Questioned(n)' <=> Questioned(n)
                        /\ Queued(n)' <=> Queued(n)
                        /\ Asks(n)' <=> Asks(n)
<1>1. \A n : /\ Answered(n)' <=> Answered(n)
             /\ Questioned(n)' <=> Questioned(n)
  BY DEF Still, Answered, Questioned
<1>2. \A n : Asks(n)' <=> Asks(n)
  BY DEF Still, Asks
<1> QED BY <1>1, <1>2 DEF Still

\* A turn is in one thread's hands at most.
LEMMA OneThread ==
  ASSUME ThreadInv, NEW t \in Threads, pc[t] \in {"tool", "submit"},
         NEW n, n = call[t].turn
  PROVE  \A u \in Threads : pc[u] \in {"tool", "submit"} /\ u # t
                              => call[u].turn # n /\ turns[call[u].turn].thread # turns[n].thread
BY DEF ThreadInv

LEMMA ThreadStep ==
  ASSUME TypeOK, Bounded, IdsInv, OpenInv, ThreadInv, [Next]_vars
  PROVE  ThreadInv'
<1> USE ConnTypes
<1>0. \A t \in Threads : pc[t] \in {"tool", "submit"} => call[t].turn \in 1..Len(turns)
  BY OpenTurns
<1>1. ASSUME TurnsStay,
             \A t \in Threads : pc'[t] \in {"tool", "submit"} => pc'[t] = pc[t] /\ call'[t] = call[t]
      PROVE  ThreadInv'
  BY <1>0, <1>1 DEF ThreadInv, TurnsStay
<1>2. CASE Still
  BY <1>1, <1>2 DEF Still
<1>3. CASE Crash
  BY <1>1, <1>3, NothingLeft
<1>4. ASSUME NEW t \in Threads, SubmitChat(t)
      PROVE  ThreadInv'
  <2>1. /\ TurnsStay
        /\ pc' = [pc EXCEPT ![t] = "idle"] /\ call' = [call EXCEPT ![t] = NoCall]
    BY <1>4, TurnSubmitted, SameTurns
  <2> QED BY <1>1, <2>1
<1>5. ASSUME NEW t \in Threads, ToolReply(t)
      PROVE  ThreadInv'
  <2>1. /\ TurnsStay
        /\ pc' = [pc EXCEPT ![t] = "idle"] /\ call' = [call EXCEPT ![t] = NoCall]
    BY <1>5, ToolReplyFiled DEF ReplyFiled
  <2> QED BY <1>1, <2>1
<1>6. ASSUME NEW t \in Threads, NEW c \in Conns, Ask(t, c)
      PROVE  ThreadInv'
  <2> DEFINE n == Len(turns) + 1
  <2>0. n \in Nat /\ n = Len(turns) + 1
    BY RowTypes
  <2> HIDE DEF n
  <2>1. /\ TurnsStay /\ turns'[n].thread = t
        /\ pc' = [pc EXCEPT ![t] = IF turns'[n].tool THEN "tool" ELSE "submit"]
        /\ call' = [call EXCEPT ![t] = [conn |-> c, turn |-> n]]
    BY <1>6, <2>0, QuestionStored
  <2>2. SUFFICES ASSUME NEW u \in Threads, pc'[u] \in {"tool", "submit"}
                 PROVE  /\ turns'[call'[u].turn].thread = u
                        /\ pc'[u] = "tool" => turns'[call'[u].turn].tool
    BY DEF ThreadInv
  <2>3. CASE u = t
    <3>1. call'[u].turn = n /\ pc'[u] = IF turns'[n].tool THEN "tool" ELSE "submit"
      BY <2>1, <2>3
    <3> QED BY <2>1, <2>3, <3>1
  <2>4. CASE u # t
    <3>1. call'[u] = call[u] /\ pc'[u] = pc[u]
      BY <2>1, <2>4
    <3> QED BY <1>0, <2>1, <2>2, <3>1 DEF ThreadInv, TurnsStay
  <2> QED BY <2>3, <2>4
<1>7. CASE Pop
  BY <1>1, <1>7, TurnPopped, SameTurns
<1>8. CASE FinishChat
  BY <1>1, <1>8, ChatReplyFiled DEF ReplyFiled
<1> QED BY <1>2, <1>3, <1>4, <1>5, <1>6, <1>7, <1>8, StillStep DEF Next, Worker

LEMMA LineStep ==
  ASSUME TypeOK, Bounded, IdsInv, OpenInv, FileInv, ThreadInv, LineInv, [Next]_vars
  PROVE  LineInv'
<1> USE RowTypes, ConnTypes
<1>1. SUFFICES ASSUME NEW n \in 1..Len(turns'), NEW m \in 1..Len(turns'), Paired(n, m)'
               PROVE  /\ Answered(n)' /\ (Runs(m)' \/ Queued(m)' \/ Asks(m)') => n < m
                      /\ Runs(n)' /\ (Queued(m)' \/ Asks(m)') => n < m
                      /\ Queued(n)' /\ Asks(m)' => n < m
                      /\ \A i, j \in 1..Len(tasks') :
                           i < j /\ Waits(n, i)' /\ Waits(m, j)' => n < m
  BY DEF LineInv
<1>2. n \in Nat /\ m \in Nat /\ \A i : i \in 1..Len(tasks') => i \in Nat
  OBVIOUS
<1>3. ASSUME TurnsStay, Len(turns') = Len(turns)
      PROVE  /\ n \in 1..Len(turns) /\ m \in 1..Len(turns) /\ Paired(n, m)
             /\ Answered(n) /\ (Runs(m) \/ Queued(m) \/ Asks(m)) => n < m
             /\ Runs(n) /\ (Queued(m) \/ Asks(m)) => n < m
             /\ Queued(n) /\ Asks(m) => n < m
             /\ \A i, j \in Nat : i < j /\ Waits(n, i) /\ Waits(m, j) => n < m
  <2>1. n \in 1..Len(turns) /\ m \in 1..Len(turns) /\ Paired(n, m)
    BY <1>1, <1>3, PairsStay
  <2> QED BY <2>1, Queue DEF LineInv
<1>4. CASE Still
  <2>1. TurnsStay /\ Len(turns') = Len(turns)
    BY <1>4 DEF Still
  <2>2. \A k \in {n, m} : /\ Answered(k)' <=> Answered(k)
                          /\ Queued(k)' <=> Queued(k)
                          /\ Asks(k)' <=> Asks(k)
                          /\ Runs(k)' <=> Runs(k)
                          /\ \A i \in Nat : Waits(k, i)' <=> Waits(k, i)
    BY <1>2, <1>4, StillThere DEF Still
  <2> QED BY <1>2, <1>3, <2>1, <2>2
<1>5. CASE Crash
  BY <1>2, <1>5, NothingLeft
<1>6. ASSUME NEW t \in Threads, SubmitChat(t)
      PROVE  /\ Answered(n)' /\ (Runs(m)' \/ Queued(m)' \/ Asks(m)') => n < m
             /\ Runs(n)' /\ (Queued(m)' \/ Asks(m)') => n < m
             /\ Queued(n)' /\ Asks(m)' => n < m
             /\ \A i, j \in 1..Len(tasks') : i < j /\ Waits(n, i)' /\ Waits(m, j)' => n < m
  <2> DEFINE k == call[t].turn
  <2>1. /\ k \in 1..Len(turns) /\ pc[t] = "submit"
        /\ pc' = [pc EXCEPT ![t] = "idle"] /\ call' = [call EXCEPT ![t] = NoCall]
        /\ UNCHANGED <<storeVars, turns, running>> /\ Len(tasks') = Len(tasks) + 1
        /\ \A x, i \in Nat : Waits(x, i)' <=> Waits(x, i) \/ (x = k /\ i = Len(tasks) + 1)
        /\ \A x \in Nat : Queued(x)' <=> Queued(x) \/ x = k
    BY <1>6, TurnSubmitted
  <2>2. Asks(k)
    BY <2>1 DEF Asks
  <2>3. \A x : Asks(x)' => Asks(x) /\ ~Paired(k, x)
    <3>1. \A u \in Threads : pc[u] \in {"tool", "submit"} /\ u # t
            => call[u].turn # k /\ turns[call[u].turn].thread # turns[k].thread
      BY <2>1, OneThread
    <3>2. \A u \in Threads : pc'[u] \in {"tool", "submit"}
            => u # t /\ pc'[u] = pc[u] /\ call'[u] = call[u]
      BY <2>1
    <3> HIDE DEF k
    <3> QED BY <3>1, <3>2 DEF Asks, Paired, InLine
  <2>4. \A x : (Answered(x)' <=> Answered(x)) /\ (Runs(x)' <=> Runs(x))
    BY <2>1 DEF Answered, Runs, storeVars
  <2>5. TurnsStay /\ Len(turns') = Len(turns)
    BY <2>1, SameTurns
  <2>6. \A i : Waits(n, i) \/ Waits(m, i) => i \in 1..Len(tasks)
    BY Queue
  <2>7. \A i : Waits(n, i) => Queued(n)
    BY Queue
  <2> HIDE DEF k
  <2>8. /\ Answered(n)' /\ (Runs(m)' \/ Queued(m)' \/ Asks(m)') => n < m
        /\ Runs(n)' /\ (Queued(m)' \/ Asks(m)') => n < m
        /\ Queued(n)' /\ Asks(m)' => n < m
    BY <1>2, <1>3, <2>1, <2>2, <2>3, <2>4, <2>5
  <2>9. ASSUME NEW i \in 1..Len(tasks'), NEW j \in 1..Len(tasks'), i < j,
               Waits(n, i)', Waits(m, j)'
        PROVE  n < m
    <3>1. Waits(n, i)
      BY <1>2, <2>1, <2>9
    <3>2. Waits(m, j) \/ m = k
      BY <1>2, <2>1, <2>9
    <3> QED BY <1>2, <1>3, <2>2, <2>5, <2>7, <2>9, <3>1, <3>2
  <2> QED BY <2>8, <2>9
<1>7. ASSUME NEW t \in Threads, ToolReply(t)
      PROVE  /\ Answered(n)' /\ (Runs(m)' \/ Queued(m)' \/ Asks(m)') => n < m
             /\ Runs(n)' /\ (Queued(m)' \/ Asks(m)') => n < m
             /\ Queued(n)' /\ Asks(m)' => n < m
             /\ \A i, j \in 1..Len(tasks') : i < j /\ Waits(n, i)' /\ Waits(m, j)' => n < m
  <2> DEFINE k == call[t].turn
  <2>1. /\ ReplyFiled(k) /\ k \in 1..Len(turns) /\ pc[t] = "tool"
        /\ pc' = [pc EXCEPT ![t] = "idle"] /\ call' = [call EXCEPT ![t] = NoCall]
        /\ UNCHANGED <<tasks, running>>
    BY <1>7, ToolReplyFiled
  <2>2. Asks(k) /\ turns[k].tool
    BY <2>1 DEF Asks, ThreadInv
  <2>3. \A x : Asks(x)' => Asks(x) /\ x # k
    <3>1. \A u \in Threads : pc[u] \in {"tool", "submit"} /\ u # t => call[u].turn # k
      BY <2>1, OneThread
    <3>2. \A u \in Threads : pc'[u] \in {"tool", "submit"}
            => u # t /\ pc'[u] = pc[u] /\ call'[u] = call[u]
      BY <2>1
    <3> HIDE DEF k
    <3> QED BY <3>1, <3>2 DEF Asks
  <2> HIDE DEF k
  <2>4. \A x \in Nat : Answered(x)' => Answered(x) \/ x = k
    BY <2>1, RepliesAre
  <2>5. TurnsStay /\ Len(turns') = Len(turns)
    BY <2>1 DEF ReplyFiled
  <2>6. \A x, i : /\ Runs(x)' <=> Runs(x)
                  /\ Waits(x, i)' <=> Waits(x, i)
                  /\ Queued(x)' <=> Queued(x)
    BY <2>1 DEF Runs, Waits, Queued
  <2>7. n = k /\ Paired(n, m) => m = k
    BY <2>2 DEF Paired, InLine
  <2>8. ~(Runs(k) \/ Queued(k))
    <3>1. Paired(k, k) /\ k \in Nat
      BY <2>1 DEF Paired
    <3> QED BY <2>1, <2>2, <3>1 DEF LineInv
  <2> QED BY <1>2, <1>3, <2>3, <2>4, <2>5, <2>6, <2>7, <2>8
<1>8. ASSUME NEW t \in Threads, NEW c \in Conns, Ask(t, c)
      PROVE  /\ Answered(n)' /\ (Runs(m)' \/ Queued(m)' \/ Asks(m)') => n < m
             /\ Runs(n)' /\ (Queued(m)' \/ Asks(m)') => n < m
             /\ Queued(n)' /\ Asks(m)' => n < m
             /\ \A i, j \in 1..Len(tasks') : i < j /\ Waits(n, i)' /\ Waits(m, j)' => n < m
  <2> DEFINE k == Len(turns) + 1
  <2>0. /\ k \in Nat /\ k = Len(turns) + 1 /\ k \notin 1..Len(turns)
        /\ \A x \in 1..Len(turns) : x < k
    OBVIOUS
  <2> HIDE DEF k
  <2>1. /\ TurnsStay /\ Len(turns') = k
        /\ \/ messages' = messages
           \/ \E sid, touched : Filed(sid, "user", k, touched)
        /\ pc[t] = "idle"
        /\ call' = [call EXCEPT ![t] = [conn |-> c, turn |-> k]]
        /\ UNCHANGED <<tasks, running>>
    BY <1>8, <2>0, QuestionStored
  <2>2. ASSUME NEW x, Answered(x)'
        PROVE  Answered(x)
    <3>1. CASE messages' = messages
      BY <2>2, <3>1 DEF Answered
    <3>2. ASSUME NEW sid, NEW touched, Filed(sid, "user", k, touched)
          PROVE  Answered(x)
      <4>1. /\ Len(messages') = Len(messages) + 1
            /\ \A i \in 1..Len(messages) : messages'[i] = messages[i]
            /\ messages'[Len(messages) + 1].from = "user"
        BY <3>2 DEF Filed
      <4>2. PICK i \in 1..Len(messages') : messages'[i].turn = x /\ messages'[i].from = "assistant"
        BY <2>2 DEF Answered
      <4>3. i \in 1..Len(messages)
        BY <4>1, <4>2
      <4> QED BY <4>1, <4>2, <4>3 DEF Answered
    <3> QED BY <2>1, <3>1, <3>2
  <2>3. \A x, i : /\ Runs(x)' <=> Runs(x)
                  /\ Waits(x, i)' <=> Waits(x, i)
                  /\ Queued(x)' <=> Queued(x)
    BY <2>1 DEF Runs, Waits, Queued
  <2>4. \A x : Asks(x)' => Asks(x) \/ x = k
    <3>1. pc' = [pc EXCEPT ![t] = IF turns'[k].tool THEN "tool" ELSE "submit"]
      BY <1>8, <2>0, QuestionStored
    <3> QED BY <2>1, <3>1 DEF Asks
  <2>5. \A x : Answered(x) \/ Runs(x) \/ Queued(x) => x \in 1..Len(turns)
    BY OpenTurns DEF Answered, Runs, Queued, Waits, FileInv
  <2>6. CASE m = k
    <3>1. ~Runs(m)' /\ ~Queued(m)' /\ \A i : ~Waits(m, i)'
      BY <2>0, <2>3, <2>5, <2>6, Queue
    <3>2. Answered(n)' \/ Runs(n)' \/ Queued(n)' => n < m
      BY <1>2, <2>0, <2>2, <2>3, <2>5, <2>6
    <3> QED BY <3>1, <3>2
  <2>7. CASE n = k
    <3>1. ~Answered(n)' /\ ~Runs(n)' /\ ~Queued(n)' /\ \A i : ~Waits(n, i)'
      BY <2>0, <2>2, <2>3, <2>5, <2>7, Queue
    <3> QED BY <3>1
  <2>8. CASE n # k /\ m # k
    <3>1. n \in 1..Len(turns) /\ m \in 1..Len(turns)
      BY <1>2, <2>0, <2>1, <2>8
    <3>2. Paired(n, m)
      BY <1>1, <2>1, <3>1, PairsStay
    <3>3. /\ Answered(n) /\ (Runs(m) \/ Queued(m) \/ Asks(m)) => n < m
          /\ Runs(n) /\ (Queued(m) \/ Asks(m)) => n < m
          /\ Queued(n) /\ Asks(m) => n < m
          /\ \A i, j \in 1..Len(tasks) : i < j /\ Waits(n, i) /\ Waits(m, j) => n < m
      BY <3>1, <3>2 DEF LineInv
    <3>4. tasks' = tasks
      BY <2>1
    <3> QED BY <2>2, <2>3, <2>4, <2>8, <3>3, <3>4
  <2> QED BY <2>6, <2>7, <2>8
<1>9. CASE Pop
  <2>1. /\ UNCHANGED <<storeVars, turns, pc, call>>
        /\ \A x \in Nat : ~Runs(x) /\ (Runs(x)' <=> Waits(x, 1))
        /\ \A x, i \in Nat : Waits(x, i)' <=> i > 0 /\ Waits(x, i + 1)
        /\ \A x \in Nat : Queued(x)' => \E i \in Nat : i > 1 /\ Waits(x, i)
    BY <1>9, TurnPopped
  <2>2. \A x : (Answered(x)' <=> Answered(x)) /\ (Asks(x)' <=> Asks(x))
    BY <2>1 DEF Answered, Asks, storeVars
  <2>3. TurnsStay /\ Len(turns') = Len(turns)
    BY <2>1, SameTurns
  <2>4. \A x \in Nat : Runs(x)' \/ Queued(x)' => Queued(x)
    BY <2>1, Queue
  <2>5. Runs(n)' /\ Queued(m)' => n < m
    <3>1. SUFFICES ASSUME Waits(n, 1), NEW i \in Nat, i > 1, Waits(m, i)
                   PROVE  n < m
      BY <1>2, <2>1
    <3> QED BY <1>3, <2>3, <3>1
  <2>6. ASSUME NEW i \in 1..Len(tasks'), NEW j \in 1..Len(tasks'), i < j,
               Waits(n, i)', Waits(m, j)'
        PROVE  n < m
    <3>1. Waits(n, i + 1) /\ Waits(m, j + 1) /\ i + 1 \in Nat /\ j + 1 \in Nat /\ i + 1 < j + 1
      BY <1>2, <2>1, <2>6
    <3> QED BY <1>3, <2>3, <3>1
  <2> QED BY <1>2, <1>3, <2>2, <2>3, <2>4, <2>5, <2>6
<1>10. CASE FinishChat
  <2> DEFINE k == running.arg
  <2>1. /\ ReplyFiled(k) /\ k \in 1..Len(turns) /\ Runs(k)
        /\ running' = NoTask /\ UNCHANGED <<tasks, pc, call>>
    BY <1>10, ChatReplyFiled
  <2> HIDE DEF k
  <2>2. \A x \in Nat : Answered(x)' => Answered(x) \/ x = k
    BY <2>1, RepliesAre
  <2>3. TurnsStay /\ Len(turns') = Len(turns)
    BY <2>1 DEF ReplyFiled
  <2>4. \A x, i : /\ ~Runs(x)'
                  /\ Waits(x, i)' <=> Waits(x, i)
                  /\ Queued(x)' <=> Queued(x)
                  /\ Asks(x)' <=> Asks(x)
    BY <2>1 DEF Runs, Waits, Queued, Asks, NoTask
  <2> QED BY <1>2, <1>3, <2>1, <2>2, <2>3, <2>4
<1> QED BY <1>4, <1>5, <1>6, <1>7, <1>8, <1>9, <1>10, StillStep DEF Next, Worker

\* A message of turn n has been added to the rows.
Added(n, from) ==
  /\ Len(messages') = Len(messages) + 1
  /\ \A i \in 1..Len(messages) : messages'[i] = messages[i]
  /\ messages'[Len(messages) + 1].turn = n
  /\ messages'[Len(messages) + 1].from = from

\* It is the first of its kind, it is not a question that comes after its
\* reply, and no later turn of that thread has been answered yet.
LEMMA RowAdded ==
  ASSUME TypeOK, TypeOK', FileInv, RowInv, TurnsStay, NEW n \in 1..Len(turns'),
         NEW from \in {"user", "assistant"}, Added(n, from),
         \A i \in 1..Len(messages), x \in Nat : messages[i].turn = x =>
           /\ x = n => messages[i].from = "user" /\ from = "assistant"
           /\ messages[i].from = "assistant" /\ from = "assistant" /\ InLine(n, x)' => x < n
  PROVE  RowInv'
<1> USE RowTypes
<1> DEFINE new == Len(messages) + 1
<1>1. /\ new \in Nat /\ \A i \in 1..Len(messages') : i = new \/ i \in 1..Len(messages)
      /\ \A i \in 1..Len(messages) : i < new
  BY DEF Added
<1>2. /\ \A i \in 1..Len(messages) : messages'[i] = messages[i]
      /\ messages'[new].turn = n /\ messages'[new].from = from
  BY DEF Added
<1>3. \A i \in 1..Len(messages) : messages[i].turn \in 1..Len(turns) /\ messages[i].turn \in Nat
  BY DEF FileInv
<1>4. n \in Nat
  BY RowTypes
<1>5. \A x, y \in 1..Len(turns) : InLine(x, y)' <=> InLine(x, y)
  BY PairsStay
<1>6. SUFFICES ASSUME NEW i \in 1..Len(messages'), NEW j \in 1..Len(messages'),
                      NEW x \in Nat, NEW y \in Nat,
                      messages'[i].turn = x, messages'[j].turn = y
               PROVE  /\ x = y /\ messages'[i].from = messages'[j].from => i = j
                      /\ /\ x = y /\ messages'[i].from = "user"
                         /\ messages'[j].from = "assistant"
                         => i < j
                      /\ /\ messages'[i].from = "assistant" /\ messages'[j].from = "assistant"
                         /\ InLine(x, y)' /\ x < y
                         => i < j
  <2>1. \A i \in 1..Len(messages') : messages'[i].turn \in Nat
    BY <1>1, <1>2, <1>3, <1>4
  <2> QED BY <1>6, <2>1 DEF RowInv, InLine
<1> HIDE DEF new
<1>7. CASE i \in 1..Len(messages) /\ j \in 1..Len(messages)
  <2>1. messages'[i] = messages[i] /\ messages'[j] = messages[j]
    BY <1>2, <1>7
  <2>2. InLine(x, y)' <=> InLine(x, y)
    BY <1>3, <1>5, <1>6, <1>7, <2>1
  <2>3. messages[i].turn = x /\ messages[j].turn = y
    BY <1>6, <2>1
  <2> QED BY <1>7, <2>1, <2>2, <2>3 DEF RowInv
<1>8. CASE i = new /\ j = new
  BY <1>2, <1>4, <1>6, <1>8
<1>9. CASE i \in 1..Len(messages) /\ j = new
  BY <1>1, <1>2, <1>6, <1>9
<1>10. CASE i = new /\ j \in 1..Len(messages)
  <2>1. x = n /\ messages'[i].from = from /\ messages'[j] = messages[j] /\ messages[j].turn = y
    BY <1>2, <1>6, <1>10
  <2>2. /\ y = n => messages[j].from = "user" /\ from = "assistant"
        /\ messages[j].from = "assistant" /\ from = "assistant" /\ InLine(n, y)' => y < n
    BY <1>10, <2>1
  <2>3. ~(x = y /\ messages'[i].from = messages'[j].from)
    BY <2>1, <2>2
  <2>4. ~(x = y /\ messages'[i].from = "user")
    BY <2>1, <2>2
  <2>5. ~(/\ messages'[i].from = "assistant" /\ messages'[j].from = "assistant"
          /\ InLine(x, y)' /\ x < y)
    BY <1>4, <2>1, <2>2
  <2> QED BY <2>3, <2>4, <2>5
<1> QED BY <1>1, <1>7, <1>8, <1>9, <1>10

\* No message is added: the rows are in order as they were.
LEMMA RowsStay ==
  ASSUME TypeOK, FileInv, RowInv, TurnsStay, messages' = messages
  PROVE  RowInv'
<1>1. \A i \in 1..Len(messages) : messages[i].turn \in 1..Len(turns)
  BY RowTypes DEF FileInv
<1>2. \A x, y \in 1..Len(turns) : InLine(x, y)' <=> InLine(x, y)
  BY PairsStay
<1>3. SUFFICES ASSUME NEW i \in 1..Len(messages), NEW j \in 1..Len(messages),
                      NEW x \in 1..Len(turns), NEW y \in 1..Len(turns),
                      messages[i].turn = x, messages[j].turn = y
               PROVE  /\ x = y /\ messages[i].from = messages[j].from => i = j
                      /\ /\ x = y /\ messages[i].from = "user"
                         /\ messages[j].from = "assistant"
                         => i < j
                      /\ /\ messages[i].from = "assistant" /\ messages[j].from = "assistant"
                         /\ InLine(x, y)' /\ x < y
                         => i < j
  BY <1>1 DEF RowInv, InLine
<1> QED BY <1>2, <1>3 DEF RowInv

\* The reply of a turn that is not answered yet, but goes before all the others
\* of its thread that are not, or does not go through the queue.
LEMMA RowOfReply ==
  ASSUME TypeOK, TypeOK', FileInv, RowInv, LineInv, NEW n \in 1..Len(turns), ReplyFiled(n),
         Runs(n) \/ (Asks(n) /\ turns[n].tool)
  PROVE  RowInv'
<1> USE RowTypes
<1>1. TurnsStay /\ n \in 1..Len(turns') /\ n \in Nat
  BY DEF ReplyFiled
<1>2. ~Answered(n)
  BY <1>1 DEF LineInv, Paired
<1>3. \A x \in 1..Len(turns) : Answered(x) /\ InLine(n, x) => x < n
  <2>1. CASE Runs(n)
    BY <2>1 DEF LineInv, Paired, InLine
  <2>2. CASE turns[n].tool
    BY <2>2 DEF InLine
  <2> QED BY <2>1, <2>2
<1>4. ASSUME NEW i \in 1..Len(messages), NEW x \in Nat, messages[i].turn = x
      PROVE  /\ x = n => messages[i].from = "user"
             /\ messages[i].from = "assistant" /\ InLine(n, x)' => x < n
  <2>1. x \in 1..Len(turns) /\ messages[i].from \in {"user", "assistant"}
    BY <1>4 DEF FileInv, MessageRow
  <2>2. messages[i].from = "assistant" => Answered(x)
    BY <1>4 DEF Answered
  <2>3. InLine(n, x)' <=> InLine(n, x)
    BY <1>1, <2>1, PairsStay
  <2> QED BY <1>2, <1>3, <2>1, <2>2, <2>3
<1>5. CASE messages' = messages
  BY <1>1, <1>5, RowsStay
<1>6. ASSUME NEW sid, NEW touched, Filed(sid, "assistant", n, touched)
      PROVE  RowInv'
  <2>1. Added(n, "assistant")
    BY <1>6 DEF Filed, Added
  <2> QED BY <1>1, <1>4, <2>1, RowAdded
<1> QED BY <1>5, <1>6 DEF ReplyFiled

LEMMA RowStep ==
  ASSUME TypeOK, TypeOK', Bounded, IdsInv, OpenInv, FileInv, ThreadInv, LineInv, RowInv,
         [Next]_vars
  PROVE  RowInv'
<1> USE RowTypes
<1>1. CASE Still \/ Crash \/ Pop \/ \E t \in Threads : SubmitChat(t)
  <2>1. TurnsStay /\ messages' = messages
    BY <1>1, NothingLeft, TurnPopped, TurnSubmitted, SameTurns DEF Still, storeVars
  <2> QED BY <2>1, RowsStay
<1>2. ASSUME NEW t \in Threads, ToolReply(t)
      PROVE  RowInv'
  <2>1. /\ ReplyFiled(call[t].turn) /\ call[t].turn \in 1..Len(turns) /\ pc[t] = "tool"
    BY <1>2, ToolReplyFiled
  <2>2. Asks(call[t].turn) /\ turns[call[t].turn].tool
    BY <2>1 DEF Asks, ThreadInv
  <2> QED BY <2>1, <2>2, RowOfReply
<1>3. CASE FinishChat
  BY <1>3, ChatReplyFiled, RowOfReply
<1>4. ASSUME NEW t \in Threads, NEW c \in Conns, Ask(t, c)
      PROVE  RowInv'
  <2> DEFINE n == Len(turns) + 1
  <2>1. n \in Nat /\ n = Len(turns) + 1 /\ n \notin 1..Len(turns)
    OBVIOUS
  <2> HIDE DEF n
  <2>2. /\ TurnsStay /\ Len(turns') = n
        /\ \/ messages' = messages
           \/ \E sid, touched : Filed(sid, "user", n, touched)
    BY <1>4, <2>1, QuestionStored
  <2>3. ASSUME NEW sid, NEW touched, Filed(sid, "user", n, touched)
        PROVE  RowInv'
    <3>1. Added(n, "user") /\ n \in 1..Len(turns')
      BY <2>1, <2>2, <2>3 DEF Filed, Added
    <3>2. \A i \in 1..Len(messages) : messages[i].turn # n
      BY <2>1 DEF FileInv
    <3> QED BY <2>2, <3>1, <3>2, RowAdded
  <2> QED BY <2>2, <2>3, RowsStay
<1> QED BY <1>1, <1>2, <1>3, <1>4, StillStep DEF Next, Worker

\* What is in the store of a turn stays there.
LEMMA RowsOfTurns ==
  ASSUME TypeOK, NEW n, NEW from, Added(n, from)
  PROVE  /\ \A m : Answered(m) => Answered(m)'
         /\ \A m : Questioned(m) => Questioned(m)'
         /\ from = "user" => Questioned(n)'
         /\ from = "assistant" => Answered(n)'
<1> USE RowTypes DEF Added
<1>1. Len(messages) + 1 \in 1..Len(messages')
      /\ \A i \in 1..Len(messages) : i \in 1..Len(messages')
  OBVIOUS
<1> QED BY <1>1 DEF Answered, Questioned

LEMMA AnswerStep ==
  ASSUME TypeOK, Bounded, IdsInv, OpenInv, ThreadInv, AnswerInv, [Next]_vars
  PROVE  AnswerInv'
<1> USE RowTypes
<1>1. SUFFICES ASSUME NEW m \in 1..Len(turns'), ~turns'[m].lost
               PROVE  /\ Questioned(m)'
                      /\ Answered(m)' \/ Runs(m)' \/ Queued(m)' \/ Asks(m)'
  BY DEF AnswerInv
<1>2. m \in Nat
  OBVIOUS
<1>3. ASSUME TurnsStay, m \in 1..Len(turns)
      PROVE  /\ Questioned(m)
             /\ Answered(m) \/ Runs(m) \/ Queued(m) \/ Asks(m)
  <2>1. ~turns[m].lost
    BY <1>1, <1>3 DEF TurnsStay
  <2> QED BY <1>3, <2>1 DEF AnswerInv
<1>4. CASE Still
  BY <1>2, <1>3, <1>4, StillThere DEF Still
<1>5. CASE Crash
  BY <1>1, <1>5, NothingLeft
<1>6. ASSUME NEW t \in Threads, SubmitChat(t)
      PROVE  /\ Questioned(m)'
             /\ Answered(m)' \/ Runs(m)' \/ Queued(m)' \/ Asks(m)'
  <2> DEFINE k == call[t].turn
  <2>1. /\ k \in 1..Len(turns)
        /\ pc' = [pc EXCEPT ![t] = "idle"] /\ call' = [call EXCEPT ![t] = NoCall]
        /\ UNCHANGED <<storeVars, turns, running>>
        /\ \A x \in Nat : Queued(x)' <=> Queued(x) \/ x = k
    BY <1>6, TurnSubmitted
  <2>2. \A x : Asks(x) => Asks(x)' \/ x = k
    BY <2>1, ConnTypes DEF Asks
  <2>3. \A x : /\ (Answered(x)' <=> Answered(x)) /\ (Runs(x)' <=> Runs(x))
               /\ Questioned(x)' <=> Questioned(x)
    BY <2>1 DEF Answered, Runs, Questioned, storeVars
  <2>4. TurnsStay /\ Len(turns') = Len(turns)
    BY <2>1, SameTurns
  <2> HIDE DEF k
  <2> QED BY <1>2, <1>3, <2>1, <2>2, <2>3, <2>4
<1>7. ASSUME NEW t \in Threads, ToolReply(t)
      PROVE  /\ Questioned(m)'
             /\ Answered(m)' \/ Runs(m)' \/ Queued(m)' \/ Asks(m)'
  <2> DEFINE k == call[t].turn
  <2>1. /\ ReplyFiled(k) /\ k \in 1..Len(turns) /\ pc[t] = "tool"
        /\ pc' = [pc EXCEPT ![t] = "idle"] /\ call' = [call EXCEPT ![t] = NoCall]
        /\ UNCHANGED <<tasks, running>>
    BY <1>7, ToolReplyFiled
  <2>2. \A x : Asks(x) => Asks(x)' \/ x = k
    BY <2>1, ConnTypes DEF Asks
  <2> HIDE DEF k
  <2>3. TurnsStay /\ Len(turns') = Len(turns)
    BY <2>1 DEF ReplyFiled
  <2>4. \A x : (Runs(x)' <=> Runs(x)) /\ (Queued(x)' <=> Queued(x))
    BY <2>1 DEF Runs, Waits, Queued
  <2> QED BY <1>1, <1>2, <1>3, <2>1, <2>2, <2>3, <2>4, RepliesAre
<1>8. ASSUME NEW t \in Threads, NEW c \in Conns, Ask(t, c)
      PROVE  /\ Questioned(m)'
             /\ Answered(m)' \/ Runs(m)' \/ Queued(m)' \/ Asks(m)'
  <2>0. PICK k \in Nat : k = Len(turns) + 1
    OBVIOUS
  <2>1. /\ TurnsStay /\ Len(turns') = k
        /\ \/ turns'[k].lost /\ messages' = messages
           \/ \E sid, touched : Filed(sid, "user", k, touched)
        /\ pc[t] = "idle"
        /\ pc' = [pc EXCEPT ![t] = IF turns'[k].tool THEN "tool" ELSE "submit"]
        /\ call' = [call EXCEPT ![t] = [conn |-> c, turn |-> k]]
        /\ UNCHANGED <<tasks, running>>
    BY <1>8, <2>0, QuestionStored
  <2>2. Asks(k)' /\ \A x : Asks(x) => Asks(x)'
    <3>1. pc'[t] \in {"tool", "submit"} /\ call'[t].turn = k
      BY <2>1, ConnTypes
    <3>2. \A u \in Threads : pc[u] \in {"tool", "submit"}
            => pc'[u] = pc[u] /\ call'[u] = call[u]
      BY <2>1, ConnTypes
    <3>3. Asks(k)'
      BY <3>1 DEF Asks
    <3>4. \A x : Asks(x) => Asks(x)'
      BY <3>2 DEF Asks
    <3> QED BY <3>3, <3>4
  <2>3. \A x : (Runs(x)' <=> Runs(x)) /\ (Queued(x)' <=> Queued(x))
    BY <2>1 DEF Runs, Waits, Queued
  <2>4. ASSUME NEW sid, NEW touched, Filed(sid, "user", k, touched)
        PROVE  Added(k, "user")
    BY <2>4 DEF Filed, Added
  <2>5. /\ \A x : Answered(x) => Answered(x)'
        /\ \A x : Questioned(x) => Questioned(x)'
        /\ Questioned(k)' \/ turns'[k].lost
    <3>1. CASE turns'[k].lost /\ messages' = messages
      BY <3>1 DEF Answered, Questioned
    <3>2. CASE Added(k, "user")
      <4>1. \A x : Answered(x) => Answered(x)'
        BY <3>2, RowsOfTurns
      <4>2. \A x : Questioned(x) => Questioned(x)'
        BY <3>2, RowsOfTurns
      <4>3. Questioned(k)'
        BY <3>2, RowsOfTurns
      <4> QED BY <4>1, <4>2, <4>3
    <3> QED BY <2>1, <2>4, <3>1, <3>2
  <2>6. m \in 1..Len(turns) \/ m = k
    BY <1>2, <2>0, <2>1
  <2>7. CASE m \in 1..Len(turns)
    <3>1. Questioned(m) /\ (Answered(m) \/ Runs(m) \/ Queued(m) \/ Asks(m))
      BY <1>3, <2>1, <2>7
    <3>2. /\ Questioned(m) => Questioned(m)'
          /\ Answered(m) => Answered(m)'
          /\ Runs(m) => Runs(m)'
          /\ Queued(m) => Queued(m)'
          /\ Asks(m) => Asks(m)'
      BY <2>2, <2>3, <2>5
    <3> QED BY <3>1, <3>2
  <2> QED BY <1>1, <2>2, <2>5, <2>6, <2>7
<1>9. CASE Pop
  <2>1. /\ UNCHANGED <<storeVars, turns, pc, call>>
        /\ \A x \in Nat : ~Runs(x) /\ (Runs(x)' <=> Waits(x, 1))
        /\ \A x \in Nat : Queued(x) => Queued(x)' \/ Waits(x, 1)
    BY <1>9, TurnPopped
  <2>2. \A x : /\ (Answered(x)' <=> Answered(x)) /\ (Asks(x)' <=> Asks(x))
               /\ Questioned(x)' <=> Questioned(x)
    BY <2>1 DEF Answered, Asks, Questioned, storeVars
  <2>3. TurnsStay /\ Len(turns') = Len(turns)
    BY <2>1, SameTurns
  <2> QED BY <1>2, <1>3, <2>1, <2>2, <2>3
<1>10. CASE FinishChat
  <2> DEFINE k == running.arg
  <2>1. /\ ReplyFiled(k) /\ k \in 1..Len(turns)
        /\ running' = NoTask /\ UNCHANGED <<tasks, pc, call>>
    BY <1>10, ChatReplyFiled
  <2>2. \A x : Runs(x) => x = k
    BY DEF Runs
  <2> HIDE DEF k
  <2>3. TurnsStay /\ Len(turns') = Len(turns)
    BY <2>1 DEF ReplyFiled
  <2>4. \A x : (Queued(x)' <=> Queued(x)) /\ (Asks(x)' <=> Asks(x))
    BY <2>1 DEF Waits, Queued, Asks
  <2> QED BY <1>1, <1>2, <1>3, <2>1, <2>2, <2>3, <2>4, RepliesAre
<1> QED BY <1>4, <1>5, <1>6, <1>7, <1>8, <1>9, <1>10, StillStep DEF Next, Worker

\* No message is filed: sessions keep their titles, new ones have the placeholder.
TitlesStay ==
  /\ messages' = messages /\ Len(sessions) <= Len(sessions')
  /\ \A s \in 1..Len(sessions') :
       sessions'[s].title = IF s \in 1..Len(sessions) THEN sessions[s].title ELSE Placeholder

LEMMA SameTitles ==
  ASSUME TypeOK, messages' = messages, sessions' = sessions
  PROVE  TitlesStay
BY RowTypes DEF TitlesStay

LEMMA NewTitle ==
  ASSUME TypeOK, NEW role \in Roles \union {TornRole}, CreateSession(role), messages' = messages
  PROVE  TitlesStay
<1> DEFINE row == [role |-> role, title |-> Placeholder]
<1>1. row \in SessionRow /\ row.title = Placeholder
  BY HistoryAssumption DEF SessionRow, Placeholder
<1>2. sessions' = Append(sessions, row)
  BY DEF CreateSession
<1> HIDE DEF row
<1>3. /\ Len(sessions') = Len(sessions) + 1 /\ sessions'[Len(sessions) + 1] = row
      /\ \A s \in 1..Len(sessions) : sessions'[s] = sessions[s]
  BY <1>1, <1>2, RowTypes, AppendProperties
<1> QED BY <1>1, <1>3, RowTypes DEF TitlesStay

LEMMA TitlesStep ==
  ASSUME TypeOK, IdsInv,
         \/ \E c \in Conns : Accept(c) \/ Close(c) \/ Free(c) \/ NewSession(c)
         \/ \E c \in Conns, r \in Roles : SetRole(c, r)
         \/ SubmitRestart \/ FinishReset \/ EndSwitch \/ FinishRestart \/ UNCHANGED vars
         \/ Crash \/ Pop \/ \E t \in Threads : SubmitChat(t)
  PROVE  TitlesStay
<1> USE RowTypes, ConnTypes
<1>1. ASSUME NEW c \in Conns, Accept(c)
      PROVE  TitlesStay
  BY <1>1, SameTitles, NewTitle DEF Accept, OpenSession
<1>2. CASE FinishReset
  <2>1. running.conn \in Conns
    BY <1>2, ResetFinished
  <2>2. \A role \in SeenRole(running.conn) : role \in Roles \union {TornRole}
    BY <2>1 DEF SeenRole, TypeOK
  <2> QED BY <1>2, <2>2, SameTitles, NewTitle DEF FinishReset, OpenSession
<1>3. CASE FinishRestart
  <2>1. messages' = messages
    BY <1>3 DEF FinishRestart
  <2>2. ASSUME NEW s, SetSessionRole(s, running.arg)
        PROVE  TitlesStay
    <3>1. CASE s \notin DOMAIN sessions
      BY <2>1, <2>2, <3>1, SameTitles DEF SetSessionRole
    <3>2. CASE s \in DOMAIN sessions
      <4>1. sessions' = [sessions EXCEPT ![s].role = running.arg]
        BY <2>2, <3>2 DEF SetSessionRole
      <4>2. Len(sessions') = Len(sessions)
        BY <4>1
      <4>3. \A i \in 1..Len(sessions) : sessions'[i].title = sessions[i].title
        <5>1. \A i \in 1..Len(sessions) : sessions[i] \in SessionRow
          OBVIOUS
        <5> QED BY <3>2, <4>1, <5>1 DEF SessionRow
      <4> QED BY <2>1, <4>2, <4>3 DEF TitlesStay
    <3> QED BY <3>1, <3>2
  <2>3. CASE sessions' = sessions
    BY <2>1, <2>3, SameTitles
  <2> QED BY <1>3, <2>2, <2>3 DEF FinishRestart, RestartDone, RestartFailed
<1>4. CASE messages' = messages /\ sessions' = sessions
  BY <1>4, SameTitles
<1>5. ASSUME NEW c \in Conns, Close(c) \/ Free(c) \/ NewSession(c)
      PROVE  TitlesStay
  BY <1>4, <1>5 DEF Close, Free, NewSession, storeVars
<1>6. ASSUME NEW c \in Conns, NEW r \in Roles, SetRole(c, r)
      PROVE  TitlesStay
  BY <1>4, <1>6 DEF SetRole, storeVars
<1>7. CASE SubmitRestart \/ EndSwitch \/ UNCHANGED vars \/ Crash \/ Pop
  BY <1>4, <1>7 DEF SubmitRestart, EndSwitch, vars, Crash, Pop, storeVars
<1>8. ASSUME NEW t \in Threads, SubmitChat(t)
      PROVE  TitlesStay
  BY <1>4, <1>8 DEF SubmitChat, storeVars
<1> QED BY <1>1, <1>2, <1>3, <1>5, <1>6, <1>7, <1>8

LEMMA TitlesKept ==
  ASSUME TypeOK, TypeOK', TitleInv, TitlesStay
  PROVE  TitleInv'
<1> USE RowTypes
<1>1. messages' = messages /\ Len(sessions) <= Len(sessions')
  BY DEF TitlesStay
<1>2. \A i, s : Named(i, s)' <=> Named(i, s)
  BY <1>1 DEF Named
<1>3. \A i \in 1..Len(messages) : messages[i].sid \in Int /\ messages[i].sid <= Len(sessions)
  BY DEF TitleInv, MessageRow
<1>4. ASSUME NEW s \in 1..Len(sessions'), s \notin 1..Len(sessions)
      PROVE  \A i \in 1..Len(messages) : ~Named(i, s)
  BY <1>3, <1>4 DEF Named
<1>5. \A i \in 1..Len(messages') : messages'[i].sid <= Len(sessions')
  <2>1. Len(sessions') \in Int
    BY LenProperties DEF TypeOK
  <2> QED BY <1>1, <1>3, <2>1
<1>6. ASSUME NEW s \in 1..Len(sessions')
      PROVE  \/ /\ sessions'[s].title = Placeholder
                /\ \A i \in 1..Len(messages') : ~Named(i, s)'
             \/ \E i \in 1..Len(messages') :
                  /\ Named(i, s)' /\ sessions'[s].title = messages'[i].turn
                  /\ \A j \in 1..i - 1 : ~Named(j, s)'
  <2>1. CASE s \in 1..Len(sessions)
    <3>1. sessions'[s].title = sessions[s].title
      BY <2>1, <1>6 DEF TitlesStay
    <3> QED BY <1>1, <1>2, <2>1, <3>1 DEF TitleInv
  <2>2. CASE s \notin 1..Len(sessions)
    <3>1. sessions'[s].title = Placeholder
      BY <2>2, <1>6 DEF TitlesStay
    <3> QED BY <1>1, <1>2, <1>4, <1>6, <2>2, <3>1
  <2> QED BY <2>1, <2>2
<1> QED BY <1>5, <1>6 DEF TitleInv

\* A message of turn n is filed under id sid: the session of that id takes its
\* title from it if it has none and the message is a question that makes one.
LEMMA TitlesTaken ==
  ASSUME TypeOK, TitleInv, NEW sid \in Int, NEW from, NEW n \in Nat \ {0},
         NEW touched \in BOOLEAN, sid <= Len(sessions), Filed(sid, from, n, touched)
  PROVE  TitleInv'
<1> USE RowTypes
<1>0. PICK new \in Nat : new = Len(messages) + 1
  OBVIOUS
<1>1. /\ Len(messages') = new /\ Len(sessions') = Len(sessions)
      /\ \A i \in 1..Len(messages) : messages'[i] = messages[i] /\ i < new
      /\ messages'[new].sid = sid /\ messages'[new].from = from /\ messages'[new].turn = n
      /\ messages'[new].touched = touched
      /\ \A i \in 1..new : i = new \/ i \in 1..Len(messages)
      /\ 1..new - 1 = 1..Len(messages)
  BY <1>0 DEF Filed
<1>2. \A s : \A i \in 1..Len(messages) : Named(i, s)' <=> Named(i, s)
  BY <1>1 DEF Named
<1>3. \A s : Named(new, s)' <=> s = sid /\ from = "user" /\ touched /\ n \notin Untitled
  BY <1>1 DEF Named
<1>4. \A i \in 1..Len(messages') : messages'[i].sid <= Len(sessions')
  BY <1>1 DEF TitleInv
<1>5. \A j : \A i \in 1..Len(messages) : j \in 1..i - 1 => j \in 1..Len(messages)
  OBVIOUS
<1>6. ASSUME NEW s \in 1..Len(sessions)
      PROVE  \/ /\ sessions'[s].title = Placeholder
                /\ \A i \in 1..Len(messages') : ~Named(i, s)'
             \/ \E i \in 1..Len(messages') :
                  /\ Named(i, s)' /\ sessions'[s].title = messages'[i].turn
                  /\ \A j \in 1..i - 1 : ~Named(j, s)'
  <2>1. sessions'[s].title = IF touched /\ s = sid /\ from = "user" /\ sessions[s].title = Placeholder
                             THEN Title(n) ELSE sessions[s].title
    BY <1>6 DEF Filed
  <2>2. CASE sessions[s].title # Placeholder \/ \E i \in 1..Len(messages) : Named(i, s)
    <3>1. PICK i \in 1..Len(messages) :
            /\ Named(i, s) /\ sessions[s].title = messages[i].turn
            /\ \A j \in 1..i - 1 : ~Named(j, s)
      BY <1>6, <2>2 DEF TitleInv
    <3>2. messages[i].turn # Placeholder
      BY DEF MessageRow, Placeholder
    <3>3. sessions'[s].title = messages'[i].turn /\ Named(i, s)'
      BY <1>1, <1>2, <2>1, <3>1, <3>2
    <3>4. \A j \in 1..i - 1 : ~Named(j, s)'
      BY <1>2, <1>5, <3>1
    <3>5. i \in 1..Len(messages')
      BY <1>0, <1>1
    <3> QED BY <3>3, <3>4, <3>5
  <2>3. CASE sessions[s].title = Placeholder /\ \A i \in 1..Len(messages) : ~Named(i, s)
    <3>1. \A i \in 1..Len(messages) : ~Named(i, s)'
      BY <1>2, <2>3
    <3>2. CASE s = sid /\ from = "user" /\ touched /\ n \notin Untitled
      <4>1. sessions'[s].title = n
        BY <2>1, <2>3, <3>2 DEF Title
      <4>2. Named(new, s)' /\ new \in 1..Len(messages')
        BY <1>0, <1>1, <1>3, <3>2
      <4> QED BY <1>1, <3>1, <4>1, <4>2
    <3>3. CASE ~(s = sid /\ from = "user" /\ touched /\ n \notin Untitled)
      <4>1. sessions'[s].title = Placeholder
        BY <2>1, <2>3, <3>3 DEF Title
      <4>2. \A i \in 1..Len(messages') : ~Named(i, s)'
        BY <1>1, <1>3, <3>1, <3>3
      <4> QED BY <4>1, <4>2
    <3> QED BY <3>2, <3>3
  <2> QED BY <2>2, <2>3
<1> QED BY <1>1, <1>4, <1>6 DEF TitleInv

LEMMA TitleStep ==
  ASSUME TypeOK, TypeOK', Bounded, IdsInv, OpenInv, TitleInv, [Next]_vars
  PROVE  TitleInv'
<1> USE RowTypes, ConnTypes
<1>1. ASSUME NEW c \in Conns, NEW sid \in SeenId(c)
      PROVE  sid \in Int /\ sid <= Len(sessions)
  <2>1. newId[c] \in Nat /\ conns[c].sid \in Nat
    BY DEF TypeOK
  <2>2. newId[c] <= Len(sessions) /\ conns[c].sid <= Len(sessions)
    BY DEF IdsInv
  <2>3. Torn \in Int /\ Torn <= Len(sessions)
    BY DEF Torn
  <2> QED BY <1>1, <2>1, <2>2, <2>3 DEF SeenId
<1>2. ASSUME NEW n \in 1..Len(turns), ReplyFiled(n)
      PROVE  TitleInv'
  <2>1. CASE messages' = messages /\ sessions' = sessions
    BY <2>1, SameTitles, TitlesKept
  <2>2. ASSUME NEW c \in Conns, NEW sid \in SeenId(c), NEW touched \in BOOLEAN,
               Filed(sid, "assistant", n, touched)
        PROVE  TitleInv'
    BY <1>1, <2>2, TitlesTaken
  <2> QED BY <1>2, <2>1, <2>2 DEF ReplyFiled
<1>3. ASSUME NEW t \in Threads, ToolReply(t)
      PROVE  TitleInv'
  BY <1>2, <1>3, ToolReplyFiled
<1>4. CASE FinishChat
  BY <1>2, <1>4, ChatReplyFiled
<1>5. ASSUME NEW t \in Threads, NEW c \in Conns, Ask(t, c)
      PROVE  TitleInv'
  <2>1. PICK n \in Nat \ {0} : n = Len(turns) + 1
    OBVIOUS
  <2>2. \/ messages' = messages /\ sessions' = sessions
        \/ \E sid \in SeenId(c), touched \in BOOLEAN : Filed(sid, "user", n, touched)
    BY <1>5, <2>1, QuestionStored
  <2>3. CASE messages' = messages /\ sessions' = sessions
    BY <2>3, SameTitles, TitlesKept
  <2>4. ASSUME NEW sid \in SeenId(c), NEW touched \in BOOLEAN, Filed(sid, "user", n, touched)
        PROVE  TitleInv'
    BY <1>1, <2>4, TitlesTaken
  <2> QED BY <2>2, <2>3, <2>4
<1> QED BY <1>3, <1>4, <1>5, TitlesStep, TitlesKept DEF Next, Worker

\* What is filed, what is on its way, and in which order.
OrderInv == ThreadInv /\ LineInv /\ RowInv /\ AnswerInv /\ TitleInv

LEMMA OrderHolds == Spec => []OrderInv
<1>1. Init => OrderInv
  <2> SUFFICES ASSUME Init
               PROVE  OrderInv
    OBVIOUS
  <2>1. /\ Len(sessions) = 0 /\ Len(messages) = 0 /\ Len(turns) = 0
        /\ \A t \in Threads : pc[t] = "idle"
    BY EmptySeq DEF Init, StoreInit
  <2> QED BY <2>1 DEF OrderInv, ThreadInv, LineInv, RowInv, AnswerInv, TitleInv
<1>2. Inv /\ Inv' /\ OrderInv /\ [Next]_vars => OrderInv'
  BY ThreadStep, LineStep, RowStep, AnswerStep, TitleStep DEF Inv, OrderInv
<1> QED BY <1>1, <1>2, InvHolds, PTL DEF Spec

\* A reader of a session sees no message twice, no reply without or before its
\* question, and the replies to one thread in the order of its questions: for
\* any limit, whatever fails, dies or is reset.
\* (ws_session.cpp:284-352, session_store.cpp:145-171)
THEOREM ReadableTheorem == Spec => []Readable
<1>1. ASSUME TypeOK, NEW s, NEW j \in ListMessages(s), NEW i \in RowsOf(s), i <= j
      PROVE  i \in ListMessages(s)
  <2>1. RowsOf(s) \subseteq 1..Len(messages) /\ i \in Int /\ j \in Int
        /\ j \in RowsOf(s) /\ Cardinality(RowsOf(s) \intersect 1..j) <= Limit
    BY <1>1, RowTypes DEF RowsOf, ListMessages
  <2>2. IsFiniteSet(RowsOf(s) \intersect 1..j)
    <3>1. IsFiniteSet(1..j)
      BY <2>1, FS_Interval
    <3> QED BY <3>1, FS_Subset
  <2>3. RowsOf(s) \intersect 1..i \subseteq RowsOf(s) \intersect 1..j
    BY <1>1, <2>1
  <2>4. /\ Cardinality(RowsOf(s) \intersect 1..i) <= Cardinality(RowsOf(s) \intersect 1..j)
        /\ Cardinality(RowsOf(s) \intersect 1..i) \in Nat
        /\ Cardinality(RowsOf(s) \intersect 1..j) \in Nat
    <3>1. IsFiniteSet(RowsOf(s) \intersect 1..i)
      BY <2>2, <2>3, FS_Subset
    <3> QED BY <2>2, <2>3, <3>1, FS_Subset, FS_CardinalityType
  <2>5. Cardinality(RowsOf(s) \intersect 1..i) <= Limit
    BY <2>1, <2>4, StoreAssumption
  <2> QED BY <2>5 DEF ListMessages
<1>2. Inv /\ OrderInv => Readable
  <2> SUFFICES ASSUME Inv, OrderInv, NEW s \in DOMAIN sessions, NEW j \in ListMessages(s),
                      NEW i \in RowsOf(s)
               PROVE  /\ i # j => \/ messages[i].turn # messages[j].turn
                                  \/ messages[i].from # messages[j].from
                      /\ messages[i].turn = messages[j].turn /\ messages[i].from = "user"
                           => i <= j /\ i \in ListMessages(s)
                      /\ /\ messages[i].from = "assistant" /\ messages[j].from = "assistant"
                         /\ turns[messages[i].turn].thread = turns[messages[j].turn].thread
                         /\ ~turns[messages[i].turn].tool /\ ~turns[messages[j].turn].tool
                         /\ messages[i].turn < messages[j].turn
                         => i < j
    BY DEF Readable
  <2>1. /\ i \in 1..Len(messages) /\ j \in 1..Len(messages)
        /\ messages[j].from \in {"user", "assistant"}
    BY RowTypes DEF Inv, RowsOf, ListMessages, MessageRow
  <2>2. i # j => messages[i].turn # messages[j].turn \/ messages[i].from # messages[j].from
    BY <2>1 DEF OrderInv, RowInv
  <2>3. messages[i].turn = messages[j].turn /\ messages[i].from = "user" => i <= j
    <3>1. CASE messages[j].from = "user"
      BY <2>1, <2>2, <3>1
    <3>2. CASE messages[j].from = "assistant"
      BY <2>1, <3>2 DEF OrderInv, RowInv
    <3> QED BY <2>1, <3>1, <3>2
  <2>4. messages[i].turn = messages[j].turn /\ messages[i].from = "user" => i \in ListMessages(s)
    BY <1>1, <2>3 DEF Inv
  <2>5. /\ messages[i].from = "assistant" /\ messages[j].from = "assistant"
        /\ turns[messages[i].turn].thread = turns[messages[j].turn].thread
        /\ ~turns[messages[i].turn].tool /\ ~turns[messages[j].turn].tool
        /\ messages[i].turn < messages[j].turn
        => i < j
    BY <2>1 DEF OrderInv, RowInv, InLine
  <2> QED BY <2>2, <2>3, <2>4, <2>5
<1> QED BY <1>2, InvHolds, OrderHolds, PTL

\* When nothing is under way, a turn that has lost nothing has its question and
\* its reply in the store: no queue, reset, stop or second connection drops
\* one.  (ws_session.cpp:248-282, 318-322)
THEOREM AnsweredTheorem == Spec => []QuestionsAnswered
<1>1. Inv /\ OrderInv => QuestionsAnswered
  <2> SUFFICES ASSUME Inv, OrderInv, AtRest, NEW n \in DOMAIN turns, ~turns[n].lost,
                      NEW from \in {"user", "assistant"}
               PROVE  \E i \in DOMAIN messages : messages[i].turn = n /\ messages[i].from = from
    BY DEF QuestionsAnswered
  <2>1. DOMAIN messages = 1..Len(messages) /\ n \in 1..Len(turns)
    BY RowTypes DEF Inv
  <2>2. ~Runs(n) /\ ~Queued(n) /\ ~Asks(n)
    <3>1. Len(tasks) = 0
      BY EmptySeq DEF AtRest
    <3> QED BY <3>1 DEF AtRest, Runs, Queued, Asks
  <2>3. Questioned(n) /\ Answered(n)
    BY <2>1, <2>2 DEF OrderInv, AnswerInv
  <2> QED BY <2>1, <2>3 DEF Questioned, Answered
<1> QED BY <1>1, InvHolds, OrderHolds, PTL

\* A session is called by the first question that was stored in it with its
\* second statement, and by the placeholder until there is one.
\* (session_store.cpp:173-215)
THEOREM TitleTheorem == Spec => []TitleIsFirstQuestion
<1>1. Inv /\ OrderInv => TitleIsFirstQuestion
  <2> SUFFICES ASSUME Inv, OrderInv, NEW s \in DOMAIN sessions
               PROVE  LET asked == {i \in RowsOf(s) : /\ messages[i].from = "user"
                                                      /\ messages[i].touched
                                                      /\ messages[i].turn \notin Untitled}
                      IN  IF asked = {} THEN sessions[s].title = Placeholder
                          ELSE \E i \in asked : /\ \A j \in asked : i <= j
                                                /\ sessions[s].title = messages[i].turn
    BY DEF TitleIsFirstQuestion
  <2> DEFINE asked == {i \in RowsOf(s) : /\ messages[i].from = "user" /\ messages[i].touched
                                         /\ messages[i].turn \notin Untitled}
  <2>1. s \in 1..Len(sessions) /\ DOMAIN messages = 1..Len(messages)
    BY RowTypes DEF Inv
  <2>2. \A i : i \in asked <=> i \in 1..Len(messages) /\ Named(i, s)
    BY <2>1 DEF RowsOf, Named
  <2> HIDE DEF asked
  <2>3. CASE sessions[s].title = Placeholder /\ \A i \in 1..Len(messages) : ~Named(i, s)
    <3>1. asked = {}
      BY <2>2, <2>3
    <3> QED BY <2>3, <3>1 DEF asked
  <2>4. ASSUME NEW i \in 1..Len(messages), Named(i, s), sessions[s].title = messages[i].turn,
               \A j \in 1..i - 1 : ~Named(j, s)
        PROVE  i \in asked /\ \A j \in asked : i <= j
    <3>1. \A j \in 1..Len(messages) : j < i => j \in 1..i - 1
      OBVIOUS
    <3> QED BY <2>2, <2>4, <3>1
  <2>5. CASE \E i \in 1..Len(messages) :
               /\ Named(i, s) /\ sessions[s].title = messages[i].turn
               /\ \A j \in 1..i - 1 : ~Named(j, s)
    <3>1. \E i \in asked : (\A j \in asked : i <= j) /\ sessions[s].title = messages[i].turn
      BY <2>4, <2>5
    <3> QED BY <3>1 DEF asked
  <2> QED BY <2>1, <2>3, <2>5 DEF OrderInv, TitleInv
<1> QED BY <1>1, InvHolds, OrderHolds, PTL
=============================================================================

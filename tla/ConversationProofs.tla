--------------------------- MODULE ConversationProofs ---------------------------
(* A page and its server, for any numbers of turns, clicks, calls of startMic   *)
(* and lost connections: what a bubble may hold, when the button comes back,    *)
(* and that the microphone is released.                                      *)
EXTENDS Conversation, FiniteSetTheorems, SequenceTheorems, TLAPS

-----------------------------------------------------------------------------
(* Sequences. *)

LEMMA Pushed ==
  ASSUME NEW S, NEW s \in Seq(S), NEW e \in Seq(S)
  PROVE  /\ s \o e \in Seq(S) /\ Len(s) \in Nat /\ Len(e) \in Nat
         /\ DOMAIN s = 1..Len(s) /\ DOMAIN e = 1..Len(e)
         /\ DOMAIN (s \o e) = 1..(Len(s) + Len(e)) /\ Len(s \o e) = Len(s) + Len(e)
         /\ \A i \in DOMAIN s : i \in DOMAIN (s \o e) /\ (s \o e)[i] = s[i]
         /\ \A n \in DOMAIN e : Len(s) + n \in DOMAIN (s \o e) /\ (s \o e)[Len(s) + n] = e[n]
         /\ \A k \in DOMAIN (s \o e) : \/ k \in DOMAIN s /\ (s \o e)[k] = s[k]
                                       \/ \E n \in DOMAIN e : k = Len(s) + n /\ (s \o e)[k] = e[n]
<1>1. s \o e \in Seq(S) /\ Len(s \o e) = Len(s) + Len(e) /\ Len(s) \in Nat /\ Len(e) \in Nat
      /\ DOMAIN s = 1..Len(s) /\ DOMAIN e = 1..Len(e)
  BY ConcatProperties, LenProperties
<1>2. DOMAIN (s \o e) = 1..(Len(s) + Len(e))
  BY <1>1, LenProperties
<1>3. \A i \in 1..(Len(s) + Len(e)) : (s \o e)[i] = IF i <= Len(s) THEN s[i] ELSE e[i - Len(s)]
  BY ConcatProperties
<1>4. \A i \in DOMAIN s : i \in DOMAIN (s \o e) /\ (s \o e)[i] = s[i]
  BY <1>1, <1>2, <1>3
<1>5. \A n \in DOMAIN e : Len(s) + n \in DOMAIN (s \o e) /\ (s \o e)[Len(s) + n] = e[n]
  BY <1>1, <1>2, <1>3
<1>6. ASSUME NEW k \in DOMAIN (s \o e)
      PROVE  \/ k \in DOMAIN s /\ (s \o e)[k] = s[k]
             \/ \E n \in DOMAIN e : k = Len(s) + n /\ (s \o e)[k] = e[n]
  <2>1. CASE k <= Len(s)
    BY <1>1, <1>2, <1>4, <2>1
  <2>2. CASE k > Len(s)
    <3>1. k - Len(s) \in DOMAIN e /\ k = Len(s) + (k - Len(s))
      BY <1>1, <1>2, <2>2
    <3> QED BY <1>5, <3>1
  <2> QED BY <1>1, <1>2, <2>1, <2>2
<1> QED BY <1>1, <1>2, <1>4, <1>5, <1>6

LEMMA Pulled ==
  ASSUME NEW S, NEW s \in Seq(S), s # <<>>
  PROVE  /\ Tail(s) \in Seq(S) /\ Len(s) \in Nat /\ DOMAIN s = 1..Len(s) /\ 1 \in DOMAIN s
         /\ Head(s) = s[1] /\ s[1] \in S
         /\ DOMAIN Tail(s) = 1..(Len(s) - 1) /\ Len(Tail(s)) = Len(s) - 1
         /\ \A k \in DOMAIN Tail(s) : k + 1 \in DOMAIN s /\ Tail(s)[k] = s[k + 1]
         /\ \A k \in DOMAIN s : k # 1 => k - 1 \in DOMAIN Tail(s) /\ Tail(s)[k - 1] = s[k]
<1>1. /\ Tail(s) \in Seq(S) /\ Len(Tail(s)) = Len(s) - 1
      /\ \A i \in 1..Len(Tail(s)) : Tail(s)[i] = s[i + 1]
  BY HeadTailProperties
<1>2. Len(s) \in Nat \ {0} /\ DOMAIN s = 1..Len(s) /\ DOMAIN Tail(s) = 1..(Len(s) - 1)
  BY <1>1, EmptySeq, LenProperties
<1>3. 1 \in DOMAIN s /\ s[1] \in S
  BY <1>2, ElementOfSeq
<1>4. Head(s) = s[1]
  BY DEF Head
<1>5. \A k \in DOMAIN Tail(s) : k + 1 \in DOMAIN s /\ Tail(s)[k] = s[k + 1]
  BY <1>1, <1>2
<1>6. \A k \in DOMAIN s : k # 1 => k - 1 \in DOMAIN Tail(s) /\ Tail(s)[k - 1] = s[k]
  BY <1>1, <1>2
<1> QED BY <1>1, <1>2, <1>3, <1>4, <1>5, <1>6

LEMMA OneElement ==
  ASSUME NEW S, NEW x \in S
  PROVE  /\ <<x>> \in Seq(S) /\ Len(<<x>>) = 1 /\ DOMAIN <<x>> = {1} /\ <<x>>[1] = x
         /\ 1 \in DOMAIN <<x>> /\ \A n \in DOMAIN <<x>> : <<x>>[n] = x
OBVIOUS

LEMMA TwoElements ==
  ASSUME NEW S, NEW x \in S, NEW y \in S
  PROVE  /\ <<x, y>> \in Seq(S) /\ Len(<<x, y>>) = 2 /\ DOMAIN <<x, y>> = {1, 2}
         /\ <<x, y>>[1] = x /\ <<x, y>>[2] = y
OBVIOUS

LEMMA Appended ==
  ASSUME NEW S, NEW s \in Seq(S), NEW x \in S
  PROVE  /\ Append(s, x) \in Seq(S) /\ Len(Append(s, x)) = Len(s) + 1 /\ Len(s) \in Nat
         /\ Append(s, x) # <<>>
         /\ DOMAIN s = 1..Len(s) /\ DOMAIN Append(s, x) = 1..(Len(s) + 1)
         /\ \A i \in DOMAIN s : i \in DOMAIN Append(s, x) /\ Append(s, x)[i] = s[i]
         /\ Append(s, x)[Len(s) + 1] = x /\ Len(s) + 1 \in DOMAIN Append(s, x)
         /\ \A i \in DOMAIN Append(s, x) : i \in DOMAIN s \/ i = Len(s) + 1
<1>1. /\ Append(s, x) \in Seq(S) /\ Len(Append(s, x)) = Len(s) + 1 /\ Append(s, x) # <<>>
      /\ \A i \in 1..Len(s) : Append(s, x)[i] = s[i]
      /\ Append(s, x)[Len(s) + 1] = x
  BY AppendProperties
<1>2. /\ Len(s) \in Nat /\ DOMAIN s = 1..Len(s)
      /\ DOMAIN Append(s, x) = 1..(Len(s) + 1)
  BY <1>1, LenProperties
<1> QED BY <1>1, <1>2

-----------------------------------------------------------------------------
(* Types *)

Ups == [type : {"chat", "stop", "new_session", "set_role", "mic_start"}, turn : {0}]
Downs == [type : {"llm_delta"}, turn : 1..MaxTurns]
         \union [type : {"llm_end", "asr_text", "interrupt", "tts_end", "reset_done", "error"},
                 turn : 0..MaxTurns]
Jobs == [kind : {"none", "chat", "reset", "restart"}, arg : Nat]
Turns == [conn : 0..MaxDrops, spoken : BOOLEAN, tool : BOOLEAN]

PageTypes ==
  /\ socket \in {"connecting", "open"} /\ stuck \in BOOLEAN
  /\ generating \in BOOLEAN /\ voiceTurn \in BOOLEAN /\ carried \in BOOLEAN
  /\ bubble \subseteq 1..MaxTurns
  /\ drops \in 0..MaxDrops
WireTypes == up \in Seq(Ups) /\ down \in Seq(Downs)
ServerTypes ==
  /\ turns \in Seq(Turns) /\ Len(turns) <= MaxTurns
  /\ tasks \in Seq(Jobs) /\ running \in Jobs
  /\ tts \in Seq(Nat)
  /\ busy \in BOOLEAN /\ mic \in BOOLEAN /\ ending \in BOOLEAN
  /\ deltas \in 0..MaxDeltas /\ muted \in BOOLEAN
TypeInv == PageTypes /\ WireTypes /\ ServerTypes

\* The worker has a turn that was started, and so has every chat task; a turn
\* belongs to this connection or to an earlier one; on_done runs in a turn only.
TaskInv ==
  /\ \A t \in DOMAIN turns : /\ turns[t].conn <= drops
                             /\ turns[t].conn = drops => socket = "open"
                             /\ turns[t].conn = drops /\ turns[t].spoken => mic
  /\ mic => socket = "open"
  /\ running.kind = "chat" => running.arg \in DOMAIN turns
  /\ \A i \in DOMAIN tasks : tasks[i].kind = "chat" => tasks[i].arg \in DOMAIN turns
  /\ ending => running.kind = "chat"

\* What the types say about elements.
LEMMA Rows ==
  ASSUME TypeInv
  PROVE  /\ Len(down) \in Nat /\ DOMAIN down = 1..Len(down)
         /\ \A i \in DOMAIN down : down[i] \in Downs
         /\ Len(turns) \in Nat /\ DOMAIN turns = 1..Len(turns)
         /\ \A t \in DOMAIN turns : turns[t] \in Turns
         /\ Len(tasks) \in Nat /\ DOMAIN tasks = 1..Len(tasks)
         /\ \A i \in DOMAIN tasks : tasks[i] \in Jobs
         /\ MaxTurns \in Nat /\ MaxDrops \in Nat
<1>1. down \in Seq(Downs) /\ turns \in Seq(Turns) /\ tasks \in Seq(Jobs)
  BY DEF TypeInv, WireTypes, ServerTypes
<1> QED BY <1>1, LenProperties, ElementOfSeq, WebClientAssumption

\* Messages of the server.
LEMMA Said ==
  ASSUME NEW type \in {"llm_delta", "llm_end", "asr_text", "interrupt", "tts_end",
                       "reset_done", "error"},
         NEW turn \in 0..MaxTurns, type = "llm_delta" => turn # 0
  PROVE  /\ Message(type, turn) \in Downs
         /\ Message(type, turn).type = type /\ Message(type, turn).turn = turn
         /\ <<Message(type, turn)>> \in Seq(Downs)
         /\ Len(<<Message(type, turn)>>) = 1
         /\ 1 \in DOMAIN <<Message(type, turn)>>
         /\ \A n \in DOMAIN <<Message(type, turn)>> : <<Message(type, turn)>>[n] = Message(type, turn)
<1>1. /\ Message(type, turn) \in Downs
      /\ Message(type, turn).type = type /\ Message(type, turn).turn = turn
  BY DEF Message, Downs
<1> QED BY <1>1, OneElement

LEMMA NothingSaid ==
  /\ <<>> \in Seq(Downs) /\ Len(<<>>) = 0 /\ DOMAIN <<>> = {}
BY EmptySeq, LenProperties

\* What InterruptCurrentTurn and StartChatTurn say when the session was busy.
LEMMA InterruptSaid ==
  ASSUME TypeInv
  PROVE  /\ InterruptMsgs \in Seq(Downs)
         /\ \A n \in DOMAIN InterruptMsgs : InterruptMsgs[n].type = "interrupt"
         /\ busy => 1 \in DOMAIN InterruptMsgs
<1>1. 0 \in 0..MaxTurns
  BY Rows
<1>2. CASE busy
  BY <1>1, <1>2, Said DEF InterruptMsgs
<1>3. CASE ~busy
  BY <1>3, NothingSaid DEF InterruptMsgs
<1> QED BY <1>2, <1>3

\* A message to one connection, if that is still the present one.
Told(conn, msg, e) ==
  /\ down' = down \o e
  /\ \A n \in DOMAIN e : e[n] = msg /\ n = 1
  /\ IF conn = drops /\ socket = "open" THEN 1 \in DOMAIN e ELSE e = <<>>

LEMMA DownSays ==
  ASSUME TypeInv, NEW conn, NEW msg \in Downs, down' = Down(conn, <<msg>>)
  PROVE  \E e \in Seq(Downs) : Told(conn, msg, e)
<1>1. CASE conn = drops /\ socket = "open"
  <2>1. down' = down \o <<msg>>
    BY <1>1 DEF Down
  <2>2. /\ <<msg>> \in Seq(Downs) /\ DOMAIN <<msg>> = {1}
        /\ \A n \in DOMAIN <<msg>> : <<msg>>[n] = msg
    BY OneElement
  <2> QED BY <1>1, <2>1, <2>2 DEF Told
<1>2. CASE ~(conn = drops /\ socket = "open")
  <2>1. down' = down
    BY <1>2 DEF Down
  <2>2. down \in Seq(Downs)
    BY DEF TypeInv, WireTypes
  <2>3. down' = down \o <<>>
    BY <2>1, <2>2, ConcatEmptySeq
  <2> QED BY <1>2, <2>3, NothingSaid DEF Told
<1> QED BY <1>1, <1>2

\* InterruptCurrentTurn: what it says, and what becomes of markers and muted.
Cut(e) == /\ down' = down \o e
          /\ \A n \in DOMAIN e : e[n].type = "interrupt"
          /\ busy => 1 \in DOMAIN e

LEMMA Interrupted ==
  ASSUME TypeInv, InterruptCurrentTurn
  PROVE  /\ tts' = <<>> /\ busy' = FALSE
         /\ muted' \in BOOLEAN /\ (muted => muted') /\ (~busy /\ tts # <<>> => muted')
         /\ UNCHANGED <<turns, mic, running, deltas, ending>>
         /\ \E e \in Seq(Downs) : Cut(e)
<1>1. muted' = (muted \/ (~busy /\ tts # <<>>))
  BY DEF InterruptCurrentTurn
<1>2. muted' \in BOOLEAN /\ (muted => muted') /\ (~busy /\ tts # <<>> => muted')
  BY <1>1
<1>3. down' = down \o InterruptMsgs
  BY DEF InterruptCurrentTurn
<1>4. \E e \in Seq(Downs) : Cut(e)
  BY <1>3, InterruptSaid DEF Cut
<1> QED BY <1>2, <1>4 DEF InterruptCurrentTurn

\* StartChatTurn: the new turn, its messages and its marker or task.
Begun(spoken, tool, e) ==
  /\ Len(turns) + 1 <= MaxTurns
  /\ turns' = Append(turns, [conn |-> drops, spoken |-> spoken, tool |-> tool])
  /\ down' = down \o e
  /\ \A n \in DOMAIN e :
       /\ e[n].type \in {"interrupt", "asr_text", "llm_delta", "llm_end"}
       /\ e[n].type = "asr_text" => spoken
       /\ e[n].type = "llm_delta" =>
            /\ e[n].turn = Len(turns) + 1 /\ tool
            /\ \E k \in DOMAIN e : n < k /\ e[k].type = "llm_end"
  /\ busy => \E k \in DOMAIN e : e[k].type = "interrupt"
  /\ tool => \E k \in DOMAIN e : e[k].type = "llm_end"
  /\ busy' \in BOOLEAN
  /\ tts' = IF tool /\ spoken
            THEN Append(IF busy THEN <<>> ELSE tts, Len(turns) + 1)
            ELSE IF busy THEN <<>> ELSE tts
  /\ tasks' = IF tool THEN tasks
              ELSE Append(tasks, [kind |-> "chat", arg |-> Len(turns) + 1])
  /\ UNCHANGED <<mic, running, deltas, ending, muted>>

LEMMA Started ==
  ASSUME TypeInv, NEW spoken \in BOOLEAN, StartChatTurn(spoken)
  PROVE  \E tool \in BOOLEAN, e \in Seq(Downs) : Begun(spoken, tool, e)
<1> DEFINE turn == Len(turns) + 1
           m1 == InterruptMsgs
           m2 == IF spoken THEN <<Message("asr_text", turn)>> ELSE <<>>
           m3 == <<Message("llm_delta", turn), Message("llm_end", turn)>>
           e2 == m1 \o m2
           e3 == e2 \o m3
<1>0. turn <= MaxTurns /\ turn \in 0..MaxTurns /\ turn # 0 /\ down \in Seq(Downs)
  <2>1. turn <= MaxTurns
    BY DEF StartChatTurn
  <2> QED BY <2>1, Rows DEF TypeInv, WireTypes
<1>1. /\ m1 \in Seq(Downs)
      /\ \A n \in DOMAIN m1 : m1[n].type = "interrupt"
      /\ busy => 1 \in DOMAIN m1
  BY InterruptSaid
<1>2. /\ m2 \in Seq(Downs)
      /\ \A n \in DOMAIN m2 : m2[n].type = "asr_text" /\ spoken
  <2>1. CASE spoken
    BY <1>0, <2>1, Said
  <2>2. CASE ~spoken
    BY <2>2, NothingSaid
  <2> QED BY <2>1, <2>2
<1>3. /\ m3 \in Seq(Downs) /\ DOMAIN m3 = {1, 2}
      /\ m3[1].type = "llm_delta" /\ m3[1].turn = turn /\ m3[2].type = "llm_end"
  <2>1. /\ Message("llm_delta", turn) \in Downs /\ Message("llm_end", turn) \in Downs
        /\ Message("llm_delta", turn).type = "llm_delta"
        /\ Message("llm_delta", turn).turn = turn
        /\ Message("llm_end", turn).type = "llm_end"
    <3>1. "llm_delta" \in {"llm_delta", "llm_end", "asr_text", "interrupt", "tts_end",
                            "reset_done", "error"}
          /\ "llm_end" \in {"llm_delta", "llm_end", "asr_text", "interrupt", "tts_end",
                             "reset_done", "error"}
      OBVIOUS
    <3> HIDE DEF turn
    <3>2. /\ Message("llm_delta", turn) \in Downs
          /\ Message("llm_delta", turn).type = "llm_delta"
          /\ Message("llm_delta", turn).turn = turn
      BY <1>0, <3>1 DEF Message, Downs
    <3>3. /\ Message("llm_end", turn) \in Downs
          /\ Message("llm_end", turn).type = "llm_end"
      BY <1>0, <3>1 DEF Message, Downs
    <3> QED BY <3>2, <3>3
  <2> QED BY <2>1, TwoElements
<1>4. /\ e2 \in Seq(Downs)
      /\ \A n \in DOMAIN e2 : e2[n].type \in {"interrupt", "asr_text"}
                              /\ (e2[n].type = "asr_text" => spoken)
      /\ busy => \E k \in DOMAIN e2 : e2[k].type = "interrupt"
  <2> HIDE DEF m1, m2
  <2>1. /\ e2 \in Seq(Downs)
        /\ \A i \in DOMAIN m1 : i \in DOMAIN e2 /\ e2[i] = m1[i]
        /\ \A k \in DOMAIN e2 : \/ k \in DOMAIN m1 /\ e2[k] = m1[k]
                                \/ \E n \in DOMAIN m2 : k = Len(m1) + n /\ e2[k] = m2[n]
    BY <1>1, <1>2, Pushed
  <2> HIDE DEF e2
  <2>2. \A n \in DOMAIN e2 : e2[n].type \in {"interrupt", "asr_text"}
                             /\ (e2[n].type = "asr_text" => spoken)
    BY <1>1, <1>2, <2>1
  <2>3. busy => \E k \in DOMAIN e2 : e2[k].type = "interrupt"
    BY <1>1, <2>1
  <2> QED BY <2>1, <2>2, <2>3
<1>5. /\ e3 \in Seq(Downs)
      /\ \A n \in DOMAIN e3 :
           /\ e3[n].type \in {"interrupt", "asr_text", "llm_delta", "llm_end"}
           /\ e3[n].type = "asr_text" => spoken
           /\ e3[n].type = "llm_delta" =>
                /\ e3[n].turn = turn
                /\ \E k \in DOMAIN e3 : n < k /\ e3[k].type = "llm_end"
      /\ busy => \E k \in DOMAIN e3 : e3[k].type = "interrupt"
      /\ \E k \in DOMAIN e3 : e3[k].type = "llm_end"
  <2> HIDE DEF m3, e2, turn
  <2>1. /\ e3 \in Seq(Downs) /\ Len(e2) \in Nat /\ DOMAIN e2 = 1..Len(e2)
        /\ \A i \in DOMAIN e2 : i \in DOMAIN e3 /\ e3[i] = e2[i]
        /\ \A n \in DOMAIN m3 : Len(e2) + n \in DOMAIN e3 /\ e3[Len(e2) + n] = m3[n]
        /\ \A k \in DOMAIN e3 : \/ k \in DOMAIN e2 /\ e3[k] = e2[k]
                                \/ \E n \in DOMAIN m3 : k = Len(e2) + n /\ e3[k] = m3[n]
    BY <1>3, <1>4, Pushed
  <2> HIDE DEF e3
  <2>2. Len(e2) + 2 \in DOMAIN e3 /\ e3[Len(e2) + 2].type = "llm_end"
    BY <1>3, <2>1
  <2>3. ASSUME NEW n \in DOMAIN e3
        PROVE  /\ e3[n].type \in {"interrupt", "asr_text", "llm_delta", "llm_end"}
               /\ e3[n].type = "asr_text" => spoken
               /\ e3[n].type = "llm_delta" =>
                    /\ e3[n].turn = turn
                    /\ \E k \in DOMAIN e3 : n < k /\ e3[k].type = "llm_end"
    <3>1. CASE n \in DOMAIN e2 /\ e3[n] = e2[n]
      BY <1>4, <3>1
    <3>2. CASE \E i \in DOMAIN m3 : n = Len(e2) + i /\ e3[n] = m3[i]
      <4>1. PICK i \in DOMAIN m3 : n = Len(e2) + i /\ e3[n] = m3[i]
        BY <3>2
      <4>2. CASE i = 1
        <5>1. n < Len(e2) + 2
          BY <2>1, <4>1, <4>2
        <5> QED BY <1>3, <2>2, <4>1, <4>2, <5>1
      <4>3. CASE i = 2
        BY <1>3, <4>1, <4>3
      <4> QED BY <1>3, <4>1, <4>2, <4>3
    <3> QED BY <2>1, <3>1, <3>2
  <2>4. busy => \E k \in DOMAIN e3 : e3[k].type = "interrupt"
    BY <1>4, <2>1
  <2> QED BY <2>1, <2>2, <2>3, <2>4
<1>6. (down \o m1) \o m2 = down \o e2 /\ ((down \o m1) \o m2) \o m3 = down \o e3
  <2>0. \A s, t, u \in Seq(Downs) : (s \o t) \o u = s \o (t \o u)
    BY ConcatAssociative
  <2> HIDE DEF m1, m2, m3
  <2>1. (down \o m1) \o m2 = down \o (m1 \o m2)
    BY <1>0, <1>1, <1>2, <2>0
  <2> HIDE DEF e2
  <2>2. (down \o e2) \o m3 = down \o (e2 \o m3)
    BY <1>0, <1>3, <1>4, <2>0
  <2> QED BY <2>1, <2>2 DEF e2
<1>7. ASSUME /\ turns' = Append(turns, [conn |-> drops, spoken |-> spoken, tool |-> TRUE])
             /\ down' = ((down \o m1) \o m2) \o m3
             /\ tts' = IF spoken THEN Append(IF busy THEN <<>> ELSE tts, turn)
                     ELSE IF busy THEN <<>> ELSE tts
             /\ busy' = spoken
             /\ tasks' = tasks
      PROVE  \E tool \in BOOLEAN, e \in Seq(Downs) : Begun(spoken, tool, e)
  <2>1. UNCHANGED <<mic, running, deltas, ending, muted>>
    BY DEF StartChatTurn
  <2>2. down' = down \o e3
    BY <1>6, <1>7
  <2> HIDE DEF e3
  <2>3. Begun(spoken, TRUE, e3)
    BY <1>0, <1>5, <1>7, <2>1, <2>2 DEF Begun
  <2> QED BY <1>5, <2>3
<1>8. ASSUME /\ turns' = Append(turns, [conn |-> drops, spoken |-> spoken, tool |-> FALSE])
             /\ down' = (down \o m1) \o m2
             /\ tts' = IF busy THEN <<>> ELSE tts
             /\ busy' = TRUE
             /\ tasks' = Append(tasks, [kind |-> "chat", arg |-> turn])
      PROVE  \E tool \in BOOLEAN, e \in Seq(Downs) : Begun(spoken, tool, e)
  <2>1. UNCHANGED <<mic, running, deltas, ending, muted>>
    BY DEF StartChatTurn
  <2>2. down' = down \o e2
    BY <1>6, <1>8
  <2> HIDE DEF e2
  <2>3. Begun(spoken, FALSE, e2)
    BY <1>0, <1>4, <1>8, <2>1, <2>2 DEF Begun
  <2> QED BY <1>4, <2>3
<1>9. \E tool \in BOOLEAN, e \in Seq(Downs) : Begun(spoken, tool, e)
  BY <1>7, <1>8 DEF StartChatTurn
<1> QED BY <1>9

\* A new turn is typed and has a connection that is there.
LEMMA StartedTypes ==
  ASSUME TypeInv, TaskInv, NEW spoken \in BOOLEAN, spoken => mic, socket = "open",
         StartChatTurn(spoken), UNCHANGED <<drops, socket>>
  PROVE  ServerTypes' /\ down' \in Seq(Downs) /\ TaskInv'
<1>1. PICK tool \in BOOLEAN, e \in Seq(Downs) : Begun(spoken, tool, e)
  BY Started
<1> USE DEF Begun
<1> DEFINE row == [conn |-> drops, spoken |-> spoken, tool |-> tool]
           job == [kind |-> "chat", arg |-> Len(turns) + 1]
<1>2. row \in Turns /\ row.conn = drops /\ row.spoken = spoken
  BY DEF TypeInv, PageTypes, Turns
<1>3. Len(turns) \in Nat /\ Len(turns) + 1 \in Nat /\ turns \in Seq(Turns)
      /\ tasks \in Seq(Jobs) /\ tts \in Seq(Nat) /\ down \in Seq(Downs)
  BY Rows DEF TypeInv, WireTypes, ServerTypes
<1>4. job \in Jobs /\ job.kind = "chat" /\ job.arg = Len(turns) + 1
  BY <1>3 DEF Jobs
<1>5. turns' = Append(turns, row)
  BY <1>1
<1>6. /\ turns' \in Seq(Turns) /\ Len(turns') = Len(turns) + 1
      /\ DOMAIN turns = 1..Len(turns)
      /\ \A t \in DOMAIN turns : t \in DOMAIN turns' /\ turns'[t] = turns[t]
      /\ turns'[Len(turns) + 1] = row /\ Len(turns) + 1 \in DOMAIN turns'
      /\ \A t \in DOMAIN turns' : t \in DOMAIN turns \/ t = Len(turns) + 1
  <2> HIDE DEF row
  <2> QED BY <1>2, <1>3, <1>5, Appended
<1>7. tts' \in Seq(Nat)
  <2>1. (IF busy THEN <<>> ELSE tts) \in Seq(Nat)
    BY <1>3, EmptySeq
  <2>2. Append(IF busy THEN <<>> ELSE tts, Len(turns) + 1) \in Seq(Nat)
    BY <1>3, <2>1, AppendProperties
  <2> QED BY <1>1, <2>1, <2>2
<1>8. /\ tasks' \in Seq(Jobs)
      /\ \A i \in DOMAIN tasks' : tasks'[i].kind = "chat" => tasks'[i].arg \in DOMAIN turns'
  <2>0. \A i \in DOMAIN tasks : tasks[i].kind = "chat" => tasks[i].arg \in DOMAIN turns'
    BY <1>6 DEF TaskInv
  <2>1. CASE tool
    BY <1>1, <1>3, <2>0, <2>1
  <2>2. CASE ~tool
    <3>1. tasks' = Append(tasks, job)
      BY <1>1, <2>2
    <3> HIDE DEF job
    <3>2. /\ tasks' \in Seq(Jobs) /\ tasks'[Len(tasks) + 1] = job
          /\ \A i \in DOMAIN tasks : tasks'[i] = tasks[i]
          /\ \A i \in DOMAIN tasks' : i \in DOMAIN tasks \/ i = Len(tasks) + 1
      BY <1>3, <1>4, <3>1, Appended
    <3> QED BY <1>4, <1>6, <2>0, <3>2
  <2> QED BY <2>1, <2>2
<1>9. down' \in Seq(Downs)
  BY <1>1, <1>3, ConcatProperties
<1>10. ServerTypes'
  BY <1>1, <1>6, <1>7, <1>8 DEF TypeInv, ServerTypes
<1>11. \A t \in DOMAIN turns' : /\ turns'[t].conn <= drops
                                /\ turns'[t].conn = drops => socket = "open"
                                /\ turns'[t].conn = drops /\ turns'[t].spoken => mic
  <2>1. drops \in Int
    BY Rows DEF TypeInv, PageTypes
  <2>2. ASSUME NEW t \in DOMAIN turns', t \in DOMAIN turns
        PROVE  /\ turns'[t].conn <= drops
               /\ turns'[t].conn = drops => socket = "open"
               /\ turns'[t].conn = drops /\ turns'[t].spoken => mic
    BY <1>6, <2>2 DEF TaskInv
  <2>3. /\ turns'[Len(turns) + 1].conn <= drops
        /\ turns'[Len(turns) + 1].spoken => mic
    BY <1>2, <1>6, <2>1
  <2> QED BY <1>6, <2>2, <2>3
<1> QED BY <1>1, <1>6, <1>8, <1>9, <1>10, <1>11 DEF TaskInv

LEMMA InterruptedTypes ==
  ASSUME TypeInv, InterruptCurrentTurn,
         \/ UNCHANGED tasks
         \/ \E job \in Jobs : tasks' = Append(tasks, job) /\ job.kind # "chat",
         UNCHANGED <<drops, socket>>
  PROVE  /\ ServerTypes' /\ down' \in Seq(Downs)
         /\ TaskInv => TaskInv'
<1>1. /\ tts' = <<>> /\ busy' = FALSE /\ muted' \in BOOLEAN
      /\ UNCHANGED <<turns, mic, running, deltas, ending>>
      /\ \E e \in Seq(Downs) : down' = down \o e
  BY Interrupted DEF Cut
<1>2. down' \in Seq(Downs)
  BY <1>1, ConcatProperties DEF TypeInv, WireTypes
<1>3. /\ tasks' \in Seq(Jobs)
      /\ \A i \in DOMAIN tasks' : tasks'[i].kind = "chat" =>
            i \in DOMAIN tasks /\ tasks'[i] = tasks[i]
  <2>1. CASE UNCHANGED tasks
    BY <2>1 DEF TypeInv, ServerTypes
  <2>2. ASSUME NEW job \in Jobs, tasks' = Append(tasks, job), job.kind # "chat"
        PROVE  /\ tasks' \in Seq(Jobs)
               /\ \A i \in DOMAIN tasks' : tasks'[i].kind = "chat" =>
                     i \in DOMAIN tasks /\ tasks'[i] = tasks[i]
    <3>1. /\ tasks' \in Seq(Jobs) /\ tasks'[Len(tasks) + 1] = job
          /\ \A i \in DOMAIN tasks : tasks'[i] = tasks[i]
          /\ \A i \in DOMAIN tasks' : i \in DOMAIN tasks \/ i = Len(tasks) + 1
      BY <2>2, Appended DEF TypeInv, ServerTypes
    <3> QED BY <2>2, <3>1
  <2> QED BY <2>1, <2>2
<1>4. ServerTypes'
  BY <1>1, <1>3, EmptySeq DEF TypeInv, ServerTypes
<1>5. TaskInv => TaskInv'
  BY <1>1, <1>3 DEF TaskInv
<1> QED BY <1>2, <1>4, <1>5

\* HandleText: the first message up is done, and one of five things happens.
LEMMA Handled ==
  ASSUME TypeInv, HandleText
  PROVE  /\ socket = "open" /\ up # <<>> /\ up' = Tail(up)
         /\ \/ up[1].type = "chat" /\ StartChatTurn(FALSE)
            \/ /\ up[1].type # "chat" /\ InterruptCurrentTurn
               /\ \/ UNCHANGED tasks
                  \/ \E job \in Jobs : tasks' = Append(tasks, job) /\ job.kind # "chat"
            \/ /\ up[1].type # "chat" /\ (mic' = TRUE \/ UNCHANGED mic)
               /\ \E e \in Seq(Downs) : /\ down' = down \o e
                                        /\ \A n \in DOMAIN e : e[n].type = "error"
               /\ UNCHANGED <<turns, busy, tasks, running, deltas, ending, tts, muted>>
         /\ UNCHANGED <<micVars, pageVars, socket, stuck, drops, clicks>>
<1>1. /\ socket = "open" /\ up # <<>> /\ up' = Tail(up)
      /\ UNCHANGED <<micVars, pageVars, socket, stuck, drops, clicks>>
  BY DEF HandleText
<1>2. Head(up) = up[1] /\ drops \in Nat /\ down \in Seq(Downs)
  BY Rows DEF Head, TypeInv, PageTypes, WireTypes
<1>3. CASE up[1].type = "chat" /\ StartChatTurn(FALSE)
  BY <1>1, <1>3
<1>4. CASE up[1].type = "stop" /\ InterruptCurrentTurn /\ UNCHANGED tasks
  BY <1>1, <1>4
<1>5. CASE /\ up[1].type = "new_session" /\ InterruptCurrentTurn
           /\ tasks' = Append(tasks, [kind |-> "reset", arg |-> drops])
  <2>1. [kind |-> "reset", arg |-> drops] \in Jobs
    BY <1>2 DEF Jobs
  <2>2. \E job \in Jobs : tasks' = Append(tasks, job) /\ job.kind # "chat"
    BY <1>5, <2>1
  <2> QED BY <1>1, <1>5, <2>2
<1>6. CASE /\ up[1].type = "set_role" /\ InterruptCurrentTurn
           /\ tasks' = Append(tasks, [kind |-> "restart", arg |-> drops])
  <2>1. [kind |-> "restart", arg |-> drops] \in Jobs
    BY <1>2 DEF Jobs
  <2>2. \E job \in Jobs : tasks' = Append(tasks, job) /\ job.kind # "chat"
    BY <1>6, <2>1
  <2> QED BY <1>1, <1>6, <2>2
<1>7. CASE /\ up[1].type = "mic_start"
           /\ \/ mic' = TRUE /\ UNCHANGED down
              \/ /\ ~mic /\ UNCHANGED mic
                 /\ down' = Append(down, Message("error", 0))
           /\ UNCHANGED <<turns, busy, tasks, running, deltas, ending, tts, muted>>
  <2>1. \E e \in Seq(Downs) : /\ down' = down \o e
                              /\ \A n \in DOMAIN e : e[n].type = "error"
    <3>1. CASE UNCHANGED down
      <4>1. down' = down \o <<>>
        BY <1>2, <3>1, ConcatEmptySeq
      <4> QED BY <4>1, NothingSaid
    <3>2. CASE down' = Append(down, Message("error", 0))
      <4>0. 0 \in 0..MaxTurns
        BY Rows
      <4>1. /\ Message("error", 0) \in Downs /\ <<Message("error", 0)>> \in Seq(Downs)
            /\ \A n \in DOMAIN <<Message("error", 0)>> :
                 <<Message("error", 0)>>[n].type = "error"
        BY <4>0, Said
      <4>2. down' = down \o <<Message("error", 0)>>
        BY <1>2, <3>2, <4>1, AppendIsConcat
      <4> QED BY <4>1, <4>2
    <3> QED BY <1>7, <3>1, <3>2
  <2>2. mic' = TRUE \/ UNCHANGED mic
    BY <1>7
  <2> QED BY <1>1, <1>7, <2>1, <2>2
<1> QED BY <1>2, <1>3, <1>4, <1>5, <1>6, <1>7 DEF HandleText

\* What the page makes of a message.
LEMMA MessageTypes ==
  ASSUME TypeInv, NEW msg \in Downs, OnMessage(msg)
  PROVE  /\ generating' \in BOOLEAN /\ voiceTurn' \in BOOLEAN /\ carried' \in BOOLEAN
         /\ bubble' \subseteq 1..MaxTurns
<1> USE DEF TypeInv, PageTypes
<1>1. CASE msg.type = "llm_delta" /\ AppendDelta(msg.turn)
  <2>1. msg.turn \in 1..MaxTurns
    BY <1>1 DEF Downs
  <2> QED BY <1>1, <2>1 DEF AppendDelta
<1>2. CASE msg.type = "llm_end" /\ FinishGeneration
  <2>1. generating' = (generating /\ voiceTurn) /\ bubble' = {} /\ carried' = FALSE
        /\ voiceTurn' = voiceTurn
    BY <1>2 DEF FinishGeneration
  <2>2. generating' \in BOOLEAN
    BY <2>1
  <2> QED BY <2>1, <2>2
<1>3. CASE \/ msg.type = "asr_text" /\ AsrText
           \/ msg.type = "interrupt" /\ Interrupt
           \/ msg.type = "tts_end" /\ TtsEnd
           \/ msg.type = "reset_done" /\ ClearChat
           \/ msg.type = "error" /\ Error
  BY <1>3 DEF AsrText, Interrupt, TtsEnd, ClearChat, Error
<1> QED BY <1>1, <1>2, <1>3 DEF OnMessage

\* What the user does keeps the types; the connections stay.
LEMMA UserTypes ==
  ASSUME TypeInv, User, UNCHANGED serverVars
  PROVE  TypeInv' /\ (TaskInv => TaskInv')
<1> USE DEF TypeInv, PageTypes, WireTypes
<1>0. ServerTypes' /\ UNCHANGED serverVars
  BY DEF ServerTypes, serverVars
<1>1. ASSUME NEW type \in {"chat", "stop", "new_session", "set_role", "mic_start"},
             SendUp(type, 0)
      PROVE  up' \in Seq(Ups)
  <2>1. Message(type, 0) \in Ups
    BY DEF Message, Ups
  <2> QED BY <1>1, <2>1, AppendProperties DEF SendUp
<1>2. /\ UNCHANGED <<down, stuck, bubble, carried, drops>>
      /\ up' \in Seq(Ups) /\ generating' \in BOOLEAN /\ voiceTurn' \in BOOLEAN
      /\ socket' = socket \/ socket' = "open"
  <2>1. CASE SendChat(0)
    BY <1>1, <2>1 DEF SendChat
  <2>2. CASE ClickStop
    BY <1>1, <2>2 DEF ClickStop
  <2>3. CASE ClickReset
    BY <1>1, <2>3 DEF ClickReset
  <2>4. CASE ChangeRole
    BY <1>1, <2>4 DEF ChangeRole, pageVars
  <2>5. CASE ClickMic \/ ClickMicOff
    BY <2>5 DEF ClickMic, ClickMicOff, pageVars, netVars
  <2>6. ASSUME NEW i \in DOMAIN starts, MicCaptured(i) \/ MicStarted(i)
        PROVE  /\ UNCHANGED <<down, stuck, bubble, carried, drops>>
               /\ up' \in Seq(Ups) /\ generating' \in BOOLEAN /\ voiceTurn' \in BOOLEAN
               /\ socket' = socket
    BY <1>1, <2>6 DEF MicCaptured, MicStarted, pageVars, netVars
  <2>7. CASE OnOpen
    BY <2>7 DEF OnOpen, pageVars
  <2> QED BY <2>1, <2>2, <2>3, <2>4, <2>5, <2>6, <2>7 DEF User
<1>3. TaskInv => TaskInv'
  BY <1>0, <1>2 DEF TaskInv, serverVars
<1> QED BY <1>0, <1>2, <1>3

\* What the session and the workers do keeps the types.
LEMMA ServerStepTypes ==
  ASSUME TypeInv, TaskInv, Server
  PROVE  TypeInv' /\ TaskInv'
<1>0. /\ down \in Seq(Downs) /\ up \in Seq(Ups) /\ tts \in Seq(Nat) /\ tasks \in Seq(Jobs)
      /\ drops \in 0..MaxDrops /\ MaxTurns \in Nat
      /\ turns \in Seq(Turns) /\ DOMAIN turns = 1..Len(turns) /\ Len(turns) \in Nat
      /\ Len(turns) <= MaxTurns
  BY Rows DEF TypeInv, PageTypes, WireTypes, ServerTypes
<1>1. ASSUME UNCHANGED pageVars, UNCHANGED <<socket, stuck, drops>>
      PROVE  PageTypes'
  BY <1>1 DEF TypeInv, PageTypes, pageVars
<1>2. ASSUME NEW conn, NEW msg \in Downs, down' = Down(conn, <<msg>>)
      PROVE  down' \in Seq(Downs)
  <2>1. \E e \in Seq(Downs) : down' = down \o e
    BY <1>2, DownSays DEF Told
  <2> QED BY <1>0, <2>1, ConcatProperties
<1>3. running.kind = "chat" => running.arg \in DOMAIN turns /\ running.arg \in 0..MaxTurns
                                   /\ running.arg # 0
  BY <1>0 DEF TaskInv
<1>4. CASE HandleText
  <2>1. up' \in Seq(Ups)
    <3>1. up # <<>> /\ up' = Tail(up)
      BY <1>4, Handled
    <3> QED BY <1>0, <3>1, HeadTailProperties
  <2>2. UNCHANGED pageVars /\ UNCHANGED <<socket, stuck, drops>> /\ socket = "open"
    BY <1>4, Handled
  <2>3. CASE StartChatTurn(FALSE)
    BY <1>1, <2>1, <2>2, <2>3, StartedTypes DEF TypeInv, WireTypes
  <2>4. CASE /\ InterruptCurrentTurn
             /\ \/ UNCHANGED tasks
                \/ \E job \in Jobs : tasks' = Append(tasks, job) /\ job.kind # "chat"
    BY <1>1, <2>1, <2>2, <2>4, InterruptedTypes DEF TypeInv, WireTypes
  <2>5. CASE /\ mic' = TRUE \/ UNCHANGED mic
             /\ \E e \in Seq(Downs) : /\ down' = down \o e
                                      /\ \A n \in DOMAIN e : e[n].type = "error"
             /\ UNCHANGED <<turns, busy, tasks, running, deltas, ending, tts, muted>>
    <3>1. down' \in Seq(Downs)
      BY <1>0, <2>5, ConcatProperties
    <3>2. ServerTypes'
      BY <2>5 DEF TypeInv, ServerTypes
    <3>3. TaskInv'
      BY <2>2, <2>5 DEF TaskInv
    <3> QED BY <1>1, <2>1, <2>2, <3>1, <3>2, <3>3 DEF TypeInv, WireTypes
  <2> QED BY <1>4, <2>3, <2>4, <2>5, Handled
<1>5. CASE SpeechStart
  <2>1. /\ InterruptCurrentTurn /\ UNCHANGED tasks /\ UNCHANGED pageVars
        /\ UNCHANGED <<socket, up, stuck, drops>>
    BY <1>5 DEF SpeechStart
  <2> QED BY <1>0, <1>1, <2>1, InterruptedTypes DEF TypeInv, WireTypes
<1>6. CASE Utterance
  <2>1. /\ StartChatTurn(TRUE) /\ UNCHANGED pageVars /\ mic /\ socket = "open"
        /\ UNCHANGED <<socket, up, stuck, drops>>
    BY <1>6 DEF Utterance
  <2> QED BY <1>0, <1>1, <2>1, StartedTypes DEF TypeInv, WireTypes
<1>7. CASE Pop
  <2>1. /\ running' = Head(tasks) /\ tasks' = Tail(tasks) /\ deltas' = 0 /\ tasks # <<>>
        /\ UNCHANGED <<clientVars, turns, busy, mic, ending, tts, muted>>
        /\ running.kind = "none"
    BY <1>7 DEF Pop, Idle
  <2>2. UNCHANGED pageVars /\ UNCHANGED <<socket, stuck, drops, up, down>>
    BY <2>1 DEF clientVars, netVars
  <2>3. /\ tasks' \in Seq(Jobs) /\ running' \in Jobs /\ running' = tasks[1]
        /\ 1 \in DOMAIN tasks
        /\ \A k \in DOMAIN tasks' : k + 1 \in DOMAIN tasks /\ tasks'[k] = tasks[k + 1]
    BY <1>0, <2>1, Pulled
  <2>4. 0 \in 0..MaxDeltas
    BY ConversationAssumption
  <2>5. ServerTypes'
    BY <2>1, <2>3, <2>4 DEF TypeInv, ServerTypes
  <2>6. TaskInv'
    BY <2>1, <2>2, <2>3 DEF TaskInv
  <2> QED BY <1>0, <1>1, <2>2, <2>5, <2>6 DEF TypeInv, WireTypes
<1>8. CASE Delta
  <2>1. /\ running.kind = "chat" /\ deltas < MaxDeltas /\ deltas' = deltas + 1
        /\ down' = Down(turns[running.arg].conn, <<Message("llm_delta", running.arg)>>)
        /\ UNCHANGED <<turns, busy, mic, tasks, running, ending, tts, muted, pageVars,
                       socket, up, stuck, drops>>
    BY <1>8 DEF Delta
  <2>2. down' \in Seq(Downs)
    BY <1>2, <1>3, <2>1, Said
  <2>3. deltas' \in 0..MaxDeltas
    BY <2>1, ConversationAssumption DEF TypeInv, ServerTypes
  <2>4. ServerTypes' /\ TaskInv'
    BY <2>1, <2>3 DEF TypeInv, ServerTypes, TaskInv
  <2> QED BY <1>0, <1>1, <2>1, <2>2, <2>4 DEF TypeInv, WireTypes
<1>9. CASE Done
  <2>1. /\ running.kind = "chat" /\ ending' = TRUE
        /\ tts' = Append(tts, running.arg) \/ tts' = tts
        /\ busy' \in BOOLEAN
        /\ UNCHANGED <<clientVars, turns, mic, tasks, running, deltas, muted>>
    BY <1>9 DEF Done, TypeInv, ServerTypes
  <2>2. UNCHANGED pageVars /\ UNCHANGED <<socket, stuck, drops, up, down>>
    BY <2>1 DEF clientVars, netVars
  <2>3. running.arg \in Nat
    BY <1>0, <1>3, <2>1
  <2>4. Append(tts, running.arg) \in Seq(Nat)
    BY <1>0, <2>3, AppendProperties
  <2>5. tts' \in Seq(Nat)
    BY <1>0, <2>1, <2>4
  <2>6. ServerTypes' /\ TaskInv'
    BY <2>1, <2>2, <2>5 DEF TypeInv, ServerTypes, TaskInv
  <2> QED BY <1>0, <1>1, <2>2, <2>6 DEF TypeInv, WireTypes
<1>10. Idle \in Jobs /\ Idle.kind = "none"
  BY DEF Idle, Jobs
<1>11. CASE End
  <2>1. /\ ending /\ ending' = FALSE /\ running' = Idle
        /\ down' = Down(turns[running.arg].conn, <<Message("llm_end", running.arg)>>)
        /\ UNCHANGED <<turns, busy, mic, tasks, deltas, tts, muted, pageVars, socket, up,
                       stuck, drops>>
    BY <1>11 DEF End
  <2>2. running.arg \in 0..MaxTurns
    BY <1>3, <2>1 DEF TaskInv
  <2>3. down' \in Seq(Downs)
    BY <1>2, <2>1, <2>2, Said
  <2>4. ServerTypes' /\ TaskInv'
    BY <1>10, <2>1 DEF TypeInv, ServerTypes, TaskInv
  <2> QED BY <1>0, <1>1, <2>1, <2>3, <2>4 DEF TypeInv, WireTypes
<1>12. CASE Switched
  <2>1. /\ running' = Idle /\ running.kind # "chat"
        /\ \/ down' = Down(running.arg, <<Message("error", 0)>>)
           \/ down' = Down(running.arg, <<Message("reset_done", 0)>>)
           \/ UNCHANGED down
        /\ UNCHANGED <<turns, busy, mic, tasks, deltas, ending, tts, muted, pageVars,
                       socket, up, stuck, drops>>
    BY <1>12 DEF Switched
  <2>2. /\ Message("error", 0) \in Downs /\ Message("reset_done", 0) \in Downs
    BY <1>0 DEF Message, Downs
  <2>3. down' \in Seq(Downs)
    BY <1>0, <1>2, <2>1, <2>2
  <2>4. ServerTypes' /\ TaskInv'
    BY <1>10, <2>1 DEF TypeInv, ServerTypes, TaskInv
  <2> QED BY <1>0, <1>1, <2>1, <2>3, <2>4 DEF TypeInv, WireTypes
<1>13. CASE Speak
  <2>1. /\ tts # <<>> /\ tts' = Tail(tts) /\ busy' \in BOOLEAN
        /\ down' = Down(drops, <<Message("tts_end", 0)>>) \/ UNCHANGED down
        /\ UNCHANGED <<turns, mic, tasks, running, deltas, ending, muted, pageVars,
                       socket, up, stuck, drops>>
    BY <1>13 DEF Speak, TypeInv, ServerTypes
  <2>2. Message("tts_end", 0) \in Downs
    BY <1>0 DEF Message, Downs
  <2>3. down' \in Seq(Downs)
    BY <1>0, <1>2, <2>1, <2>2
  <2>4. tts' \in Seq(Nat)
    BY <1>0, <2>1, HeadTailProperties
  <2>5. ServerTypes' /\ TaskInv'
    BY <2>1, <2>4 DEF TypeInv, ServerTypes, TaskInv
  <2> QED BY <1>0, <1>1, <2>1, <2>3, <2>5 DEF TypeInv, WireTypes
<1> QED BY <1>4, <1>5, <1>6, <1>7, <1>8, <1>9, <1>11, <1>12, <1>13 DEF Server

LEMMA TypeStep ==
  ASSUME TypeInv, TaskInv, [Next]_vars
  PROVE  TypeInv' /\ TaskInv'
<1>1. CASE User /\ UNCHANGED serverVars
  BY <1>1, UserTypes
<1>2. CASE Server
  BY <1>2, ServerStepTypes
<1>3. CASE Deliver
  <2>1. /\ down # <<>> /\ down' = Tail(down) /\ OnMessage(Head(down))
        /\ UNCHANGED <<serverVars, socket, up, stuck, drops>>
    BY <1>3 DEF Deliver
  <2>2. down' \in Seq(Downs) /\ Head(down) \in Downs
    BY <2>1, HeadTailProperties DEF TypeInv, WireTypes
  <2>3. /\ generating' \in BOOLEAN /\ voiceTurn' \in BOOLEAN /\ carried' \in BOOLEAN
        /\ bubble' \subseteq 1..MaxTurns
    BY <2>1, <2>2, MessageTypes
  <2>4. ServerTypes' /\ TaskInv'
    BY <2>1 DEF TypeInv, ServerTypes, TaskInv, serverVars
  <2> QED BY <2>1, <2>2, <2>3, <2>4 DEF TypeInv, PageTypes, WireTypes
<1>4. CASE WriteFails
  BY <1>4 DEF WriteFails, serverVars, pageVars, TypeInv, PageTypes, WireTypes, ServerTypes,
              TaskInv
<1>5. CASE Lose
  <2>1. /\ socket' = "connecting" /\ up' = <<>> /\ down' = <<>> /\ stuck' = FALSE
        /\ drops' = drops + 1 /\ generating' = FALSE /\ carried' = (bubble # {})
        /\ tts' = <<>> /\ busy' = FALSE /\ mic' = FALSE
        /\ UNCHANGED <<voiceTurn, bubble, turns, tasks, running, deltas, ending, muted>>
        /\ drops < MaxDrops
    BY <1>5 DEF Lose, OnClose, More
  <2>2. drops' \in 0..MaxDrops /\ drops \in Nat /\ drops' > drops
    BY <2>1, Rows DEF TypeInv, PageTypes
  <2>3. carried' \in BOOLEAN
    BY <2>1
  <2>4. PageTypes'
    BY <2>1, <2>2, <2>3 DEF TypeInv, PageTypes
  <2>5. WireTypes' /\ ServerTypes'
    BY <2>1, EmptySeq DEF TypeInv, WireTypes, ServerTypes
  <2>6. \A t \in DOMAIN turns : turns[t].conn \in Nat /\ turns[t].conn <= drops
    BY Rows DEF Turns, TaskInv
  <2>7. TaskInv'
    BY <2>1, <2>2, <2>6 DEF TaskInv
  <2> QED BY <2>4, <2>5, <2>7 DEF TypeInv
<1>6. CASE UNCHANGED vars
  BY <1>6 DEF vars, clientVars, serverVars, pageVars, netVars, TypeInv, PageTypes,
              WireTypes, ServerTypes, TaskInv
<1> QED BY <1>1, <1>2, <1>3, <1>4, <1>5, <1>6 DEF Next

-----------------------------------------------------------------------------
(* The bubble.  A position of down counts from the page, which is at 0. *)

WorksOn(job, turn) == job.kind = "chat" /\ job.arg = turn
Closed(i) == \E k \in DOMAIN down : k > i /\ down[k].type = "llm_end"

\* On their way, the deltas of a turn are followed by an llm_end or the worker is
\* still at the turn ...
OpenInv ==
  \A i \in DOMAIN down : down[i].type = "llm_delta" =>
    /\ down[i].turn \in DOMAIN turns /\ Mine(down[i].turn)
    /\ Closed(i) \/ WorksOn(running, down[i].turn)

\* ... and an llm_end lies between those of two turns, unless a tool replied.
ApartInv ==
  \A i, j \in DOMAIN down :
    /\ i < j /\ down[i].type = "llm_delta" /\ down[j].type = "llm_delta"
    /\ ~turns[down[i].turn].tool /\ ~turns[down[j].turn].tool
    /\ down[i].turn # down[j].turn
    => \E k \in DOMAIN down : i < k /\ k < j /\ down[k].type = "llm_end"

\* The same of what the page has: the deltas in the bubble came before all others.
PageInv ==
  ~carried =>
    /\ \A t \in bubble : t \in DOMAIN turns /\ Mine(t) /\ (Closed(0) \/ WorksOn(running, t))
    /\ \A t \in bubble : \A j \in DOMAIN down :
         /\ down[j].type = "llm_delta"
         /\ ~turns[t].tool /\ ~turns[down[j].turn].tool /\ down[j].turn # t
         => \E k \in DOMAIN down : k < j /\ down[k].type = "llm_end"
    /\ \A t, u \in bubble : ~turns[t].tool /\ ~turns[u].tool => t = u

BubbleInv == OpenInv /\ ApartInv /\ PageInv

\* The server says something more, begins a turn or goes on with one: a delta is
\* that of a tool, or of the turn the worker is at, and comes alone; if the worker
\* leaves a turn of this connection, it says llm_end.
LEMMA BubblePush ==
  ASSUME TypeInv, BubbleInv, NEW e \in Seq(Downs), down' = down \o e,
         UNCHANGED <<bubble, carried, drops, socket>>,
         \A t \in DOMAIN turns : t \in DOMAIN turns' /\ turns'[t] = turns[t],
         \A t \in DOMAIN turns : WorksOn(running, t) =>
            WorksOn(running', t) \/ ~Mine(t) \/ \E n \in DOMAIN e : e[n].type = "llm_end",
         \A n \in DOMAIN e : e[n].type = "llm_delta" =>
            /\ e[n].turn \in DOMAIN turns'
            /\ turns'[e[n].turn].conn = drops /\ socket = "open"
            /\ \/ WorksOn(running', e[n].turn)
               \/ \E k \in DOMAIN e : n < k /\ e[k].type = "llm_end"
            /\ \/ turns'[e[n].turn].tool
               \/ n = 1 /\ DOMAIN e = {1} /\ WorksOn(running, e[n].turn)
  PROVE  BubbleInv'
<1> DEFINE L == Len(down)
<1>1. /\ L \in Nat /\ DOMAIN down = 1..L /\ DOMAIN e = 1..Len(e) /\ Len(e) \in Nat
      /\ \A i \in DOMAIN down : i \in DOMAIN down' /\ down'[i] = down[i]
      /\ \A n \in DOMAIN e : L + n \in DOMAIN down' /\ down'[L + n] = e[n]
      /\ \A k \in DOMAIN down' : \/ k \in DOMAIN down /\ down'[k] = down[k]
                                 \/ \E n \in DOMAIN e : k = L + n /\ down'[k] = e[n]
  BY Pushed DEF TypeInv, WireTypes
<1> HIDE DEF L
<1>2. \A i : i \in DOMAIN down \/ i = 0 =>
        /\ Closed(i) => \E k \in DOMAIN down' : k > i /\ down'[k].type = "llm_end"
        /\ \A n \in DOMAIN e : e[n].type = "llm_end" =>
             \E k \in DOMAIN down' : k > i /\ down'[k].type = "llm_end"
  <2> SUFFICES ASSUME NEW i, i \in DOMAIN down \/ i = 0
               PROVE  /\ Closed(i) => \E k \in DOMAIN down' : k > i /\ down'[k].type = "llm_end"
                      /\ \A n \in DOMAIN e : e[n].type = "llm_end" =>
                           \E k \in DOMAIN down' : k > i /\ down'[k].type = "llm_end"
    OBVIOUS
  <2>1. Closed(i) => \E k \in DOMAIN down' : k > i /\ down'[k].type = "llm_end"
    BY <1>1 DEF Closed
  <2>2. ASSUME NEW n \in DOMAIN e, e[n].type = "llm_end"
        PROVE  \E k \in DOMAIN down' : k > i /\ down'[k].type = "llm_end"
    <3>1. L + n \in DOMAIN down' /\ down'[L + n].type = "llm_end" /\ L + n > i
      BY <1>1, <2>2
    <3> QED BY <3>1
  <2> QED BY <2>1, <2>2
<1>3. \A t \in DOMAIN turns : \A i :
        /\ i \in DOMAIN down \/ i = 0
        /\ Mine(t) /\ (Closed(i) \/ WorksOn(running, t))
        => \/ \E k \in DOMAIN down' : k > i /\ down'[k].type = "llm_end"
           \/ WorksOn(running', t)
  BY <1>2
<1>4. OpenInv'
  <2> SUFFICES ASSUME NEW i \in DOMAIN down', down'[i].type = "llm_delta"
               PROVE  /\ down'[i].turn \in DOMAIN turns'
                      /\ turns'[down'[i].turn].conn = drops /\ socket = "open"
                      /\ \/ \E k \in DOMAIN down' : k > i /\ down'[k].type = "llm_end"
                         \/ WorksOn(running', down'[i].turn)
    BY DEF OpenInv, Mine, Closed
  <2>1. CASE i \in DOMAIN down /\ down'[i] = down[i]
    <3>1. /\ down[i].turn \in DOMAIN turns /\ Mine(down[i].turn)
          /\ Closed(i) \/ WorksOn(running, down[i].turn)
      BY <2>1 DEF BubbleInv, OpenInv
    <3>2. \/ \E k \in DOMAIN down' : k > i /\ down'[k].type = "llm_end"
          \/ WorksOn(running', down[i].turn)
      BY <1>3, <2>1, <3>1
    <3> QED BY <2>1, <3>1, <3>2 DEF Mine
  <2>2. CASE \E n \in DOMAIN e : i = L + n /\ down'[i] = e[n]
    <3>1. PICK n \in DOMAIN e : i = L + n /\ down'[i] = e[n]
      BY <2>2
    <3>2. CASE WorksOn(running', e[n].turn)
      BY <3>1, <3>2
    <3>3. CASE \E k \in DOMAIN e : n < k /\ e[k].type = "llm_end"
      <4>1. PICK k \in DOMAIN e : n < k /\ e[k].type = "llm_end"
        BY <3>3
      <4>2. L + k \in DOMAIN down' /\ L + k > i /\ down'[L + k].type = "llm_end"
        <5>1. L + k \in DOMAIN down' /\ down'[L + k] = e[k]
          BY <1>1, <4>1
        <5>2. n \in Nat /\ k \in Nat /\ L \in Nat
          BY <1>1
        <5>3. L + k > L + n
          BY <4>1, <5>2
        <5> QED BY <3>1, <4>1, <5>1, <5>3
      <4> QED BY <3>1, <4>2
    <3> QED BY <3>1, <3>2, <3>3
  <2> QED BY <1>1, <2>1, <2>2
<1>5. ASSUME NEW i \in DOMAIN down', NEW j \in DOMAIN down',
             i < j, down'[i].type = "llm_delta", down'[j].type = "llm_delta",
             ~turns'[down'[i].turn].tool, ~turns'[down'[j].turn].tool,
             down'[i].turn # down'[j].turn
      PROVE  \E k \in DOMAIN down' : i < k /\ k < j /\ down'[k].type = "llm_end"
  <2>1. CASE i \in DOMAIN down /\ j \in DOMAIN down
    <3>1. /\ down[i].type = "llm_delta" /\ down[j].type = "llm_delta"
          /\ ~turns[down[i].turn].tool /\ ~turns[down[j].turn].tool
          /\ down[i].turn # down[j].turn
      BY <1>1, <1>5, <2>1 DEF BubbleInv, OpenInv
    <3>2. PICK k \in DOMAIN down : i < k /\ k < j /\ down[k].type = "llm_end"
      BY <1>5, <2>1, <3>1 DEF BubbleInv, ApartInv
    <3> QED BY <1>1, <3>2
  <2>2. CASE j \notin DOMAIN down
    <3>1. PICK n \in DOMAIN e : j = L + n /\ down'[j] = e[n]
      BY <1>1, <2>2
    <3>2. n = 1 /\ DOMAIN e = {1} /\ WorksOn(running, e[n].turn)
      BY <1>5, <3>1
    <3>3. i \in DOMAIN down /\ down'[i] = down[i]
      BY <1>1, <1>5, <3>1, <3>2
    <3>4. Closed(i)
      BY <1>5, <3>1, <3>2, <3>3 DEF BubbleInv, OpenInv, WorksOn
    <3>5. PICK k \in DOMAIN down : k > i /\ down[k].type = "llm_end"
      BY <3>4 DEF Closed
    <3> QED BY <1>1, <3>1, <3>5
  <2>3. CASE i \notin DOMAIN down /\ j \in DOMAIN down
    <3>1. PICK n \in DOMAIN e : i = L + n
      BY <1>1, <2>3
    <3> QED BY <1>1, <1>5, <2>3, <3>1
  <2> QED BY <2>1, <2>2, <2>3
<1>8. \A i, j \in DOMAIN down' :
        /\ i < j /\ down'[i].type = "llm_delta" /\ down'[j].type = "llm_delta"
        /\ ~turns'[down'[i].turn].tool /\ ~turns'[down'[j].turn].tool
        /\ down'[i].turn # down'[j].turn
        => \E k \in DOMAIN down' : i < k /\ k < j /\ down'[k].type = "llm_end"
  <2> TAKE i, j \in DOMAIN down'
  <2> HAVE /\ i < j /\ down'[i].type = "llm_delta" /\ down'[j].type = "llm_delta"
           /\ ~turns'[down'[i].turn].tool /\ ~turns'[down'[j].turn].tool
           /\ down'[i].turn # down'[j].turn
  <2> QED BY <1>5
<1>9. ApartInv'
  BY <1>8 DEF ApartInv
<1>6. ASSUME ~carried' PROVE PageInv'
  <2>1. ~carried /\ bubble' = bubble
    BY <1>6
  <2>2. /\ \A t \in bubble : t \in DOMAIN turns /\ Mine(t)
                             /\ (Closed(0) \/ WorksOn(running, t))
        /\ \A t \in bubble : \A j \in DOMAIN down :
             /\ down[j].type = "llm_delta"
             /\ ~turns[t].tool /\ ~turns[down[j].turn].tool /\ down[j].turn # t
             => \E k \in DOMAIN down : k < j /\ down[k].type = "llm_end"
        /\ \A t, u \in bubble : ~turns[t].tool /\ ~turns[u].tool => t = u
    BY <2>1 DEF BubbleInv, PageInv
  <2>3. ASSUME NEW t \in bubble
        PROVE  /\ t \in DOMAIN turns' /\ turns'[t].conn = drops /\ socket = "open"
               /\ \/ \E k \in DOMAIN down' : k > 0 /\ down'[k].type = "llm_end"
                  \/ WorksOn(running', t)
    <3>1. t \in DOMAIN turns /\ Mine(t) /\ (Closed(0) \/ WorksOn(running, t))
      BY <2>2
    <3>2. \/ \E k \in DOMAIN down' : k > 0 /\ down'[k].type = "llm_end"
          \/ WorksOn(running', t)
      BY <1>3, <3>1
    <3> QED BY <3>1, <3>2 DEF Mine
  <2>4. ASSUME NEW t \in bubble, NEW j \in DOMAIN down', down'[j].type = "llm_delta",
               ~turns'[t].tool, ~turns'[down'[j].turn].tool, down'[j].turn # t
        PROVE  \E k \in DOMAIN down' : k < j /\ down'[k].type = "llm_end"
    <3>1. CASE j \in DOMAIN down
      <4>1. /\ down[j].type = "llm_delta" /\ ~turns[t].tool /\ ~turns[down[j].turn].tool
            /\ down[j].turn # t
        BY <1>1, <2>2, <2>4, <3>1 DEF BubbleInv, OpenInv
      <4>2. PICK k \in DOMAIN down : k < j /\ down[k].type = "llm_end"
        BY <2>2, <3>1, <4>1
      <4> QED BY <1>1, <4>2
    <3>2. CASE j \notin DOMAIN down
      <4>1. PICK n \in DOMAIN e : j = L + n /\ down'[j] = e[n]
        BY <1>1, <3>2
      <4>2. WorksOn(running, e[n].turn)
        BY <2>4, <4>1
      <4>3. Closed(0)
        BY <2>2, <2>4, <4>1, <4>2 DEF WorksOn
      <4>4. PICK k \in DOMAIN down : k > 0 /\ down[k].type = "llm_end"
        BY <4>3 DEF Closed
      <4> QED BY <1>1, <4>1, <4>4
    <3> QED BY <3>1, <3>2
  <2>5. \A t, u \in bubble : ~turns'[t].tool /\ ~turns'[u].tool => t = u
    BY <2>2
  <2>6. \A t \in bubble : t \in DOMAIN turns' /\ Mine(t)'
                          /\ (Closed(0)' \/ WorksOn(running', t))
    BY <2>3 DEF Mine, Closed
  <2>7. \A t \in bubble : \A j \in DOMAIN down' :
          /\ down'[j].type = "llm_delta"
          /\ ~turns'[t].tool /\ ~turns'[down'[j].turn].tool /\ down'[j].turn # t
          => \E k \in DOMAIN down' : k < j /\ down'[k].type = "llm_end"
    BY <2>4
  <2> QED BY <2>1, <2>5, <2>6, <2>7 DEF PageInv
<1>7. PageInv'
  BY <1>6 DEF PageInv
<1> QED BY <1>4, <1>7, <1>9 DEF BubbleInv

\* Nothing of it changes.
LEMMA BubbleKept ==
  ASSUME BubbleInv, UNCHANGED <<down, bubble, carried, drops, socket, turns>>,
         \A t : WorksOn(running, t) => WorksOn(running', t)
  PROVE  BubbleInv'
BY DEF BubbleInv, OpenInv, ApartInv, PageInv, Mine, Closed

\* The page has the first message.
LEMMA BubblePull ==
  ASSUME TypeInv, BubbleInv, Deliver
  PROVE  BubbleInv'
<1>1. /\ down # <<>> /\ down' = Tail(down) /\ OnMessage(Head(down))
      /\ UNCHANGED <<turns, running, socket, drops>>
  BY DEF Deliver, serverVars
<1>2. /\ Head(down) = down[1] /\ 1 \in DOMAIN down /\ Len(down) \in Nat
      /\ DOMAIN down = 1..Len(down) /\ DOMAIN down' = 1..(Len(down) - 1)
      /\ \A k \in DOMAIN down' : k + 1 \in DOMAIN down /\ down'[k] = down[k + 1]
      /\ \A k \in DOMAIN down : k # 1 => k - 1 \in DOMAIN down' /\ down'[k - 1] = down[k]
  BY <1>1, Pulled DEF TypeInv, WireTypes
<1>3. OpenInv'
  <2> SUFFICES ASSUME NEW i \in DOMAIN down', down'[i].type = "llm_delta"
               PROVE  /\ down'[i].turn \in DOMAIN turns
                      /\ turns[down'[i].turn].conn = drops /\ socket = "open"
                      /\ \/ \E k \in DOMAIN down' : k > i /\ down'[k].type = "llm_end"
                         \/ WorksOn(running, down'[i].turn)
    BY <1>1 DEF OpenInv, Mine, Closed
  <2>1. i + 1 \in DOMAIN down /\ down'[i] = down[i + 1] /\ i \in Nat
    BY <1>2
  <2>2. ASSUME Closed(i + 1)
        PROVE  \E k \in DOMAIN down' : k > i /\ down'[k].type = "llm_end"
    <3>1. PICK k \in DOMAIN down : k > i + 1 /\ down[k].type = "llm_end"
      BY <2>2 DEF Closed
    <3>2. k - 1 \in DOMAIN down' /\ down'[k - 1] = down[k] /\ k - 1 > i
      BY <1>2, <2>1, <3>1
    <3> QED BY <3>1, <3>2
  <2> QED BY <2>1, <2>2 DEF BubbleInv, OpenInv, Mine
<1>4. ApartInv'
  <2> SUFFICES ASSUME NEW i \in DOMAIN down', NEW j \in DOMAIN down',
                      i < j, down'[i].type = "llm_delta", down'[j].type = "llm_delta",
                      ~turns[down'[i].turn].tool, ~turns[down'[j].turn].tool,
                      down'[i].turn # down'[j].turn
               PROVE  \E k \in DOMAIN down' : i < k /\ k < j /\ down'[k].type = "llm_end"
    BY <1>1 DEF ApartInv
  <2>1. /\ i + 1 \in DOMAIN down /\ down'[i] = down[i + 1] /\ i \in Nat
        /\ j + 1 \in DOMAIN down /\ down'[j] = down[j + 1] /\ j \in Nat
    BY <1>2
  <2>2. PICK k \in DOMAIN down : i + 1 < k /\ k < j + 1 /\ down[k].type = "llm_end"
    BY <2>1 DEF BubbleInv, ApartInv
  <2>3. k - 1 \in DOMAIN down' /\ down'[k - 1] = down[k] /\ i < k - 1 /\ k - 1 < j
    BY <1>2, <2>1, <2>2
  <2> QED BY <2>2, <2>3
<1>5. PageInv'
  <2> DEFINE m == down[1]
  <2>1. CASE bubble' = {}
    BY <2>1 DEF PageInv
  <2>2. ASSUME ~carried,
               bubble' \subseteq bubble \/ (m.type = "llm_delta" /\ bubble' = bubble \union {m.turn}),
               carried' = carried, m.type # "llm_end"
        PROVE  PageInv'
    <3>1. /\ \A t \in bubble : t \in DOMAIN turns /\ Mine(t)
                               /\ (Closed(0) \/ WorksOn(running, t))
          /\ \A t \in bubble : \A j \in DOMAIN down :
               /\ down[j].type = "llm_delta"
               /\ ~turns[t].tool /\ ~turns[down[j].turn].tool /\ down[j].turn # t
               => \E k \in DOMAIN down : k < j /\ down[k].type = "llm_end"
          /\ \A t, u \in bubble : ~turns[t].tool /\ ~turns[u].tool => t = u
      BY <2>2 DEF BubbleInv, PageInv
    <3>2. m.type = "llm_delta" =>
            /\ m.turn \in DOMAIN turns /\ Mine(m.turn)
            /\ Closed(1) \/ WorksOn(running, m.turn)
      BY <1>2 DEF BubbleInv, OpenInv
    <3>3. \A i \in {0, 1} : Closed(i) =>
             \E k \in DOMAIN down' : k > 0 /\ down'[k].type = "llm_end"
      <4> SUFFICES ASSUME NEW i \in {0, 1}, Closed(i)
                   PROVE  \E k \in DOMAIN down' : k > 0 /\ down'[k].type = "llm_end"
        OBVIOUS
      <4>1. PICK k \in DOMAIN down : k > i /\ down[k].type = "llm_end"
        BY DEF Closed
      <4>2. k # 1
        BY <2>2, <4>1
      <4>3. k - 1 \in DOMAIN down' /\ down'[k - 1] = down[k] /\ k - 1 > 0
        BY <1>2, <4>1, <4>2
      <4> QED BY <4>1, <4>3
    <3>4. ASSUME NEW t \in bubble'
          PROVE  /\ t \in DOMAIN turns /\ turns[t].conn = drops /\ socket = "open"
                 /\ \/ \E k \in DOMAIN down' : k > 0 /\ down'[k].type = "llm_end"
                    \/ WorksOn(running, t)
      <4>1. CASE t \in bubble
        BY <3>1, <3>3, <4>1 DEF Mine
      <4>2. CASE m.type = "llm_delta" /\ t = m.turn
        BY <3>2, <3>3, <4>2 DEF Mine
      <4> QED BY <2>2, <3>4, <4>1, <4>2
    <3>5. ASSUME NEW t \in bubble', NEW j \in DOMAIN down', down'[j].type = "llm_delta",
                 ~turns[t].tool, ~turns[down'[j].turn].tool, down'[j].turn # t
          PROVE  \E k \in DOMAIN down' : k < j /\ down'[k].type = "llm_end"
      <4>1. j + 1 \in DOMAIN down /\ down'[j] = down[j + 1] /\ j \in Nat /\ j + 1 > 1
        BY <1>2
      <4>2. \E k \in DOMAIN down : k < j + 1 /\ down[k].type = "llm_end"
        <5>1. CASE t \in bubble
          BY <3>1, <3>5, <4>1, <5>1
        <5>2. CASE m.type = "llm_delta" /\ t = m.turn
          BY <1>2, <3>5, <4>1, <5>2 DEF BubbleInv, ApartInv
        <5> QED BY <2>2, <3>5, <5>1, <5>2
      <4>3. PICK k \in DOMAIN down : k < j + 1 /\ down[k].type = "llm_end"
        BY <4>2
      <4>4. k # 1
        BY <2>2, <4>3
      <4>5. k - 1 \in DOMAIN down' /\ down'[k - 1] = down[k] /\ k - 1 < j
        BY <1>2, <4>1, <4>3, <4>4
      <4> QED BY <4>3, <4>5
    <3>6. ASSUME NEW t \in bubble', NEW u \in bubble', ~turns[t].tool, ~turns[u].tool
          PROVE  t = u
      <4>1. ASSUME NEW x \in bubble, m.type = "llm_delta", ~turns[x].tool, ~turns[m.turn].tool
            PROVE  x = m.turn
        <5>1. CASE x # m.turn
          <6>1. PICK k \in DOMAIN down : k < 1 /\ down[k].type = "llm_end"
            BY <1>2, <3>1, <4>1, <5>1
          <6> QED BY <1>2, <6>1
        <5> QED BY <5>1
      <4> QED BY <2>2, <3>1, <3>6, <4>1
    <3> QED BY <1>1, <2>2, <3>4, <3>5, <3>6 DEF PageInv, Mine, Closed
  <2>3. CASE carried /\ carried' = carried
    BY <2>3 DEF PageInv
  <2>4. carried \in BOOLEAN
    BY DEF TypeInv, PageTypes
  <2>5. \/ bubble' = {}
        \/ /\ carried' = carried /\ m.type # "llm_end"
           /\ bubble' = bubble \/ (m.type = "llm_delta" /\ bubble' = bubble \union {m.turn})
    BY <1>1, <1>2 DEF OnMessage, AppendDelta, FinishGeneration, AsrText, Interrupt,
                      TtsEnd, ClearChat, Error
  <2> QED BY <2>1, <2>2, <2>3, <2>4, <2>5
<1> QED BY <1>3, <1>4, <1>5 DEF BubbleInv

\* No delta is among what is said, and the worker keeps its turn.
LEMMA BubblePlain ==
  ASSUME TypeInv, BubbleInv, NEW e \in Seq(Downs), down' = down \o e,
         UNCHANGED <<bubble, carried, drops, socket, turns>>,
         \A n \in DOMAIN e : e[n].type # "llm_delta",
         \A t : WorksOn(running, t) => WorksOn(running', t)
  PROVE  BubbleInv'
BY BubblePush

LEMMA BubbleStarted ==
  ASSUME TypeInv, BubbleInv, NEW spoken \in BOOLEAN, StartChatTurn(spoken), socket = "open",
         UNCHANGED <<bubble, carried, drops, socket>>
  PROVE  BubbleInv'
<1>1. PICK tool \in BOOLEAN, e \in Seq(Downs) : Begun(spoken, tool, e)
  BY Started
<1> DEFINE row == [conn |-> drops, spoken |-> spoken, tool |-> tool]
<1>2. row \in Turns /\ row.conn = drops /\ row.tool = tool
  BY DEF TypeInv, PageTypes, Turns
<1>3. turns' = Append(turns, row) /\ running' = running /\ down' = down \o e
  BY <1>1 DEF Begun
<1>4. /\ \A t \in DOMAIN turns : t \in DOMAIN turns' /\ turns'[t] = turns[t]
      /\ turns'[Len(turns) + 1] = row /\ Len(turns) + 1 \in DOMAIN turns'
  <2> HIDE DEF row
  <2> QED BY <1>2, <1>3, Appended DEF TypeInv, ServerTypes
<1>5. \A n \in DOMAIN e : e[n].type = "llm_delta" =>
        /\ e[n].turn \in DOMAIN turns'
        /\ turns'[e[n].turn].conn = drops /\ socket = "open"
        /\ \E k \in DOMAIN e : n < k /\ e[k].type = "llm_end"
        /\ turns'[e[n].turn].tool
  <2> HIDE DEF row
  <2> QED BY <1>1, <1>2, <1>4 DEF Begun
<1>6. \A n \in DOMAIN e : e[n].type = "llm_delta" =>
        /\ e[n].turn \in DOMAIN turns'
        /\ turns'[e[n].turn].conn = drops /\ socket = "open"
        /\ \/ WorksOn(running', e[n].turn)
           \/ \E k \in DOMAIN e : n < k /\ e[k].type = "llm_end"
        /\ \/ turns'[e[n].turn].tool
           \/ n = 1 /\ DOMAIN e = {1} /\ WorksOn(running, e[n].turn)
  BY <1>5
<1> HIDE DEF row
<1> QED BY <1>3, <1>4, <1>6, BubblePush

LEMMA BubbleInterrupted ==
  ASSUME TypeInv, BubbleInv, InterruptCurrentTurn,
         UNCHANGED <<bubble, carried, drops, socket>>
  PROVE  BubbleInv'
<1>1. PICK e \in Seq(Downs) : Cut(e)
  BY Interrupted
<1>2. running' = running /\ turns' = turns
  BY Interrupted
<1>3. down' = down \o e /\ \A n \in DOMAIN e : e[n].type # "llm_delta"
  BY <1>1 DEF Cut
<1> QED BY <1>2, <1>3, BubblePlain

LEMMA BubbleServer ==
  ASSUME TypeInv, TaskInv, BubbleInv, Server
  PROVE  BubbleInv'
<1>1. CASE HandleText
  <2>1. UNCHANGED <<bubble, carried, drops, socket>> /\ socket = "open"
    BY <1>1, Handled DEF pageVars
  <2>2. CASE StartChatTurn(FALSE)
    BY <2>1, <2>2, BubbleStarted
  <2>3. CASE InterruptCurrentTurn
    BY <2>1, <2>3, BubbleInterrupted
  <2>4. CASE /\ \E e \in Seq(Downs) : /\ down' = down \o e
                                      /\ \A n \in DOMAIN e : e[n].type = "error"
             /\ UNCHANGED <<turns, busy, tasks, running, deltas, ending, tts, muted>>
    <3>1. PICK e \in Seq(Downs) : down' = down \o e /\ \A n \in DOMAIN e : e[n].type = "error"
      BY <2>4
    <3> QED BY <2>1, <2>4, <3>1, BubblePlain
  <2> QED BY <1>1, <2>2, <2>3, <2>4, Handled
<1>2. CASE SpeechStart
  BY <1>2, BubbleInterrupted DEF SpeechStart, pageVars
<1>3. CASE Utterance
  BY <1>3, BubbleStarted DEF Utterance, pageVars
<1>4. CASE Pop
  <2>1. running.kind = "none" /\ UNCHANGED <<down, bubble, carried, drops, socket, turns>>
    BY <1>4 DEF Pop, Idle, clientVars, pageVars, netVars
  <2> QED BY <2>1, BubbleKept DEF WorksOn
<1>5. CASE Delta
  <2> DEFINE msg == Message("llm_delta", running.arg)
  <2>1. /\ running.kind = "chat"
        /\ down' = Down(turns[running.arg].conn, <<msg>>)
        /\ UNCHANGED <<turns, running, bubble, carried, socket, drops>>
    BY <1>5 DEF Delta, pageVars
  <2>2. running.arg \in DOMAIN turns /\ running.arg \in 1..MaxTurns
    BY <2>1, Rows DEF TaskInv, TypeInv, ServerTypes
  <2>3. msg \in Downs /\ msg.type = "llm_delta" /\ msg.turn = running.arg
    BY <2>2 DEF Message, Downs
  <2> HIDE DEF msg
  <2>4. PICK e \in Seq(Downs) : Told(turns[running.arg].conn, msg, e)
    BY <2>1, <2>3, DownSays
  <2>5. \A n \in DOMAIN e :
          /\ e[n].turn = running.arg /\ n = 1 /\ DOMAIN e = {1}
          /\ turns[running.arg].conn = drops /\ socket = "open"
    <3>1. CASE turns[running.arg].conn = drops /\ socket = "open"
      BY <2>3, <2>4, <3>1 DEF Told
    <3>2. CASE ~(turns[running.arg].conn = drops /\ socket = "open")
      BY <2>4, <3>2, NothingSaid DEF Told
    <3> QED BY <3>1, <3>2
  <2>6. down' = down \o e
    BY <2>4 DEF Told
  <2> QED BY <2>1, <2>2, <2>5, <2>6, BubblePush DEF WorksOn
<1>6. CASE Done
  <2>1. running' = running /\ UNCHANGED <<down, bubble, carried, drops, socket, turns>>
    BY <1>6 DEF Done, clientVars, pageVars, netVars
  <2> QED BY <2>1, BubbleKept
<1>7. CASE End
  <2> DEFINE msg == Message("llm_end", running.arg)
  <2>1. /\ ending
        /\ down' = Down(turns[running.arg].conn, <<msg>>)
        /\ UNCHANGED <<turns, bubble, carried, socket, drops>>
    BY <1>7 DEF End, pageVars
  <2>2. running.arg \in 0..MaxTurns
    BY <2>1, Rows DEF TaskInv, TypeInv, ServerTypes
  <2>3. msg \in Downs /\ msg.type = "llm_end"
    BY <2>2 DEF Message, Downs
  <2> HIDE DEF msg
  <2>4. PICK e \in Seq(Downs) : Told(turns[running.arg].conn, msg, e)
    BY <2>1, <2>3, DownSays
  <2>5. \A n \in DOMAIN e : e[n].type # "llm_delta"
    BY <2>3, <2>4 DEF Told
  <2>6. \A t \in DOMAIN turns : WorksOn(running, t) =>
          ~Mine(t) \/ \E n \in DOMAIN e : e[n].type = "llm_end"
    BY <2>3, <2>4 DEF WorksOn, Mine, Told
  <2>7. down' = down \o e
    BY <2>4 DEF Told
  <2> QED BY <2>1, <2>5, <2>6, <2>7, BubblePush
<1>8. CASE Switched
  <2>1. /\ running.kind # "chat"
        /\ \/ down' = Down(running.arg, <<Message("error", 0)>>)
           \/ down' = Down(running.arg, <<Message("reset_done", 0)>>)
           \/ UNCHANGED down
        /\ UNCHANGED <<turns, bubble, carried, socket, drops>>
    BY <1>8 DEF Switched, pageVars
  <2>2. \A t : ~WorksOn(running, t)
    BY <2>1 DEF WorksOn
  <2>3. ASSUME NEW msg \in Downs, msg.type # "llm_delta", down' = Down(running.arg, <<msg>>)
        PROVE  BubbleInv'
    <3>1. PICK e \in Seq(Downs) : Told(running.arg, msg, e)
      BY <2>3, DownSays
    <3>2. down' = down \o e /\ \A n \in DOMAIN e : e[n].type # "llm_delta"
      BY <2>3, <3>1 DEF Told
    <3> QED BY <2>1, <2>2, <3>2, BubblePlain
  <2>4. /\ Message("error", 0) \in Downs /\ Message("error", 0).type # "llm_delta"
        /\ Message("reset_done", 0) \in Downs /\ Message("reset_done", 0).type # "llm_delta"
    BY Rows DEF Message, Downs
  <2>5. CASE UNCHANGED down
    BY <2>1, <2>2, <2>5, BubbleKept
  <2> QED BY <2>1, <2>3, <2>4, <2>5
<1>9. CASE Speak
  <2>1. /\ down' = Down(drops, <<Message("tts_end", 0)>>) \/ UNCHANGED down
        /\ UNCHANGED <<turns, running, bubble, carried, socket, drops>>
    BY <1>9 DEF Speak, pageVars
  <2>2. Message("tts_end", 0) \in Downs /\ Message("tts_end", 0).type # "llm_delta"
    BY Rows DEF Message, Downs
  <2>3. ASSUME down' = Down(drops, <<Message("tts_end", 0)>>)
        PROVE  BubbleInv'
    <3>1. PICK e \in Seq(Downs) : Told(drops, Message("tts_end", 0), e)
      BY <2>2, <2>3, DownSays
    <3>2. down' = down \o e /\ \A n \in DOMAIN e : e[n].type # "llm_delta"
      BY <2>2, <3>1 DEF Told
    <3> QED BY <2>1, <3>2, BubblePlain
  <2>4. CASE UNCHANGED down
    BY <2>1, <2>4, BubbleKept
  <2> QED BY <2>1, <2>3, <2>4
<1> QED BY <1>1, <1>2, <1>3, <1>4, <1>5, <1>6, <1>7, <1>8, <1>9 DEF Server

LEMMA BubbleUser ==
  ASSUME BubbleInv, User, UNCHANGED serverVars
  PROVE  BubbleInv'
<1>1. UNCHANGED <<down, bubble, carried, drops>> /\ (socket' = socket \/ socket' = "open")
  BY DEF User, SendChat, ClickStop, ClickReset, ChangeRole, ClickMic, ClickMicOff,
         MicCaptured, MicStarted, OnOpen, pageVars, netVars
<1>2. UNCHANGED <<turns, running>>
  BY DEF serverVars
<1> QED BY <1>1, <1>2 DEF BubbleInv, OpenInv, ApartInv, PageInv, Mine, Closed

LEMMA BubbleStep ==
  ASSUME TypeInv, TaskInv, BubbleInv, [Next]_vars
  PROVE  BubbleInv'
<1>1. CASE User /\ UNCHANGED serverVars
  BY <1>1, BubbleUser
<1>2. CASE Server
  BY <1>2, BubbleServer
<1>3. CASE Deliver
  BY <1>3, BubblePull
<1>4. CASE WriteFails \/ UNCHANGED vars
  <2>1. running' = running /\ UNCHANGED <<down, bubble, carried, drops, socket, turns>>
    BY <1>4 DEF WriteFails, vars, clientVars, serverVars, pageVars, netVars
  <2> QED BY <2>1, BubbleKept
<1>5. CASE Lose
  <2>1. down' = <<>> /\ bubble' = bubble /\ (~carried' => bubble' = {})
    BY <1>5 DEF Lose, OnClose
  <2>2. DOMAIN down' = {}
    BY <2>1, NothingSaid
  <2> QED BY <2>1, <2>2 DEF BubbleInv, OpenInv, ApartInv, PageInv
<1> QED BY <1>1, <1>2, <1>3, <1>4, <1>5 DEF Next

LEMMA InitHolds ==
  ASSUME Init
  PROVE  TypeInv /\ TaskInv /\ BubbleInv
<1>0. MaxTurns \in Nat /\ MaxDrops \in Nat /\ MaxDeltas \in Nat
  BY WebClientAssumption, ConversationAssumption
<1>1. TypeInv
  <2>1. PageTypes
    <3>1. /\ socket = "open" /\ stuck = FALSE /\ generating = FALSE /\ voiceTurn = FALSE
          /\ bubble = {} /\ carried = FALSE /\ drops = 0
      BY DEF Init, ClientInit
    <3>2. 0 \in 0..MaxDrops
      BY <1>0
    <3> QED BY <3>1, <3>2 DEF PageTypes
  <2>2. WireTypes
    BY EmptySeq DEF Init, ClientInit, WireTypes
  <2>3. ServerTypes
    <3>1. 0 \in 0..MaxDeltas /\ Len(<<>>) = 0 /\ 0 <= MaxTurns
      BY <1>0, NothingSaid
    <3>2. Idle \in Jobs
      BY DEF Idle, Jobs
    <3>3. /\ turns = <<>> /\ busy = FALSE /\ mic = FALSE /\ tasks = <<>> /\ running = Idle
          /\ deltas = 0 /\ ending = FALSE /\ tts = <<>> /\ muted = FALSE
      BY DEF Init
    <3> QED BY <3>1, <3>2, <3>3, EmptySeq DEF ServerTypes
  <2> QED BY <2>1, <2>2, <2>3 DEF TypeInv
<1>2. DOMAIN turns = {} /\ DOMAIN tasks = {} /\ DOMAIN down = {} /\ bubble = {}
  BY NothingSaid DEF Init, ClientInit
<1>3. TaskInv
  BY <1>2 DEF Init, TaskInv, Idle
<1>4. BubbleInv
  BY <1>2 DEF BubbleInv, OpenInv, ApartInv, PageInv
<1> QED BY <1>1, <1>3, <1>4

\* The deltas of two turns share a bubble only if one is the reply of a tool, or the
\* connection was lost while the bubble was open, for any numbers of turns, clicks
\* and lost connections.  (app.js:75-98, 313-337; ws_session.cpp:303-317)
THEOREM MixedTheorem == Spec => []NoMixedBubble
<1>1. Init => TypeInv /\ TaskInv /\ BubbleInv
  BY InitHolds
<1>2. TypeInv /\ TaskInv /\ BubbleInv /\ [Next]_vars => (TypeInv /\ TaskInv /\ BubbleInv)'
  BY TypeStep, BubbleStep
<1>3. TypeInv /\ BubbleInv => NoMixedBubble
  <2> SUFFICES ASSUME TypeInv, BubbleInv, ~carried, \A t \in bubble : ~turns[t].tool
               PROVE  ~(Cardinality(bubble) > 1)
    BY DEF NoMixedBubble, TypeInv, PageTypes
  <2>1. \A t, u \in bubble : t = u
    BY DEF BubbleInv, PageInv
  <2>2. CASE bubble = {}
    BY <2>2, FS_EmptySet
  <2>3. CASE bubble # {}
    <3>1. PICK t \in bubble : TRUE
      BY <2>3
    <3>2. bubble = {t}
      BY <2>1, <3>1
    <3>3. Cardinality(bubble) = 1
      BY <3>2, FS_Singleton
    <3> QED BY <3>3
  <2> QED BY <2>2, <2>3
<1> QED BY <1>1, <1>2, <1>3, PTL DEF Spec

-----------------------------------------------------------------------------
(* The button. *)

Clears == {"interrupt", "tts_end", "error"}
Settled(i) == \E k \in DOMAIN down : k > i /\ down[k].type \in Clears

\* A spoken turn of this connection still has its marker to come, or it is queued ...
Replies(job) == job.kind = "chat" /\ Mine(job.arg)
Speaks(job) == Replies(job) /\ turns[job.arg].spoken
MarkerToCome == \/ ~ending /\ Speaks(running)
                \/ \E i \in DOMAIN tasks : Speaks(tasks[i])
Voiced == (mic /\ tts # <<>>) \/ MarkerToCome

\* ... a turn of this connection still has its llm_end to come, or to be asked for.
EndToCome == Replies(running) \/ \E i \in DOMAIN tasks : Replies(tasks[i])
Texted == (\E i \in DOMAIN up : up[i].type = "chat") \/ EndToCome

\* Behind a spoken turn that is announced, or that the page shows, comes what gives
\* the send button back; so behind a typed one, for which the llm_end is enough.
AsrInv ==
  \A i \in DOMAIN down : down[i].type = "asr_text" => Settled(i) \/ Voiced \/ muted
ShownInv ==
  /\ generating /\ voiceTurn => Settled(0) \/ Voiced \/ muted
  /\ generating /\ ~voiceTurn => Settled(0) \/ Closed(0) \/ Texted

ButtonInv == AsrInv /\ ShownInv

\* The server says something more.
LEMMA ButtonPush ==
  ASSUME TypeInv, ButtonInv, NEW e \in Seq(Downs), down' = down \o e,
         UNCHANGED <<generating, voiceTurn>>,
         muted => muted',
         Voiced => Voiced' \/ muted' \/ \E n \in DOMAIN e : e[n].type \in Clears,
         \A n \in DOMAIN e : e[n].type = "asr_text" => Voiced',
         Texted => Texted' \/ \E n \in DOMAIN e : e[n].type \in Clears \union {"llm_end"}
  PROVE  ButtonInv'
<1> DEFINE L == Len(down)
<1>1. /\ L \in Nat /\ DOMAIN down = 1..L /\ DOMAIN e = 1..Len(e) /\ Len(e) \in Nat
      /\ \A i \in DOMAIN down : i \in DOMAIN down' /\ down'[i] = down[i]
      /\ \A n \in DOMAIN e : L + n \in DOMAIN down' /\ down'[L + n] = e[n]
      /\ \A k \in DOMAIN down' : \/ k \in DOMAIN down /\ down'[k] = down[k]
                                 \/ \E n \in DOMAIN e : k = L + n /\ down'[k] = e[n]
  BY Pushed DEF TypeInv, WireTypes
<1> HIDE DEF L
<1>2. ASSUME NEW i \in 0..L, NEW n \in DOMAIN e
      PROVE  /\ L + n \in DOMAIN down' /\ L + n > i /\ down'[L + n] = e[n]
  <2>1. L \in Nat /\ n \in Nat /\ n > 0
    BY <1>1
  <2>2. L + n > i
    BY <2>1
  <2> QED BY <1>1, <2>2
<1>3. ASSUME NEW i \in 0..L, Settled(i) \/ Voiced \/ muted
      PROVE  \/ \E k \in DOMAIN down' : k > i /\ down'[k].type \in Clears
             \/ Voiced' \/ muted'
  <2>1. CASE Settled(i)
    BY <1>1, <2>1 DEF Settled
  <2>2. CASE Voiced
    <3>1. CASE \E n \in DOMAIN e : e[n].type \in Clears
      BY <1>2, <3>1
    <3> QED BY <2>2, <3>1
  <2> QED BY <1>3, <2>1, <2>2
<1>4. AsrInv'
  <2> SUFFICES ASSUME NEW i \in DOMAIN down', down'[i].type = "asr_text"
               PROVE  \/ \E k \in DOMAIN down' : k > i /\ down'[k].type \in Clears
                      \/ Voiced' \/ muted'
    BY DEF AsrInv, Settled, Clears
  <2>1. CASE i \in DOMAIN down /\ down'[i] = down[i]
    <3>1. i \in 0..L /\ (Settled(i) \/ Voiced \/ muted)
      BY <1>1, <2>1 DEF ButtonInv, AsrInv
    <3> QED BY <1>3, <3>1
  <2>2. CASE \E n \in DOMAIN e : i = L + n /\ down'[i] = e[n]
    BY <2>2
  <2> QED BY <1>1, <2>1, <2>2
<1>5. generating /\ voiceTurn =>
        \/ \E k \in DOMAIN down' : k > 0 /\ down'[k].type \in Clears
        \/ Voiced' \/ muted'
  <2>1. 0 \in 0..L
    BY <1>1
  <2> QED BY <1>3, <2>1 DEF ButtonInv, ShownInv
<1>6. generating /\ ~voiceTurn =>
        \/ \E k \in DOMAIN down' : k > 0 /\ down'[k].type \in Clears
        \/ \E k \in DOMAIN down' : k > 0 /\ down'[k].type = "llm_end"
        \/ Texted'
  <2> SUFFICES ASSUME Settled(0) \/ Closed(0) \/ Texted
               PROVE  \/ \E k \in DOMAIN down' : k > 0 /\ down'[k].type \in Clears
                      \/ \E k \in DOMAIN down' : k > 0 /\ down'[k].type = "llm_end"
                      \/ Texted'
    BY DEF ButtonInv, ShownInv
  <2>1. CASE Settled(0) \/ Closed(0)
    BY <1>1, <2>1 DEF Settled, Closed
  <2>2. CASE \E n \in DOMAIN e : e[n].type \in Clears \union {"llm_end"}
    <3>1. PICK n \in DOMAIN e : e[n].type \in Clears \union {"llm_end"}
      BY <2>2
    <3>2. L + n \in DOMAIN down' /\ L + n > 0 /\ down'[L + n] = e[n]
      <4>1. 0 \in 0..L
        BY <1>1
      <4> QED BY <1>2, <4>1
    <3>3. CASE e[n].type \in Clears
      BY <3>2, <3>3
    <3>4. CASE e[n].type = "llm_end"
      BY <3>2, <3>4
    <3> QED BY <3>1, <3>3, <3>4
  <2> QED BY <2>1, <2>2
<1>7. ShownInv'
  BY <1>5, <1>6 DEF ShownInv, Settled, Closed, Clears
<1> QED BY <1>4, <1>7 DEF ButtonInv

\* The page has the first message.
LEMMA ButtonPull ==
  ASSUME TypeInv, ButtonInv, Deliver
  PROVE  ButtonInv'
<1>1. /\ down # <<>> /\ down' = Tail(down) /\ OnMessage(Head(down))
      /\ UNCHANGED <<serverVars, socket, drops, up>>
  BY DEF Deliver
<1>2. /\ Head(down) = down[1] /\ 1 \in DOMAIN down /\ Len(down) \in Nat
      /\ DOMAIN down = 1..Len(down) /\ DOMAIN down' = 1..(Len(down) - 1)
      /\ \A k \in DOMAIN down' : k + 1 \in DOMAIN down /\ down'[k] = down[k + 1]
      /\ \A k \in DOMAIN down : k # 1 => k - 1 \in DOMAIN down' /\ down'[k - 1] = down[k]
  BY <1>1, Pulled DEF TypeInv, WireTypes
<1>3. Voiced' = Voiced /\ Texted' = Texted /\ muted' = muted
  BY <1>1 DEF serverVars, Voiced, MarkerToCome, Speaks, Replies, Texted, EndToCome, Mine
<1> DEFINE m == down[1]
<1>4. ASSUME NEW i \in DOMAIN down, Settled(i)
      PROVE  \E k \in DOMAIN down' : k > i - 1 /\ down'[k].type \in Clears
  <2>1. PICK k \in DOMAIN down : k > i /\ down[k].type \in Clears
    BY <1>4 DEF Settled
  <2>2. k - 1 \in DOMAIN down' /\ k - 1 > i - 1 /\ down'[k - 1] = down[k]
    BY <1>2, <2>1
  <2> QED BY <2>1, <2>2
<1>5. ASSUME Settled(0), m.type \notin Clears
      PROVE  \E k \in DOMAIN down' : k > 0 /\ down'[k].type \in Clears
  <2>1. PICK k \in DOMAIN down : k > 0 /\ down[k].type \in Clears
    BY <1>5 DEF Settled
  <2>2. k - 1 \in DOMAIN down' /\ k - 1 > 0 /\ down'[k - 1] = down[k]
    BY <1>2, <1>5, <2>1
  <2> QED BY <2>1, <2>2
<1>6. ASSUME Closed(0), m.type # "llm_end"
      PROVE  \E k \in DOMAIN down' : k > 0 /\ down'[k].type = "llm_end"
  <2>1. PICK k \in DOMAIN down : k > 0 /\ down[k].type = "llm_end"
    BY <1>6 DEF Closed
  <2>2. k - 1 \in DOMAIN down' /\ k - 1 > 0 /\ down'[k - 1] = down[k]
    BY <1>2, <1>6, <2>1
  <2> QED BY <2>1, <2>2
<1>7. AsrInv'
  <2> SUFFICES ASSUME NEW i \in DOMAIN down', down'[i].type = "asr_text"
               PROVE  \/ \E k \in DOMAIN down' : k > i /\ down'[k].type \in Clears
                      \/ Voiced' \/ muted'
    BY DEF AsrInv, Settled, Clears
  <2>1. i + 1 \in DOMAIN down /\ down'[i] = down[i + 1] /\ (i + 1) - 1 = i
    BY <1>2
  <2>2. Settled(i + 1) \/ Voiced \/ muted
    BY <2>1 DEF ButtonInv, AsrInv
  <2>3. CASE Settled(i + 1)
    <3>1. \E k \in DOMAIN down' : k > (i + 1) - 1 /\ down'[k].type \in Clears
      BY <1>4, <2>1, <2>3
    <3> QED BY <2>1, <3>1
  <2> QED BY <1>3, <2>2, <2>3
<1>8. \/ generating' = FALSE
      \/ /\ m.type \in {"llm_delta", "reset_done"}
         /\ generating' = generating /\ voiceTurn' = voiceTurn
      \/ m.type = "llm_end" /\ generating' = (generating /\ voiceTurn) /\ voiceTurn' = voiceTurn
      \/ m.type = "asr_text" /\ voiceTurn' = TRUE
  BY <1>1, <1>2 DEF OnMessage, AppendDelta, FinishGeneration, AsrText, Interrupt,
                    TtsEnd, ClearChat, Error
<1>9. /\ generating' /\ voiceTurn' =>
           \/ \E k \in DOMAIN down' : k > 0 /\ down'[k].type \in Clears
           \/ Voiced' \/ muted'
      /\ generating' /\ ~voiceTurn' =>
           \/ \E k \in DOMAIN down' : k > 0 /\ down'[k].type \in Clears
           \/ \E k \in DOMAIN down' : k > 0 /\ down'[k].type = "llm_end"
           \/ Texted'
  <2>1. CASE generating' = FALSE
    BY <2>1
  <2>2. CASE /\ m.type \in {"llm_delta", "reset_done"}
             /\ generating' = generating /\ voiceTurn' = voiceTurn
    <3>1. m.type \notin Clears /\ m.type # "llm_end"
      BY <2>2 DEF Clears
    <3> QED BY <1>3, <1>5, <1>6, <2>2, <3>1 DEF ButtonInv, ShownInv
  <2>3. CASE m.type = "llm_end" /\ generating' = (generating /\ voiceTurn)
             /\ voiceTurn' = voiceTurn
    <3>1. m.type \notin Clears
      BY <2>3 DEF Clears
    <3> QED BY <1>3, <1>5, <2>3, <3>1 DEF ButtonInv, ShownInv
  <2>4. CASE m.type = "asr_text" /\ voiceTurn' = TRUE
    <3>1. Settled(1) \/ Voiced \/ muted
      BY <1>2, <2>4 DEF ButtonInv, AsrInv
    <3>2. Settled(1) => \E k \in DOMAIN down' : k > 1 - 1 /\ down'[k].type \in Clears
      BY <1>2, <1>4
    <3>3. Settled(1) => \E k \in DOMAIN down' : k > 0 /\ down'[k].type \in Clears
      BY <3>2
    <3> QED BY <1>3, <2>4, <3>1, <3>3
  <2> QED BY <1>8, <2>1, <2>2, <2>3, <2>4
<1>10. ShownInv'
  BY <1>9 DEF ShownInv, Settled, Closed, Clears
<1> QED BY <1>7, <1>10 DEF ButtonInv

\* The jobs of turns stay what they are, if the worker and the queue keep them.
LEMMA ToComeStays ==
  ASSUME TaskInv, UNCHANGED <<drops, socket, running, ending>>,
         \A t \in DOMAIN turns : t \in DOMAIN turns' /\ turns'[t] = turns[t],
         \A i \in DOMAIN tasks : i \in DOMAIN tasks' /\ tasks'[i] = tasks[i]
  PROVE  (MarkerToCome => MarkerToCome') /\ (EndToCome => EndToCome')
<1>1. /\ Speaks(running) => Speaks(running)'
      /\ Replies(running) => Replies(running)'
  BY DEF Speaks, Replies, Mine, TaskInv
<1>2. ASSUME NEW i \in DOMAIN tasks
      PROVE  /\ i \in DOMAIN tasks'
             /\ Speaks(tasks[i]) => Speaks(tasks[i])'
             /\ Replies(tasks[i]) => Replies(tasks[i])'
  BY DEF Speaks, Replies, Mine, TaskInv
<1>3. MarkerToCome => MarkerToCome'
  BY <1>1, <1>2 DEF MarkerToCome
<1>4. EndToCome => EndToCome'
  BY <1>1, <1>2 DEF EndToCome
<1> QED BY <1>3, <1>4

\* The server says something more, and nothing that was to come is given up but
\* by a message that gives the button back, or by an interrupt that is muted.
LEMMA ButtonStarted ==
  ASSUME TypeInv, TaskInv, ButtonInv, NEW spoken \in BOOLEAN, StartChatTurn(spoken),
         spoken => mic, socket = "open",
         UNCHANGED <<generating, voiceTurn, drops, socket>>,
         up' = up \/ ~spoken
  PROVE  ButtonInv'
<1>1. PICK tool \in BOOLEAN, e \in Seq(Downs) : Begun(spoken, tool, e)
  BY Started
<1> DEFINE row == [conn |-> drops, spoken |-> spoken, tool |-> tool]
           job == [kind |-> "chat", arg |-> Len(turns) + 1]
<1>2. row \in Turns /\ row.conn = drops /\ row.spoken = spoken
  BY DEF TypeInv, PageTypes, Turns
<1>3. /\ job \in Jobs /\ job.kind = "chat" /\ job.arg = Len(turns) + 1
      /\ Len(turns) + 1 \in Nat
  BY Rows DEF Jobs
<1>4. turns' = Append(turns, row) /\ turns \in Seq(Turns) /\ tasks \in Seq(Jobs)
      /\ tts \in Seq(Nat)
  BY <1>1 DEF Begun, TypeInv, ServerTypes
<1>5. /\ \A t \in DOMAIN turns : t \in DOMAIN turns' /\ turns'[t] = turns[t]
      /\ turns'[Len(turns) + 1] = row /\ Len(turns) + 1 \in DOMAIN turns'
  <2> HIDE DEF row
  <2> QED BY <1>2, <1>4, Appended
<1>6. tool => tasks' = tasks
  BY <1>1 DEF Begun
<1>7. ~tool => /\ \A i \in DOMAIN tasks : i \in DOMAIN tasks' /\ tasks'[i] = tasks[i]
               /\ tasks'[Len(tasks) + 1] = job /\ Len(tasks) + 1 \in DOMAIN tasks'
  <2> SUFFICES ASSUME ~tool
               PROVE  /\ \A i \in DOMAIN tasks : i \in DOMAIN tasks' /\ tasks'[i] = tasks[i]
                      /\ tasks'[Len(tasks) + 1] = job /\ Len(tasks) + 1 \in DOMAIN tasks'
    OBVIOUS
  <2>1. tasks' = Append(tasks, job)
    BY <1>1 DEF Begun
  <2> HIDE DEF job
  <2> QED BY <1>3, <1>4, <2>1, Appended
<1> HIDE DEF row, job
<1>8. (MarkerToCome => MarkerToCome') /\ (EndToCome => EndToCome')
  <2>1. \A i \in DOMAIN tasks : i \in DOMAIN tasks' /\ tasks'[i] = tasks[i]
    BY <1>6, <1>7
  <2>2. UNCHANGED <<drops, socket, running, ending>>
    BY <1>1 DEF Begun
  <2> QED BY <1>5, <2>1, <2>2, ToComeStays
<1>9. ~tool => EndToCome' /\ (spoken => MarkerToCome')
  BY <1>2, <1>3, <1>5, <1>7 DEF EndToCome, MarkerToCome, Speaks, Replies, Mine
<1>10. tool /\ spoken => Voiced'
  <2> SUFFICES ASSUME tool, spoken PROVE Voiced'
    OBVIOUS
  <2>1. tts' = Append(IF busy THEN <<>> ELSE tts, Len(turns) + 1) /\ mic' = mic
    BY <1>1 DEF Begun
  <2>2. (IF busy THEN <<>> ELSE tts) \in Seq(Nat)
    BY <1>4, EmptySeq
  <2>3. tts' # <<>>
    BY <1>3, <2>1, <2>2, AppendProperties
  <2> QED BY <2>1, <2>3 DEF Voiced
<1>11. Voiced => Voiced' \/ \E n \in DOMAIN e : e[n].type \in Clears
  <2>1. CASE MarkerToCome
    BY <1>8, <2>1 DEF Voiced
  <2>2. CASE busy
    <3>1. \E k \in DOMAIN e : e[k].type = "interrupt"
      BY <1>1, <2>2 DEF Begun
    <3> QED BY <3>1 DEF Clears
  <2>3. CASE mic /\ tts # <<>> /\ ~busy
    <3>1. mic' = mic /\ (tts' = tts \/ (tool /\ spoken))
      BY <1>1, <2>3 DEF Begun
    <3> QED BY <1>10, <2>3, <3>1 DEF Voiced
  <2> QED BY <2>1, <2>2, <2>3 DEF Voiced
<1>12. \A n \in DOMAIN e : e[n].type = "asr_text" => Voiced'
  <2>1. \A n \in DOMAIN e : e[n].type = "asr_text" => spoken
    BY <1>1 DEF Begun
  <2>2. spoken => Voiced'
    BY <1>9, <1>10 DEF Voiced
  <2> QED BY <2>1, <2>2
<1>13. Texted' \/ \E n \in DOMAIN e : e[n].type \in Clears \union {"llm_end"}
  <2>1. tool => \E k \in DOMAIN e : e[k].type = "llm_end"
    BY <1>1 DEF Begun
  <2> QED BY <1>9, <2>1 DEF Texted
<1>14. down' = down \o e /\ muted' = muted
  BY <1>1 DEF Begun
<1> QED BY <1>11, <1>12, <1>13, <1>14, ButtonPush

\* The first message up is done, and was no question.
LEMMA OtherHandled ==
  ASSUME TypeInv, up # <<>>, up' = Tail(up), up[1].type # "chat", EndToCome => EndToCome'
  PROVE  Texted => Texted'
<1>1. /\ DOMAIN up = 1..Len(up)
      /\ \A k \in DOMAIN up : k # 1 => k - 1 \in DOMAIN up' /\ up'[k - 1] = up[k]
  BY Pulled DEF TypeInv, WireTypes
<1> QED BY <1>1 DEF Texted

LEMMA ButtonInterrupted ==
  ASSUME TypeInv, TaskInv, ButtonInv, InterruptCurrentTurn,
         \/ UNCHANGED tasks
         \/ \E job \in Jobs : tasks' = Append(tasks, job) /\ job.kind # "chat",
         UNCHANGED <<generating, voiceTurn, drops, socket>>,
         up' = up \/ (up # <<>> /\ up' = Tail(up) /\ up[1].type # "chat")
  PROVE  ButtonInv'
<1>1. PICK e \in Seq(Downs) : Cut(e)
  BY Interrupted
<1>2. /\ muted => muted'
      /\ ~busy /\ tts # <<>> => muted'
      /\ UNCHANGED <<turns, mic, running, deltas, ending>>
  BY Interrupted
<1>3. \A i \in DOMAIN tasks : i \in DOMAIN tasks' /\ tasks'[i] = tasks[i]
  <2>0. tasks \in Seq(Jobs)
    BY DEF TypeInv, ServerTypes
  <2>1. ASSUME NEW job \in Jobs, tasks' = Append(tasks, job)
        PROVE  \A i \in DOMAIN tasks : i \in DOMAIN tasks' /\ tasks'[i] = tasks[i]
    BY <2>0, <2>1, Appended
  <2> QED BY <2>1
<1>4. (MarkerToCome => MarkerToCome') /\ (EndToCome => EndToCome')
  BY <1>2, <1>3, ToComeStays
<1>5. Voiced => Voiced' \/ muted' \/ \E n \in DOMAIN e : e[n].type \in Clears
  <2>1. CASE busy
    BY <1>1, <2>1 DEF Cut, Clears
  <2> QED BY <1>2, <1>4, <2>1 DEF Voiced
<1>6. Texted => Texted'
  <2>1. CASE up' = up
    BY <1>4, <2>1 DEF Texted
  <2> QED BY <1>4, <2>1, OtherHandled
<1>7. down' = down \o e /\ \A n \in DOMAIN e : e[n].type # "asr_text"
  BY <1>1 DEF Cut
<1> QED BY <1>2, <1>5, <1>6, <1>7, ButtonPush

\* Nothing is said that begins a turn, and what was to come stays so.
LEMMA ButtonPlain ==
  ASSUME TypeInv, ButtonInv, NEW e \in Seq(Downs), down' = down \o e,
         UNCHANGED <<generating, voiceTurn, muted>>,
         \A n \in DOMAIN e : e[n].type # "asr_text",
         Voiced => Voiced' \/ \E n \in DOMAIN e : e[n].type \in Clears,
         Texted => Texted' \/ \E n \in DOMAIN e : e[n].type \in Clears \union {"llm_end"}
  PROVE  ButtonInv'
BY ButtonPush

\* Nothing is said at all.
LEMMA ButtonKept ==
  ASSUME ButtonInv, UNCHANGED <<down, generating, voiceTurn, muted>>,
         Voiced => Voiced', Texted => Texted'
  PROVE  ButtonInv'
BY DEF ButtonInv, AsrInv, ShownInv, Settled, Closed, Clears

LEMMA ButtonServer ==
  ASSUME TypeInv, TaskInv, ButtonInv, Server
  PROVE  ButtonInv'
<1>1. CASE HandleText
  <2>1. /\ UNCHANGED <<generating, voiceTurn, drops, socket>> /\ socket = "open"
        /\ up # <<>> /\ up' = Tail(up)
    BY <1>1, Handled DEF pageVars
  <2>2. CASE StartChatTurn(FALSE)
    BY <2>1, <2>2, ButtonStarted
  <2>3. CASE /\ up[1].type # "chat" /\ InterruptCurrentTurn
             /\ \/ UNCHANGED tasks
                \/ \E job \in Jobs : tasks' = Append(tasks, job) /\ job.kind # "chat"
    BY <2>1, <2>3, ButtonInterrupted
  <2>4. CASE /\ up[1].type # "chat" /\ (mic' = TRUE \/ UNCHANGED mic)
             /\ \E e \in Seq(Downs) : /\ down' = down \o e
                                      /\ \A n \in DOMAIN e : e[n].type = "error"
             /\ UNCHANGED <<turns, busy, tasks, running, deltas, ending, tts, muted>>
    <3>1. PICK e \in Seq(Downs) : down' = down \o e /\ \A n \in DOMAIN e : e[n].type = "error"
      BY <2>4
    <3>2. (MarkerToCome => MarkerToCome') /\ (EndToCome => EndToCome')
      BY <2>1, <2>4, ToComeStays
    <3>3. Voiced => Voiced'
      BY <2>4, <3>2 DEF Voiced
    <3>4. Texted => Texted'
      BY <2>1, <2>4, <3>2, OtherHandled
    <3> QED BY <2>1, <2>4, <3>1, <3>3, <3>4, ButtonPlain
  <2> QED BY <1>1, <2>2, <2>3, <2>4, Handled
<1>2. CASE SpeechStart
  BY <1>2, ButtonInterrupted DEF SpeechStart, pageVars
<1>3. CASE Utterance
  BY <1>3, ButtonStarted DEF Utterance, pageVars
<1>4. CASE Pop
  <2>1. /\ running.kind = "none" /\ tasks # <<>> /\ running' = Head(tasks)
        /\ tasks' = Tail(tasks)
        /\ UNCHANGED <<down, generating, voiceTurn, muted, up, mic, tts, turns, drops, socket,
                       ending>>
    BY <1>4 DEF Pop, Idle, clientVars, pageVars, netVars
  <2>2. /\ running' = tasks[1] /\ DOMAIN tasks = 1..Len(tasks)
        /\ \A k \in DOMAIN tasks : k # 1 => k - 1 \in DOMAIN tasks' /\ tasks'[k - 1] = tasks[k]
    BY <2>1, Pulled DEF TypeInv, ServerTypes
  <2>3. ~ending' /\ ~Replies(running)
    BY <2>1 DEF TaskInv, Replies
  <2>4. ASSUME NEW i \in DOMAIN tasks
        PROVE  /\ Speaks(tasks[i]) => MarkerToCome'
               /\ Replies(tasks[i]) => EndToCome'
    <3>1. CASE i = 1
      BY <2>1, <2>2, <2>3, <3>1 DEF MarkerToCome, EndToCome, Speaks, Replies, Mine
    <3>2. CASE i # 1
      <4>1. i - 1 \in DOMAIN tasks' /\ tasks'[i - 1] = tasks[i]
        BY <2>2, <3>2
      <4> QED BY <2>1, <4>1 DEF MarkerToCome, EndToCome, Speaks, Replies, Mine
    <3> QED BY <3>1, <3>2
  <2>5. (MarkerToCome => MarkerToCome') /\ (EndToCome => EndToCome')
    BY <2>3, <2>4 DEF MarkerToCome, EndToCome, Speaks
  <2>6. (Voiced => Voiced') /\ (Texted => Texted')
    BY <2>1, <2>5 DEF Voiced, Texted
  <2> QED BY <2>1, <2>6, ButtonKept
<1>5. CASE Delta
  <2> DEFINE msg == Message("llm_delta", running.arg)
  <2>1. /\ running.kind = "chat"
        /\ down' = Down(turns[running.arg].conn, <<msg>>)
        /\ UNCHANGED <<turns, running, generating, voiceTurn, muted, up, mic, tts, tasks,
                       socket, drops, ending>>
    BY <1>5 DEF Delta, pageVars
  <2>2. running.arg \in 1..MaxTurns
    BY <2>1, Rows DEF TaskInv, TypeInv, ServerTypes
  <2>3. msg \in Downs /\ msg.type = "llm_delta"
    BY <2>2 DEF Message, Downs
  <2> HIDE DEF msg
  <2>4. PICK e \in Seq(Downs) : Told(turns[running.arg].conn, msg, e)
    BY <2>1, <2>3, DownSays
  <2>5. down' = down \o e /\ \A n \in DOMAIN e : e[n].type # "asr_text"
    BY <2>3, <2>4 DEF Told
  <2>6. (MarkerToCome => MarkerToCome') /\ (EndToCome => EndToCome')
    BY <2>1, ToComeStays
  <2>7. (Voiced => Voiced') /\ (Texted => Texted')
    BY <2>1, <2>6 DEF Voiced, Texted
  <2> QED BY <2>1, <2>5, <2>7, ButtonPlain
<1>6. CASE Done
  <2>1. /\ running.kind = "chat" /\ ending' = TRUE
        /\ \/ turns[running.arg].spoken /\ tts' = Append(tts, running.arg)
           \/ ~turns[running.arg].spoken /\ tts' = tts
           \/ ~Mine(running.arg) /\ tts' = tts
        /\ UNCHANGED <<down, generating, voiceTurn, muted, up, mic, turns, running, tasks,
                       drops, socket>>
    BY <1>6 DEF Done, clientVars, pageVars, netVars
  <2>2. running.arg \in Nat /\ running.arg \in DOMAIN turns
    BY <2>1, Rows DEF TaskInv, TypeInv, ServerTypes
  <2>3. Append(tts, running.arg) # <<>>
    <3>1. tts \in Seq(Nat)
      BY DEF TypeInv, ServerTypes
    <3> QED BY <2>2, <3>1, AppendProperties
  <2>4. mic /\ tts # <<>> => Voiced'
    BY <2>1, <2>3 DEF Voiced
  <2>5. Speaks(running) => Voiced'
    <3>1. Speaks(running) => mic
      BY <2>2 DEF Speaks, Replies, Mine, TaskInv
    <3> QED BY <2>1, <2>3, <3>1 DEF Voiced, Speaks, Replies
  <2>6. (\E i \in DOMAIN tasks : Speaks(tasks[i])) => Voiced'
    BY <2>1 DEF Voiced, MarkerToCome, Speaks, Replies, Mine
  <2>7. Voiced => Voiced'
    BY <2>4, <2>5, <2>6 DEF Voiced, MarkerToCome
  <2>8. Texted => Texted'
    BY <2>1 DEF Texted, EndToCome, Replies, Mine
  <2> QED BY <2>1, <2>7, <2>8, ButtonKept
<1>7. CASE End
  <2> DEFINE msg == Message("llm_end", running.arg)
  <2>1. /\ ending /\ ending' = FALSE
        /\ down' = Down(turns[running.arg].conn, <<msg>>)
        /\ UNCHANGED <<turns, generating, voiceTurn, muted, up, mic, tts, tasks, socket, drops>>
    BY <1>7 DEF End, pageVars
  <2>2. running.arg \in 0..MaxTurns
    BY <2>1, Rows DEF TaskInv, TypeInv, ServerTypes
  <2>3. msg \in Downs /\ msg.type = "llm_end"
    BY <2>2 DEF Message, Downs
  <2> HIDE DEF msg
  <2>4. PICK e \in Seq(Downs) : Told(turns[running.arg].conn, msg, e)
    BY <2>1, <2>3, DownSays
  <2>5. down' = down \o e /\ \A n \in DOMAIN e : e[n].type # "asr_text"
    BY <2>3, <2>4 DEF Told
  <2>6. Replies(running) => \E n \in DOMAIN e : e[n].type = "llm_end"
    BY <2>3, <2>4 DEF Told, Replies, Mine
  <2>7. Voiced => Voiced'
    BY <2>1 DEF Voiced, MarkerToCome, Speaks, Replies, Mine
  <2>8. Texted => Texted' \/ \E n \in DOMAIN e : e[n].type \in Clears \union {"llm_end"}
    BY <2>1, <2>6 DEF Texted, EndToCome, Replies, Mine
  <2> QED BY <2>1, <2>5, <2>7, <2>8, ButtonPlain
<1>8. CASE Switched
  <2>1. /\ running.kind # "chat"
        /\ \/ down' = Down(running.arg, <<Message("error", 0)>>)
           \/ down' = Down(running.arg, <<Message("reset_done", 0)>>)
           \/ UNCHANGED down
        /\ UNCHANGED <<turns, generating, voiceTurn, muted, up, mic, tts, tasks, ending,
                       socket, drops>>
    BY <1>8 DEF Switched, pageVars
  <2>2. (Voiced => Voiced') /\ (Texted => Texted')
    BY <2>1 DEF Voiced, MarkerToCome, Texted, EndToCome, Speaks, Replies, Mine
  <2>3. ASSUME NEW msg \in Downs, msg.type # "asr_text", down' = Down(running.arg, <<msg>>)
        PROVE  ButtonInv'
    <3>1. PICK e \in Seq(Downs) : Told(running.arg, msg, e)
      BY <2>3, DownSays
    <3>2. down' = down \o e /\ \A n \in DOMAIN e : e[n].type # "asr_text"
      BY <2>3, <3>1 DEF Told
    <3> QED BY <2>1, <2>2, <3>2, ButtonPlain
  <2>4. /\ Message("error", 0) \in Downs /\ Message("error", 0).type # "asr_text"
        /\ Message("reset_done", 0) \in Downs /\ Message("reset_done", 0).type # "asr_text"
    BY Rows DEF Message, Downs
  <2>5. CASE UNCHANGED down
    BY <2>1, <2>2, <2>5, ButtonKept
  <2> QED BY <2>1, <2>3, <2>4, <2>5
<1>9. CASE Speak
  <2> DEFINE msg == Message("tts_end", 0)
  <2>1. /\ tts' = Tail(tts)
        /\ IF mic THEN down' = Down(drops, <<msg>>) ELSE UNCHANGED down
        /\ UNCHANGED <<turns, generating, voiceTurn, muted, up, mic, running, tasks, ending,
                       socket, drops>>
    BY <1>9 DEF Speak, pageVars
  <2>2. msg \in Downs /\ msg.type = "tts_end"
    BY Rows DEF Message, Downs
  <2>3. (MarkerToCome => MarkerToCome') /\ (Texted => Texted')
    BY <2>1 DEF MarkerToCome, Texted, EndToCome, Speaks, Replies, Mine
  <2> HIDE DEF msg
  <2>4. CASE mic
    <3>1. PICK e \in Seq(Downs) : Told(drops, msg, e)
      BY <2>1, <2>2, <2>4, DownSays
    <3>2. socket = "open"
      BY <2>4 DEF TaskInv
    <3>3. /\ down' = down \o e /\ \A n \in DOMAIN e : e[n].type # "asr_text"
          /\ \E n \in DOMAIN e : e[n].type \in Clears
      BY <2>2, <3>1, <3>2 DEF Told, Clears
    <3> QED BY <2>1, <2>3, <3>3, ButtonPlain
  <2>5. CASE ~mic
    <3>1. Voiced => Voiced'
      BY <2>3, <2>5 DEF Voiced
    <3> QED BY <2>1, <2>3, <2>5, <3>1, ButtonKept
  <2> QED BY <2>4, <2>5
<1> QED BY <1>1, <1>2, <1>3, <1>4, <1>5, <1>6, <1>7, <1>8, <1>9 DEF Server

LEMMA ButtonUser ==
  ASSUME TypeInv, TaskInv, ButtonInv, User, UNCHANGED serverVars
  PROVE  ButtonInv'
<1>1. /\ UNCHANGED <<turns, busy, mic, tasks, running, ending, tts, muted>>
      /\ UNCHANGED <<down, drops>>
      /\ socket' = socket \/ socket' = "open"
  BY DEF serverVars, User, SendChat, ClickStop, ClickReset, ChangeRole, ClickMic, ClickMicOff,
         MicCaptured, MicStarted, OnOpen, pageVars, netVars
<1>2. /\ MarkerToCome => MarkerToCome'
      /\ EndToCome => EndToCome'
      /\ Voiced => Voiced'
  BY <1>1 DEF MarkerToCome, EndToCome, Voiced, Speaks, Replies, Mine
<1>3. AsrInv'
  BY <1>1, <1>2 DEF ButtonInv, AsrInv, Settled, Clears
<1>4. ASSUME NEW type \in {"chat", "stop", "new_session", "set_role", "mic_start"},
             SendUp(type, 0)
      PROVE  /\ \A k \in DOMAIN up : k \in DOMAIN up' /\ up'[k] = up[k]
             /\ type = "chat" => Texted'
  <2>1. Message(type, 0) \in Ups /\ Message(type, 0).type = type
    BY DEF Message, Ups
  <2>2. /\ \A k \in DOMAIN up : k \in DOMAIN up' /\ up'[k] = up[k]
        /\ \E k \in DOMAIN up' : up'[k] = Message(type, 0)
    BY <1>4, <2>1, Appended DEF SendUp, TypeInv, WireTypes
  <2> QED BY <2>1, <2>2 DEF Texted
<1>5. ASSUME \A k \in DOMAIN up : k \in DOMAIN up' /\ up'[k] = up[k]
      PROVE  Texted => Texted'
  BY <1>2, <1>5 DEF Texted
<1>6. ASSUME UNCHANGED <<generating, voiceTurn>>,
             \A k \in DOMAIN up : k \in DOMAIN up' /\ up'[k] = up[k]
      PROVE  ShownInv'
  BY <1>1, <1>2, <1>5, <1>6 DEF ButtonInv, ShownInv, Settled, Closed, Clears
<1>7. CASE SendChat(0)
  <2>1. voiceTurn' = FALSE /\ SendUp("chat", 0)
    BY <1>7 DEF SendChat
  <2>2. Texted'
    BY <1>4, <2>1
  <2>3. ShownInv'
    BY <2>1, <2>2 DEF ShownInv
  <2> QED BY <1>3, <2>3 DEF ButtonInv
<1>8. CASE ClickStop \/ ClickReset
  <2>1. generating' = FALSE
    BY <1>8 DEF ClickStop, ClickReset
  <2>2. ShownInv'
    BY <2>1 DEF ShownInv
  <2> QED BY <1>3, <2>2 DEF ButtonInv
<1>9. CASE \/ ChangeRole \/ ClickMic \/ ClickMicOff \/ OnOpen
           \/ \E i \in DOMAIN starts : MicCaptured(i) \/ MicStarted(i)
  <2>1. /\ UNCHANGED <<generating, voiceTurn>>
        /\ up' = up \/ SendUp("set_role", 0) \/ SendUp("mic_start", 0)
    BY <1>9 DEF ChangeRole, ClickMic, ClickMicOff, OnOpen, MicCaptured, MicStarted,
                pageVars, netVars
  <2>2. \A k \in DOMAIN up : k \in DOMAIN up' /\ up'[k] = up[k]
    BY <1>4, <2>1
  <2> QED BY <1>3, <1>6, <2>1, <2>2 DEF ButtonInv
<1> QED BY <1>7, <1>8, <1>9 DEF User

LEMMA ButtonStep ==
  ASSUME TypeInv, TaskInv, ButtonInv, [Next]_vars
  PROVE  ButtonInv'
<1>1. CASE User /\ UNCHANGED serverVars
  BY <1>1, ButtonUser
<1>2. CASE Server
  BY <1>2, ButtonServer
<1>3. CASE Deliver
  BY <1>3, ButtonPull
<1>4. CASE WriteFails \/ UNCHANGED vars
  <2>1. UNCHANGED <<down, generating, voiceTurn, serverVars, up, drops, socket>>
    BY <1>4 DEF WriteFails, vars, clientVars, pageVars, netVars
  <2>2. (Voiced => Voiced') /\ (Texted => Texted') /\ muted' = muted
    BY <2>1 DEF serverVars, Voiced, MarkerToCome, Speaks, Replies, Texted, EndToCome, Mine
  <2> QED BY <2>1, <2>2, ButtonKept
<1>5. CASE Lose
  <2>1. down' = <<>> /\ generating' = FALSE
    BY <1>5 DEF Lose, OnClose
  <2>2. DOMAIN down' = {}
    BY <2>1, NothingSaid
  <2> QED BY <2>1, <2>2 DEF ButtonInv, AsrInv, ShownInv
<1> QED BY <1>1, <1>2, <1>3, <1>4, <1>5 DEF Next

\* When nothing is under way the page has its send button and no bubble open, unless
\* an interrupt that found the session not busy threw the end of a spoken turn away,
\* for any numbers of turns, clicks and lost connections.
\* (app.js:43-125, 323-375; ws_session.cpp:175-182, 236-239)
THEOREM QuietTheorem == Spec => []QuietMeansIdle
<1>1. Init => TypeInv /\ TaskInv /\ BubbleInv /\ ButtonInv
  <2> SUFFICES ASSUME Init PROVE TypeInv /\ TaskInv /\ BubbleInv /\ ButtonInv
    OBVIOUS
  <2>1. DOMAIN down = {} /\ generating = FALSE
    BY NothingSaid DEF Init, ClientInit
  <2>2. ButtonInv
    BY <2>1 DEF ButtonInv, AsrInv, ShownInv
  <2> QED BY <2>2, InitHolds
<1>2. TypeInv /\ TaskInv /\ BubbleInv /\ ButtonInv /\ [Next]_vars
      => (TypeInv /\ TaskInv /\ BubbleInv /\ ButtonInv)'
  BY TypeStep, BubbleStep, ButtonStep
<1>3. TypeInv /\ BubbleInv /\ ButtonInv => QuietMeansIdle
  <2> SUFFICES ASSUME TypeInv, BubbleInv, ButtonInv,
                      up = <<>>, down = <<>>, tasks = <<>>, running = Idle, tts = <<>>
               PROVE  (~generating \/ muted) /\ (bubble = {} \/ carried)
    BY DEF QuietMeansIdle
  <2>1. DOMAIN down = {} /\ DOMAIN up = {} /\ DOMAIN tasks = {} /\ running.kind = "none"
    BY NothingSaid DEF Idle
  <2>2. ~Settled(0) /\ ~Closed(0)
    BY <2>1 DEF Settled, Closed
  <2>3. ~Voiced /\ ~Texted
    BY <2>1 DEF Voiced, MarkerToCome, Speaks, Replies, Texted, EndToCome
  <2>4. ~generating \/ muted
    BY <2>2, <2>3 DEF ButtonInv, ShownInv, TypeInv, PageTypes
  <2>5. bubble = {} \/ carried
    BY <2>1, <2>2 DEF BubbleInv, PageInv, WorksOn, TypeInv, PageTypes
  <2> QED BY <2>4, <2>5
<1> QED BY <1>1, <1>2, <1>3, PTL DEF Spec

-----------------------------------------------------------------------------
(* The microphone. *)

\* As long as no startMic broke off or met another one there is at most one
\* under way, none while the button is on, and the one stream there may be is
\* held by it or by the button.
MicInv ==
  /\ starts \in Seq({"asked", "captured"})
  /\ micOn \in BOOLEAN /\ held \in BOOLEAN /\ leaky \in BOOLEAN
  /\ ~leaky =>
       /\ Len(starts) <= 1
       /\ micOn => Len(starts) = 0
       /\ held <=> micOn \/ (Len(starts) = 1 /\ starts[1] = "captured")
       /\ captures = IF held THEN 1 ELSE 0

\* Without the only call there is none.
LEMMA WithoutOne ==
  ASSUME Len(starts) = 1
  PROVE  Without(1) = <<>>
BY DEF Without

\* Calls come and go, and stay calls.
LEMMA StartsType ==
  ASSUME starts \in Seq({"asked", "captured"}), NEW i \in DOMAIN starts
  PROVE  /\ Without(i) \in Seq({"asked", "captured"})
         /\ [starts EXCEPT ![i] = "captured"] \in Seq({"asked", "captured"})
         /\ Append(starts, "asked") \in Seq({"asked", "captured"})
<1>1. DOMAIN starts = 1..Len(starts) /\ Len(starts) \in Nat /\ i \in 1..Len(starts)
  BY LenProperties
<1>2. \A k \in 1..Len(starts) : starts[k] \in {"asked", "captured"}
  BY <1>1, ElementOfSeq
<1>3. SubSeq(starts, 1, i - 1) \in Seq({"asked", "captured"})
  BY <1>1, <1>2, SubSeqProperties
<1>4. SubSeq(starts, i + 1, Len(starts)) \in Seq({"asked", "captured"})
  BY <1>1, <1>2, SubSeqProperties
<1>5. Without(i) \in Seq({"asked", "captured"})
  BY <1>3, <1>4, ConcatProperties DEF Without
<1>6. [starts EXCEPT ![i] = "captured"] \in Seq({"asked", "captured"})
  BY <1>1, <1>2, ExceptSeq
<1>7. Append(starts, "asked") \in Seq({"asked", "captured"})
  BY AppendProperties
<1> QED BY <1>5, <1>6, <1>7

\* A step of the user that has to do with the microphone.
LEMMA MicStep ==
  ASSUME MicInv, \/ ClickMic \/ ClickMicOff \/ OnClose
                 \/ \E i \in DOMAIN starts : MicCaptured(i) \/ MicStarted(i)
  PROVE  MicInv'
<1> USE DEF MicInv
<1>0. Len(starts) \in Nat /\ DOMAIN starts = 1..Len(starts)
  BY LenProperties
<1>1. CASE ClickMic
  <2>1. /\ starts' \in Seq({"asked", "captured"})
        /\ Len(starts') = Len(starts) + 1 /\ starts'[Len(starts) + 1] = "asked"
    BY <1>1, AppendProperties DEF ClickMic
  <2>2. starts = <<>> => Len(starts) = 0
    BY EmptySeq
  <2>3. leaky' = (leaky \/ starts # <<>>) /\ ~micOn /\ UNCHANGED <<micOn, held, captures>>
    BY <1>1 DEF ClickMic
  <2>4. leaky' \in BOOLEAN /\ (~leaky' => ~leaky /\ starts = <<>>)
    BY <2>3
  <2>5. ~leaky' => Len(starts) = 0 /\ ~held /\ captures = 0
    BY <2>2, <2>3, <2>4
  <2>6. ~leaky' => Len(starts') = 1 /\ starts'[1] = "asked"
    BY <2>1, <2>5
  <2> QED BY <2>1, <2>3, <2>4, <2>5, <2>6
<1>2. ASSUME ClickMicOff \/ OnClose PROVE MicInv'
  <2>1. CASE micOn /\ StopMic
    <3>1. ~leaky => Len(starts) = 0 /\ held /\ captures = 1
      BY <2>1
    <3>2. /\ micOn' = FALSE /\ held' = FALSE /\ starts' = starts /\ leaky' = leaky
          /\ held => captures' = captures - 1
      BY <2>1 DEF StopMic
    <3>3. ~leaky => captures' = 0 /\ Len(starts') # 1 /\ Len(starts') <= 1
      BY <3>1, <3>2
    <3> QED BY <3>1, <3>2, <3>3
  <2>2. CASE UNCHANGED micVars
    BY <2>2 DEF micVars
  <2> QED BY <1>2, <2>1, <2>2 DEF ClickMicOff, OnClose
<1>3. ASSUME NEW i \in DOMAIN starts, MicCaptured(i) \/ MicStarted(i)
      PROVE  MicInv'
  <2>1. starts' \in Seq({"asked", "captured"})
    BY <1>3, StartsType DEF MicCaptured, MicStarted
  <2>2. ~leaky => Len(starts) = 1 /\ i = 1 /\ ~micOn
    BY <1>0, <1>3
  <2>3. ~leaky => Len(Without(i)) = 0
    BY <2>2, WithoutOne, EmptySeq
  <2>4. CASE MicCaptured(i)
    <3>1. CASE starts' = [starts EXCEPT ![i] = "captured"] /\ held' = TRUE
               /\ captures' = captures + 1
      <4>1. Len(starts') = Len(starts) /\ starts'[i] = "captured"
        BY <1>0, <3>1, ExceptSeq
      <4>2. starts[i] = "asked" /\ UNCHANGED <<micOn, leaky>>
        BY <2>4 DEF MicCaptured
      <4> QED BY <2>1, <2>2, <3>1, <4>1, <4>2
    <3>2. CASE starts' = Without(i) /\ UNCHANGED <<held, captures>>
      <4>1. starts[i] = "asked" /\ UNCHANGED <<micOn, leaky>>
        BY <2>4 DEF MicCaptured
      <4> QED BY <2>1, <2>2, <2>3, <3>2, <4>1
    <3> QED BY <2>4, <3>1, <3>2 DEF MicCaptured
  <2>5. CASE MicStarted(i)
    <3>1. starts[i] = "captured" /\ starts' = Without(i) /\ UNCHANGED <<held, captures>>
      BY <2>5 DEF MicStarted
    <3>2. (micOn' = TRUE /\ leaky' = leaky) \/ (leaky' = TRUE /\ micOn' = micOn)
      BY <2>5 DEF MicStarted
    <3>3. ~leaky => held /\ captures = 1
      BY <2>2, <3>1
    <3>4. ~leaky => Len(starts') = 0 /\ Len(starts') <= 1 /\ Len(starts') # 1
      BY <2>2, <2>3, <3>1
    <3> QED BY <2>1, <3>1, <3>2, <3>3, <3>4
  <2> QED BY <1>3, <2>4, <2>5
<1> QED BY <1>1, <1>2, <1>3

LEMMA MicInit ==
  ASSUME Init
  PROVE  MicInv
<1>1. starts \in Seq({"asked", "captured"}) /\ Len(starts) = 0
  BY EmptySeq DEF Init, ClientInit
<1>2. micOn = FALSE /\ held = FALSE /\ leaky = FALSE /\ captures = 0
  BY DEF Init, ClientInit
<1>3. Len(starts) <= 1 /\ Len(starts) # 1
  BY <1>1
<1> QED BY <1>1, <1>2, <1>3 DEF MicInv

\* A step is one of the microphone, or leaves it alone.
LEMMA MicCases ==
  ASSUME [Next]_vars
  PROVE  \/ UNCHANGED micVars
         \/ ClickMic \/ ClickMicOff \/ OnClose
         \/ \E i \in DOMAIN starts : MicCaptured(i) \/ MicStarted(i)
<1>1. CASE User
  BY <1>1 DEF User, SendChat, ClickStop, ClickReset, ChangeRole, OnOpen
<1>2. CASE Server
  BY <1>2 DEF Server, HandleText, SpeechStart, Utterance, Pop, Delta, Done,
              End, Switched, Speak, clientVars
<1>3. CASE Deliver \/ WriteFails \/ Lose
  BY <1>3 DEF Deliver, WriteFails, Lose
<1>4. CASE UNCHANGED vars
  BY <1>4 DEF vars, clientVars
<1> QED BY <1>1, <1>2, <1>3, <1>4 DEF Next

LEMMA MicNext ==
  ASSUME MicInv, [Next]_vars
  PROVE  MicInv'
<1>1. CASE UNCHANGED micVars
  BY <1>1 DEF micVars, MicInv
<1> QED BY <1>1, MicCases, MicStep

\* With the button off and no startMic under way the microphone is released,
\* unless two startMic overlapped or one broke off.
THEOREM MicTheorem == Spec => []MicReleased
<1>1. MicInv => MicReleased
  BY EmptySeq DEF MicInv, MicReleased
<1> QED BY <1>1, MicInit, MicNext, PTL DEF Spec

-----------------------------------------------------------------------------
(* The streams. *)

\* Each stream that lives was captured by a call that asked for it, so there are no
\* more of them than calls that ask no more.
Asked == {i \in DOMAIN starts : starts[i] = "asked"}
StreamInv ==
  /\ started \in 0..MaxStarts /\ captures \in Nat
  /\ held => captures > 0
  /\ captures + Cardinality(Asked) <= started

LEMMA AskedIsFinite ==
  ASSUME NEW s \in Seq({"asked", "captured"})
  PROVE  /\ IsFiniteSet({i \in DOMAIN s : s[i] = "asked"})
         /\ Cardinality({i \in DOMAIN s : s[i] = "asked"}) \in Nat
<1>1. DOMAIN s = 1..Len(s) /\ Len(s) \in Nat
  BY LenProperties
<1>2. IsFiniteSet(1..Len(s))
  BY <1>1, FS_Interval
<1>3. {i \in DOMAIN s : s[i] = "asked"} \in SUBSET (1..Len(s))
  BY <1>1
<1> QED BY <1>2, <1>3, FS_Subset, FS_CardinalityType

\* A call that is over asks no more, and the others go on.
LEMMA AskedWithout ==
  ASSUME MicInv, MicInv', NEW i \in DOMAIN starts, starts' = Without(i)
  PROVE  Cardinality(Asked') <= Cardinality(Asked)
<1> DEFINE before == SubSeq(starts, 1, i - 1)
           after == SubSeq(starts, i + 1, Len(starts))
           f == [k \in Asked' |-> IF k < i THEN k ELSE k + 1]
<1>0. /\ DOMAIN starts = 1..Len(starts) /\ Len(starts) \in Nat /\ i \in 1..Len(starts)
      /\ \A k \in 1..Len(starts) : starts[k] \in {"asked", "captured"}
      /\ DOMAIN starts' = 1..Len(starts') /\ Len(starts') \in Nat
  BY LenProperties, ElementOfSeq DEF MicInv
<1>1. /\ before \in Seq({"asked", "captured"}) /\ Len(before) = i - 1
      /\ \A k \in 1..(i - 1) : before[k] = starts[k]
  BY <1>0, SubSeqProperties
<1>2. /\ after \in Seq({"asked", "captured"}) /\ Len(after) = Len(starts) - i
      /\ \A k \in 1..(Len(starts) - i) : after[k] = starts[k + i]
  <2>1. /\ after \in Seq({"asked", "captured"})
        /\ Len(after) = IF i + 1 <= Len(starts) THEN Len(starts) - (i + 1) + 1 ELSE 0
        /\ \A k \in 1..(Len(starts) - (i + 1) + 1) : after[k] = starts[(i + 1) + k - 1]
    BY <1>0, SubSeqProperties
  <2> QED BY <1>0, <2>1
<1>3. starts' = before \o after
  BY DEF Without
<1> HIDE DEF before, after
<1>4. /\ Len(starts') = Len(starts) - 1
      /\ \A k \in 1..(Len(starts) - 1) :
           starts'[k] = IF k < i THEN starts[k] ELSE starts[k + 1]
  <2>1. /\ Len(starts') = (i - 1) + (Len(starts) - i)
        /\ \A k \in 1..((i - 1) + (Len(starts) - i)) :
             starts'[k] = IF k <= i - 1 THEN before[k] ELSE after[k - (i - 1)]
    BY <1>1, <1>2, <1>3, ConcatProperties
  <2>2. ASSUME NEW k \in 1..(Len(starts) - 1)
        PROVE  starts'[k] = IF k < i THEN starts[k] ELSE starts[k + 1]
    <3>1. CASE k < i
      BY <1>0, <1>1, <2>1, <3>1
    <3>2. CASE k >= i
      <4>1. k - (i - 1) \in 1..(Len(starts) - i) /\ (k - (i - 1)) + i = k + 1
        BY <1>0, <3>2
      <4>2. after[k - (i - 1)] = starts[(k - (i - 1)) + i]
        BY <1>2, <4>1
      <4>3. starts'[k] = after[k - (i - 1)]
        BY <1>0, <2>1, <3>2
      <4> QED BY <3>2, <4>1, <4>2, <4>3
    <3> QED BY <1>0, <3>1, <3>2
  <2> QED BY <1>0, <2>1, <2>2
<1>5. \A k \in Asked' : /\ k \in 1..(Len(starts) - 1)
                        /\ f[k] = (IF k < i THEN k ELSE k + 1) /\ f[k] \in Asked
  BY <1>0, <1>4 DEF Asked
<1>6. f \in [Asked' -> Asked]
  BY <1>5
<1>7. \A a, b \in Asked' : f[a] = f[b] => a = b
  BY <1>0, <1>5
<1>8. f \in Injection(Asked', Asked)
  BY <1>6, <1>7 DEF Injection, IsInjective
<1>9. IsFiniteSet(Asked)
  BY AskedIsFinite DEF MicInv, Asked
<1> QED BY <1>8, <1>9, FS_Injection

LEMMA StreamStep ==
  ASSUME MicInv, MicInv', StreamInv,
         \/ ClickMic \/ ClickMicOff \/ OnClose
         \/ \E i \in DOMAIN starts : MicCaptured(i) \/ MicStarted(i)
  PROVE  StreamInv'
<1>0. /\ DOMAIN starts = 1..Len(starts) /\ Len(starts) \in Nat
      /\ starts \in Seq({"asked", "captured"})
  BY LenProperties DEF MicInv
<1>1. /\ IsFiniteSet(Asked) /\ Cardinality(Asked) \in Nat
      /\ Cardinality(Asked') \in Nat /\ started \in Nat /\ captures \in Nat /\ MaxStarts \in Nat
  <2>1. IsFiniteSet(Asked) /\ Cardinality(Asked) \in Nat /\ Cardinality(Asked') \in Nat
    BY AskedIsFinite DEF MicInv, Asked
  <2> QED BY <2>1, WebClientAssumption DEF StreamInv
<1>2. CASE ClickMic
  <2>1. /\ starts' = Append(starts, "asked") /\ started' = started + 1
        /\ started < MaxStarts /\ UNCHANGED <<held, captures>>
    BY <1>2 DEF ClickMic, More
  <2>2. /\ \A k \in DOMAIN starts : k \in DOMAIN starts' /\ starts'[k] = starts[k]
        /\ \A k \in DOMAIN starts' : k \in DOMAIN starts \/ k = Len(starts) + 1
        /\ starts'[Len(starts) + 1] = "asked" /\ Len(starts) + 1 \in DOMAIN starts'
    BY <1>0, <2>1, Appended
  <2>3. Asked' = Asked \union {Len(starts) + 1} /\ Len(starts) + 1 \notin Asked
    BY <1>0, <2>2 DEF Asked
  <2>4. Cardinality(Asked') = Cardinality(Asked) + 1
    BY <1>1, <2>3, FS_AddElement
  <2> QED BY <1>1, <2>1, <2>4 DEF StreamInv
<1>3. CASE ClickMicOff \/ OnClose
  <2>1. UNCHANGED <<starts, started>> /\ Asked' = Asked
    BY <1>3 DEF ClickMicOff, OnClose, StopMic, micVars, Asked
  <2>2. \/ UNCHANGED <<held, captures>>
        \/ /\ held' = FALSE
           /\ captures' = IF micOn /\ held THEN captures - 1 ELSE captures
    BY <1>3 DEF ClickMicOff, OnClose, StopMic, micVars
  <2> QED BY <1>1, <2>1, <2>2 DEF StreamInv
<1>4. ASSUME NEW i \in DOMAIN starts, MicCaptured(i) \/ MicStarted(i)
      PROVE  StreamInv'
  <2>1. CASE starts' = Without(i) /\ UNCHANGED <<held, captures, started>>
    <3>1. Cardinality(Asked') <= Cardinality(Asked)
      BY <2>1, AskedWithout
    <3> QED BY <1>1, <2>1, <3>1 DEF StreamInv
  <2>2. CASE /\ starts' = [starts EXCEPT ![i] = "captured"] /\ starts[i] = "asked"
             /\ held' = TRUE /\ captures' = captures + 1 /\ started' = started
    <3>1. /\ Len(starts') = Len(starts)
          /\ \A j \in 1..Len(starts) : starts'[j] = IF j = i THEN "captured" ELSE starts[j]
      BY <1>0, <2>2, ExceptSeq
    <3>2. DOMAIN starts' = DOMAIN starts
      BY <1>0, <3>1, LenProperties DEF MicInv
    <3>3. Asked' = Asked \ {i} /\ i \in Asked
      BY <1>0, <2>2, <3>1, <3>2 DEF Asked
    <3>4. Cardinality(Asked') = Cardinality(Asked) - 1
      BY <1>1, <3>3, FS_RemoveElement
    <3> QED BY <1>1, <2>2, <3>4 DEF StreamInv
  <2> QED BY <1>4, <2>1, <2>2 DEF MicCaptured, MicStarted
<1> QED BY <1>2, <1>3, <1>4

\* Every variable of the page, the wire and the session keeps its type, for any bounds;
\* no more streams live than calls of startMic were made.
THEOREM TypeCorrect == Spec => []TypeOK
<1>1. Init => MicInv /\ StreamInv /\ TypeInv /\ TaskInv
  <2> SUFFICES ASSUME Init PROVE MicInv /\ StreamInv /\ TypeInv /\ TaskInv
    OBVIOUS
  <2>1. MaxStarts \in Nat
    BY WebClientAssumption
  <2>2. Asked = {} /\ held = FALSE /\ captures = 0 /\ started = 0
    BY NothingSaid DEF Init, ClientInit, Asked
  <2>3. StreamInv
    BY <2>1, <2>2, FS_EmptySet DEF StreamInv
  <2> QED BY <2>3, MicInit, InitHolds
<1>2. MicInv /\ StreamInv /\ TypeInv /\ TaskInv /\ [Next]_vars
      => (MicInv /\ StreamInv /\ TypeInv /\ TaskInv)'
  <2> SUFFICES ASSUME MicInv, StreamInv, TypeInv, TaskInv, [Next]_vars
               PROVE  (MicInv /\ StreamInv /\ TypeInv /\ TaskInv)'
    OBVIOUS
  <2>1. MicInv'
    BY MicNext
  <2>2. ASSUME UNCHANGED micVars PROVE StreamInv'
    BY <2>2 DEF micVars, StreamInv, Asked
  <2>3. ASSUME \/ ClickMic \/ ClickMicOff \/ OnClose
               \/ \E i \in DOMAIN starts : MicCaptured(i) \/ MicStarted(i)
        PROVE  StreamInv'
    BY <2>1, <2>3, StreamStep
  <2>4. StreamInv'
    BY <2>2, <2>3, MicCases
  <2> QED BY <2>1, <2>4, TypeStep
<1>3. MicInv /\ StreamInv /\ TypeInv => TypeOK
  <2> SUFFICES ASSUME MicInv, StreamInv, TypeInv PROVE TypeOK
    OBVIOUS
  <2>1. captures \in 0..MaxStarts
    <3>1. Cardinality(Asked) \in Nat
      BY AskedIsFinite DEF MicInv, Asked
    <3> QED BY <3>1, WebClientAssumption DEF StreamInv
  <2>2. turns \in Seq([conn : 0..MaxDrops, spoken : BOOLEAN, tool : BOOLEAN])
    BY DEF TypeInv, ServerTypes, Turns
  <2> QED BY <2>1, <2>2 DEF TypeOK, MicInv, TypeInv, PageTypes, ServerTypes
<1> QED BY <1>1, <1>2, <1>3, PTL DEF Spec
=============================================================================

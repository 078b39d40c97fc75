------------------------------ MODULE ProgramProofs ------------------------------
(***************************************************************************)
(* What holds of the program for any numbers: who may still use an object of    *)
(* main.cpp when it is gone, for any connections, tasks, callbacks, lines and   *)
(* interrupts; which role the program starts with, for any files; and which     *)
(* sentences a reply is spoken in and how each is spoken, for any reply and     *)
(* any deltas.                                                              *)
(***************************************************************************)
EXTENDS Program, Config, SentenceSplitter, SequenceTheorems, WellFoundedInduction, TLAPS

-----------------------------------------------------------------------------
Places == {"off", "wait", "work", "callback", "exited"}

Types ==
  /\ at \in [Workers -> Places]
  /\ target \in [Threads -> Workers \union {Nothing}]
  /\ on = [t \in Threads |-> on[t]]
  /\ stopping \subseteq Workers
  /\ voice \in BOOLEAN /\ voiced \in BOOLEAN /\ gLlm \in BOOLEAN

\* Where the main thread is tells what exists.
MainInv ==
  /\ pc \in {"recognise", "session", "publish", "prompt", "clear", "generate", "retract"}
       => "llm" \in alive
  /\ gLlm => pc \in {"prompt", "clear", "generate", "retract"}
  /\ pc \in {"main", "chat", "speech"} => ~voiced
  /\ pc \in {"speech", "store"} => "chat" \in alive
  /\ pc = "store" /\ voiced => {"speech", "tts_worker"} \subseteq alive
  /\ pc \in {"listen", "run"} => "ioc" \in alive
  /\ "ioc" \in alive => /\ pc \in {"listen", "run", "~ioc"}
                        /\ "store" \in alive /\ "chat" \in alive
                        /\ voiced => {"speech", "tts_worker"} \subseteq alive
  /\ pc \in {"main", "chat", "speech", "store"} => \A w \in Workers : at[w] # "callback"

\* Whoever is at work is at work with what is there, or was inside when it was
\* taken away; a callback that a session makes later is one of a session inside.
InsideInv ==
  /\ stray \subseteq inside
  /\ handler = "loaded" => gLlm \/ "handler" \in inside
  /\ "ioc" \notin alive => \A w \in Workers : at[w] = "callback" => on[w] \in inside
  /\ target["main"] # Nothing => pc = "run"
  /\ \A w \in Workers : target[w] # Nothing => at[w] = "callback"
  /\ \A t \in Threads : target[t] \in {"tts", "audio"} => voiced

Inv == Types /\ MainInv /\ InsideInv

LEMMA MainStep ==
  ASSUME Inv, Main
  PROVE  Inv'
<1>1. /\ pc = "main" /\ pc' \in {"read", "load", "chat", "leave"}
      /\ voice' \in {voice, TRUE}
      /\ UNCHANGED <<alive, inside, stray, gLlm, handler, voiced, at, on, target, stopping>>
  BY DEF Main, Go, serverVars
<1>2. Types'
  BY <1>1 DEF Inv, Types
<1>3. MainInv'
  BY <1>1 DEF Inv, MainInv
<1>4. InsideInv'
  BY <1>1 DEF Inv, InsideInv
<1> QED BY <1>2, <1>3, <1>4 DEF Inv

LEMMA TerminalStep ==
  ASSUME Inv, TerminalMain \/ TerminalHandler, UNCHANGED serverVars
  PROVE  Inv'
<1> USE DEF Inv, Types, MainInv, InsideInv, Go, ReturnFailed, Unheard, terminalVars,
            serverVars
<1>1. CASE Attempt
  <2>1. /\ pc \in {"read", "load", "recognise", "session", "synthesise", "write"}
        /\ pc \in {"read", "recognise", "synthesise", "write"} => voice
    BY <1>1 DEF Attempt, After
  <2>2. CASE Go(After[pc]) /\ alive' = alive \union (IF pc = "load" THEN {"llm"} ELSE {})
    <3>1. /\ pc = "read" => pc' = "load"
          /\ pc = "load" => pc' \in {"recognise", "session"}
          /\ pc = "recognise" => pc' = "session"
          /\ pc = "session" => pc' = "publish"
          /\ pc = "synthesise" => pc' = "write"
          /\ pc = "write" => pc' = "unwind"
      BY <2>1, <2>2 DEF After
    <3> HIDE DEF Go
    <3> QED BY <1>1, <2>1, <2>2, <3>1 DEF Attempt
  <2>3. CASE ReturnFailed("unwind")
             /\ alive' \in IF pc = "load" /\ voice THEN {{}, {"llm"}} ELSE {alive}
    BY <1>1, <2>1, <2>3 DEF Attempt
  <2> QED BY <1>1, <2>2, <2>3 DEF Attempt
<1>2. CASE Publish
  BY <1>2 DEF Publish
<1>3. CASE ReadLine
  <2>1. pc = "prompt" /\ pc' \in {"prompt", "clear", "retract"}
    BY <1>3 DEF ReadLine
  <2> QED BY <1>3, <2>1 DEF ReadLine
<1>4. CASE ChatClear
  BY <1>4 DEF ChatClear, AfterChat
<1>5. CASE Generate
  BY <1>5 DEF Generate, AfterChat
<1>6. CASE Retract
  <2>1. pc = "retract" /\ pc' \in {"unwind", "synthesise"} /\ gLlm' = FALSE
    BY <1>6 DEF Retract
  <2>2. inside \subseteq inside' /\ (handler = "loaded" => "handler" \in inside')
    BY <1>6 DEF Retract
  <2> QED BY <1>6, <2>1, <2>2 DEF Retract
<1>7. CASE Unwind
  BY <1>7 DEF Unwind
<1>8. CASE Interrupt
  BY <1>8 DEF Interrupt
<1>9. CASE LoadAddress
  BY <1>9 DEF LoadAddress, processVars
<1>10. CASE StopModel
  BY <1>10 DEF StopModel, Use
<1> QED BY <1>1, <1>2, <1>3, <1>4, <1>5, <1>6, <1>7, <1>8, <1>9, <1>10
        DEF TerminalMain, TerminalHandler

\* Steps of the server's main thread.
LEMMA ServerMainStep ==
  ASSUME Inv, ServerStart \/ ServerLoop \/ Signal \/ ServerEnd, UNCHANGED terminalVars
  PROVE  Inv'
<1> USE DEF Inv, Types, MainInv, InsideInv, Places, Go, ReturnFailed, terminalVars,
            serverVars, Workers, Threads
<1>1. CASE CreateChat
  <2>1. at' \in [Workers -> Places] /\ \A w \in Workers : at'[w] \in {at[w], "wait"}
    BY <1>1 DEF CreateChat, Start
  <2> QED BY <1>1, <2>1 DEF CreateChat
<1>2. CASE CreateSpeech
  <2>1. at' \in [Workers -> Places] /\ \A w \in Workers : at'[w] \in {at[w], "wait"}
    BY <1>2 DEF CreateSpeech, Start
  <2>2. /\ pc = "speech" /\ pc' = "store"
        /\ \/ voiced' = TRUE /\ alive' = alive \union {"speech", "tts_worker"}
           \/ UNCHANGED <<voiced, alive>>
        /\ UNCHANGED <<inside, stray, on, target, stopping, voice, gLlm, handler>>
    BY <1>2 DEF CreateSpeech
  <2>3. "ioc" \notin alive /\ "ioc" \notin alive' /\ voiced' \in BOOLEAN
    BY <2>2
  <2>4. Types'
    BY <2>1, <2>2, <2>3
  <2>5. MainInv'
    <3>1. \A w \in Workers : at'[w] # "callback"
      BY <2>1, <2>2
    <3> QED BY <2>2, <2>3, <3>1
  <2>6. InsideInv'
    BY <2>1, <2>2, <2>3
  <2> QED BY <2>4, <2>5, <2>6
<1>3. CASE OpenStore
  BY <1>3 DEF OpenStore
<1>4. CASE Listen
  BY <1>4 DEF Listen
<1>5. ASSUME NEW c \in Conns, Accept(c) \/ Request(c) \/ Disconnect(c)
      PROVE  Inv'
  <2>1. UNCHANGED <<processVars, voiced, at, on, target, stopping>>
    BY <1>5 DEF Accept, Request, Disconnect
  <2> QED BY <2>1 DEF processVars
<1>6. ASSUME NEW c \in Conns, Message(c)
      PROVE  Inv'
  <2>1. PICK w \in {"llm", "audio"} : (w = "audio" => voiced)
                                      /\ target' = [target EXCEPT !["main"] = w]
    BY <1>6 DEF Message
  <2>2. /\ pc = "run" /\ on' = [on EXCEPT !["main"] = c]
        /\ UNCHANGED <<processVars, voiced, at, stopping>>
    BY <1>6 DEF Message, AtLoop
  <2>3. Types' /\ \A u \in Workers : on'[u] = on[u] /\ target'[u] = target[u]
    BY <2>1, <2>2 DEF processVars
  <2> QED BY <2>1, <2>2, <2>3 DEF processVars
<1>7. CASE Signal
  BY <1>7 DEF Signal
<1>8. CASE StopLoop
  BY <1>8 DEF StopLoop, AtLoop
<1>9. CASE DestroyLoop
  <2>1. /\ inside \subseteq inside'
        /\ \A w \in Workers : at[w] = "callback" => on[w] \in inside'
    BY <1>9 DEF DestroyLoop
  <2> QED BY <1>9, <2>1 DEF DestroyLoop
<1>10. CASE DestroyStore \/ StopSpeech \/ JoinTts \/ JoinAudio \/ StopChat \/ JoinChat
  BY <1>10 DEF DestroyStore, StopSpeech, JoinTts, JoinAudio, StopChat, JoinChat
<1> QED BY <1>1, <1>2, <1>3, <1>4, <1>5, <1>6, <1>7, <1>8, <1>9, <1>10
        DEF ServerStart, ServerLoop, ServerEnd

\* Threads that put something into a queue.
LEMMA WaiterStep ==
  ASSUME Inv, NEW t \in Threads, Waiter(t), UNCHANGED terminalVars
  PROVE  Inv'
<1> USE DEF Inv, Types, MainInv, InsideInv, terminalVars
<1>1. target[t] \in Workers /\ target' = [target EXCEPT ![t] = Nothing]
      /\ Use(on[t], Needed(target[t]))
      /\ UNCHANGED <<pc, alive, inside, voiced, at, on>>
  <2>1. CASE Push(t)
    BY <2>1 DEF Push
  <2>2. CASE GiveUp(t)
    BY <2>2 DEF GiveUp
  <2> QED BY <2>1, <2>2 DEF Waiter
<1>2. "ioc" \in alive => Needed(target[t]) \subseteq alive
  BY <1>1 DEF Needed, Service, Workers, Threads, Nothing
<1>3. "ioc" \notin alive => on[t] \in inside
  BY <1>1 DEF Workers, Threads, Nothing
<1>4. stray' \subseteq inside
  BY <1>1, <1>2, <1>3 DEF Use
<1>5. UNCHANGED <<inside, handler, gLlm, voice, stopping>>
  BY DEF Waiter, Push, GiveUp
<1>6. Types' /\ \A u \in Threads : target'[u] \in {target[u], Nothing}
  BY <1>1, <1>5 DEF Workers, Threads
<1>7. MainInv'
  BY <1>1, <1>5
<1>8. InsideInv'
  BY <1>1, <1>4, <1>5, <1>6 DEF Workers, Threads, Nothing
<1> QED BY <1>6, <1>7, <1>8

\* The workers and the callbacks they make.
LEMMA WorkerStep ==
  ASSUME Inv, NEW w \in Workers, Worker(w), UNCHANGED terminalVars
  PROVE  Inv'
<1> USE DEF Inv, Types, MainInv, InsideInv, Places, terminalVars
<1>1. CASE Take(w) \/ Exit(w) \/ Finish(w)
  <2>1. \E place \in {"wait", "work", "exited"} : at' = [at EXCEPT ![w] = place]
    BY <1>1 DEF Take, Exit, Finish
  <2>2. at[w] # "callback" /\ UNCHANGED <<processVars, voiced, target, stopping>>
    BY <1>1 DEF Take, Exit, Finish
  <2>3. \E c : on' = [on EXCEPT ![w] = c]
    <3>1. CASE Take(w)
      BY <3>1 DEF Take
    <3>2. CASE Exit(w)
      <4>1. on' = [on EXCEPT ![w] = on[w]]
        BY <3>2 DEF Exit, Threads
      <4> QED BY <4>1
    <3>3. CASE Finish(w)
      BY <3>3 DEF Finish
    <3> QED BY <1>1, <3>1, <3>2, <3>3
  <2>4. /\ Types'
        /\ \A u \in Workers : at'[u] = "callback" => at[u] = "callback" /\ on'[u] = on[u]
        /\ \A u \in Workers : at[u] = "callback" => at'[u] = "callback"
    BY <2>1, <2>2, <2>3 DEF Threads
  <2> QED BY <2>2, <2>4 DEF processVars
<1>2. CASE Call(w)
  <2>1. "ioc" \notin alive => on[w] \in inside
    BY <1>2 DEF Call, Held
  <2>2. pc \notin {"main", "chat", "speech", "store"}
    BY <1>2 DEF Call, Held
  <2>3. at' = [at EXCEPT ![w] = "callback"]
        /\ UNCHANGED <<processVars, voiced, on, target, stopping>>
    BY <1>2 DEF Call
  <2>4. Types' /\ MainInv'
    BY <2>2, <2>3 DEF processVars
  <2>5. InsideInv'
    BY <2>1, <2>3 DEF processVars, Threads
  <2> QED BY <2>4, <2>5
<1>3. CASE CallbackUses(w)
  <2>1. "ioc" \in alive \/ on[w] \in inside
    BY <1>3 DEF CallbackUses
  <2>2. stray' \subseteq inside
    BY <1>3, <2>1 DEF CallbackUses, Use
  <2> QED BY <1>3, <2>2 DEF CallbackUses, serverVars
<1>4. CASE CallbackSubmits(w)
  <2>1. \/ voiced /\ target' = [target EXCEPT ![w] = "tts"]
        \/ target' = [target EXCEPT ![w] = "llm"]
    BY <1>4 DEF CallbackSubmits
  <2> QED BY <1>4, <2>1 DEF CallbackSubmits, processVars, Workers, Threads
<1>5. CASE Return(w)
  <2>1. \/ {"ioc"} \union (IF voiced THEN {"speech"} ELSE {}) \subseteq alive
        \/ on[w] \in inside
    BY <1>5 DEF Return
  <2>2. stray' \subseteq inside
    BY <1>5, <2>1 DEF Return, Use
  <2> QED BY <1>5, <2>2 DEF Return, Workers, Threads, Nothing
<1>6. CASE Waiter(w)
  BY <1>6, WaiterStep DEF Threads
<1> QED BY <1>1, <1>2, <1>3, <1>4, <1>5, <1>6 DEF Worker

\* Whatever the numbers, an object that is gone is used on behalf of nobody but
\* the sessions a callback held when the loop was destroyed, and of a handler
\* that had loaded the address of the model.
THEOREM StrayTheorem == Spec => []StrayOnlyFromInside
<1>1. Init => Inv
  <2> SUFFICES ASSUME Init PROVE Inv
    OBVIOUS
  <2>1. /\ pc = "main" /\ alive = {} /\ inside = {} /\ stray = {} /\ handler = "none"
        /\ voice = FALSE /\ voiced = FALSE /\ gLlm = FALSE /\ stopping = {}
        /\ at = [w \in Workers |-> "off"] /\ target = [t \in Threads |-> Nothing]
        /\ on = [t \in Threads |-> Nothing]
    BY DEF Init, ProcessInit, TerminalInit, ServerInit
  <2>2. Types /\ MainInv
    BY <2>1 DEF Types, MainInv, Places
  <2>3. InsideInv
    BY <2>1 DEF InsideInv, Workers, Threads, Nothing
  <2> QED BY <2>2, <2>3 DEF Inv
<1>2. Inv /\ [Next]_vars => Inv'
  <2> SUFFICES ASSUME Inv, [Next]_vars PROVE Inv'
    OBVIOUS
  <2>1. CASE Main
    BY <2>1, MainStep DEF Main
  <2>2. CASE (Kill \/ Leave) /\ UNCHANGED <<terminalVars, serverVars>>
    BY <2>2 DEF Kill, Leave, Inv, Types, MainInv, InsideInv, terminalVars, serverVars
  <2>3. CASE TerminalThreads
    BY <2>3, TerminalStep DEF TerminalThreads
  <2>4. CASE ServerThreads /\ UNCHANGED terminalVars
    BY <2>4, ServerMainStep, WaiterStep, WorkerStep DEF ServerThreads, Threads
  <2>5. CASE UNCHANGED vars
    BY <2>5 DEF vars, processVars, terminalVars, serverVars, Inv, Types, MainInv, InsideInv
  <2> QED BY <2>1, <2>2, <2>3, <2>4, <2>5 DEF Next, Ended
<1>3. Inv => StrayOnlyFromInside
  BY DEF Inv, InsideInv, StrayOnlyFromInside
<1> QED BY <1>1, <1>2, <1>3, PTL DEF Spec

-----------------------------------------------------------------------------
(* Sets of numbers; induction over the numbers is taken from their order. *)

\* The order of the places, as a relation.
Less == {p \in Nat \X Nat : p[1] < p[2]}

\* A set of numbers has a first one.
LEMMA FirstPlace ==
  ASSUME NEW S, S \subseteq Nat, S # {}
  PROVE  \E k \in S : \A n \in S : k <= n
<1>1. IsWellFoundedOn(Less, Nat)
  BY NatLessThanWellFounded, Zenon DEF OpToRel, Less
<1>2. PICK k \in S : \A n \in S : ~ (<<n, k>> \in Less)
  <2> HIDE DEF Less
  <2> QED BY <1>1, WFMin, Zenon
<1>3. \A n \in S : k <= n
  <2> SUFFICES ASSUME NEW n \in S, n < k
               PROVE  FALSE
    BY <1>2, SMT
  <2>1. n \in Nat /\ k \in Nat
    BY <1>2
  <2>2. <<n, k>> \in Less
    BY <2>1 DEF Less
  <2> QED BY <1>2, <2>2, Zenon
<1> QED BY <1>3

\* Induction: a set of numbers that has a number when it has all smaller ones has
\* them all.
LEMMA AllNumbers ==
  ASSUME NEW S, \A k \in Nat : (\A n \in 0..k - 1 : n \in S) => k \in S
  PROVE  Nat \subseteq S
<1> SUFFICES ASSUME ~ (Nat \subseteq S)
             PROVE  FALSE
  OBVIOUS
<1> DEFINE T == Nat \ S
<1>1. PICK k \in T : \A n \in T : k <= n
  <2> T \subseteq Nat /\ T # {}
    OBVIOUS
  <2> HIDE DEF T
  <2> QED BY FirstPlace
<1>2. \A n \in 0..k - 1 : n \in S
  BY <1>1
<1> QED BY <1>1, <1>2

\* FiniteSetsExt!Min.
LEMMA MinIs ==
  ASSUME NEW S, S \subseteq Int, NEW k \in S, \A n \in S : k <= n
  PROVE  Min(S) = k
<1>1. \A n \in S : (\A y \in S : n <= y) => n = k
  OBVIOUS
<1> QED BY <1>1 DEF Min

LEMMA FirstOf ==
  ASSUME NEW S, S \subseteq Nat, S # {}
  PROVE  Min(S) \in S /\ \A n \in S : Min(S) <= n
<1>1. PICK k \in S : \A n \in S : k <= n
  BY FirstPlace
<1>2. S \subseteq Int
  OBVIOUS
<1>3. Min(S) = k
  BY <1>1, <1>2, MinIs
<1> QED BY <1>1, <1>3

-----------------------------------------------------------------------------
(* What the program reads before it starts any of this: the configuration. *)

\* What LoadFile makes of a file that is to be loaded: its own roles, or
\* without one that will do the default role, which is then the active one.
LEMMA Loaded ==
  ASSUME NEW file \in Files,
         LoadFile(file).status = "loaded"
  PROVE  LET config == LoadFile(file)
             own == OwnRoles(file)
         IN  /\ file \in Texts
             /\ DOMAIN own # {} => config.roles = own /\ config.active = file.active
             /\ DOMAIN own = {} =>
                  /\ config.roles = <<[id |-> "echo", prompt |-> file.prompt]>>
                  /\ config.active = "echo"
<1>1. file \in Texts
  <2> SUFFICES ASSUME NEW status \in {"absent", "garbled", "misshapen"},
                      file = Bad(status)
               PROVE  FALSE
    BY DEF Files
  <2>1. file.status = status /\ DOMAIN file = {"status", "model", "prompt", "active", "roles"}
    BY DEF Bad
  <2>2. CASE status \in {"absent", "garbled"}
    <3>1. LoadFile(file) = [file EXCEPT !.status = "failed"]
      BY <2>1, <2>2, Zenon DEF LoadFile
    <3> QED BY <2>1, <3>1
  <2>3. CASE status = "misshapen"
    <3>1. file.status \notin {"absent", "garbled", "json"}
      BY <2>1, <2>3
    <3>2. LoadFile(file) = [file EXCEPT !.status = "throws"]
      BY <2>1, <2>3, <3>1, Zenon DEF LoadFile
    <3> QED BY <2>1, <3>2
  <2> QED BY <2>2, <2>3
<1>2. file.status = "json" /\ file.status \notin {"absent", "garbled", "misshapen"}
  BY <1>1 DEF Texts
<1> DEFINE own == OwnRoles(file)
           given == [file EXCEPT !.roles = own]
<1>3. LoadFile(file)
        = [EnsureDefaultRoles(given)
            EXCEPT !.status = IF file.model THEN "loaded" ELSE "failed"]
  BY <1>2, Zenon DEF LoadFile
<1> DEFINE config == EnsureDefaultRoles(given)
<1>4. /\ given.roles = own /\ given.active = file.active /\ given.prompt = file.prompt
      /\ DOMAIN given = DOMAIN file
  BY <1>1 DEF Texts
<1>5. DOMAIN file = {"status", "model", "prompt", "active", "roles"}
  BY <1>1 DEF Texts
<1>6. CASE DOMAIN own # {}
  <2>1. config = given
    BY <1>4, <1>6 DEF EnsureDefaultRoles
  <2> QED BY <1>1, <1>3, <1>4, <1>5, <1>6, <2>1
<1>7. CASE DOMAIN own = {}
  <2>1. config = [given EXCEPT !.roles = <<[id |-> "echo", prompt |-> given.prompt]>>,
                               !.active = "echo"]
    BY <1>4, <1>7 DEF EnsureDefaultRoles
  <2> QED BY <1>1, <1>3, <1>4, <1>5, <1>7, <2>1
<1> QED BY <1>6, <1>7

\* The file that decides is one of the files, if there is any.
LEMMA CandidateIsFile ==
  ASSUME files \in [1..3 -> Files]
  PROVE  Candidate \in Files
<1> DEFINE there == {n \in DOMAIN files : files[n].status # "absent"}
<1>1. CASE there = {}
  BY <1>1 DEF Candidate, Absent, Files
<1>2. CASE there # {}
  <2>1. Min(there) \in there
    BY <1>2, FirstOf
  <2> QED BY <1>2, <2>1 DEF Candidate
<1> QED BY <1>1, <1>2

\* Whatever the three places hold, the model starts as the role the page is
\* told of, or as the first of the file's own if it names none of them.
\* (config.cpp:49-72, 155-180)
THEOREM StartRoleTheorem ==
  ASSUME files \in [1..3 -> Files]
  PROVE  StartRoleOffered
<1> DEFINE file == Candidate
           config == LoadFile(file)
           own == OwnRoles(file)
           places == {k \in DOMAIN file.roles : Usable(file.roles[k])}
           prompt == ActiveSystemPrompt(config)
           offered == {config.roles[k] : k \in DOMAIN config.roles}
           found == FindRole(config, config.active)
<1> SUFFICES ASSUME config.status = "loaded"
             PROVE  \/ /\ [id |-> config.active, prompt |-> prompt] \in offered
                       /\ DOMAIN own = {} => prompt = file.prompt
                       /\ DOMAIN own # {} => config.active = file.active
                    \/ /\ \A k \in DOMAIN own : file.roles[k].id # file.active
                       /\ offered = {file.roles[k] : k \in DOMAIN own}
                       /\ \E k \in DOMAIN own : /\ prompt = file.roles[k].prompt
                                               /\ \A n \in DOMAIN own : k <= n
  BY Zenon DEF StartRoleOffered, LoadDefault
<1>1. file \in Files
  BY CandidateIsFile
<1>2. /\ file \in Texts
      /\ DOMAIN own # {} => config.roles = own /\ config.active = file.active
      /\ DOMAIN own = {} =>
           /\ config.roles = <<[id |-> "echo", prompt |-> file.prompt]>>
           /\ config.active = "echo"
  BY <1>1, Loaded, Zenon
<1>3. own = [k \in places |-> file.roles[k]] /\ DOMAIN own = places
  BY DEF OwnRoles
<1>4. /\ DOMAIN file.roles \subseteq Nat
      /\ \A k \in DOMAIN file.roles :
           file.roles[k] = [id |-> file.roles[k].id, prompt |-> file.roles[k].prompt]
  <2>1. PICK n \in 0..MaxRoles : file.roles \in [1..n -> [id : Ids, prompt : Prompts]]
    BY <1>2 DEF Texts
  <2> QED BY <2>1
<1>5. CASE DOMAIN own = {}
  <2>1. config.roles = <<[id |-> "echo", prompt |-> file.prompt]>> /\ config.active = "echo"
    BY <1>2, <1>5
  <2> DEFINE role == [id |-> "echo", prompt |-> file.prompt]
  <2>2. DOMAIN config.roles = {1} /\ config.roles[1] = role
    BY <2>1
  <2>3. found = {1}
    BY <2>1, <2>2 DEF FindRole
  <2>4. Min(found) = 1
    BY <2>3, FirstOf
  <2>5. prompt = config.roles[1].prompt
    BY <2>3, <2>4 DEF ActiveSystemPrompt
  <2> QED BY <1>5, <2>1, <2>2, <2>5
<1>6. CASE DOMAIN own # {} /\ found # {}
  <2>1. Min(found) \in found
    BY <1>2, <1>3, <1>4, <1>6, FirstOf DEF FindRole
  <2> DEFINE k == Min(found)
  <2>2. k \in places /\ config.roles[k] = file.roles[k] /\ file.roles[k].id = config.active
    BY <1>2, <1>3, <1>6, <2>1 DEF FindRole
  <2>3. prompt = file.roles[k].prompt
    BY <1>6, <2>2 DEF ActiveSystemPrompt
  <2>4. [id |-> config.active, prompt |-> prompt] = config.roles[k]
    BY <1>4, <2>2, <2>3
  <2> QED BY <1>2, <1>3, <1>6, <2>2, <2>4
<1>7. CASE DOMAIN own # {} /\ found = {}
  <2> DEFINE k == Min(places)
  <2>1. k \in places /\ \A n \in places : k <= n
    BY <1>3, <1>4, <1>7, FirstOf
  <2>2. config.roles = own /\ config.active = file.active
    BY <1>2, <1>7
  <2>3. \A n \in places : file.roles[n].id # file.active
    BY <1>3, <1>7, <2>2 DEF FindRole
  <2>4. prompt = file.roles[k].prompt
    BY <1>3, <1>7, <2>1, <2>2 DEF ActiveSystemPrompt
  <2>5. offered = {file.roles[n] : n \in places}
    BY <1>3, <2>2
  <2> QED BY <1>3, <2>1, <2>3, <2>4, <2>5
<1> QED BY <1>5, <1>6, <1>7

-----------------------------------------------------------------------------
(* FlattenSeq, by the beginnings of the sequence. *)

\* f[i] is what the first i elements of s are together, up to n.
Together(S, s, f, n) ==
  /\ f \in [1..n -> Seq(S)]
  /\ n > 0 => f[1] = s[1]
  /\ \A i \in 2..n : f[i] = f[i - 1] \o s[i]

LEMMA TogetherIs ==
  ASSUME NEW S, NEW s \in Seq(Seq(S))
  PROVE  \A n \in Nat : n <= Len(s) => \E f : Together(S, s, f, n)
<1> DEFINE Done == {n \in Nat : n <= Len(s) => \E f : Together(S, s, f, n)}
<1>1. ASSUME NEW k \in Nat, \A n \in 0..k - 1 : n \in Done
      PROVE  k \in Done
  <2> SUFFICES ASSUME k <= Len(s)
               PROVE  \E f : Together(S, s, f, k)
    OBVIOUS
  <2>1. Len(s) \in Nat /\ \A i \in 1..Len(s) : s[i] \in Seq(S)
    BY LenProperties, ElementOfSeq
  <2>2. CASE k = 0
    <3> DEFINE f == [i \in 1..0 |-> <<>>]
    <3>1. f \in [1..0 -> Seq(S)]
      OBVIOUS
    <3>2. ~ (k > 0) /\ 2..k = {}
      BY <2>2
    <3> HIDE DEF f
    <3>3. Together(S, s, f, k)
      BY <2>2, <3>1, <3>2, Zenon DEF Together
    <3> QED BY <3>3
  <2>3. CASE k = 1
    <3> DEFINE f == [i \in 1..1 |-> s[1]]
    <3>1. f \in [1..1 -> Seq(S)] /\ f[1] = s[1]
      BY <2>1, <2>3
    <3> HIDE DEF f
    <3> QED BY <2>3, <3>1 DEF Together
  <2>4. CASE k > 1
    <3>1. k - 1 \in 0..k - 1 /\ k - 1 <= Len(s)
      BY <2>1, <2>4
    <3>2. k - 1 \in Done
      BY <1>1, <3>1, Zenon
    <3>3. PICK g : Together(S, s, g, k - 1)
      BY <3>1, <3>2
    <3>4. g[k - 1] \in Seq(S) /\ s[k] \in Seq(S)
      BY <2>1, <2>4, <3>3 DEF Together
    <3>5. g[k - 1] \o s[k] \in Seq(S)
      BY <3>4, ConcatProperties
    <3> DEFINE f == [i \in 1..k |-> IF i = k THEN g[k - 1] \o s[k] ELSE g[i]]
    <3>6. /\ f[k] = g[k - 1] \o s[k]
          /\ \A i \in 1..k - 1 : f[i] = g[i]
          /\ DOMAIN f = 1..k /\ f = [i \in DOMAIN f |-> f[i]]
      <4> k \in 1..k /\ \A i \in 1..k - 1 : i \in 1..k /\ i # k
        BY <2>4
      <4> QED BY Zenon
    <3> HIDE DEF f
    <3>7. \A i \in 1..k - 1 : g[i] \in Seq(S)
      BY <3>3 DEF Together
    <3>8. \A i \in 1..k : f[i] \in Seq(S)
      <4> TAKE i \in 1..k
      <4>1. i = k \/ i \in 1..k - 1
        BY <2>4
      <4> QED BY <3>5, <3>6, <3>7, <4>1, Zenon
    <3>9. f \in [1..k -> Seq(S)]
      BY <3>6, <3>8, Zenon
    <3>10. \A i \in 2..k : f[i] = f[i - 1] \o s[i]
      <4> TAKE i \in 2..k
      <4>1. \/ i = k /\ k - 1 \in 1..k - 1
            \/ i \in 2..k - 1 /\ i \in 1..k - 1 /\ i - 1 \in 1..k - 1
        BY <2>4
      <4>2. \A n \in 2..k - 1 : g[n] = g[n - 1] \o s[n]
        BY <3>3 DEF Together
      <4> QED BY <3>6, <4>1, <4>2, Zenon
    <3>11. f[1] = s[1]
      <4> k - 1 > 0 /\ 1 \in 1..k - 1
        BY <2>4
      <4> QED BY <3>3, <3>6, Zenon DEF Together
    <3>12. Together(S, s, f, k)
      BY <3>9, <3>10, <3>11 DEF Together
    <3> QED BY <3>12
  <2> QED BY <2>2, <2>3, <2>4
<1> HIDE DEF Done
<1>2. Nat \subseteq Done
  BY <1>1, AllNumbers
<1> USE DEF Done
<1> QED BY <1>2

LEMMA Flattened ==
  ASSUME NEW S, NEW s \in Seq(Seq(S)), Len(s) # 0
  PROVE  \E f : Together(S, s, f, Len(s)) /\ FlattenSeq(s) = f[Len(s)]
<1> DEFINE N == Len(s)
<1>0. N \in Nat /\ N # 0
  BY LenProperties
<1>1. PICK f : Together(S, s, f, N)
  BY <1>0, TogetherIs
<1>2. f = [i \in 1..N |-> IF i = 1 THEN s[i] ELSE f[i - 1] \o s[i]]
  <2>1. \A i \in 1..N : f[i] = IF i = 1 THEN s[i] ELSE f[i - 1] \o s[i]
    <3> HIDE DEF N
    <3> N > 0 /\ \A i \in 1..N : i = 1 \/ (i # 1 /\ i \in 2..N)
      BY <1>0
    <3> QED BY <1>1, Zenon DEF Together
  <2>2. f = [i \in 1..N |-> f[i]]
    BY <1>1 DEF Together
  <2> HIDE DEF N
  <2> QED BY <2>1, <2>2
<1>3. PICK g : /\ g = [i \in 1..N |-> IF i = 1 THEN s[i] ELSE g[i - 1] \o s[i]]
               /\ FlattenSeq(s) = g[N]
  BY <1>0, <1>2 DEF FlattenSeq
<1> HIDE DEF N
<1> DEFINE Same == {n \in Nat : n \in 1..N => g[n] = f[n]}
<1>4. ASSUME NEW k \in Nat, \A n \in 0..k - 1 : n \in Same
      PROVE  k \in Same
  <2> SUFFICES ASSUME k \in 1..N
               PROVE  g[k] = f[k]
    OBVIOUS
  <2>1. CASE k = 1
    BY <1>0, <1>2, <1>3, <2>1
  <2>2. CASE k # 1
    <3>1. k - 1 \in 0..k - 1 /\ k - 1 \in 1..N
      BY <1>0, <2>2
    <3>2. k - 1 \in Same
      BY <1>4, <3>1, Zenon
    <3>3. g[k - 1] = f[k - 1]
      BY <3>1, <3>2
    <3>4. g[k] = g[k - 1] \o s[k] /\ f[k] = f[k - 1] \o s[k]
      BY <1>2, <1>3, <2>2
    <3> QED BY <3>3, <3>4
  <2> QED BY <2>1, <2>2
<1> HIDE DEF Same
<1>5. Nat \subseteq Same
  BY <1>4, AllNumbers
<1> USE DEF Same
<1>6. g[N] = f[N]
  BY <1>0, <1>5
<1> USE DEF N
<1> QED BY <1>1, <1>3, <1>6

-----------------------------------------------------------------------------
(* The bytes of a reply are those of its characters. *)
Byte == Chars \X (1..4)
LastByte(b) == b[2] = Size[b[1]]

WholeChars(T) ==
  /\ T \in Seq(Byte)
  /\ \A p \in 1..Len(T) :
       /\ T[p][2] <= Size[T[p][1]]
       /\ p = 1 => T[p][2] = 1
       /\ LastByte(T[p]) => p = Len(T) \/ T[p + 1][2] = 1
       /\ ~LastByte(T[p]) => p < Len(T) /\ T[p + 1] = <<T[p][1], T[p][2] + 1>>

LEMMA OneMoreChar ==
  ASSUME NEW T, WholeChars(T), NEW c \in Chars
  PROVE  WholeChars(T \o [k \in 1..Size[c] |-> <<c, k>>])
<1> DEFINE n == Len(T)
           C == [k \in 1..Size[c] |-> <<c, k>>]
           U == T \o C
<1>1. /\ Size[c] \in 1..4 /\ n \in Nat /\ T \in Seq(Byte)
      /\ \A p \in 1..n : T[p] \in Byte
  BY SplitterAssumption, LenProperties, ElementOfSeq DEF WholeChars
<1>2. C \in Seq(Byte) /\ Len(C) = Size[c] /\ \A k \in 1..Size[c] : C[k] = <<c, k>>
  <2>1. \A k \in 1..Size[c] : <<c, k>> \in Byte
    BY <1>1 DEF Byte
  <2>2. C \in [1..Size[c] -> Byte]
    BY <2>1
  <2>3. C \in Seq(Byte)
    BY <1>1, <2>2, SeqDef
  <2> QED BY <1>1, <2>2, <2>3, LenProperties
<1> HIDE DEF C
<1>3. /\ U \in Seq(Byte) /\ Len(U) = n + Size[c]
      /\ \A p \in 1..n : U[p] = T[p]
      /\ \A k \in 1..Size[c] : U[n + k] = <<c, k>>
  <2>1. /\ U \in Seq(Byte) /\ Len(U) = Len(T) + Len(C)
        /\ \A i \in 1..Len(T) + Len(C) : U[i] = IF i <= Len(T) THEN T[i] ELSE C[i - Len(T)]
    BY <1>1, <1>2, ConcatProperties
  <2> QED BY <1>1, <1>2, <2>1
<1> HIDE DEF U, n
<1>4. ASSUME NEW p \in 1..n
      PROVE  /\ U[p][2] <= Size[U[p][1]]
             /\ p = 1 => U[p][2] = 1
             /\ LastByte(U[p]) => p = Len(U) \/ U[p + 1][2] = 1
             /\ ~LastByte(U[p]) => p < Len(U) /\ U[p + 1] = <<U[p][1], U[p][2] + 1>>
  <2>1. /\ T[p][2] <= Size[T[p][1]]
        /\ p = 1 => T[p][2] = 1
        /\ LastByte(T[p]) => p = n \/ T[p + 1][2] = 1
        /\ ~LastByte(T[p]) => p < n /\ T[p + 1] = <<T[p][1], T[p][2] + 1>>
    BY DEF WholeChars, n
  <2>2. U[p] = T[p]
    BY <1>3
  <2>3. CASE p = n
    <3>1. U[p + 1] = <<c, 1>>
      <4>1. 1 \in 1..Size[c]
        BY <1>1
      <4> QED BY <1>3, <2>3, <4>1, Zenon
    <3>2. U[p + 1][2] = 1
      BY <3>1
    <3>3. LastByte(T[p])
      BY <1>1, <2>1, <2>3
    <3> QED BY <2>1, <2>2, <3>2, <3>3, Zenon
  <2>4. CASE p < n
    <3>1. U[p + 1] = T[p + 1] /\ p < Len(U)
      BY <1>1, <1>3, <2>4
    <3> QED BY <1>1, <2>1, <2>2, <2>4, <3>1
  <2> QED BY <1>1, <2>3, <2>4
<1>5. ASSUME NEW p \in (n + 1)..(n + Size[c])
      PROVE  /\ U[p][2] <= Size[U[p][1]]
             /\ p = 1 => U[p][2] = 1
             /\ LastByte(U[p]) => p = Len(U) \/ U[p + 1][2] = 1
             /\ ~LastByte(U[p]) => p < Len(U) /\ U[p + 1] = <<U[p][1], U[p][2] + 1>>
  <2> DEFINE k == p - n
  <2>1. k \in 1..Size[c] /\ p = n + k
    BY <1>1
  <2>2. U[p] = <<c, k>>
    BY <1>3, <2>1
  <2>3. CASE k = Size[c]
    BY <1>1, <1>3, <2>1, <2>2, <2>3 DEF LastByte
  <2>4. CASE k # Size[c]
    <3>1. k + 1 \in 1..Size[c] /\ p + 1 = n + (k + 1)
      BY <1>1, <2>1, <2>4
    <3>2. U[p + 1] = <<c, k + 1>>
      BY <1>3, <3>1
    <3> QED BY <1>1, <1>3, <2>1, <2>2, <2>4, <3>1, <3>2 DEF LastByte
  <2> QED BY <2>3, <2>4
<1>6. \A p \in 1..Len(U) : p \in 1..n \/ p \in (n + 1)..(n + Size[c])
  BY <1>1, <1>3
<1>7. WholeChars(U)
  BY <1>3, <1>4, <1>5, <1>6 DEF WholeChars
<1> QED BY <1>7 DEF U, C

LEMMA BytesAreWhole ==
  ASSUME NEW chars \in Seq(Chars)
  PROVE  WholeChars(Bytes(chars))
<1> DEFINE s == [i \in 1..Len(chars) |-> [k \in 1..Size[chars[i]] |-> <<chars[i], k>>]]
<1>1. Len(chars) \in Nat /\ \A i \in 1..Len(chars) : chars[i] \in Chars
  BY LenProperties, ElementOfSeq
<1>2. \A c \in Chars : [k \in 1..Size[c] |-> <<c, k>>] \in Seq(Byte)
  <2> TAKE c \in Chars
  <2>1. Size[c] \in Nat /\ \A k \in 1..Size[c] : <<c, k>> \in Byte
    BY SplitterAssumption DEF Byte
  <2>2. [k \in 1..Size[c] |-> <<c, k>>] \in [1..Size[c] -> Byte]
    BY <2>1
  <2> QED BY <2>1, <2>2, SeqDef
<1>3. /\ s \in Seq(Seq(Byte)) /\ Len(s) = Len(chars)
      /\ \A i \in 1..Len(chars) :
           s[i] = [k \in 1..Size[chars[i]] |-> <<chars[i], k>>]
  <2>1. s \in [1..Len(chars) -> Seq(Byte)]
    BY <1>1, <1>2
  <2>2. s \in Seq(Seq(Byte))
    BY <1>1, <2>1, SeqDef
  <2> QED BY <1>1, <2>1, <2>2, LenProperties
<1>4. Bytes(chars) = FlattenSeq(s)
  BY DEF Bytes
<1> HIDE DEF s
<1>5. CASE Len(chars) = 0
  <2>1. s = <<>> /\ FlattenSeq(s) = <<>>
    BY <1>3, <1>5, EmptySeq, Zenon DEF FlattenSeq
  <2>2. WholeChars(<<>>)
    BY EmptySeq DEF WholeChars
  <2> QED BY <1>4, <2>1, <2>2
<1>6. CASE Len(chars) # 0
  <2>1. PICK f : Together(Byte, s, f, Len(s)) /\ FlattenSeq(s) = f[Len(s)]
    BY <1>3, <1>6, Flattened
  <2> DEFINE Done == {n \in Nat : n \in 1..Len(s) => WholeChars(f[n])}
  <2>2. ASSUME NEW k \in Nat, \A n \in 0..k - 1 : n \in Done
        PROVE  k \in Done
    <3> SUFFICES ASSUME k \in 1..Len(s)
                 PROVE  WholeChars(f[k])
      OBVIOUS
    <3>1. s[k] = [i \in 1..Size[chars[k]] |-> <<chars[k], i>>] /\ chars[k] \in Chars
      BY <1>1, <1>3
    <3>2. CASE k = 1
      <4>1. WholeChars(<<>>)
        BY EmptySeq DEF WholeChars
      <4>2. f[1] = s[1]
        BY <1>1, <1>3, <1>6, <2>1 DEF Together
      <4>3. <<>> \o s[k] = s[k]
        BY <1>2, <3>1, ConcatEmptySeq
      <4>4. WholeChars(<<>> \o s[k])
        BY <3>1, <4>1, OneMoreChar, Zenon
      <4> QED BY <3>2, <4>2, <4>3, <4>4
    <3>3. CASE k # 1
      <4>1. k - 1 \in 0..k - 1 /\ k - 1 \in 1..Len(s) /\ k \in 2..Len(s)
        BY <1>1, <1>3, <3>3
      <4>2. k - 1 \in Done
        BY <2>2, <4>1, Zenon
      <4>3. WholeChars(f[k - 1])
        BY <4>1, <4>2
      <4>4. f[k] = f[k - 1] \o s[k]
        BY <2>1, <4>1, Zenon DEF Together
      <4>5. WholeChars(f[k - 1] \o s[k])
        BY <3>1, <4>3, OneMoreChar, Zenon
      <4> QED BY <4>4, <4>5
    <3> QED BY <3>2, <3>3
  <2> HIDE DEF Done
  <2>3. Nat \subseteq Done
    BY <2>2, AllNumbers
  <2> USE DEF Done
  <2>4. WholeChars(f[Len(s)])
    BY <1>1, <1>3, <1>6, <2>3
  <2> QED BY <1>4, <2>1, <2>4
<1> QED BY <1>5, <1>6

-----------------------------------------------------------------------------
(* Where a text may be cut. *)

\* A character ends there, or the text begins.
Bound(T, p) == p = 0 \/ (p \in 1..Len(T) /\ LastByte(T[p]))

\* Behind such a place comes a whole character.
LEMMA NextChar ==
  ASSUME NEW T, WholeChars(T), NEW p \in 0..Len(T) - 1, Bound(T, p)
  PROVE  LET c == T[p + 1][1]
         IN  /\ c \in Chars /\ Size[c] \in 1..4 /\ T[p + 1] = <<c, 1>>
             /\ p + Size[c] <= Len(T) /\ T[p + Size[c]] = <<c, Size[c]>>
             /\ \A e \in (p + 1)..(p + Size[c] - 1) : ~LastByte(T[e])
<1> DEFINE c == T[p + 1][1]
           n == Len(T)
<1>1. n \in Nat /\ \A q \in 1..n : T[q] \in Byte
  BY LenProperties, ElementOfSeq DEF WholeChars
<1>2. /\ \A q \in 1..n : LastByte(T[q]) => q = n \/ T[q + 1][2] = 1
      /\ 1 \in 1..n => T[1][2] = 1
      /\ \A q \in 1..n : ~LastByte(T[q]) => q < n /\ T[q + 1] = <<T[q][1], T[q][2] + 1>>
  BY DEF WholeChars
<1> HIDE DEF n
<1>3. p + 1 \in 1..n /\ T[p + 1][2] = 1
  <2>1. CASE p = 0
    BY <1>1, <1>2, <2>1 DEF n
  <2>2. CASE p # 0
    <3>1. p \in 1..n /\ p # n /\ LastByte(T[p])
      BY <1>1, <2>2 DEF Bound, n
    <3> QED BY <1>1, <1>2, <3>1
  <2> QED BY <2>1, <2>2
<1>4. c \in Chars /\ T[p + 1] = <<c, 1>> /\ Size[c] \in 1..4
  <2>1. T[p + 1] \in Byte
    BY <1>1, <1>3
  <2>2. c \in Chars /\ T[p + 1] = <<c, 1>>
    BY <1>3, <2>1 DEF Byte
  <2> QED BY <2>2, SplitterAssumption
<1> HIDE DEF c
<1> DEFINE At(k) == p + k \in 1..n /\ T[p + k] = <<c, k>>
<1>5. \A k \in 1..3 : At(k) /\ k # Size[c] => At(k + 1)
  <2> TAKE k \in 1..3
  <2> HAVE At(k) /\ k # Size[c]
  <2>1. ~LastByte(T[p + k])
    BY DEF LastByte
  <2>2. p + k < n /\ T[(p + k) + 1] = <<T[p + k][1], T[p + k][2] + 1>>
    BY <1>2, <2>1, Zenon
  <2>3. T[(p + k) + 1] = <<c, k + 1>>
    BY <2>2
  <2>4. p \in Nat /\ (p + k) + 1 = p + (k + 1)
    BY <1>1
  <2> QED BY <1>1, <2>2, <2>3, <2>4
<1>9. At(1)
  BY <1>3, <1>4
<1> HIDE DEF At
<1>6. \A k \in 1..4 : k <= Size[c] => At(k)
  <2>1. /\ 1 # Size[c] => At(2)
        /\ At(2) /\ 2 # Size[c] => At(3)
        /\ At(3) /\ 3 # Size[c] => At(4)
    BY <1>5, <1>9
  <2>2. \A k \in 1..4 : k = 1 \/ k = 2 \/ k = 3 \/ k = 4
    OBVIOUS
  <2> QED BY <1>4, <1>9, <2>1, <2>2
<1> USE DEF At
<1>7. \A e \in (p + 1)..(p + Size[c] - 1) : ~LastByte(T[e])
  <2> TAKE e \in (p + 1)..(p + Size[c] - 1)
  <2> DEFINE k == e - p
  <2>1. k \in 1..4 /\ k < Size[c] /\ k <= Size[c] /\ p + k = e
    BY <1>4
  <2> HIDE DEF k
  <2>2. T[e] = <<c, k>>
    BY <1>6, <2>1, Zenon
  <2> QED BY <1>4, <2>1, <2>2 DEF LastByte
<1>8. p + Size[c] <= n /\ T[p + Size[c]] = <<c, Size[c]>>
  <2>1. Size[c] \in 1..4 /\ Size[c] <= Size[c]
    BY <1>4
  <2>2. p + Size[c] \in 1..n /\ T[p + Size[c]] = <<c, Size[c]>>
    BY <1>6, <2>1, Zenon
  <2> QED BY <2>2
<1> QED BY <1>4, <1>7, <1>8, Zenon DEF c, n

\* In the text from s on, a sentence may end at e; none may before n; e is the first.
MayEnd(T, s, e) == LastByte(T[e]) /\ Cut(T[e][1], e - s, s > 0)
NoEnd(T, s, n) == \A e \in (s + 1)..n : ~MayEnd(T, s, e)
FirstEnd(T, s, e) == s < e /\ MayEnd(T, s, e) /\ NoEnd(T, s, e - 1)

\* cut is what lies between s and t, cut at the places c.
CutBy(T, c, s, cut, t) ==
  /\ s \in Nat /\ t \in 0..Len(T) /\ c \in [0..Len(cut) -> s..t]
  /\ c[0] = s /\ c[Len(cut)] = t
  /\ \A i \in 1..Len(cut) : /\ FirstEnd(T, c[i - 1], c[i])
                            /\ cut[i] = SubSeq(T, c[i - 1] + 1, c[i])
IsCut(T, s, cut, t) ==
  cut \in Seq(Seq(Byte)) /\ \E c : CutBy(T, c, s, cut, t)

LEMMA CutNothing ==
  ASSUME NEW T \in Seq(Byte), NEW s \in 0..Len(T)
  PROVE  IsCut(T, s, <<>>, s)
<1> DEFINE c == [i \in 0..0 |-> s]
<1>1. <<>> \in Seq(Seq(Byte)) /\ Len(<<>>) = 0
  BY EmptySeq
<1>2. c \in [0..0 -> s..s] /\ c[0] = s /\ s \in Nat
  BY LenProperties
<1> HIDE DEF c
<1>3. CutBy(T, c, s, <<>>, s)
  BY <1>1, <1>2 DEF CutBy
<1> QED BY <1>1, <1>3 DEF IsCut

LEMMA CutOnce ==
  ASSUME NEW T \in Seq(Byte), NEW s \in 0..Len(T), NEW e \in 0..Len(T), FirstEnd(T, s, e)
  PROVE  IsCut(T, s, <<SubSeq(T, s + 1, e)>>, e)
<1> DEFINE c == [i \in 0..1 |-> IF i = 0 THEN s ELSE e]
           x == SubSeq(T, s + 1, e)
           cut == <<x>>
<1>1. x \in Seq(Byte)
  <2> \A i \in (s + 1)..e : T[i] \in Byte
    BY ElementOfSeq, LenProperties
  <2> s + 1 \in Int /\ e \in Int
    BY LenProperties
  <2> QED BY SubSeqProperties
<1> HIDE DEF x
<1>2. cut \in Seq(Seq(Byte)) /\ Len(cut) = 1 /\ cut[1] = x
  BY <1>1
<1> HIDE DEF cut
<1>3. s \in Nat /\ c \in [0..1 -> s..e] /\ c[0] = s /\ c[1] = e
  <2> s \in Nat /\ e \in Nat /\ s < e
    BY LenProperties DEF FirstEnd
  <2> QED OBVIOUS
<1> HIDE DEF c
<1>4. \A i \in 1..1 : FirstEnd(T, c[i - 1], c[i]) /\ cut[i] = SubSeq(T, c[i - 1] + 1, c[i])
  <2> TAKE i \in 1..1
  <2>1. i = 1 /\ i - 1 = 0
    OBVIOUS
  <2> QED BY <1>2, <1>3, <2>1, Zenon DEF x
<1>5. CutBy(T, c, s, cut, e)
  BY <1>2, <1>3, <1>4, Zenon DEF CutBy
<1>6. IsCut(T, s, cut, e)
  BY <1>2, <1>5 DEF IsCut
<1> QED BY <1>6 DEF cut, x

LEMMA CutTwice ==
  ASSUME NEW T \in Seq(Byte), NEW s, NEW t, NEW u, NEW x, NEW y,
         IsCut(T, s, x, t), IsCut(T, t, y, u)
  PROVE  IsCut(T, s, x \o y, u)
<1>1. PICK c : CutBy(T, c, s, x, t)
  BY DEF IsCut
<1>2. PICK d : CutBy(T, d, t, y, u)
  BY DEF IsCut
<1> DEFINE n == Len(x)
           m == Len(y)
           z == x \o y
<1>3. /\ n \in Nat /\ m \in Nat /\ z \in Seq(Seq(Byte)) /\ Len(z) = n + m
      /\ \A i \in 1..n : z[i] = x[i]
      /\ \A i \in 1..m : z[n + i] = y[i]
  <2>1. x \in Seq(Seq(Byte)) /\ y \in Seq(Seq(Byte))
    BY DEF IsCut
  <2>2. n \in Nat /\ m \in Nat
    BY <2>1, LenProperties
  <2>3. /\ z \in Seq(Seq(Byte)) /\ Len(z) = Len(x) + Len(y)
        /\ \A i \in 1..Len(x) + Len(y) : z[i] = IF i <= Len(x) THEN x[i] ELSE y[i - Len(x)]
    BY <2>1, ConcatProperties
  <2> QED BY <2>2, <2>3
<1>4. /\ s \in Nat /\ t \in 0..Len(T)
      /\ c \in [0..n -> s..t] /\ c[0] = s /\ c[n] = t
      /\ \A i \in 1..n : FirstEnd(T, c[i - 1], c[i]) /\ x[i] = SubSeq(T, c[i - 1] + 1, c[i])
  BY <1>1 DEF CutBy
<1>5. /\ u \in 0..Len(T)
      /\ d \in [0..m -> t..u] /\ d[0] = t /\ d[m] = u
      /\ \A i \in 1..m : FirstEnd(T, d[i - 1], d[i]) /\ y[i] = SubSeq(T, d[i - 1] + 1, d[i])
  BY <1>2 DEF CutBy
<1> HIDE DEF n, m, z
<1> DEFINE b == [i \in 0..(n + m) |-> IF i <= n THEN c[i] ELSE d[i - n]]
<1>10. /\ s <= t /\ t <= u /\ t \in Nat /\ u \in Nat
       /\ \A i \in 0..n : c[i] \in s..u
       /\ \A i \in 0..m : d[i] \in s..u
  <2>1. Len(T) \in Nat
    BY LenProperties
  <2>2. t \in Nat /\ u \in Nat
    BY <1>4, <1>5, <2>1
  <2>3. c[0] \in s..t /\ d[0] \in t..u
    BY <1>3, <1>4, <1>5
  <2>4. s <= t /\ t <= u
    BY <1>4, <1>5, <2>2, <2>3
  <2>5. \A i \in 0..n : c[i] \in s..t
    BY <1>4
  <2>6. \A i \in 0..m : d[i] \in t..u
    BY <1>5
  <2> QED BY <1>4, <2>2, <2>4, <2>5, <2>6
<1>6. /\ b \in [0..(n + m) -> s..u]
      /\ \A i \in 0..n : b[i] = c[i]
      /\ \A i \in 0..m : b[n + i] = d[i]
  <2>1. \A i \in 0..(n + m) : IF i <= n THEN c[i] \in s..u ELSE d[i - n] \in s..u
    <3> TAKE i \in 0..(n + m)
    <3>1. \/ i <= n /\ i \in 0..n
          \/ ~ (i <= n) /\ i - n \in 0..m
      BY <1>3
    <3> QED BY <1>10, <3>1, Zenon
  <2>2. \A i \in 0..m : b[n + i] = d[i]
    <3> TAKE i \in 0..m
    <3>1. n + i \in 0..(n + m) /\ (n + i) - n = i
      BY <1>3
    <3>2. CASE i = 0
      BY <1>3, <1>4, <1>5, <3>1, <3>2
    <3>3. CASE i # 0
      <4> ~ (n + i <= n)
        BY <1>3, <3>3
      <4>1. b[n + i] = d[(n + i) - n]
        BY <3>1
      <4> HIDE DEF b
      <4> QED BY <3>1, <4>1
    <3> QED BY <3>2, <3>3
  <2>3. \A i \in 0..n : b[i] = c[i]
    BY <1>3
  <2> QED BY <2>1, <2>2, <2>3
<1> HIDE DEF b
<1>7. ASSUME NEW i \in 1..(n + m)
      PROVE  FirstEnd(T, b[i - 1], b[i]) /\ z[i] = SubSeq(T, b[i - 1] + 1, b[i])
  <2>1. CASE i <= n
    <3>1. i \in 1..n /\ i \in 0..n /\ i - 1 \in 0..n
      BY <1>3, <2>1
    <3> QED BY <1>3, <1>4, <1>6, <3>1, Zenon
  <2>2. CASE i > n
    <3> DEFINE k == i - n
    <3>1. k \in 1..m /\ k \in 0..m /\ k - 1 \in 0..m /\ i = n + k /\ i - 1 = n + (k - 1)
      BY <1>3, <2>2
    <3> HIDE DEF k
    <3>2. z[i] = y[k] /\ b[i] = d[k] /\ b[i - 1] = d[k - 1]
      BY <1>3, <1>6, <3>1, Zenon
    <3>3. FirstEnd(T, d[k - 1], d[k]) /\ y[k] = SubSeq(T, d[k - 1] + 1, d[k])
      BY <1>5, <3>1
    <3> QED BY <3>2, <3>3
  <2> QED BY <1>3, <2>1, <2>2
<1>8. b[0] = s /\ b[n + m] = u
  <2> 0 \in 0..n /\ m \in 0..m
    BY <1>3
  <2> QED BY <1>4, <1>5, <1>6, Zenon
<1>9. CutBy(T, b, s, z, u)
  BY <1>3, <1>4, <1>5, <1>6, <1>7, <1>8, Zenon DEF CutBy
<1> QED BY <1>3, <1>9 DEF IsCut, z

-----------------------------------------------------------------------------
(* The scan of Feed. *)

LEMMA CharEndIs ==
  ASSUME NEW b \in Seq(Byte), NEW pos \in 0..Len(b) - 1
  PROVE  LET l == Utf8CharLen(b[pos + 1])
         IN  /\ l \in 1..4
             /\ CharEnd(b, pos) = IF pos + l <= Len(b) THEN pos + l ELSE Len(b) + 1
<1> DEFINE l == Utf8CharLen(b[pos + 1])
<1>1. Len(b) \in Nat /\ b[pos + 1] \in Byte
  BY LenProperties, ElementOfSeq
<1>2. l \in 1..4
  BY <1>1, SplitterAssumption DEF Utf8CharLen, Byte
<1> HIDE DEF l
<1> DEFINE S == {pos + l, Len(b) + 1}
<1>3. S \subseteq Int /\ CharEnd(b, pos) = Min(S)
  BY <1>1, <1>2 DEF CharEnd, l
<1>4. CASE pos + l <= Len(b)
  <2>1. pos + l \in S /\ \A n \in S : pos + l <= n
    BY <1>1, <1>2, <1>4
  <2> HIDE DEF S
  <2>2. Min(S) = pos + l
    BY <1>3, <2>1, MinIs
  <2> QED BY <1>2, <1>3, <1>4, <2>2 DEF l
<1>5. CASE ~ (pos + l <= Len(b))
  <2>1. Len(b) + 1 \in S /\ \A n \in S : Len(b) + 1 <= n
    BY <1>1, <1>2, <1>5
  <2> HIDE DEF S
  <2>2. Min(S) = Len(b) + 1
    BY <1>3, <2>1, MinIs
  <2> QED BY <1>2, <1>3, <1>5, <2>2 DEF l
<1> QED BY <1>4, <1>5

\* What the loop does at one of its places, if f is what it does at later ones.
Loops(b) == [start : 0..Len(b), pos : 0..Len(b), done : BOOLEAN]
AtCut(end) == [start |-> end, pos |-> end, done |-> TRUE]
Turn(b, f, loop) ==
  IF loop.pos = Len(b) \/ CharEnd(b, loop.pos) > Len(b)
  THEN [rest |-> SubSeq(b, loop.start + 1, Len(b)), done |-> loop.done, cut |-> <<>>]
  ELSE IF Cut(b[loop.pos + 1][1], CharEnd(b, loop.pos) - loop.start, loop.done)
  THEN [f[AtCut(CharEnd(b, loop.pos))]
         EXCEPT !.cut = <<SubSeq(b, loop.start + 1, CharEnd(b, loop.pos))>> \o @]
  ELSE f[[loop EXCEPT !.pos = CharEnd(b, loop.pos)]]

LEMMA LaterLoops ==
  ASSUME NEW b \in Seq(Byte), NEW loop \in Loops(b),
         ~ (loop.pos = Len(b) \/ CharEnd(b, loop.pos) > Len(b))
  PROVE  LET end == CharEnd(b, loop.pos)
             next == [loop EXCEPT !.pos = end]
         IN  /\ end \in 1..Len(b) /\ loop.pos < end
             /\ AtCut(end) \in Loops(b) /\ AtCut(end).pos = end
             /\ next \in Loops(b) /\ next.pos = end
             /\ next.start = loop.start /\ next.done = loop.done
<1> DEFINE end == CharEnd(b, loop.pos)
<1>1. Len(b) \in Nat /\ loop.pos \in 0..Len(b) - 1 /\ loop.start \in 0..Len(b)
      /\ loop.done \in BOOLEAN
  <2> Len(b) \in Nat
    BY LenProperties
  <2> QED BY DEF Loops
<1>2. end \in 1..Len(b) /\ loop.pos < end
  <2> DEFINE l == Utf8CharLen(b[loop.pos + 1])
  <2>1. /\ l \in 1..4
        /\ end = IF loop.pos + l <= Len(b) THEN loop.pos + l ELSE Len(b) + 1
    BY <1>1, CharEndIs
  <2>2. ~ (end > Len(b))
    OBVIOUS
  <2> HIDE DEF l, end
  <2> QED BY <1>1, <2>1, <2>2
<1> HIDE DEF end
<1>3. AtCut(end) \in Loops(b) /\ AtCut(end).pos = end
  BY <1>1, <1>2 DEF Loops, AtCut
<1>4. LET next == [loop EXCEPT !.pos = end]
      IN  /\ next \in Loops(b) /\ next.pos = end
          /\ next.start = loop.start /\ next.done = loop.done
  BY <1>1, <1>2 DEF Loops
<1> QED BY <1>2, <1>3, <1>4 DEF end

LEMMA TurnLooksAhead ==
  ASSUME NEW b, NEW f, NEW g, NEW loop,
         ~ (loop.pos = Len(b) \/ CharEnd(b, loop.pos) > Len(b))
           => LET end == CharEnd(b, loop.pos)
              IN  /\ f[AtCut(end)] = g[AtCut(end)]
                  /\ f[[loop EXCEPT !.pos = end]] = g[[loop EXCEPT !.pos = end]]
  PROVE  Turn(b, f, loop) = Turn(b, g, loop)
<1>1. CASE loop.pos = Len(b) \/ CharEnd(b, loop.pos) > Len(b)
  BY <1>1, Zenon DEF Turn
<1>2. CASE ~ (loop.pos = Len(b) \/ CharEnd(b, loop.pos) > Len(b))
  <2> DEFINE end == CharEnd(b, loop.pos)
  <2>1. f[AtCut(end)] = g[AtCut(end)]
        /\ f[[loop EXCEPT !.pos = end]] = g[[loop EXCEPT !.pos = end]]
    BY <1>2
  <2>2. CASE Cut(b[loop.pos + 1][1], CharEnd(b, loop.pos) - loop.start, loop.done)
    BY <1>2, <2>1, <2>2, Zenon DEF Turn
  <2>3. CASE ~Cut(b[loop.pos + 1][1], CharEnd(b, loop.pos) - loop.start, loop.done)
    BY <1>2, <2>1, <2>3, Zenon DEF Turn
  <2> QED BY <2>2, <2>3
<1> QED BY <1>1, <1>2

\* The places from which at most n bytes are left.
Near(b, n) == {loop \in Loops(b) : Len(b) - loop.pos <= n}

LEMMA LoopEnds ==
  ASSUME NEW b \in Seq(Byte)
  PROVE  \E f : f = [loop \in Loops(b) |-> Turn(b, f, loop)]
<1> DEFINE Done == {n \in Nat : \E f : f = [loop \in Near(b, n) |-> Turn(b, f, loop)]}
<1>0. Len(b) \in Nat
  BY LenProperties
<1>1. ASSUME NEW k \in Nat, \A n \in 0..k - 1 : n \in Done
      PROVE  k \in Done
  <2>1. \E f : k > 0 => f = [loop \in Near(b, k - 1) |-> Turn(b, f, loop)]
    <3>1. CASE k = 0
      BY <3>1
    <3>2. CASE k # 0
      <4>1. k - 1 \in 0..k - 1
        BY <3>2
      <4>2. k - 1 \in Done
        BY <1>1, <4>1, Zenon
      <4> QED BY <4>2, Zenon
    <3> QED BY <3>1, <3>2
  <2>2. PICK f : k > 0 => f = [loop \in Near(b, k - 1) |-> Turn(b, f, loop)]
    BY <2>1
  <2> DEFINE g == [loop \in Near(b, k) |-> Turn(b, f, loop)]
  <2>3. \A loop \in Near(b, k) : g[loop] = Turn(b, f, loop)
    OBVIOUS
  <2>4. g = [loop \in Near(b, k) |-> g[loop]]
    OBVIOUS
  <2> HIDE DEF g
  <2>5. ASSUME NEW loop \in Near(b, k - 1), k > 0
        PROVE  g[loop] = f[loop]
    <3>1. loop \in Near(b, k)
      BY <1>0 DEF Near, Loops
    <3>2. f[loop] = Turn(b, f, loop)
      BY <2>2, <2>5, Zenon
    <3> QED BY <2>3, <3>1, <3>2, Zenon
  <2>6. ASSUME NEW loop \in Near(b, k)
        PROVE  Turn(b, f, loop) = Turn(b, g, loop)
    <3>1. loop \in Loops(b)
      BY DEF Near
    <3> SUFFICES ASSUME ~ (loop.pos = Len(b) \/ CharEnd(b, loop.pos) > Len(b))
                 PROVE  LET end == CharEnd(b, loop.pos)
                        IN  /\ f[AtCut(end)] = g[AtCut(end)]
                            /\ f[[loop EXCEPT !.pos = end]] = g[[loop EXCEPT !.pos = end]]
      BY TurnLooksAhead, Zenon
    <3> DEFINE end == CharEnd(b, loop.pos)
               next == [loop EXCEPT !.pos = end]
    <3>2. /\ end \in 1..Len(b) /\ loop.pos < end
          /\ AtCut(end) \in Loops(b) /\ AtCut(end).pos = end
          /\ next \in Loops(b) /\ next.pos = end
      BY <3>1, LaterLoops
    <3>3. loop.pos \in 0..Len(b) /\ Len(b) - loop.pos <= k
      BY DEF Near, Loops
    <3> HIDE DEF end, next
    <3>4. k > 0 /\ AtCut(end) \in Near(b, k - 1) /\ next \in Near(b, k - 1)
      BY <1>0, <3>2, <3>3 DEF Near
    <3>5. g[AtCut(end)] = f[AtCut(end)] /\ g[next] = f[next]
      BY <2>5, <3>4, Zenon
    <3> QED BY <3>5 DEF end, next
  <2>7. \A loop \in Near(b, k) : g[loop] = Turn(b, g, loop)
    BY <2>3, <2>6, Zenon
  <2>8. g = [loop \in Near(b, k) |-> Turn(b, g, loop)]
    BY <2>4, <2>7, Zenon
  <2> QED BY <2>8, Zenon
<1> HIDE DEF Done
<1>2. Nat \subseteq Done
  BY <1>1, AllNumbers
<1> USE DEF Done
<1>3. PICK f : f = [loop \in Near(b, Len(b)) |-> Turn(b, f, loop)]
  BY <1>0, <1>2
<1>4. Near(b, Len(b)) = Loops(b)
  <2>1. \A loop \in Loops(b) : Len(b) - loop.pos <= Len(b)
    BY <1>0 DEF Loops
  <2> QED BY <2>1 DEF Near
<1> QED BY <1>3, <1>4

LEMMA ScanIsLoop ==
  ASSUME NEW b \in Seq(Byte), NEW firstDone \in BOOLEAN
  PROVE  \E f : /\ f = [loop \in Loops(b) |-> Turn(b, f, loop)]
                /\ Scan(b, firstDone) = f[[start |-> 0, pos |-> 0, done |-> firstDone]]
<1>1. PICK f : f = [loop \in Loops(b) |-> Turn(b, f, loop)]
  BY LoopEnds
<1> QED BY <1>1, Zenon DEF Scan, Loops, Turn, AtCut

-----------------------------------------------------------------------------
(* What the scan finds in the part of the text T that lies between t and m. *)

LEMMA PartOfPart ==
  ASSUME NEW T \in Seq(Byte), NEW m \in 0..Len(T), NEW t \in 0..m
  PROVE  LET b == SubSeq(T, t + 1, m)
         IN  /\ b \in Seq(Byte) /\ Len(b) = m - t
             /\ \A i \in 1..(m - t) : b[i] = T[t + i]
             /\ \A s \in 0..(m - t) : \A e \in s..(m - t) :
                  SubSeq(b, s + 1, e) = SubSeq(T, t + s + 1, t + e)
<1> DEFINE b == SubSeq(T, t + 1, m)
<1>0. Len(T) \in Nat /\ \A i \in 1..Len(T) : T[i] \in Byte
  BY LenProperties, ElementOfSeq
<1>1. \A i \in (t + 1)..m : T[i] \in Byte
  BY <1>0
<1>2. /\ b \in Seq(Byte)
      /\ Len(b) = IF t + 1 <= m THEN m - (t + 1) + 1 ELSE 0
      /\ \A i \in 1..(m - (t + 1) + 1) : b[i] = T[(t + 1) + i - 1]
  <2> t + 1 \in Int /\ m \in Int
    BY <1>0
  <2> QED BY <1>1, SubSeqProperties
<1>3. Len(b) = m - t /\ \A i \in 1..(m - t) : b[i] = T[t + i]
  <2>1. Len(b) = m - t
    BY <1>0, <1>2
  <2>2. \A i \in 1..(m - t) : b[i] = T[t + i]
    <3> TAKE i \in 1..(m - t)
    <3> HIDE DEF b
    <3>1. i \in 1..(m - (t + 1) + 1) /\ (t + 1) + i - 1 = t + i
      BY <1>0
    <3>2. b[i] = T[(t + 1) + i - 1]
      BY <1>2, <3>1, Zenon
    <3> QED BY <3>1, <3>2
  <2> QED BY <2>1, <2>2
<1>4. ASSUME NEW s \in 0..(m - t), NEW e \in s..(m - t)
      PROVE  SubSeq(b, s + 1, e) = SubSeq(T, t + s + 1, t + e)
  <2>1. CASE s = e
    <3>1. SubSeq(b, s + 1, e) = <<>>
      BY <1>0, <2>1, SubSeqEmpty
    <3>2. SubSeq(T, t + s + 1, t + e) = <<>>
      BY <1>0, <2>1, SubSeqEmpty
    <3> QED BY <3>1, <3>2
  <2>2. CASE s < e
    <3>1. /\ t + 1 \in 1..Len(T) /\ m \in 1..Len(T)
          /\ s + 1 \in 1..(m - (t + 1) + 1) /\ e \in 1..(m - (t + 1) + 1)
      BY <1>0, <2>2
    <3>2. SubSeq(b, s + 1, e) = SubSeq(T, (t + 1) + (s + 1) - 1, (t + 1) + e - 1)
      BY <3>1, SubSeqOfSubSeq
    <3>3. (t + 1) + (s + 1) - 1 = t + s + 1 /\ (t + 1) + e - 1 = t + e
      BY <1>0, <2>2
    <3> QED BY <3>2, <3>3
  <2> QED BY <1>0, <2>1, <2>2
<1> QED BY <1>2, <1>3, <1>4

\* The loop is at a place it can come to.
LoopAt(T, t, loop) ==
  /\ loop.start <= loop.pos
  /\ Bound(T, t + loop.start) /\ Bound(T, t + loop.pos)
  /\ NoEnd(T, t + loop.start, t + loop.pos)
  /\ loop.done <=> t + loop.start > 0

\* What it finds from s on: all the sentences that end before m, and what is left
\* from u on.
Finds(T, s, m, r, u) ==
  /\ u \in s..m /\ Bound(T, u) /\ NoEnd(T, u, m)
  /\ IsCut(T, s, r.cut, u)
  /\ r.rest = SubSeq(T, u + 1, m)
  /\ r.done \in BOOLEAN /\ (r.done <=> u > 0)
  /\ r = [rest |-> r.rest, done |-> r.done, cut |-> r.cut]

LEMMA LoopStops ==
  ASSUME NEW T, WholeChars(T), NEW m \in 0..Len(T), NEW t \in 0..m,
         NEW b, b = SubSeq(T, t + 1, m),
         NEW loop \in Loops(b), LoopAt(T, t, loop), NoEnd(T, t + loop.start, m),
         NEW r, r = [rest |-> SubSeq(b, loop.start + 1, Len(b)), done |-> loop.done, cut |-> <<>>]
  PROVE  \E u : Finds(T, t + loop.start, m, r, u)
<1> DEFINE u == t + loop.start
<1>0. T \in Seq(Byte) /\ Len(T) \in Nat
  BY LenProperties DEF WholeChars
<1>1. /\ Len(b) = m - t
      /\ \A s \in 0..(m - t) : \A e \in s..(m - t) :
           SubSeq(b, s + 1, e) = SubSeq(T, t + s + 1, t + e)
  BY <1>0, PartOfPart
<1>2. loop.start \in 0..(m - t) /\ loop.done \in BOOLEAN
  BY <1>1 DEF Loops
<1>3. r.rest = SubSeq(T, u + 1, m)
  <2>1. m - t \in loop.start..(m - t) /\ t + (m - t) = m
    BY <1>0, <1>2
  <2>2. SubSeq(b, loop.start + 1, m - t) = SubSeq(T, t + loop.start + 1, t + (m - t))
    BY <1>1, <1>2, <2>1
  <2> QED BY <1>1, <2>1, <2>2
<1>4. /\ r.cut = <<>> /\ r.done = loop.done
      /\ r = [rest |-> r.rest, done |-> r.done, cut |-> r.cut]
  OBVIOUS
<1>5. u \in 0..Len(T) /\ u \in u..m
  BY <1>0, <1>2
<1> HIDE DEF u
<1>6. IsCut(T, u, r.cut, u)
  BY <1>0, <1>4, <1>5, CutNothing
<1>7. Bound(T, u) /\ NoEnd(T, u, m) /\ r.done \in BOOLEAN /\ (r.done <=> u > 0)
  BY <1>2, <1>4, Zenon DEF LoopAt, u
<1>8. Finds(T, u, m, r, u)
  BY <1>3, <1>4, <1>5, <1>6, <1>7, Zenon DEF Finds
<1> QED BY <1>8 DEF u

\* b is that part, f is the scan of it, and from the places behind pos it finds
\* all there is.
Scans(T, t, m, b, f) ==
  b = SubSeq(T, t + 1, m) /\ f = [loop \in Loops(b) |-> Turn(b, f, loop)]
FindsBehind(T, t, m, b, f, pos) ==
  \A l \in Loops(b) : l.pos > pos /\ LoopAt(T, t, l)
    => \E u : Finds(T, t + l.start, m, f[l], u)

LEMMA LoopFinds ==
  ASSUME NEW T, WholeChars(T), NEW m \in 0..Len(T), NEW t \in 0..m,
         NEW b, NEW f, Scans(T, t, m, b, f),
         NEW loop \in Loops(b), LoopAt(T, t, loop), FindsBehind(T, t, m, b, f, loop.pos)
  PROVE  \E u : Finds(T, t + loop.start, m, f[loop], u)
<1> DEFINE n == Len(b)
           start == loop.start
           pos == loop.pos
           end == CharEnd(b, pos)
           p == t + pos
           s == t + start
           c == T[p + 1][1]
<1>0. T \in Seq(Byte) /\ Len(T) \in Nat
  BY LenProperties DEF WholeChars
<1>12. b = SubSeq(T, t + 1, m) /\ f = [l \in Loops(b) |-> Turn(b, f, l)]
  BY Zenon DEF Scans
<1>13. /\ \A i \in 1..(m - t) : b[i] = T[t + i]
       /\ \A x \in 0..(m - t) : \A e \in x..(m - t) :
            SubSeq(b, x + 1, e) = SubSeq(T, t + x + 1, t + e)
  BY <1>0, <1>12, PartOfPart
<1>1. b \in Seq(Byte) /\ n = m - t
  BY <1>0, <1>12, PartOfPart
<1>2. /\ start \in 0..n /\ pos \in 0..n /\ loop.done \in BOOLEAN /\ n \in Nat
      /\ p \in Nat /\ s \in Nat
  BY <1>0, <1>1 DEF Loops
<1>3. f[loop] = Turn(b, f, loop)
  BY <1>12, Zenon
<1>4. start <= pos /\ Bound(T, s) /\ Bound(T, p) /\ NoEnd(T, s, p) /\ (loop.done <=> s > 0)
  BY DEF LoopAt
<1>11. /\ start = loop.start /\ pos = loop.pos /\ p = t + pos /\ s = t + start
       /\ n = Len(b) /\ c = T[p + 1][1]
  OBVIOUS
<1> DEFINE N == Len(T)
<1>14. /\ p = t + pos /\ s = t + start /\ n = m - t
       /\ t \in Nat /\ m \in Nat /\ n \in Nat /\ N \in Nat /\ t <= m /\ m <= N
       /\ start \in Nat /\ pos \in Nat /\ start <= n /\ pos <= n /\ start <= pos
  BY <1>0, <1>1, <1>2, <1>4
<1> HIDE DEF N
<1> HIDE DEF n, start, pos, end, p, s, c
<1>5. CASE pos = n
  <2>1. p = m
    BY <1>0, <1>1, <1>5, <1>11
  <2>2. NoEnd(T, t + loop.start, m)
    BY <1>4, <1>11, <2>1
  <2>3. f[loop] = [rest |-> SubSeq(b, loop.start + 1, Len(b)), done |-> loop.done, cut |-> <<>>]
    BY <1>3, <1>5, <1>11, Zenon DEF Turn
  <2> QED BY <1>12, <2>2, <2>3, LoopStops
<1>6. CASE pos # n
  <2>1. p \in 0..Len(T) - 1 /\ pos \in 0..Len(b) - 1 /\ pos + 1 \in 1..(m - t) /\ t + (pos + 1) = p + 1
    <3>1. p \in 0..N - 1 /\ pos \in 0..n - 1 /\ pos + 1 \in 1..(m - t) /\ t + (pos + 1) = p + 1
      BY <1>6, <1>14
    <3> QED BY <3>1 DEF N, n
  <2>2. /\ c \in Chars /\ Size[c] \in 1..4 /\ T[p + 1] = <<c, 1>>
        /\ p + Size[c] <= Len(T) /\ T[p + Size[c]] = <<c, Size[c]>>
        /\ \A e \in (p + 1)..(p + Size[c] - 1) : ~LastByte(T[e])
    BY <1>4, <1>11, <2>1, NextChar
  <2>3. b[pos + 1] = <<c, 1>>
    BY <1>13, <2>1, <2>2
  <2>4. end = IF pos + Size[c] <= n THEN pos + Size[c] ELSE n + 1
    <3>1. Utf8CharLen(b[pos + 1]) = Size[c]
      <4>1. b[pos + 1][1] = c /\ b[pos + 1][2] = 1
        BY <2>3
      <4> QED BY <4>1, Zenon DEF Utf8CharLen
    <3>2. end = IF pos + Utf8CharLen(b[pos + 1]) <= Len(b)
                THEN pos + Utf8CharLen(b[pos + 1]) ELSE Len(b) + 1
      BY <1>1, <2>1, CharEndIs DEF end
    <3> QED BY <1>11, <3>1, <3>2
  <2>5. \A e \in (p + 1)..(p + Size[c] - 1) : ~MayEnd(T, s, e)
    BY <2>2 DEF MayEnd
  <2>6. CASE end > n
    <3>1. p + Size[c] > m
      <4> c \in Chars /\ Size[c] \in 1..4
        BY <2>2
      <4> QED BY <1>14, <2>4, <2>6
    <3>2. NoEnd(T, t + loop.start, m)
      <4> SUFFICES ASSUME NEW e \in (s + 1)..m PROVE ~MayEnd(T, s, e)
        BY <1>11 DEF NoEnd
      <4>1. e \in (s + 1)..p \/ e \in (p + 1)..(p + Size[c] - 1)
        BY <1>2, <2>2, <3>1
      <4> QED BY <1>4, <2>5, <4>1 DEF NoEnd
    <3>3. f[loop] = [rest |-> SubSeq(b, loop.start + 1, Len(b)), done |-> loop.done, cut |-> <<>>]
      BY <1>3, <1>11, <2>6, Zenon DEF Turn, end, n
    <3> QED BY <1>12, <3>2, <3>3, LoopStops
  <2>7. CASE ~ (end > n)
    <3>1. end = pos + Size[c] /\ end \in 1..n /\ pos < end /\ t + end = p + Size[c]
      <4> c \in Chars /\ Size[c] \in 1..4
        BY <2>2
      <4>1. end = pos + Size[c] /\ pos + Size[c] <= n
        BY <1>14, <2>4, <2>7
      <4>2. end \in 1..n /\ pos < end
        BY <1>14, <4>1
      <4>3. t + end = p + Size[c]
        BY <1>14, <4>1
      <4> QED BY <4>1, <4>2, <4>3
    <3> DEFINE q == t + end
               next == [loop EXCEPT !.pos = end]
    <3>8. q = t + end /\ q = p + Size[c]
      BY <3>1
    <3>2. /\ AtCut(end) \in Loops(b) /\ AtCut(end).pos = end
          /\ next \in Loops(b) /\ next.pos = end
          /\ next.start = loop.start /\ next.done = loop.done
      BY <1>1, <1>6, <1>11, <2>7, LaterLoops DEF end, n
    <3> HIDE DEF q
    <3>3. Bound(T, q) /\ q \in Nat /\ s < q /\ q <= m /\ q \in 0..Len(T)
      <4>1. T[q] = <<c, Size[c]>>
        BY <2>2, <3>8
      <4>2. LastByte(T[q])
        BY <4>1 DEF LastByte
      <4>4. q \in Nat /\ s < q /\ q <= m
        BY <1>14, <3>1, <3>8
      <4>3. q \in Nat /\ s < q /\ q <= m /\ q \in 1..N /\ q \in 0..N
        BY <1>14, <4>4
      <4> QED BY <4>2, <4>3 DEF Bound, N
    <3>4. NoEnd(T, s, q - 1)
      <4> SUFFICES ASSUME NEW e \in (s + 1)..(q - 1) PROVE ~MayEnd(T, s, e)
        BY DEF NoEnd
      <4>1. e \in (s + 1)..p \/ e \in (p + 1)..(p + Size[c] - 1)
        BY <1>2, <2>2, <3>8
      <4> QED BY <1>4, <2>5, <4>1 DEF NoEnd
    <3>5. MayEnd(T, s, q) <=> Cut(b[pos + 1][1], end - start, loop.done)
      <4>0. T[q] = <<c, Size[c]>>
        BY <2>2, <3>8
      <4>1. b[pos + 1][1] = c /\ q - s = end - start
        <5>1. q - s = end - start
          BY <1>14, <3>1, <3>8
        <5> QED BY <2>3, <5>1
      <4>2. LastByte(T[q]) /\ T[q][1] = c
        BY <4>0 DEF LastByte
      <4>3. (s > 0) \in BOOLEAN /\ loop.done = (s > 0)
        BY <1>2, <1>4
      <4> QED BY <4>1, <4>2, <4>3, Zenon DEF MayEnd
    <3>6. CASE MayEnd(T, s, q)
      <4>1. FirstEnd(T, s, q)
        BY <3>3, <3>4, <3>6 DEF FirstEnd
      <4> DEFINE x == SubSeq(b, start + 1, end)
      <4>2. x = SubSeq(T, s + 1, q)
        <5>1. start \in 0..(m - t) /\ end \in start..(m - t)
          BY <1>1, <1>2, <1>4, <3>1
        <5>2. x = SubSeq(T, t + start + 1, t + end)
          BY <1>13, <5>1
        <5> QED BY <1>11, <3>8, <5>2
      <4>3. IsCut(T, s, <<x>>, q)
        <5>1. s \in 0..Len(T)
          BY <1>14 DEF N
        <5> HIDE DEF x
        <5> QED BY <1>0, <3>3, <4>1, <4>2, <5>1, CutOnce
      <4>4. LoopAt(T, t, AtCut(end))
        <5>1. NoEnd(T, q, q)
          <6> (q + 1)..q = {}
            BY <3>3
          <6> QED BY Zenon DEF NoEnd
        <5>2. AtCut(end).start = end /\ AtCut(end).pos = end /\ AtCut(end).done = TRUE
          BY DEF AtCut
        <5>3. end <= end /\ q > 0
          BY <3>1, <3>3, <1>2
        <5> QED BY <3>3, <3>8, <5>1, <5>2, <5>3 DEF LoopAt
      <4> DEFINE r == f[AtCut(end)]
      <4>5. PICK u : Finds(T, q, m, r, u)
        <5>1. AtCut(end).start = end /\ AtCut(end).pos > loop.pos
          BY <1>2, <1>11, <3>1, <3>2 DEF AtCut
        <5> QED BY <3>2, <3>8, <4>4, <5>1 DEF FindsBehind
      <4>6. f[loop] = [r EXCEPT !.cut = <<x>> \o @]
        BY <1>3, <1>6, <2>7, <3>5, <3>6, Zenon DEF Turn, end, start, pos, n
      <4> HIDE DEF r, x
      <4>7. /\ r = [rest |-> r.rest, done |-> r.done, cut |-> r.cut]
            /\ f[loop] = [rest |-> r.rest, done |-> r.done, cut |-> <<x>> \o r.cut]
        <5>1. r = [rest |-> r.rest, done |-> r.done, cut |-> r.cut]
          BY <4>5 DEF Finds
        <5> QED BY <4>6, <5>1
      <4>8. IsCut(T, s, <<x>> \o r.cut, u)
        BY <1>0, <4>3, <4>5, CutTwice DEF Finds
      <4>9. Finds(T, s, m, f[loop], u)
        <5>1. /\ f[loop].rest = r.rest /\ f[loop].done = r.done /\ f[loop].cut = <<x>> \o r.cut
              /\ f[loop] = [rest |-> f[loop].rest, done |-> f[loop].done, cut |-> f[loop].cut]
          BY <4>7
        <5>2. u \in q..m /\ u \in s..m
          BY <1>0, <1>2, <3>3, <4>5 DEF Finds
        <5> QED BY <4>5, <4>8, <5>1, <5>2, Zenon DEF Finds
      <4> QED BY <1>11, <4>9
    <3>7. CASE ~MayEnd(T, s, q)
      <4>1. NoEnd(T, s, q)
        <5> SUFFICES ASSUME NEW e \in (s + 1)..q PROVE ~MayEnd(T, s, e)
          BY DEF NoEnd
        <5>1. e \in (s + 1)..(q - 1) \/ e = q
          BY <1>2, <3>3
        <5> QED BY <3>4, <3>7, <5>1 DEF NoEnd
      <4>2. LoopAt(T, t, next)
        <5>1. next.start <= next.pos
          BY <1>2, <1>4, <1>11, <3>1, <3>2
        <5> HIDE DEF next
        <5> QED BY <1>4, <1>11, <3>2, <3>3, <3>8, <4>1, <5>1 DEF LoopAt
      <4>3. f[loop] = f[next]
        BY <1>3, <1>6, <2>7, <3>5, <3>7, Zenon DEF Turn, end, start, pos, n
      <4>4. next.pos > loop.pos /\ next.start = loop.start
        BY <1>2, <1>11, <3>1, <3>2
      <4>5. \E u : Finds(T, t + next.start, m, f[next], u)
        BY <3>2, <4>2, <4>4 DEF FindsBehind
      <4> QED BY <4>3, <4>4, <4>5
    <3> QED BY <3>6, <3>7
  <2> QED BY <2>6, <2>7
<1> QED BY <1>5, <1>6

LEMMA ScanFinds ==
  ASSUME NEW T, WholeChars(T), NEW m \in 0..Len(T), NEW t \in 0..m, Bound(T, t),
         NEW b, b = SubSeq(T, t + 1, m), NEW firstDone \in BOOLEAN, firstDone <=> t > 0
  PROVE  \E u : Finds(T, t, m, Scan(b, firstDone), u)
<1>0. T \in Seq(Byte) /\ Len(T) \in Nat
  BY LenProperties DEF WholeChars
<1>1. b \in Seq(Byte) /\ Len(b) = m - t /\ Len(b) \in Nat
  <2>1. b \in Seq(Byte) /\ Len(b) = m - t
    BY <1>0, PartOfPart
  <2> QED BY <2>1, LenProperties
<1>2. PICK f : /\ f = [loop \in Loops(b) |-> Turn(b, f, loop)]
               /\ Scan(b, firstDone) = f[[start |-> 0, pos |-> 0, done |-> firstDone]]
  BY <1>1, ScanIsLoop
<1>3. Scans(T, t, m, b, f)
  BY <1>2, Zenon DEF Scans
<1> DEFINE Good(l) == LoopAt(T, t, l) => \E u : Finds(T, t + l.start, m, f[l], u)
           Done == {n \in Nat : \A l \in Loops(b) : Len(b) - l.pos = n => Good(l)}
<1> HIDE DEF Good
<1>4. ASSUME NEW k \in Nat, \A n \in 0..k - 1 : n \in Done
      PROVE  k \in Done
  <2> SUFFICES ASSUME NEW l \in Loops(b), Len(b) - l.pos = k, LoopAt(T, t, l)
               PROVE  \E u : Finds(T, t + l.start, m, f[l], u)
    BY DEF Good
  <2>1. FindsBehind(T, t, m, b, f, l.pos)
    <3> SUFFICES ASSUME NEW h \in Loops(b), h.pos > l.pos
                 PROVE  Good(h)
      BY DEF Good, FindsBehind
    <3>1. l.pos \in 0..Len(b) /\ h.pos \in 0..Len(b)
      BY DEF Loops
    <3>2. Len(b) - h.pos \in 0..k - 1
      <4>1. Len(b) \in Nat /\ Len(b) - l.pos = k /\ h.pos > l.pos
        BY <1>1
      <4> QED BY <3>1, <4>1
    <3>3. Len(b) - h.pos \in Done
      BY <1>4, <3>2, Zenon
    <3> QED BY <3>3
  <2> QED BY <1>3, <2>1, LoopFinds
<1> HIDE DEF Done
<1>5. Nat \subseteq Done
  BY <1>4, AllNumbers
<1> USE DEF Done
<1> DEFINE first == [start |-> 0, pos |-> 0, done |-> firstDone]
<1>6. first \in Loops(b) /\ first.start = 0 /\ first.pos = 0 /\ first.done = firstDone
  BY <1>1 DEF Loops
<1> HIDE DEF first
<1>7. Good(first)
  <2>1. Len(b) - first.pos \in Nat
    BY <1>1, <1>6
  <2> QED BY <1>5, <1>6, <2>1
<1>8. LoopAt(T, t, first)
  <2>1. t + 0 = t /\ (t + 1)..t = {}
    BY <1>0
  <2> QED BY <1>6, <2>1 DEF LoopAt, NoEnd
<1>9. t + first.start = t
  BY <1>0, <1>6
<1>10. \E u : Finds(T, t, m, f[first], u)
  BY <1>7, <1>8, <1>9 DEF Good
<1> QED BY <1>2, <1>10 DEF first

-----------------------------------------------------------------------------
(* Sentences that lie side by side are the text together. *)

Parts(T, c, cut, t) ==
  /\ c \in [0..Len(cut) -> 0..Len(T)]
  /\ c[0] = 0 /\ c[Len(cut)] = t
  /\ \A i \in 1..Len(cut) : /\ c[i - 1] <= c[i]
                            /\ cut[i] = SubSeq(T, c[i - 1] + 1, c[i])

LEMMA PartsTogether ==
  ASSUME NEW T \in Seq(Byte), NEW cut \in Seq(Seq(Byte)), NEW c, NEW t, Parts(T, c, cut, t)
  PROVE  FlattenSeq(cut) = SubSeq(T, 1, t)
<1> DEFINE N == Len(cut)
<1>0. N \in Nat /\ Len(T) \in Nat
  BY LenProperties
<1>1. /\ c \in [0..N -> 0..Len(T)] /\ c[0] = 0 /\ c[N] = t
      /\ \A i \in 1..N : c[i - 1] <= c[i] /\ cut[i] = SubSeq(T, c[i - 1] + 1, c[i])
  BY DEF Parts
<1>2. CASE N = 0
  <2>1. cut = <<>> /\ FlattenSeq(cut) = <<>>
    BY <1>2, EmptySeq, Zenon DEF FlattenSeq
  <2>2. SubSeq(T, 1, 0) = <<>>
    BY SubSeqEmpty
  <2> QED BY <1>1, <1>2, <2>1, <2>2
<1>3. CASE N # 0
  <2>1. PICK f : Together(Byte, cut, f, N) /\ FlattenSeq(cut) = f[N]
    BY <1>3, Flattened
  <2> HIDE DEF N
  <2> DEFINE Done == {n \in Nat : n \in 1..N => f[n] = SubSeq(T, 1, c[n])}
  <2>2. ASSUME NEW k \in Nat, \A n \in 0..k - 1 : n \in Done
        PROVE  k \in Done
    <3> SUFFICES ASSUME k \in 1..N
                 PROVE  f[k] = SubSeq(T, 1, c[k])
      OBVIOUS
    <3>1. cut[k] = SubSeq(T, c[k - 1] + 1, c[k]) /\ c[k - 1] <= c[k]
      BY <1>1
    <3>2. CASE k = 1
      <4>1. f[1] = cut[1]
        BY <1>0, <1>3, <2>1 DEF Together
      <4>2. c[1 - 1] = 0 /\ 0 + 1 = 1
        BY <1>1
      <4> QED BY <3>1, <3>2, <4>1, <4>2
    <3>3. CASE k # 1
      <4>1. /\ k - 1 \in 0..k - 1 /\ k - 1 \in 1..N /\ k \in 2..N
            /\ k - 1 \in 0..N /\ k \in 0..N
        BY <1>0, <3>3
      <4>2. k - 1 \in Done
        BY <2>2, <4>1, Zenon
      <4>3. f[k - 1] = SubSeq(T, 1, c[k - 1])
        BY <4>1, <4>2
      <4>4. f[k] = f[k - 1] \o cut[k]
        BY <2>1, <4>1, Zenon DEF Together
      <4>5. c[k - 1] \in 0..Len(T) /\ c[k] \in 0..Len(T)
        BY <1>1, <4>1
      <4>6. 1 \in 1..Len(T) + 1 /\ c[k - 1] \in 1 - 1..Len(T) /\ c[k] \in c[k - 1]..Len(T)
        BY <1>0, <3>1, <4>5
      <4>7. SubSeq(T, 1, c[k - 1]) \o SubSeq(T, c[k - 1] + 1, c[k]) = SubSeq(T, 1, c[k])
        BY <4>6, ConcatAdjacentSubSeq
      <4> QED BY <3>1, <4>3, <4>4, <4>7
    <3> QED BY <3>2, <3>3
  <2> HIDE DEF Done
  <2>3. Nat \subseteq Done
    BY <2>2, AllNumbers
  <2> USE DEF Done
  <2>4. f[N] = SubSeq(T, 1, c[N])
    BY <1>0, <1>3, <2>3
  <2> QED BY <1>1, <2>1, <2>4
<1> QED BY <1>2, <1>3

LEMMA CutIsParts ==
  ASSUME NEW T \in Seq(Byte), NEW c, NEW cut, NEW t,
         CutBy(T, c, 0, cut, t), Len(cut) \in Nat
  PROVE  Parts(T, c, cut, t)
<1>1. Len(T) \in Nat /\ t \in 0..Len(T) /\ c \in [0..Len(cut) -> 0..t]
  BY LenProperties DEF CutBy
<1>2. c \in [0..Len(cut) -> 0..Len(T)]
  BY <1>1
<1>3. \A i \in 1..Len(cut) : c[i - 1] <= c[i]
  <2> TAKE i \in 1..Len(cut)
  <2>1. c[i - 1] < c[i]
    BY DEF CutBy, FirstEnd
  <2>2. c[i - 1] \in Nat /\ c[i] \in Nat
    BY <1>1
  <2> QED BY <2>1, <2>2
<1> QED BY <1>2, <1>3 DEF CutBy, Parts

LEMMA CutTogether ==
  ASSUME NEW T \in Seq(Byte), NEW cut, NEW t, IsCut(T, 0, cut, t)
  PROVE  FlattenSeq(cut) = SubSeq(T, 1, t)
<1>1. cut \in Seq(Seq(Byte)) /\ Len(cut) \in Nat
  BY LenProperties DEF IsCut
<1>2. PICK c : CutBy(T, c, 0, cut, t)
  BY DEF IsCut
<1> QED BY <1>1, <1>2, CutIsParts, PartsTogether

\* With what is left.
LEMMA CutAndRest ==
  ASSUME NEW T \in Seq(Byte), NEW cut, NEW t \in 0..Len(T), IsCut(T, 0, cut, t),
         NEW n \in t..Len(T)
  PROVE  LET all == Append(cut, SubSeq(T, t + 1, n))
         IN  /\ all \in Seq(Seq(Byte)) /\ Front(all) = cut
             /\ FlattenSeq(all) = SubSeq(T, 1, n)
<1> DEFINE x == SubSeq(T, t + 1, n)
           all == Append(cut, x)
           N == Len(cut)
<1>1. cut \in Seq(Seq(Byte)) /\ N \in Nat /\ Len(T) \in Nat
  BY LenProperties DEF IsCut
<1>2. x \in Seq(Byte)
  <2> \A i \in (t + 1)..n : T[i] \in Byte
    BY <1>1, ElementOfSeq
  <2> t + 1 \in Int /\ n \in Int
    BY <1>1
  <2> QED BY SubSeqProperties
<1> HIDE DEF x
<1>3. /\ all \in Seq(Seq(Byte)) /\ Len(all) = N + 1
      /\ \A i \in 1..N : all[i] = cut[i]
      /\ all[N + 1] = x
  BY <1>1, <1>2, AppendProperties
<1>4. Front(all) = cut
  <2> DEFINE fr == SubSeq(all, 1, N)
  <2>1. Front(all) = fr
    BY <1>1, <1>3 DEF Front
  <2> HIDE DEF all
  <2>2. \A i \in 1..N : all[i] \in Seq(Byte)
    BY <1>1, <1>3, ElementOfSeq
  <2>3. /\ fr \in Seq(Seq(Byte))
        /\ Len(fr) = IF 1 <= N THEN N - 1 + 1 ELSE 0
        /\ \A i \in 1..N - 1 + 1 : fr[i] = all[1 + i - 1]
    BY <1>1, <2>2, SubSeqProperties
  <2>4. Len(fr) = N /\ \A i \in 1..N : fr[i] = cut[i]
    <3>1. Len(fr) = N
      BY <1>1, <2>3
    <3>2. ASSUME NEW i \in 1..N
          PROVE  fr[i] = cut[i]
      <4> HIDE DEF fr
      <4>1. i \in 1..N - 1 + 1 /\ 1 + i - 1 = i
        BY <1>1
      <4>2. fr[i] = all[1 + i - 1]
        BY <2>3, <4>1, Zenon
      <4> QED BY <1>3, <4>1, <4>2
    <3> QED BY <3>1, <3>2
  <2> HIDE DEF fr
  <2>5. fr = cut
    BY <1>1, <2>3, <2>4, SeqEqual
  <2> QED BY <2>1, <2>5
<1>5. PICK c : CutBy(T, c, 0, cut, t)
  BY DEF IsCut
<1>6. Parts(T, c, cut, t)
  BY <1>1, <1>5, CutIsParts
<1> HIDE DEF all
<1> DEFINE d == [i \in 0..(N + 1) |-> IF i = N + 1 THEN n ELSE c[i]]
<1>7. /\ c \in [0..N -> 0..Len(T)] /\ c[0] = 0 /\ c[N] = t
      /\ \A i \in 1..N : c[i - 1] <= c[i] /\ cut[i] = SubSeq(T, c[i - 1] + 1, c[i])
  BY <1>6 DEF Parts
<1> HIDE DEF N
<1>8. /\ d \in [0..(N + 1) -> 0..Len(T)]
      /\ d[N + 1] = n /\ \A i \in 0..N : d[i] = c[i]
  <2>1. n \in 0..Len(T)
    BY <1>1
  <2>2. \A i \in 0..(N + 1) : IF i = N + 1 THEN n \in 0..Len(T) ELSE c[i] \in 0..Len(T)
    <3> TAKE i \in 0..(N + 1)
    <3>1. i = N + 1 \/ i \in 0..N
      BY <1>1
    <3> QED BY <1>7, <2>1, <3>1
  <2>3. d[N + 1] = n /\ \A i \in 0..N : d[i] = c[i]
    BY <1>1
  <2> QED BY <2>2, <2>3
<1> HIDE DEF d
<1>9. ASSUME NEW i \in 1..(N + 1)
      PROVE  d[i - 1] <= d[i] /\ all[i] = SubSeq(T, d[i - 1] + 1, d[i])
  <2>1. CASE i = N + 1
    <3>1. i - 1 = N /\ N \in 0..N /\ t <= n
      BY <1>1, <2>1
    <3>2. d[i - 1] = t /\ d[i] = n
      BY <1>7, <1>8, <2>1, <3>1
    <3> QED BY <1>3, <2>1, <3>1, <3>2 DEF x
  <2>2. CASE i # N + 1
    <3>1. i \in 1..N /\ i \in 0..N /\ i - 1 \in 0..N
      BY <1>1, <2>2
    <3> QED BY <1>3, <1>7, <1>8, <3>1, Zenon
  <2> QED BY <2>1, <2>2
<1>10. d[0] = 0
  <2> 0 \in 0..N
    BY <1>1
  <2> QED BY <1>7, <1>8
<1>11. Parts(T, d, all, n)
  BY <1>3, <1>8, <1>9, <1>10 DEF Parts
<1>12. FlattenSeq(all) = SubSeq(T, 1, n)
  BY <1>3, <1>11, PartsTogether
<1> QED BY <1>3, <1>4, <1>12 DEF all, x

-----------------------------------------------------------------------------
(* SentencesOf: the same sentences, from the text in one piece. *)

EndsBehind(b, start) ==
  {e \in CharEnds(b) : e > start /\ Cut(b[e][1], e - start, start > 0)}
Behind(b, f, start) ==
  IF EndsBehind(b, start) = {} THEN <<>>
  ELSE <<SubSeq(b, start + 1, Min(EndsBehind(b, start)))>> \o f[Min(EndsBehind(b, start))]

LEMMA EndsAreBehind ==
  ASSUME NEW b \in Seq(Byte), NEW start \in 0..Len(b), EndsBehind(b, start) # {}
  PROVE  Min(EndsBehind(b, start)) \in (start + 1)..Len(b)
<1> DEFINE S == EndsBehind(b, start)
<1>0. Len(b) \in Nat
  BY LenProperties
<1>1. S \subseteq (start + 1)..Len(b)
  BY <1>0 DEF EndsBehind, CharEnds
<1> HIDE DEF S
<1>2. S # {}
  BY DEF S
<1>3. S \subseteq Nat /\ S \subseteq Int
  BY <1>0, <1>1
<1>4. PICK k \in S : \A n \in S : k <= n
  BY <1>2, <1>3, FirstPlace
<1>5. Min(S) = k
  BY <1>3, <1>4, MinIs
<1> QED BY <1>1, <1>4, <1>5 DEF S

LEMMA WholeEnds ==
  ASSUME NEW b \in Seq(Byte)
  PROVE  \E f : f = [start \in 0..Len(b) |-> Behind(b, f, start)]
<1> DEFINE L == Len(b)
           Left(n) == {start \in 0..L : L - start <= n}
           Done == {n \in Nat : \E f : f = [start \in Left(n) |-> Behind(b, f, start)]}
<1>0. L \in Nat
  BY LenProperties
<1>1. ASSUME NEW k \in Nat, \A n \in 0..k - 1 : n \in Done
      PROVE  k \in Done
  <2>1. \E f : k > 0 => f = [start \in Left(k - 1) |-> Behind(b, f, start)]
    <3>1. CASE k = 0
      BY <3>1
    <3>2. CASE k # 0
      <4>1. k - 1 \in 0..k - 1
        BY <3>2
      <4>2. k - 1 \in Done
        BY <1>1, <4>1, Zenon
      <4> QED BY <4>2, Zenon
    <3> QED BY <3>1, <3>2
  <2>2. PICK f : k > 0 => f = [start \in Left(k - 1) |-> Behind(b, f, start)]
    BY <2>1
  <2> DEFINE g == [start \in Left(k) |-> Behind(b, f, start)]
  <2>3. \A start \in Left(k) : g[start] = Behind(b, f, start)
    OBVIOUS
  <2>4. g = [start \in Left(k) |-> g[start]]
    OBVIOUS
  <2> HIDE DEF g
  <2>5. ASSUME NEW start \in Left(k - 1), k > 0
        PROVE  g[start] = f[start]
    <3>1. start \in Left(k)
      BY <1>0
    <3>2. f[start] = Behind(b, f, start)
      BY <2>2, <2>5, Zenon
    <3> QED BY <2>3, <3>1, <3>2, Zenon
  <2>6. ASSUME NEW start \in Left(k)
        PROVE  Behind(b, f, start) = Behind(b, g, start)
    <3>1. CASE EndsBehind(b, start) = {}
      BY <3>1, Zenon DEF Behind
    <3>2. CASE EndsBehind(b, start) # {}
      <4> DEFINE e == Min(EndsBehind(b, start))
      <4>1. start \in 0..L /\ L - start <= k
        OBVIOUS
      <4>2. e \in (start + 1)..L
        BY <3>2, <4>1, EndsAreBehind
      <4> HIDE DEF e
      <4>3. k > 0 /\ e \in Left(k - 1)
        BY <1>0, <4>1, <4>2
      <4>4. g[e] = f[e]
        BY <2>5, <4>3, Zenon
      <4> QED BY <3>2, <4>4, Zenon DEF Behind, e
    <3> QED BY <3>1, <3>2
  <2>7. \A start \in Left(k) : g[start] = Behind(b, g, start)
    BY <2>3, <2>6, Zenon
  <2>8. g = [start \in Left(k) |-> Behind(b, g, start)]
    BY <2>4, <2>7, Zenon
  <2> QED BY <2>8, Zenon
<1> HIDE DEF Done
<1>2. Nat \subseteq Done
  BY <1>1, AllNumbers
<1> USE DEF Done
<1>3. PICK f : f = [start \in Left(L) |-> Behind(b, f, start)]
  BY <1>0, <1>2
<1>4. Left(L) = 0..L
  BY <1>0
<1> QED BY <1>3, <1>4

LEMMA SentencesAreBehind ==
  ASSUME NEW b \in Seq(Byte)
  PROVE  \E f : /\ f = [start \in 0..Len(b) |-> Behind(b, f, start)]
                /\ SentencesOf(b) = f[0]
<1>1. PICK f : f = [start \in 0..Len(b) |-> Behind(b, f, start)]
  BY WholeEnds
<1> QED BY <1>1, Zenon DEF SentencesOf, Behind, EndsBehind

\* The places of a beginning of the text are those of the text.
LEMMA EndsOfBeginning ==
  ASSUME NEW T \in Seq(Byte), NEW n \in 0..Len(T), NEW s \in 0..n
  PROVE  EndsBehind(SubSeq(T, 1, n), s) = {e \in (s + 1)..n : MayEnd(T, s, e)}
<1> DEFINE b == SubSeq(T, 1, n)
<1>1. n \in Nat /\ Len(b) = n /\ \A i \in 1..n : b[i] = T[i]
  <2>1. Len(T) \in Nat /\ 0 \in 0..n
    BY LenProperties
  <2>2. n \in Nat /\ n - 0 = n /\ 0 + 1 = 1 /\ \A i \in 1..n : 0 + i = i
    BY <2>1
  <2>3. LET a == SubSeq(T, 0 + 1, n)
        IN  Len(a) = n - 0 /\ \A i \in 1..(n - 0) : a[i] = T[0 + i]
    BY <2>1, PartOfPart
  <2> QED BY <2>2, <2>3
<1> HIDE DEF b
<1>2. \A e : e \in EndsBehind(b, s) <=> e \in (s + 1)..n /\ MayEnd(T, s, e)
  <2> TAKE e
  <2>1. e \in EndsBehind(b, s)
          <=> e \in 1..n /\ e > s /\ LastByte(b[e]) /\ Cut(b[e][1], e - s, s > 0)
    BY <1>1, Zenon DEF EndsBehind, CharEnds, LastByte
  <2>2. e \in 1..n /\ e > s <=> e \in (s + 1)..n
    BY <1>1
  <2>3. e \in 1..n => b[e] = T[e]
    BY <1>1
  <2> QED BY <2>1, <2>2, <2>3, Zenon DEF MayEnd
<1>3. EndsBehind(b, s) = {e \in (s + 1)..n : MayEnd(T, s, e)}
  BY <1>2, Zenon
<1> QED BY <1>3 DEF b

LEMMA SameAsWhole ==
  ASSUME NEW T \in Seq(Byte), NEW n \in 0..Len(T), NEW cut, NEW t \in 0..n,
         IsCut(T, 0, cut, t), NoEnd(T, t, n)
  PROVE  SentencesOf(SubSeq(T, 1, n)) = cut
<1> DEFINE b == SubSeq(T, 1, n)
           N == Len(cut)
<1>0. /\ cut \in Seq(Seq(Byte)) /\ N \in Nat /\ Len(T) \in Nat /\ n \in Nat
      /\ \A i \in 1..N : cut[i] \in Seq(Byte)
  BY LenProperties, ElementOfSeq DEF IsCut
<1>1. PICK c : CutBy(T, c, 0, cut, t)
  BY DEF IsCut
<1>2. /\ c \in [0..N -> 0..t] /\ c[0] = 0 /\ c[N] = t
      /\ \A i \in 1..N : FirstEnd(T, c[i - 1], c[i]) /\ cut[i] = SubSeq(T, c[i - 1] + 1, c[i])
  BY <1>1 DEF CutBy
<1>3. /\ b \in Seq(Byte) /\ Len(b) = n
      /\ \A s \in 0..n : \A e \in s..n : SubSeq(b, s + 1, e) = SubSeq(T, s + 1, e)
  <2>1. 0 \in 0..n
    BY <1>0
  <2>2. LET a == SubSeq(T, 0 + 1, n)
        IN  /\ a \in Seq(Byte) /\ Len(a) = n - 0
            /\ \A s \in 0..(n - 0) : \A e \in s..(n - 0) :
                 SubSeq(a, s + 1, e) = SubSeq(T, 0 + s + 1, 0 + e)
    BY <2>1, PartOfPart
  <2>3. n - 0 = n /\ 0 + 1 = 1 /\ \A s \in 0..n : 0 + s + 1 = s + 1 /\ \A e \in s..n : 0 + e = e
    BY <1>0
  <2> QED BY <2>2, <2>3
<1>4. PICK f : /\ f = [start \in 0..Len(b) |-> Behind(b, f, start)]
               /\ SentencesOf(b) = f[0]
  BY <1>3, SentencesAreBehind
<1>5. \A start \in 0..n : f[start] = Behind(b, f, start)
  BY <1>3, <1>4, Zenon
<1>6. \A s \in 0..n : EndsBehind(b, s) = {e \in (s + 1)..n : MayEnd(T, s, e)}
  BY EndsOfBeginning
<1> HIDE DEF b, N
<1> DEFINE Done == {j \in Nat : j \in 0..N => f[c[N - j]] = SubSeq(cut, N - j + 1, N)}
<1>7. ASSUME NEW k \in Nat, \A j \in 0..k - 1 : j \in Done
      PROVE  k \in Done
  <2> SUFFICES ASSUME k \in 0..N
               PROVE  f[c[N - k]] = SubSeq(cut, N - k + 1, N)
    OBVIOUS
  <2>1. CASE k = 0
    <3>1. EndsBehind(b, t) = {}
      BY <1>6 DEF NoEnd
    <3>2. f[t] = <<>>
      BY <1>5, <3>1, Zenon DEF Behind
    <3>3. SubSeq(cut, N + 1, N) = <<>>
      BY <1>0, SubSeqEmpty
    <3>4. N - k = N
      BY <1>0, <2>1
    <3> QED BY <1>2, <3>2, <3>3, <3>4
  <2>2. CASE k # 0
    <3> DEFINE i == N - (k - 1)
    <3>1. /\ k - 1 \in 0..k - 1 /\ k - 1 \in 0..N /\ i \in 1..N /\ i \in 0..N /\ i - 1 \in 0..N
          /\ N - k = i - 1 /\ i \in Int /\ N - k + 1 = i /\ N - (k - 1) = i
      BY <1>0, <2>2
    <3>2. k - 1 \in Done
      BY <1>7, <3>1, Zenon
    <3>3. f[c[N - (k - 1)]] = SubSeq(cut, N - (k - 1) + 1, N)
      BY <3>1, <3>2
    <3> HIDE DEF i
    <3>4. f[c[i]] = SubSeq(cut, i + 1, N)
      BY <3>1, <3>3
    <3> DEFINE s == c[i - 1]
               e == c[i]
    <3>5. s \in 0..n /\ s \in Nat /\ e \in 0..t /\ e \in Nat /\ e \in 0..n
      <4>1. s \in 0..t /\ e \in 0..t
        BY <1>2, <3>1
      <4> QED BY <1>0, <4>1
    <3>6. FirstEnd(T, s, e) /\ cut[i] = SubSeq(T, s + 1, e)
      BY <1>2, <3>1
    <3> HIDE DEF s, e
    <3>7. s < e /\ e \in s..n
      BY <1>0, <3>5, <3>6 DEF FirstEnd
    <3> DEFINE S == EndsBehind(b, s)
    <3>8. S = {x \in (s + 1)..n : MayEnd(T, s, x)}
      BY <1>6, <3>5
    <3>9. Min(S) = e /\ S # {}
      <4>1. e \in S
        BY <3>5, <3>6, <3>7, <3>8 DEF FirstEnd
      <4>2. \A x \in S : e <= x
        <5> SUFFICES ASSUME NEW x \in (s + 1)..n, MayEnd(T, s, x), x < e
                     PROVE  FALSE
          BY <1>0, <3>5, <3>8
        <5>1. x \in (s + 1)..(e - 1)
          BY <3>5
        <5> QED BY <3>6, <5>1 DEF FirstEnd, NoEnd
      <4>3. S \subseteq Int
        BY <1>0, <3>5, <3>8
      <4> HIDE DEF S
      <4> QED BY <4>1, <4>2, <4>3, MinIs
    <3>10. f[s] = <<SubSeq(b, s + 1, e)>> \o f[e]
      <4>1. f[s] = Behind(b, f, s)
        BY <1>5, <3>5
      <4> QED BY <3>9, <4>1, Zenon DEF Behind
    <3>11. SubSeq(b, s + 1, e) = cut[i]
      BY <1>3, <3>5, <3>6, <3>7
    <3>12. f[e] = SubSeq(cut, i + 1, N)
      BY <3>4 DEF e
    <3>13. SubSeq(cut, i, N) = <<cut[i]>> \o SubSeq(cut, i + 1, N)
      <4>1. i \in 1..Len(cut) /\ N \in i..Len(cut)
        BY <1>0, <3>1 DEF N
      <4> QED BY <1>0, <4>1, SubSeqRecursiveFirst
    <3>14. f[c[i - 1]] = SubSeq(cut, i, N)
      BY <3>10, <3>11, <3>12, <3>13 DEF s
    <3> QED BY <3>1, <3>14
  <2> QED BY <2>1, <2>2
<1> HIDE DEF Done
<1>8. Nat \subseteq Done
  BY <1>7, AllNumbers
<1> USE DEF Done
<1>9. f[c[N - N]] = SubSeq(cut, N - N + 1, N)
  <2> N \in Nat /\ N \in 0..N
    BY <1>0
  <2> QED BY <1>8
<1>10. N - N = 0 /\ 0 + 1 = 1
  BY <1>0
<1>11. f[0] = SubSeq(cut, 1, N)
  BY <1>2, <1>9, <1>10
<1>12. f[0] = cut
  BY <1>0, <1>11, SubSeqFull DEF N
<1> QED BY <1>4, <1>12 DEF b

-----------------------------------------------------------------------------
(* The splitter. *)

\* All the sentences that end in what was fed are handed on, and the buffer is
\* what follows them.
Feeding(T) ==
  \E t \in 0..fed :
    /\ Bound(T, t) /\ NoEnd(T, t, fed)
    /\ IsCut(T, 0, sentences, t)
    /\ buffer = SubSeq(T, t + 1, fed)
    /\ firstCutDone <=> t > 0

\* The reply has ended, and its tail was handed on too.
Flushed(T) ==
  /\ fed = Len(T) /\ buffer = <<>>
  /\ \E t \in 0..fed : \E cut :
       /\ t < fed /\ NoEnd(T, t, fed)
       /\ IsCut(T, 0, cut, t)
       /\ sentences = Append(cut, SubSeq(T, t + 1, fed))

SplitterInv ==
  /\ reply \in Seq(Chars) /\ fed \in 0..Len(Bytes(reply)) /\ firstCutDone \in BOOLEAN
  /\ Feeding(Bytes(reply)) \/ Flushed(Bytes(reply))

LEMMA SplitterStarts == SplitterInit => SplitterInv
<1> SUFFICES ASSUME SplitterInit
             PROVE  SplitterInv
  OBVIOUS
<1> DEFINE T == Bytes(reply)
<1>1. reply \in Seq(Chars)
  <2>1. PICK n \in 0..MaxChars : reply \in [1..n -> Chars]
    BY DEF SplitterInit
  <2>2. n \in Nat
    BY SplitterAssumption
  <2> QED BY <2>1, <2>2, SeqDef
<1>2. WholeChars(T) /\ T \in Seq(Byte) /\ Len(T) \in Nat
  <2>1. WholeChars(T)
    BY <1>1, BytesAreWhole
  <2> QED BY <2>1, LenProperties DEF WholeChars
<1>3. fed = 0 /\ buffer = <<>> /\ firstCutDone = FALSE /\ sentences = <<>>
  BY DEF SplitterInit
<1> HIDE DEF T
<1>4. IsCut(T, 0, <<>>, 0)
  BY <1>2, CutNothing
<1>5. SubSeq(T, 0 + 1, 0) = <<>>
  BY SubSeqEmpty
<1>6. Bound(T, 0) /\ NoEnd(T, 0, 0) /\ 0 \in 0..0 /\ ~ (0 > 0)
  BY DEF Bound, NoEnd
<1>7. Feeding(T)
  BY <1>3, <1>4, <1>5, <1>6, Zenon DEF Feeding
<1>8. fed \in 0..Len(T) /\ firstCutDone \in BOOLEAN
  <2>1. 0 \in 0..Len(T)
    BY <1>2
  <2> QED BY <1>3, <2>1, Zenon
<1> QED BY <1>1, <1>7, <1>8, Zenon DEF SplitterInv, T

LEMMA FeedKeeps ==
  ASSUME SplitterInv, NEW n, Feed(n)
  PROVE  SplitterInv'
<1> DEFINE T == Bytes(reply)
           m == fed + n
           scan == Scan(buffer \o SubSeq(T, fed + 1, m), firstCutDone)
<1>1. /\ reply \in Seq(Chars) /\ fed \in 0..Len(T) /\ firstCutDone \in BOOLEAN
      /\ Feeding(T) \/ Flushed(T)
  BY DEF SplitterInv
<1>2. /\ n \in 1..(Len(T) - fed) /\ fed' = m /\ reply' = reply
      /\ sentences' = sentences \o scan.cut /\ buffer' = scan.rest /\ firstCutDone' = scan.done
  BY DEF Feed
<1>3. WholeChars(T) /\ T \in Seq(Byte) /\ Len(T) \in Nat
  <2>1. WholeChars(T)
    BY <1>1, BytesAreWhole
  <2> QED BY <2>1, LenProperties DEF WholeChars
<1>4. Bytes(reply') = T
  BY <1>2
<1> HIDE DEF T, scan
<1>5. fed \in Nat /\ m \in 0..Len(T) /\ m \in fed..Len(T) /\ fed # Len(T)
  BY <1>1, <1>2, <1>3
<1>6. PICK t \in 0..fed :
        /\ Bound(T, t) /\ NoEnd(T, t, fed)
        /\ IsCut(T, 0, sentences, t)
        /\ buffer = SubSeq(T, t + 1, fed)
        /\ firstCutDone <=> t > 0
  <2>1. ~Flushed(T)
    BY <1>5 DEF Flushed
  <2> QED BY <1>1, <2>1 DEF Feeding
<1> DEFINE b == SubSeq(T, t + 1, m)
<1>7. scan = Scan(b, firstCutDone)
  <2>1. t + 1 \in 1..Len(T) + 1 /\ fed \in (t + 1) - 1..Len(T) /\ t \in 0..m
    BY <1>1, <1>3, <1>5
  <2>2. buffer \o SubSeq(T, fed + 1, m) = b
    BY <1>3, <1>5, <1>6, <2>1, ConcatAdjacentSubSeq
  <2> QED BY <2>2 DEF scan
<1>8. t \in 0..m
  BY <1>5
<1> HIDE DEF m
<1>9. PICK u : Finds(T, t, m, scan, u)
  BY <1>1, <1>3, <1>5, <1>6, <1>7, <1>8, ScanFinds
<1>10. /\ u \in t..m /\ Bound(T, u) /\ NoEnd(T, u, m)
       /\ IsCut(T, t, scan.cut, u) /\ scan.rest = SubSeq(T, u + 1, m)
       /\ scan.done \in BOOLEAN /\ (scan.done <=> u > 0)
  BY <1>9, Zenon DEF Finds
<1>11. IsCut(T, 0, sentences \o scan.cut, u)
  BY <1>3, <1>6, <1>10, CutTwice
<1>12. u \in 0..m
  BY <1>5, <1>10
<1>13. \E x \in 0..fed' :
         /\ Bound(T, x) /\ NoEnd(T, x, fed')
         /\ IsCut(T, 0, sentences', x)
         /\ buffer' = SubSeq(T, x + 1, fed')
         /\ firstCutDone' <=> x > 0
  BY <1>2, <1>10, <1>11, <1>12, Zenon
<1>14. Feeding(Bytes(reply))'
  BY <1>4, <1>13 DEF Feeding
<1>15. fed' \in 0..Len(Bytes(reply')) /\ firstCutDone' \in BOOLEAN /\ reply' \in Seq(Chars)
  BY <1>1, <1>2, <1>4, <1>5, <1>10
<1> QED BY <1>14, <1>15 DEF SplitterInv

LEMMA FlushKeeps ==
  ASSUME SplitterInv, Flush
  PROVE  SplitterInv'
<1> DEFINE T == Bytes(reply)
<1>1. /\ reply \in Seq(Chars) /\ fed \in 0..Len(T) /\ firstCutDone \in BOOLEAN
      /\ Feeding(T) \/ Flushed(T)
  BY DEF SplitterInv
<1>2. /\ fed = Len(T) /\ buffer # <<>> /\ buffer' = <<>>
      /\ sentences' = Append(sentences, buffer)
      /\ reply' = reply /\ fed' = fed /\ firstCutDone' = firstCutDone
  BY DEF Flush
<1>3. Bytes(reply') = T /\ Len(T) \in Nat
  <2>1. WholeChars(T)
    BY <1>1, BytesAreWhole
  <2> QED BY <1>2, <2>1, LenProperties DEF WholeChars
<1> HIDE DEF T
<1>4. PICK t \in 0..fed :
        /\ NoEnd(T, t, fed) /\ IsCut(T, 0, sentences, t)
        /\ buffer = SubSeq(T, t + 1, fed)
  BY <1>1, <1>2 DEF Flushed, Feeding
<1>5. t < fed
  <2> SUFFICES ASSUME t = fed
               PROVE  FALSE
    BY <1>1, <1>3
  <2>1. SubSeq(T, t + 1, fed) = <<>>
    BY <1>1, <1>3, SubSeqEmpty
  <2> QED BY <1>2, <1>4, <2>1
<1>6. \E x \in 0..fed' : \E cut :
        /\ x < fed' /\ NoEnd(T, x, fed')
        /\ IsCut(T, 0, cut, x)
        /\ sentences' = Append(cut, SubSeq(T, x + 1, fed'))
  BY <1>2, <1>4, <1>5, Zenon
<1>7. Flushed(Bytes(reply))'
  BY <1>2, <1>3, <1>6 DEF Flushed
<1> QED BY <1>1, <1>2, <1>3, <1>7 DEF SplitterInv

LEMMA SplitterInvTheorem == SplitterSpec => []SplitterInv
<1>1. SplitterInv /\ [SplitterNext]_splitterVars => SplitterInv'
  <2> SUFFICES ASSUME SplitterInv, [SplitterNext]_splitterVars
               PROVE  SplitterInv'
    OBVIOUS
  <2>1. CASE UNCHANGED splitterVars
    BY <2>1 DEF splitterVars, SplitterInv, Feeding, Flushed
  <2>2. CASE Flush
    BY <2>2, FlushKeeps
  <2>3. ASSUME NEW n \in 1..Len(Bytes(reply)), Feed(n)
        PROVE  SplitterInv'
    BY <2>3, FeedKeeps
  <2> QED BY <2>1, <2>2, <2>3 DEF SplitterNext
<1> QED BY SplitterStarts, <1>1, PTL DEF SplitterSpec

LEMMA SplitterInvImplies == SplitterInv => SameSentences
<1> SUFFICES ASSUME SplitterInv
             PROVE  SameSentences
  OBVIOUS
<1> DEFINE T == Bytes(reply)
           text == SubSeq(T, 1, fed)
<1>1. /\ reply \in Seq(Chars) /\ fed \in 0..Len(T)
      /\ Feeding(T) \/ Flushed(T)
  BY DEF SplitterInv
<1>2. T \in Seq(Byte) /\ Len(T) \in Nat
  <2>1. WholeChars(T)
    BY <1>1, BytesAreWhole
  <2> QED BY <2>1, LenProperties DEF WholeChars
<1>3. text \in Seq(Byte)
  <2>1. \A i \in 1..fed : T[i] \in Byte
    BY <1>1, <1>2, ElementOfSeq
  <2>2. 1 \in Int /\ fed \in Int
    BY <1>1, <1>2
  <2> QED BY <2>1, <2>2, SubSeqProperties
<1> SUFFICES /\ FlattenSeq(sentences) \o buffer = text
             /\ \/ sentences = SentencesOf(text)
                \/ buffer = <<>> /\ fed = Len(T) /\ sentences # <<>>
                     /\ Front(sentences) = SentencesOf(text)
  BY DEF SameSentences
<1> HIDE DEF T
<1>4. CASE Feeding(T)
  <2>1. PICK t \in 0..fed :
          /\ NoEnd(T, t, fed) /\ IsCut(T, 0, sentences, t)
          /\ buffer = SubSeq(T, t + 1, fed)
    BY <1>4 DEF Feeding
  <2>2. FlattenSeq(sentences) = SubSeq(T, 1, t)
    BY <1>2, <2>1, CutTogether
  <2>3. 1 \in 1..Len(T) + 1 /\ t \in 1 - 1..Len(T) /\ fed \in t..Len(T)
    BY <1>1, <1>2
  <2>4. SubSeq(T, 1, t) \o SubSeq(T, t + 1, fed) = text
    BY <1>2, <2>3, ConcatAdjacentSubSeq
  <2>5. SentencesOf(text) = sentences
    BY <1>1, <1>2, <2>1, SameAsWhole
  <2> QED BY <2>1, <2>2, <2>4, <2>5
<1>5. CASE Flushed(T)
  <2>8. PICK t \in 0..fed : \E cut :
          /\ NoEnd(T, t, fed) /\ IsCut(T, 0, cut, t)
          /\ sentences = Append(cut, SubSeq(T, t + 1, fed))
    BY <1>5 DEF Flushed
  <2>1. PICK cut :
          /\ NoEnd(T, t, fed) /\ IsCut(T, 0, cut, t)
          /\ sentences = Append(cut, SubSeq(T, t + 1, fed))
    BY <2>8
  <2>2. fed = Len(T) /\ buffer = <<>>
    BY <1>5 DEF Flushed
  <2>3. t \in 0..Len(T) /\ fed \in t..Len(T)
    BY <1>1, <1>2
  <2>4. Front(sentences) = cut /\ FlattenSeq(sentences) = text
    BY <1>2, <2>1, <2>3, CutAndRest
  <2>5. SentencesOf(text) = cut
    BY <1>1, <1>2, <2>1, SameAsWhole
  <2>6. FlattenSeq(sentences) \o buffer = text
    BY <1>3, <2>2, <2>4, ConcatEmptySeq
  <2>7. sentences # <<>>
    <3>1. cut \in Seq(Seq(Byte))
      BY <2>1 DEF IsCut
    <3>2. SubSeq(T, t + 1, fed) \in Seq(Byte)
      <4>1. \A i \in (t + 1)..fed : T[i] \in Byte
        BY <1>1, <1>2, ElementOfSeq
      <4>2. t + 1 \in Int /\ fed \in Int
        BY <1>1, <1>2
      <4> QED BY <4>1, <4>2, SubSeqProperties
    <3> QED BY <2>1, <3>1, <3>2, AppendProperties
  <2> QED BY <2>2, <2>4, <2>5, <2>6, <2>7
<1> QED BY <1>1, <1>4, <1>5

\* However a reply is cut into deltas, no byte of it is lost or doubled, and it is
\* spoken in the sentences the whole text would be, and a tail.
\* (sentence_splitter.h:13, 27-63)
THEOREM SentencesTheorem == SplitterSpec => []SameSentences
BY SplitterInvTheorem, SplitterInvImplies, PTL

LEMMA CutNotEmpty ==
  ASSUME NEW T \in Seq(Byte), NEW cut, NEW t, IsCut(T, 0, cut, t), NEW i \in 1..Len(cut)
  PROVE  cut[i] # <<>>
<1>1. PICK c : CutBy(T, c, 0, cut, t)
  BY DEF IsCut
<1>2. /\ t \in 0..Len(T) /\ c \in [0..Len(cut) -> 0..t]
      /\ FirstEnd(T, c[i - 1], c[i]) /\ cut[i] = SubSeq(T, c[i - 1] + 1, c[i])
  BY <1>1 DEF CutBy
<1>3. Len(T) \in Nat /\ Len(cut) \in Nat /\ \A p \in 1..Len(T) : T[p] \in Byte
  BY LenProperties, ElementOfSeq DEF IsCut
<1> DEFINE s == c[i - 1]
           e == c[i]
<1>4. s \in 0..t /\ e \in 0..t /\ s < e
  <2>1. i \in 0..Len(cut) /\ i - 1 \in 0..Len(cut)
    BY <1>3
  <2>2. s < e
    BY <1>2, Zenon DEF FirstEnd
  <2> QED BY <1>2, <2>1, <2>2
<1> HIDE DEF s, e
<1>5. \A p \in (s + 1)..e : T[p] \in Byte
  BY <1>2, <1>3, <1>4
<1>6. s + 1 \in Int /\ e \in Int /\ s + 1 <= e /\ e - (s + 1) + 1 # 0
  BY <1>2, <1>3, <1>4
<1>7. Len(SubSeq(T, s + 1, e)) # 0
  BY <1>5, <1>6, SubSeqProperties
<1>8. SubSeq(T, s + 1, e) # <<>>
  BY <1>7, EmptySeq
<1> QED BY <1>2, <1>8 DEF s, e

LEMMA SplitterInvTypes == SplitterInv => TypeOK
<1> SUFFICES ASSUME SplitterInv
             PROVE  \A i \in 1..Len(sentences) : sentences[i] # <<>>
  BY DEF SplitterInv, TypeOK
<1> DEFINE T == Bytes(reply)
<1>1. reply \in Seq(Chars) /\ fed \in 0..Len(T) /\ (Feeding(T) \/ Flushed(T))
  BY DEF SplitterInv
<1>2. T \in Seq(Byte) /\ Len(T) \in Nat
  <2>1. WholeChars(T)
    BY <1>1, BytesAreWhole
  <2> QED BY <2>1, LenProperties DEF WholeChars
<1> HIDE DEF T
<1>3. CASE Feeding(T)
  BY <1>2, <1>3, CutNotEmpty DEF Feeding
<1>4. CASE Flushed(T)
  <2>10. PICK t \in 0..fed : \E cut :
           /\ t < fed /\ IsCut(T, 0, cut, t)
           /\ sentences = Append(cut, SubSeq(T, t + 1, fed))
    BY <1>4 DEF Flushed
  <2>1. PICK cut :
          /\ t < fed /\ IsCut(T, 0, cut, t)
          /\ sentences = Append(cut, SubSeq(T, t + 1, fed))
    BY <2>10
  <2>2. cut \in Seq(Seq(Byte)) /\ Len(cut) \in Nat
    BY <2>1, LenProperties DEF IsCut
  <2>3. \A p \in (t + 1)..fed : T[p] \in Byte
    BY <1>1, <1>2, ElementOfSeq
  <2>4. t + 1 \in Int /\ fed \in Int /\ t + 1 <= fed /\ fed - (t + 1) + 1 # 0
    BY <1>1, <1>2, <2>1
  <2> DEFINE x == SubSeq(T, t + 1, fed)
  <2>5. x \in Seq(Byte) /\ Len(x) # 0
    BY <2>3, <2>4, SubSeqProperties
  <2> HIDE DEF x
  <2>6. x # <<>>
    BY <2>5, EmptySeq
  <2>7. /\ Len(sentences) = Len(cut) + 1
        /\ \A i \in 1..Len(cut) : sentences[i] = cut[i]
        /\ sentences[Len(cut) + 1] = x
    BY <2>1, <2>2, <2>5, AppendProperties DEF x
  <2>8. \A i \in 1..Len(cut) : cut[i] # <<>>
    BY <1>2, <2>1, CutNotEmpty
  <2>9. \A i \in 1..Len(sentences) : i \in 1..Len(cut) \/ i = Len(cut) + 1
    BY <2>2, <2>7
  <2> QED BY <2>6, <2>7, <2>8, <2>9, Zenon
<1> QED BY <1>1, <1>3, <1>4

\* The splitter never hands on an empty sentence.  (sentence_splitter.h:27-70)
THEOREM SplitterTypeCorrect == SplitterSpec => []TypeOK
BY SplitterInvTheorem, SplitterInvTypes, PTL

\* ConcatAssociative, in the form in which it can be used of any terms.
Groups(S) == \A x, y, z \in Seq(S) : (x \o y) \o z = x \o (y \o z)
LEMMA Regroup ==
  ASSUME NEW S
  PROVE  Groups(S)
BY ConcatAssociative DEF Groups

LEMMA FlattenEmpty == FlattenSeq(<<>>) = <<>>
BY EmptySeq, Zenon DEF FlattenSeq

LEMMA FlattenType ==
  ASSUME NEW S, NEW s \in Seq(Seq(S))
  PROVE  FlattenSeq(s) \in Seq(S)
<1>1. CASE Len(s) = 0
  BY <1>1, EmptySeq, FlattenEmpty
<1>2. CASE Len(s) # 0
  <2>1. PICK f : Together(S, s, f, Len(s)) /\ FlattenSeq(s) = f[Len(s)]
    BY <1>2, Flattened
  <2>2. Len(s) \in 1..Len(s)
    BY <1>2, LenProperties
  <2> QED BY <2>1, <2>2 DEF Together
<1> QED BY <1>1, <1>2

LEMMA FlattenConcat ==
  ASSUME NEW S, NEW a \in Seq(Seq(S)), NEW b \in Seq(Seq(S))
  PROVE  FlattenSeq(a \o b) = FlattenSeq(a) \o FlattenSeq(b)
<1> DEFINE N == Len(a)
           M == Len(b)
           c == a \o b
<1>0. FlattenSeq(a) \in Seq(S) /\ FlattenSeq(b) \in Seq(S)
  BY FlattenType
<1>1. N \in Nat /\ M \in Nat
  BY LenProperties
<1>2. CASE N = 0
  <2>1. a = <<>> /\ c = b
    BY <1>2, EmptySeq, ConcatEmptySeq
  <2> QED BY <1>0, <2>1, FlattenEmpty, ConcatEmptySeq
<1>3. CASE M = 0
  <2>1. b = <<>> /\ c = a
    BY <1>3, EmptySeq, ConcatEmptySeq
  <2> QED BY <1>0, <2>1, FlattenEmpty, ConcatEmptySeq
<1>4. CASE N # 0 /\ M # 0
  <2>1. /\ c \in Seq(Seq(S)) /\ Len(c) = N + M
        /\ \A i \in 1..N : c[i] = a[i]
        /\ \A i \in 1..M : c[N + i] = b[i]
    <3>1. /\ c \in Seq(Seq(S)) /\ Len(c) = Len(a) + Len(b)
          /\ \A i \in 1..Len(a) + Len(b) : c[i] = IF i <= Len(a) THEN a[i] ELSE b[i - Len(a)]
      BY ConcatProperties
    <3> QED BY <1>1, <3>1
  <2>2. PICK f : Together(S, a, f, N) /\ FlattenSeq(a) = f[N]
    BY <1>4, Flattened
  <2>3. PICK g : Together(S, b, g, M) /\ FlattenSeq(b) = g[M]
    BY <1>4, Flattened
  <2>4. PICK h : Together(S, c, h, N + M) /\ FlattenSeq(c) = h[N + M]
    <3> N + M # 0
      BY <1>1, <1>4
    <3> QED BY <2>1, Flattened
  <2>5. \A i \in 1..M : b[i] \in Seq(S) /\ g[i] \in Seq(S)
    BY <2>3, ElementOfSeq DEF Together
  <2> HIDE DEF N, M, c
  <2> DEFINE Done == {n \in Nat : n \in 1..N => h[n] = f[n]}
  <2>6. ASSUME NEW k \in Nat, \A n \in 0..k - 1 : n \in Done
        PROVE  k \in Done
    <3> SUFFICES ASSUME k \in 1..N
                 PROVE  h[k] = f[k]
      OBVIOUS
    <3>1. CASE k = 1
      <4>1. N > 0 /\ N + M > 0 /\ 1 \in 1..N
        BY <1>1, <1>4
      <4> QED BY <2>1, <2>2, <2>4, <3>1, <4>1, Zenon DEF Together
    <3>2. CASE k # 1
      <4>1. k - 1 \in 0..k - 1 /\ k - 1 \in 1..N /\ k \in 2..N /\ k \in 2..(N + M)
        BY <1>1, <3>2
      <4>2. k - 1 \in Done
        BY <2>6, <4>1, Zenon
      <4>3. h[k - 1] = f[k - 1]
        BY <4>1, <4>2
      <4> QED BY <2>1, <2>2, <2>4, <4>1, <4>3, Zenon DEF Together
    <3> QED BY <3>1, <3>2
  <2> HIDE DEF Done
  <2>7. Nat \subseteq Done
    BY <2>6, AllNumbers
  <2> USE DEF Done
  <2>8. h[N] = f[N]
    BY <1>1, <1>4, <2>7
  <2> HIDE DEF Done
  <2>9. f[N] \in Seq(S)
    BY <1>1, <1>4, <2>2 DEF Together
  <2> DEFINE Later == {n \in Nat : n \in 1..M => h[N + n] = f[N] \o g[n]}
  <2>10. ASSUME NEW k \in Nat, \A n \in 0..k - 1 : n \in Later
         PROVE  k \in Later
    <3> SUFFICES ASSUME k \in 1..M
                 PROVE  h[N + k] = f[N] \o g[k]
      OBVIOUS
    <3>0. N + k \in 2..(N + M) /\ (N + k) - 1 = N + (k - 1)
      BY <1>1, <1>4
    <3>1. h[N + k] = h[N + (k - 1)] \o b[k]
      <4>1. h[N + k] = h[(N + k) - 1] \o c[N + k]
        BY <2>4, <3>0, Zenon DEF Together
      <4> QED BY <2>1, <3>0, <4>1
    <3>2. CASE k = 1
      <4>1. g[1] = b[1]
        <5> M > 0
          BY <1>1, <1>4
        <5> QED BY <2>3 DEF Together
      <4>2. N + (k - 1) = N
        BY <1>1, <3>2
      <4> QED BY <2>8, <3>1, <3>2, <4>1, <4>2
    <3>3. CASE k # 1
      <4>1. k - 1 \in 0..k - 1 /\ k - 1 \in 1..M /\ k \in 2..M
        BY <1>1, <3>3
      <4>2. k - 1 \in Later
        BY <2>10, <4>1, Zenon
      <4>3. h[N + (k - 1)] = f[N] \o g[k - 1]
        BY <4>1, <4>2
      <4>4. g[k] = g[k - 1] \o b[k]
        BY <2>3, <4>1, Zenon DEF Together
      <4>5. (f[N] \o g[k - 1]) \o b[k] = f[N] \o (g[k - 1] \o b[k])
        <5>1. g[k - 1] \in Seq(S) /\ b[k] \in Seq(S)
          BY <2>5, <4>1
        <5>2. Groups(S)
          BY Regroup, Zenon
        <5> QED BY <2>9, <5>1, <5>2 DEF Groups
      <4> QED BY <3>1, <4>3, <4>4, <4>5
    <3> QED BY <3>2, <3>3
  <2> HIDE DEF Later
  <2>11. Nat \subseteq Later
    BY <2>10, AllNumbers
  <2> USE DEF Later
  <2>12. h[N + M] = f[N] \o g[M]
    <3> M \in Nat /\ M \in 1..M
      BY <1>1, <1>4
    <3> QED BY <2>11
  <2> QED BY <2>2, <2>3, <2>4, <2>12 DEF c
<1> QED BY <1>2, <1>3, <1>4

\* Each element alone.
LEMMA FlattenOne ==
  ASSUME NEW S, NEW x \in Seq(S)
  PROVE  FlattenSeq(<<x>>) = x
<1> DEFINE s == <<x>>
<1>1. s \in Seq(Seq(S)) /\ Len(s) = 1 /\ s[1] = x
  OBVIOUS
<1> HIDE DEF s
<1>2. PICK f : Together(S, s, f, 1) /\ FlattenSeq(s) = f[1]
  <2>1. s \in Seq(Seq(S)) /\ Len(s) # 0
    BY <1>1
  <2>2. \E f : Together(S, s, f, Len(s)) /\ FlattenSeq(s) = f[Len(s)]
    BY <2>1, Flattened
  <2> QED BY <1>1, <2>2, Zenon
<1>3. f[1] = s[1]
  BY <1>2 DEF Together
<1> QED BY <1>1, <1>2, <1>3 DEF s

LEMMA FlattenSingles ==
  ASSUME NEW S, NEW g \in Seq(S), NEW s, s = [i \in 1..Len(g) |-> <<g[i]>>]
  PROVE  s \in Seq(Seq(S)) /\ FlattenSeq(s) = g
<1> DEFINE N == Len(g)
<1>0. N \in Nat /\ \A i \in 1..N : g[i] \in S
  BY LenProperties, ElementOfSeq
<1>1. s \in Seq(Seq(S)) /\ Len(s) = N /\ \A i \in 1..N : s[i] = <<g[i]>>
  <2>1. s \in [1..N -> Seq(S)]
    BY <1>0
  <2>2. s \in Seq(Seq(S))
    BY <1>0, <2>1, SeqDef
  <2>3. Len(s) = N
    BY <1>0, <2>1, <2>2, LenProperties
  <2> QED BY <2>2, <2>3
<1>2. CASE N = 0
  <2>1. s = <<>> /\ g = <<>>
    BY <1>1, <1>2, EmptySeq
  <2> QED BY <1>1, <2>1, FlattenEmpty
<1>3. CASE N # 0
  <2>1. PICK f : Together(S, s, f, N) /\ FlattenSeq(s) = f[N]
    BY <1>1, <1>3, Flattened
  <2> HIDE DEF N
  <2> DEFINE Done == {n \in Nat : n \in 1..N => f[n] = SubSeq(g, 1, n)}
  <2>2. ASSUME NEW k \in Nat, \A n \in 0..k - 1 : n \in Done
        PROVE  k \in Done
    <3> SUFFICES ASSUME k \in 1..N
                 PROVE  f[k] = SubSeq(g, 1, k)
      OBVIOUS
    <3>1. SubSeq(g, 1, k) = SubSeq(g, 1, k - 1) \o <<g[k]>>
      <4>1. 1 \in 1..Len(g) /\ k \in 1..Len(g)
        BY <1>0, <1>3 DEF N
      <4> QED BY <4>1, SubSeqRecursiveSecond
    <3>2. CASE k = 1
      <4>1. f[1] = s[1]
        <5> N > 0
          BY <1>0, <1>3
        <5> QED BY <2>1 DEF Together
      <4>2. SubSeq(g, 1, k - 1) = <<>>
        BY <3>2, SubSeqEmpty
      <4>3. <<>> \o <<g[k]>> = <<g[k]>>
        <5> <<g[k]>> \in Seq(S)
          BY <1>0
        <5> QED BY ConcatEmptySeq
      <4> QED BY <1>1, <3>1, <3>2, <4>1, <4>2, <4>3
    <3>3. CASE k # 1
      <4>1. k - 1 \in 0..k - 1 /\ k - 1 \in 1..N /\ k \in 2..N
        BY <1>0, <3>3
      <4>2. k - 1 \in Done
        BY <2>2, <4>1, Zenon
      <4>3. f[k - 1] = SubSeq(g, 1, k - 1)
        BY <4>1, <4>2
      <4>4. f[k] = f[k - 1] \o s[k]
        BY <2>1, <4>1, Zenon DEF Together
      <4> QED BY <1>1, <3>1, <4>3, <4>4
    <3> QED BY <3>2, <3>3
  <2> HIDE DEF Done
  <2>3. Nat \subseteq Done
    BY <2>2, AllNumbers
  <2> USE DEF Done
  <2>4. f[N] = SubSeq(g, 1, N)
    BY <1>0, <1>3, <2>3
  <2>5. SubSeq(g, 1, N) = g
    BY SubSeqFull DEF N
  <2> QED BY <1>1, <2>1, <2>4, <2>5
<1> QED BY <1>0, <1>2, <1>3

-----------------------------------------------------------------------------
(* StripForTts, by the places in a text x. *)

LEMMA DigitsAre ==
  ASSUME NEW y \in Seq(Chars)
  PROVE  LET d == DigitsOf(y)
         IN  /\ Len(d) \in 0..Len(y)
             /\ d = [i \in 1..Len(d) |-> Digits[y[i]]]
             /\ \A i \in 1..Len(d) : y[i] \in DOMAIN Digits
             /\ Len(d) < Len(y) => y[Len(d) + 1] \notin DOMAIN Digits
<1> DEFINE I == {i \in 1..Len(y) : y[i] \notin DOMAIN Digits}
           other == IF I # {} THEN Min(I) ELSE 0
           k == IF other = 0 THEN Len(y) ELSE other - 1
           d == [i \in 1..k |-> Digits[y[i]]]
<1>0. Len(y) \in Nat
  BY LenProperties
<1>1. DigitsOf(y) = d
  BY DEF DigitsOf, SelectInSeq
<1>2. /\ k \in 0..Len(y) /\ \A i \in 1..k : y[i] \in DOMAIN Digits
      /\ k < Len(y) => y[k + 1] \notin DOMAIN Digits
  <2>1. CASE I = {}
    <3>1. k = Len(y)
      BY <2>1
    <3> QED BY <1>0, <2>1, <3>1
  <2>2. CASE I # {}
    <3>1. I \subseteq Nat
      BY <1>0
    <3> HIDE DEF I
    <3>2. Min(I) \in I /\ \A n \in I : Min(I) <= n
      BY <2>2, <3>1, FirstOf
    <3> DEFINE a == Min(I)
    <3>3. a \in 1..Len(y) /\ y[a] \notin DOMAIN Digits
      BY <3>2 DEF I
    <3>4. k = a - 1
      BY <1>0, <2>2, <3>3
    <3>5. \A i \in 1..(a - 1) : y[i] \in DOMAIN Digits
      <4> SUFFICES ASSUME NEW i \in 1..(a - 1), y[i] \notin DOMAIN Digits
                   PROVE  FALSE
        OBVIOUS
      <4>1. i \in 1..Len(y) /\ i < a
        BY <1>0, <3>3
      <4>2. i \in I
        BY <4>1 DEF I
      <4>3. a <= i
        BY <3>2, <4>2
      <4> HIDE DEF a
      <4> QED BY <3>3, <4>1, <4>3
    <3> HIDE DEF a, k
    <3> QED BY <1>0, <3>3, <3>4, <3>5
  <2> QED BY <2>1, <2>2
<1> HIDE DEF k
<1>3. Len(d) = k
  BY <1>0, <1>2
<1> QED BY <1>1, <1>2, <1>3

\* n digits from at on, and no more.
Run(x, here, n) ==
  /\ n \in Nat /\ n > 0 /\ here + n <= Len(x) + 1
  /\ \A i \in 1..n : x[here + i - 1] \in DOMAIN Digits
  /\ here + n <= Len(x) => x[here + n] \notin DOMAIN Digits
Values(x, here, n) == [i \in 1..n |-> Digits[x[here + i - 1]]]
\* Each digit alone.
OneByOne(digits, n) == FlattenSeq([i \in 1..n |-> AppendChineseNumber(<<digits[i]>>)])
Decimals(x, here, n) == OneByOne(Values(x, here, n), n)

\* What strip does at a place, if f is what it does at the later ones.
Spoken(x, f, here) ==
  LET text == SubSeq(x, here, Len(x))
      whole == DigitsOf(text)
      after == SubSeq(text, Len(whole) + 1, Len(text))
      part  == IF after # <<>> /\ Head(after) = Point
               THEN DigitsOf(Tail(after)) ELSE <<>>
  IN  IF text = <<>> THEN <<>>
      ELSE IF Head(text) \in Silent THEN f[here + 1]
      ELSE IF whole = <<>> THEN <<Word(Head(text), 0)>> \o f[here + 1]
      ELSE AppendChineseNumber(whole) \o
           (IF part = <<>> THEN f[here + Len(whole)]
            ELSE <<Word("point", 0)>>
                 \o FlattenSeq([i \in 1..Len(part) |->
                                  AppendChineseNumber(<<part[i]>>)])
                 \o f[here + Len(whole) + 1 + Len(part)])

AtEnd(x, here) == here = Len(x) + 1 /\ \A f : Spoken(x, f, here) = <<>>
AtSilent(x, here) ==
  here \in 1..Len(x) /\ x[here] \in Silent /\ \A f : Spoken(x, f, here) = f[here + 1]
AtChar(x, here) ==
  /\ here \in 1..Len(x) /\ x[here] \notin Silent /\ x[here] \notin DOMAIN Digits
  /\ \A f : Spoken(x, f, here) = <<Word(x[here], 0)>> \o f[here + 1]
AtNumber(x, here, n) ==
  /\ Run(x, here, n)
  /\ \A f : Spoken(x, f, here) = AppendChineseNumber(Values(x, here, n)) \o f[here + n]
AtDecimals(x, here, n, m) ==
  /\ Run(x, here, n) /\ here + n <= Len(x) /\ x[here + n] = Point
  /\ Run(x, here + n + 1, m)
  /\ \A f : Spoken(x, f, here) =
       AppendChineseNumber(Values(x, here, n))
       \o (<<Word("point", 0)>> \o Decimals(x, here + n + 1, m) \o f[here + n + 1 + m])

LEMMA SpokenIs ==
  ASSUME NEW x \in Seq(Chars), NEW here \in 1..Len(x) + 1
  PROVE  \/ AtEnd(x, here) \/ AtSilent(x, here) \/ AtChar(x, here)
         \/ \E n : AtNumber(x, here, n)
         \/ \E n, m : AtDecimals(x, here, n, m)
<1> DEFINE L == Len(x)
           text == SubSeq(x, here, L)
<1>0. L \in Nat /\ here \in Nat /\ \A i \in 1..L : x[i] \in Chars
  BY LenProperties, ElementOfSeq
<1>1. /\ text \in Seq(Chars) /\ Len(text) = L - here + 1
      /\ \A i \in 1..(L - here + 1) : text[i] = x[here + i - 1]
  <2>1. \A i \in here..L : x[i] \in Chars
    BY <1>0
  <2>2. /\ text \in Seq(Chars)
        /\ Len(text) = IF here <= L THEN L - here + 1 ELSE 0
        /\ \A i \in 1..(L - here + 1) : text[i] = x[here + i - 1]
    <3> here \in Int /\ L \in Int
      BY <1>0
    <3> QED BY <2>1, SubSeqProperties
  <2> QED BY <1>0, <2>2
<1> DEFINE whole == DigitsOf(text)
           n == Len(whole)
<1>2. /\ n \in 0..Len(text) /\ whole = [i \in 1..n |-> Digits[text[i]]]
      /\ \A i \in 1..n : text[i] \in DOMAIN Digits
      /\ n < Len(text) => text[n + 1] \notin DOMAIN Digits
  BY <1>1, DigitsAre
<1> DEFINE after == SubSeq(text, n + 1, Len(text))
           part == IF after # <<>> /\ Head(after) = Point
                   THEN DigitsOf(Tail(after)) ELSE <<>>
<1>3. CASE here = L + 1
  <2>1. text = <<>>
    BY <1>0, <1>1, <1>3, EmptySeq
  <2> QED BY <1>3, <2>1, Zenon DEF AtEnd, Spoken
<1>4. CASE here # L + 1
  <2>1. /\ here \in 1..L /\ text # <<>> /\ Head(text) = x[here] /\ text[1] = x[here]
        /\ 1 \in 1..Len(text)
    <3>1. here \in 1..L /\ Len(text) # 0 /\ text[1] = x[here]
      BY <1>0, <1>1, <1>4
    <3>2. text # <<>>
      BY <3>1, EmptySeq
    <3>3. 1 \in 1..Len(text)
      BY <1>0, <1>1, <3>1
    <3> HIDE DEF text
    <3> QED BY <1>1, <3>1, <3>2, <3>3
  <2>2. CASE x[here] \in Silent
    BY <2>1, <2>2, Zenon DEF AtSilent, Spoken
  <2>3. CASE x[here] \notin Silent /\ whole = <<>>
    <3>1. n = 0
      BY <2>3, EmptySeq
    <3>2. x[here] \notin DOMAIN Digits
      <4>1. n < Len(text) /\ n + 1 = 1
        BY <2>1, <3>1
      <4> QED BY <1>2, <2>1, <4>1
    <3> QED BY <2>1, <2>3, <3>2, Zenon DEF AtChar, Spoken
  <2>4. CASE x[here] \notin Silent /\ whole # <<>>
    <3>0. n # 0
      <4> HIDE DEF text
      <4> QED BY <1>2, <2>4
    <3> HIDE DEF text, L
    <3>1. Run(x, here, n) /\ whole = Values(x, here, n)
      <4> HIDE DEF whole, n
      <4>1. n \in Nat /\ n > 0 /\ here + n <= L + 1
        BY <1>0, <1>1, <1>2, <3>0
      <4>2. ASSUME NEW i \in 1..n
            PROVE  text[i] = x[here + i - 1]
        <5> i \in 1..(L - here + 1)
          BY <1>0, <1>1, <1>2
        <5> QED BY <1>1
      <4>3. here + n <= L => x[here + n] \notin DOMAIN Digits
        <5> HAVE here + n <= L
        <5>1. n < Len(text) /\ n + 1 \in 1..(L - here + 1) /\ here + (n + 1) - 1 = here + n
          BY <1>0, <1>1, <4>1
        <5>2. text[n + 1] = x[here + n]
          BY <1>1, <5>1
        <5> QED BY <1>2, <5>1, <5>2
      <4>4. whole = [i \in 1..n |-> Digits[x[here + i - 1]]]
        BY <1>2, <4>2
      <4> QED BY <1>2, <4>1, <4>2, <4>3, <4>4 DEF Run, Values, L
    <3>2. n \in Nat /\ n > 0 /\ here + n <= L + 1
      BY <3>1 DEF Run, L
    <3> HIDE DEF whole, n
    <3>3. /\ after \in Seq(Chars) /\ Len(after) = L + 1 - (here + n)
          /\ \A i \in 1..(L + 1 - (here + n)) : after[i] = x[here + n + i - 1]
      <4>1. Len(text) \in Nat /\ \A i \in (n + 1)..Len(text) : text[i] \in Chars
        BY <1>1, <3>2, LenProperties, ElementOfSeq
      <4>2. /\ after \in Seq(Chars)
            /\ Len(after) = IF n + 1 <= Len(text) THEN Len(text) - (n + 1) + 1 ELSE 0
            /\ \A i \in 1..(Len(text) - (n + 1) + 1) : after[i] = text[(n + 1) + i - 1]
        <5> n + 1 \in Int /\ Len(text) \in Int
          BY <3>2, <4>1
        <5> QED BY <4>1, SubSeqProperties
      <4> HIDE DEF after
      <4>3. Len(after) = L + 1 - (here + n)
        BY <1>0, <1>1, <3>2, <4>2
      <4>4. ASSUME NEW i \in 1..(L + 1 - (here + n))
            PROVE  after[i] = x[here + n + i - 1]
        <5>0. Len(text) = L + 1 - here /\ i \in Nat /\ i > 0 /\ i <= L + 1 - (here + n)
          BY <1>0, <1>1, <3>2
        <5>1. i \in 1..(Len(text) - (n + 1) + 1) /\ (n + 1) + i - 1 = n + i
          BY <1>0, <3>2, <5>0
        <5>2. n + i \in 1..(L - here + 1) /\ here + (n + i) - 1 = here + n + i - 1
          BY <1>0, <3>2
        <5>3. after[i] = text[n + i]
          BY <4>2, <5>1
        <5>4. text[n + i] = x[here + (n + i) - 1]
          BY <1>1, <5>2
        <5> QED BY <5>2, <5>3, <5>4
      <4> QED BY <4>2, <4>3, <4>4
    <3>4. CASE part = <<>>
      <4>1. \A f : Spoken(x, f, here) = AppendChineseNumber(whole) \o f[here + n]
        BY <2>1, <2>4, <3>4, Zenon DEF Spoken, text, whole, n, L
      <4>2. AtNumber(x, here, n)
        BY <3>1, <4>1, Zenon DEF AtNumber
      <4> QED BY <4>2
    <3>5. CASE part # <<>>
      <4>1. after # <<>> /\ Head(after) = Point /\ part = DigitsOf(Tail(after))
        BY <3>5
      <4>2. /\ Tail(after) \in Seq(Chars) /\ Len(Tail(after)) = Len(after) - 1
            /\ \A i \in 1..Len(Tail(after)) : Tail(after)[i] = after[i + 1]
        <5> HIDE DEF after
        <5> QED BY <3>3, <4>1, HeadTailProperties
      <4> DEFINE rest == Tail(after)
                 m == Len(part)
                 b == here + n + 1
      <4>3. Len(after) # 0 /\ Len(after) \in Nat /\ Head(after) = after[1]
        <5> HIDE DEF after
        <5> QED BY <3>3, <4>1, EmptySeq, LenProperties
      <4>4. here + n <= L /\ x[here + n] = Point
        <5> HIDE DEF after
        <5>1. 1 \in 1..(L + 1 - (here + n)) /\ here + n + 1 - 1 = here + n /\ here + n <= L
          BY <1>0, <3>2, <3>3, <4>3
        <5>2. after[1] = x[here + n]
          BY <3>3, <5>1
        <5> QED BY <4>1, <4>3, <5>1, <5>2
      <4> HIDE DEF after
      <4>5. /\ m \in 0..Len(rest) /\ part = [i \in 1..m |-> Digits[rest[i]]]
            /\ \A i \in 1..m : rest[i] \in DOMAIN Digits
            /\ m < Len(rest) => rest[m + 1] \notin DOMAIN Digits
        <5> HIDE DEF part
        <5> QED BY <4>1, <4>2, DigitsAre
      <4>6. m # 0
        <5> HIDE DEF part
        <5> QED BY <3>5, <4>5
      <4>7. /\ b \in Nat /\ Len(rest) = L + 1 - b
            /\ \A i \in 1..(L + 1 - b) : rest[i] = x[b + i - 1]
        <5>1. b \in Nat /\ Len(rest) = L + 1 - b
          BY <1>0, <3>2, <3>3, <4>2
        <5>2. ASSUME NEW i \in 1..(L + 1 - b)
              PROVE  rest[i] = x[b + i - 1]
          <6>0. b = here + n + 1 /\ i \in Nat /\ i > 0 /\ i <= L + 1 - b
            BY <1>0, <3>2, <5>1
          <6>1. i \in 1..Len(rest) /\ i + 1 \in 1..(L + 1 - (here + n))
                /\ here + n + (i + 1) - 1 = b + i - 1
            BY <1>0, <3>2, <5>1, <6>0
          <6>2. rest[i] = after[i + 1]
            BY <4>2, <6>1
          <6>3. after[i + 1] = x[here + n + (i + 1) - 1]
            BY <3>3, <6>1
          <6> QED BY <6>1, <6>2, <6>3
        <5> QED BY <5>1, <5>2
      <4> HIDE DEF rest, b
      <4>8. Run(x, b, m) /\ part = Values(x, b, m)
        <5> HIDE DEF part, m
        <5>1. m \in Nat /\ m > 0 /\ b + m <= L + 1
          BY <1>0, <4>5, <4>6, <4>7
        <5>2. ASSUME NEW i \in 1..m
              PROVE  rest[i] = x[b + i - 1]
          <6> i \in 1..(L + 1 - b)
            BY <1>0, <4>5, <4>7
          <6> QED BY <4>7
        <5>3. b + m <= L => x[b + m] \notin DOMAIN Digits
          <6> HAVE b + m <= L
          <6>1. m < Len(rest) /\ m + 1 \in 1..(L + 1 - b) /\ b + (m + 1) - 1 = b + m
            BY <1>0, <4>7, <5>1
          <6>2. rest[m + 1] = x[b + m]
            BY <4>7, <6>1
          <6> QED BY <4>5, <6>1, <6>2
        <5>4. part = [i \in 1..m |-> Digits[x[b + i - 1]]]
          BY <4>5, <5>2
        <5> QED BY <4>5, <5>1, <5>2, <5>3, <5>4 DEF Run, Values, L
      <4>9. \A f : Spoken(x, f, here) =
              AppendChineseNumber(whole)
              \o (<<Word("point", 0)>>
                  \o FlattenSeq([i \in 1..m |-> AppendChineseNumber(<<part[i]>>)])
                  \o f[here + n + 1 + m])
        BY <2>1, <2>4, <3>5, Zenon DEF Spoken, text, whole, n, L, part, after, m
      <4>10. AtDecimals(x, here, n, m)
        <5> HIDE DEF part, m
        <5> QED BY <3>1, <4>4, <4>8, <4>9, Zenon DEF AtDecimals, Decimals, OneByOne, b, L
      <4> QED BY <4>10
    <3> QED BY <3>4, <3>5
  <2> QED BY <2>2, <2>3, <2>4
<1> QED BY <1>3, <1>4

-----------------------------------------------------------------------------
(* Heard, by the parts of what is spoken. *)

Words == [kind : Chars \union {"digit", "point", "ten"}, n : 0..9]
Sound == Chars \union {DigitChar(n) : n \in 0..9}
Numeric(word) == word.kind \in {"digit", "ten"}
\* No number goes over from u to v.
Apart(u, v) == u # <<>> /\ v # <<>> => ~ (Numeric(u[Len(u)]) /\ Numeric(v[1]))

LEMMA HeardPieces ==
  ASSUME NEW w \in Seq(Words)
  PROVE  LET h == [i \in 1..Len(w) |-> HeardAt(w, i)]
         IN  h \in Seq(Seq(Sound)) /\ Len(h) = Len(w)
<1> DEFINE h == [i \in 1..Len(w) |-> HeardAt(w, i)]
<1>0. Len(w) \in Nat /\ \A i \in 1..Len(w) : w[i] \in Words
  BY LenProperties, ElementOfSeq
<1>1. ASSUME NEW i \in 1..Len(w)
      PROVE  HeardAt(w, i) \in Seq(Sound)
  <2>1. w[i].kind \in Chars \union {"digit", "point", "ten"} /\ w[i].n \in 0..9
    BY <1>0 DEF Words
  <2>2. \A n \in 0..9 : DigitChar(n) \in Sound
    BY Zenon DEF Sound
  <2>3. Point \in Sound /\ \A c \in Chars : c \in Sound
    BY SplitterAssumption, Zenon DEF Sound
  <2> HIDE DEF Sound
  <2>4. \A c \in Sound : <<c>> \in Seq(Sound)
    OBVIOUS
  <2>5. <<>> \in Seq(Sound)
    OBVIOUS
  <2>6. CASE w[i].kind = "digit"
    BY <2>1, <2>2, <2>4, <2>6, Zenon DEF HeardAt
  <2>7. CASE w[i].kind = "point"
    <3> w[i].kind # "digit"
      BY <2>7
    <3> QED BY <2>3, <2>4, <2>7, Zenon DEF HeardAt
  <2>8. CASE w[i].kind = "ten"
    <3> DEFINE u == IF IsDigit(w, i - 1) THEN <<>> ELSE <<DigitChar(1)>>
               v == IF IsDigit(w, i + 1) THEN <<>> ELSE <<DigitChar(0)>>
    <3>1. HeardAt(w, i) = u \o v
      <4> w[i].kind # "digit" /\ w[i].kind # "point"
        BY <2>8
      <4> QED BY <2>8, Zenon DEF HeardAt
    <3>2. 0 \in 0..9 /\ 1 \in 0..9
      OBVIOUS
    <3>3. u \in Seq(Sound) /\ v \in Seq(Sound)
      BY <2>2, <2>4, <2>5, <3>2, Zenon
    <3> HIDE DEF u, v
    <3> QED BY <3>1, <3>3, ConcatProperties
  <2>9. CASE w[i].kind \notin {"digit", "point", "ten"}
    <3>1. w[i].kind \in Sound
      BY <2>1, <2>3, <2>9
    <3> QED BY <2>4, <2>9, <3>1, Zenon DEF HeardAt
  <2> QED BY <2>6, <2>7, <2>8, <2>9, Zenon
<1>2. h \in [1..Len(w) -> Seq(Sound)]
  BY <1>1, Zenon
<1> HIDE DEF h
<1>3. h \in Seq(Seq(Sound))
  BY <1>0, <1>2, SeqDef
<1>4. Len(h) = Len(w)
  BY <1>0, <1>2, <1>3, LenProperties
<1> QED BY <1>3, <1>4 DEF h

LEMMA HeardApart ==
  ASSUME NEW u \in Seq(Words), NEW v \in Seq(Words), Apart(u, v)
  PROVE  Heard(u \o v) = Heard(u) \o Heard(v)
<1> DEFINE w == u \o v
           N == Len(u)
           M == Len(v)
           hu == [i \in 1..N |-> HeardAt(u, i)]
           hv == [i \in 1..M |-> HeardAt(v, i)]
           hw == [i \in 1..Len(w) |-> HeardAt(w, i)]
<1>0. N \in Nat /\ M \in Nat
  BY LenProperties
<1>1. /\ w \in Seq(Words) /\ Len(w) = N + M
      /\ \A i \in 1..N : w[i] = u[i]
      /\ \A i \in 1..M : w[N + i] = v[i]
  <2>1. /\ w \in Seq(Words) /\ Len(w) = N + M
        /\ \A i \in 1..(N + M) : w[i] = IF i <= N THEN u[i] ELSE v[i - N]
    BY ConcatProperties
  <2> HIDE DEF w, N, M
  <2>2. \A i \in 1..M : (N + i) \in 1..(N + M) /\ ~ (N + i <= N) /\ (N + i) - N = i
    BY <1>0
  <2>3. \A i \in 1..N : i \in 1..(N + M) /\ i <= N
    BY <1>0
  <2> QED BY <2>1, <2>2, <2>3
<1>2. /\ hu \in Seq(Seq(Sound)) /\ Len(hu) = N
      /\ hv \in Seq(Seq(Sound)) /\ Len(hv) = M
      /\ hw \in Seq(Seq(Sound)) /\ Len(hw) = N + M
  BY <1>1, HeardPieces
<1>3. /\ \A i \in 1..N : hu[i] = HeardAt(u, i)
      /\ \A i \in 1..M : hv[i] = HeardAt(v, i)
      /\ \A i \in 1..(N + M) : hw[i] = HeardAt(w, i)
  BY <1>1
<1>4. Heard(u) = FlattenSeq(hu) /\ Heard(v) = FlattenSeq(hv) /\ Heard(w) = FlattenSeq(hw)
  BY Zenon DEF Heard
<1>5. ASSUME N > 0, M > 0
      PROVE  ~ (Numeric(u[N]) /\ Numeric(v[1]))
  <2>1. u # <<>> /\ v # <<>>
    BY <1>5
  <2> QED BY <2>1 DEF Apart
<1> HIDE DEF w, N, M, hu, hv, hw
<1>6. ASSUME NEW i \in 1..N
      PROVE  HeardAt(w, i) = HeardAt(u, i)
  <2>1. w[i] = u[i]
    BY <1>1
  <2>2. CASE u[i].kind # "ten"
    BY <2>1, <2>2, Zenon DEF HeardAt
  <2>3. CASE u[i].kind = "ten"
    <3>1. IsDigit(w, i - 1) = IsDigit(u, i - 1)
      <4>1. i - 1 \in 1..Len(w) <=> i - 1 \in 1..N
        BY <1>0, <1>1
      <4>2. i - 1 \in 1..N => w[i - 1] = u[i - 1]
        BY <1>1
      <4> QED BY <4>1, <4>2 DEF IsDigit, N
    <3>2. IsDigit(w, i + 1) = IsDigit(u, i + 1)
      <4>1. CASE i < N
        <5>1. i + 1 \in 1..Len(w) /\ i + 1 \in 1..N
          BY <1>0, <1>1, <4>1
        <5>2. w[i + 1] = u[i + 1]
          BY <1>1, <5>1
        <5> QED BY <5>1, <5>2 DEF IsDigit, N
      <4>2. CASE i = N
        <5>1. ~ IsDigit(u, i + 1)
          BY <1>0, <4>2 DEF IsDigit, N
        <5>2. ~ IsDigit(w, i + 1)
          <6> SUFFICES ASSUME IsDigit(w, i + 1)
                       PROVE  FALSE
            OBVIOUS
          <6>1. N + 1 \in 1..(N + M) /\ w[N + 1].kind = "digit"
            BY <1>1, <4>2 DEF IsDigit
          <6>2. M > 0 /\ N > 0 /\ 1 \in 1..M
            BY <1>0, <6>1, <4>2
          <6>3. w[N + 1] = v[1]
            BY <1>1, <6>2
          <6>4. Numeric(u[N]) /\ Numeric(v[1])
            BY <2>3, <4>2, <6>1, <6>3, Zenon DEF Numeric
          <6> QED BY <1>5, <6>2, <6>4
        <5> QED BY <5>1, <5>2 DEF IsDigit
      <4> QED BY <1>0, <4>1, <4>2
    <3> QED BY <2>1, <3>1, <3>2, Zenon DEF HeardAt
  <2> QED BY <2>2, <2>3
<1>7. ASSUME NEW i \in 1..M
      PROVE  HeardAt(w, N + i) = HeardAt(v, i)
  <2>1. w[N + i] = v[i]
    BY <1>1
  <2>2. CASE v[i].kind # "ten"
    BY <2>1, <2>2, Zenon DEF HeardAt
  <2>3. CASE v[i].kind = "ten"
    <3>1. IsDigit(w, N + i + 1) = IsDigit(v, i + 1)
      <4>1. N + i + 1 \in 1..Len(w) <=> i + 1 \in 1..M
        BY <1>0, <1>1
      <4>2. i + 1 \in 1..M => w[N + i + 1] = v[i + 1]
        <5> HAVE i + 1 \in 1..M
        <5> N + (i + 1) = N + i + 1
          BY <1>0
        <5> QED BY <1>1
      <4> QED BY <4>1, <4>2 DEF IsDigit, M
    <3>2. IsDigit(w, (N + i) - 1) = IsDigit(v, i - 1)
      <4>1. CASE i > 1
        <5>1. (N + i) - 1 \in 1..Len(w) /\ i - 1 \in 1..M /\ N + (i - 1) = (N + i) - 1
          BY <1>0, <1>1, <4>1
        <5>2. w[(N + i) - 1] = v[i - 1]
          BY <1>1, <5>1
        <5> QED BY <5>1, <5>2 DEF IsDigit, M
      <4>2. CASE i = 1
        <5>1. ~ IsDigit(v, i - 1)
          BY <4>2 DEF IsDigit
        <5>2. ~ IsDigit(w, (N + i) - 1)
          <6> SUFFICES ASSUME IsDigit(w, (N + i) - 1)
                       PROVE  FALSE
            OBVIOUS
          <6>1. N \in 1..(N + M) /\ w[N].kind = "digit"
            <7> (N + i) - 1 = N
              BY <1>0, <4>2
            <7> QED BY <1>1 DEF IsDigit
          <6>2. M > 0 /\ N > 0 /\ N \in 1..N
            BY <1>0, <6>1, <4>2
          <6>3. w[N] = u[N]
            BY <1>1, <6>2
          <6>4. Numeric(u[N]) /\ Numeric(v[1])
            BY <2>3, <4>2, <6>1, <6>3, Zenon DEF Numeric
          <6> QED BY <1>5, <6>2, <6>4
        <5> QED BY <5>1, <5>2 DEF IsDigit
      <4>3. i > 1 \/ i = 1
        BY <1>0
      <4> QED BY <4>1, <4>2, <4>3, Zenon
    <3> QED BY <2>1, <3>1, <3>2, Zenon DEF HeardAt
  <2> QED BY <2>2, <2>3
<1>8. hw = hu \o hv
  <2> DEFINE hh == hu \o hv
  <2>1. /\ hh \in Seq(Seq(Sound)) /\ Len(hh) = N + M
        /\ \A i \in 1..(N + M) : hh[i] = IF i <= N THEN hu[i] ELSE hv[i - N]
    <3>1. /\ hh \in Seq(Seq(Sound)) /\ Len(hh) = Len(hu) + Len(hv)
          /\ \A i \in 1..Len(hu) + Len(hv) :
               hh[i] = IF i <= Len(hu) THEN hu[i] ELSE hv[i - Len(hu)]
      BY <1>2, ConcatProperties
    <3> QED BY <1>2, <3>1
  <2> HIDE DEF hh
  <2>2. ASSUME NEW i \in 1..(N + M)
        PROVE  hw[i] = hh[i]
    <3>1. CASE i <= N
      <4> i \in 1..N
        BY <1>0, <3>1
      <4> QED BY <1>3, <1>6, <2>1, <3>1
    <3>2. CASE ~ (i <= N)
      <4>1. i - N \in 1..M /\ N + (i - N) = i
        BY <1>0, <3>2
      <4>2. hh[i] = hv[i - N]
        BY <2>1, <3>2
      <4>3. HeardAt(w, N + (i - N)) = HeardAt(v, i - N)
        BY <1>7, <4>1
      <4> QED BY <1>3, <4>1, <4>2, <4>3
    <3> QED BY <3>1, <3>2
  <2>3. hw = hh
    BY <1>2, <2>1, <2>2, SeqEqual
  <2> QED BY <2>3 DEF hh
<1>9. FlattenSeq(hu \o hv) = FlattenSeq(hu) \o FlattenSeq(hv)
  BY <1>2, FlattenConcat
<1> QED BY <1>4, <1>8, <1>9 DEF w

\* A word that is a character, and the point.
LEMMA HeardOne ==
  ASSUME NEW c \in Chars, NEW k, k = c \/ (k = "point" /\ c = Point)
  PROVE  /\ <<Word(k, 0)>> \in Seq(Words)
         /\ Heard(<<Word(k, 0)>>) = <<c>>
         /\ ~ Numeric(Word(k, 0))
<1> DEFINE w == <<Word(k, 0)>>
<1>1. /\ k \in Chars \union {"point"} /\ k # "digit" /\ k # "ten"
      /\ k = "point" => c = Point
      /\ k # "point" => k = c
  BY NumberAssumption
<1>2. w \in Seq(Words) /\ Len(w) = 1 /\ w[1] = Word(k, 0) /\ Word(k, 0).kind = k
  <2> Word(k, 0) \in Words
    BY <1>1 DEF Word, Words
  <2> QED BY DEF Word
<1> HIDE DEF w
<1>3. HeardAt(w, 1) = <<c>>
  BY <1>1, <1>2, Zenon DEF HeardAt
<1> DEFINE h == [i \in 1..1 |-> HeardAt(w, i)]
<1>4. h = <<<<c>>>>
  <2>1. h \in Seq(Seq(Sound)) /\ Len(h) = 1
    <3> 1..Len(w) = 1..1
      BY <1>2
    <3> QED BY <1>2, HeardPieces
  <2>2. h[1] = <<c>>
    BY <1>3
  <2> HIDE DEF h
  <2>3. h = <<h[1]>>
    BY <2>1
  <2> QED BY <2>2, <2>3
<1>5. Heard(w) = FlattenSeq(h)
  BY <1>2 DEF Heard
<1>6. <<c>> \in Seq(Chars)
  OBVIOUS
<1>7. FlattenSeq(<<<<c>>>>) = <<c>>
  BY <1>6, FlattenOne
<1> HIDE DEF h
<1>8. Heard(w) = <<c>>
  BY <1>4, <1>5, <1>7, Zenon
<1>9. ~ Numeric(Word(k, 0))
  BY <1>1, <1>2, Zenon DEF Numeric
<1> QED BY <1>2, <1>8, <1>9 DEF w

LEMMA DigitIs ==
  ASSUME NEW c \in DOMAIN Digits
  PROVE  Digits[c] \in 0..9 /\ DigitChar(Digits[c]) = c /\ c \in Chars
<1>1. Digits[c] \in 0..9
  BY NumberAssumption
<1>2. \A d \in DOMAIN Digits : Digits[d] = Digits[c] => d = c
  BY NumberAssumption
<1> QED BY <1>1, <1>2, SplitterAssumption DEF DigitChar

\* Digits that are read out one by one.
LEMMA HeardDigits ==
  ASSUME NEW g \in Seq(DOMAIN Digits), NEW w,
         w = [i \in 1..Len(g) |-> Word("digit", Digits[g[i]])]
  PROVE  w \in Seq(Words) /\ Len(w) = Len(g) /\ Heard(w) = g
<1> DEFINE N == Len(g)
<1>0. N \in Nat /\ \A i \in 1..N : g[i] \in DOMAIN Digits
  BY LenProperties, ElementOfSeq
<1>1. \A i \in 1..N : w[i] = Word("digit", Digits[g[i]]) /\ w[i] \in Words
  BY <1>0, DigitIs DEF Word, Words
<1>2. w \in Seq(Words) /\ Len(w) = N
  <2>1. w \in [1..N -> Words]
    BY <1>1
  <2>2. w \in Seq(Words)
    BY <1>0, <2>1, SeqDef
  <2> QED BY <1>0, <2>1, <2>2, LenProperties
<1>3. \A i \in 1..N : HeardAt(w, i) = <<g[i]>>
  <2> TAKE i \in 1..N
  <2>1. w[i].kind = "digit" /\ w[i].n = Digits[g[i]]
    BY <1>1 DEF Word
  <2>2. DigitChar(Digits[g[i]]) = g[i]
    BY <1>0, DigitIs
  <2> QED BY <2>1, <2>2, Zenon DEF HeardAt
<1> DEFINE h == [i \in 1..N |-> HeardAt(w, i)]
<1>4. h = [i \in 1..N |-> <<g[i]>>]
  BY <1>3
<1>5. Heard(w) = FlattenSeq(h)
  BY <1>2, Zenon DEF Heard
<1> HIDE DEF h
<1>6. FlattenSeq(h) = g
  BY <1>4, FlattenSingles
<1> QED BY <1>2, <1>5, <1>6

LEMMA Tuples ==
  ASSUME NEW a, NEW b, NEW c
  PROVE  <<a>> \o <<b>> = <<a, b>> /\ <<a, b>> \o <<c>> = <<a, b, c>>
<1> DEFINE S == {a, b, c}
           x == <<a>> \o <<b>>
           y == <<a, b>> \o <<c>>
<1>1. <<a>> \in Seq(S) /\ <<b>> \in Seq(S) /\ <<c>> \in Seq(S) /\ <<a, b>> \in Seq(S)
  OBVIOUS
<1> HIDE DEF S
<1>2. x \in Seq(S) /\ Len(x) = 2 /\ x[1] = a /\ x[2] = b
  <2>1. /\ x \in Seq(S) /\ Len(x) = Len(<<a>>) + Len(<<b>>)
        /\ \A i \in 1..Len(<<a>>) + Len(<<b>>) :
             x[i] = IF i <= Len(<<a>>) THEN <<a>>[i] ELSE <<b>>[i - Len(<<a>>)]
    BY <1>1, ConcatProperties
  <2> HIDE DEF x
  <2> QED BY <2>1
<1>3. y \in Seq(S) /\ Len(y) = 3 /\ y[1] = a /\ y[2] = b /\ y[3] = c
  <2>1. /\ y \in Seq(S) /\ Len(y) = Len(<<a, b>>) + Len(<<c>>)
        /\ \A i \in 1..Len(<<a, b>>) + Len(<<c>>) :
             y[i] = IF i <= Len(<<a, b>>) THEN <<a, b>>[i] ELSE <<c>>[i - Len(<<a, b>>)]
    BY <1>1, ConcatProperties
  <2> HIDE DEF y
  <2> QED BY <2>1
<1> HIDE DEF x, y
<1>4. x = <<a, b>> /\ y = <<a, b, c>>
  BY <1>2, <1>3
<1> QED BY <1>4 DEF x, y

LEMMA HeardFew ==
  ASSUME NEW w \in Seq(Words)
  PROVE  /\ Len(w) = 1 => Heard(w) = HeardAt(w, 1)
         /\ Len(w) = 2 => Heard(w) = HeardAt(w, 1) \o HeardAt(w, 2)
         /\ Len(w) = 3 => Heard(w) = (HeardAt(w, 1) \o HeardAt(w, 2)) \o HeardAt(w, 3)
<1> DEFINE h == [i \in 1..Len(w) |-> HeardAt(w, i)]
           Piece == Seq(Sound)
<1>1. h \in Seq(Piece) /\ Len(h) = Len(w) /\ Heard(w) = FlattenSeq(h)
  BY HeardPieces DEF Heard
<1>2. \A i \in 1..Len(w) : h[i] = HeardAt(w, i)
  OBVIOUS
<1>3. \A i \in 1..Len(h) : h[i] \in Piece
  BY <1>1, ElementOfSeq
<1> HIDE DEF h
<1>4. \A x \in Piece : FlattenSeq(<<x>>) = x /\ <<x>> \in Seq(Piece)
  <2> TAKE x \in Piece
  <2>1. FlattenSeq(<<x>>) = x
    BY FlattenOne
  <2> HIDE DEF Piece
  <2> QED BY <2>1
<1>5. \A s, t \in Seq(Piece) : FlattenSeq(s \o t) = FlattenSeq(s) \o FlattenSeq(t)
  BY FlattenConcat
<1> HIDE DEF Piece
<1>6. CASE Len(w) = 1
  <2>1. h = <<h[1]>> /\ h[1] \in Piece
    BY <1>1, <1>3, <1>6
  <2> QED BY <1>1, <1>2, <1>4, <1>6, <2>1
<1>7. CASE Len(w) = 2
  <2>1. h = <<h[1], h[2]>> /\ h[1] \in Piece /\ h[2] \in Piece
    BY <1>1, <1>3, <1>7
  <2>2. <<h[1]>> \o <<h[2]>> = <<h[1], h[2]>>
    BY <2>1, Tuples
  <2>3. FlattenSeq(h) = h[1] \o h[2]
    <3>1. FlattenSeq(<<h[1]>> \o <<h[2]>>) = FlattenSeq(<<h[1]>>) \o FlattenSeq(<<h[2]>>)
      BY <1>4, <1>5, <2>1, Zenon
    <3>2. FlattenSeq(h) = FlattenSeq(<<h[1]>> \o <<h[2]>>)
      BY <2>1, <2>2, Zenon
    <3> QED BY <1>4, <2>1, <3>1, <3>2, Zenon
  <2> QED BY <1>1, <1>2, <1>7, <2>3
<1>8. CASE Len(w) = 3
  <2>1. h = <<h[1], h[2], h[3]>> /\ h[1] \in Piece /\ h[2] \in Piece /\ h[3] \in Piece
    BY <1>1, <1>3, <1>8
  <2>2. /\ <<h[1]>> \o <<h[2]>> = <<h[1], h[2]>>
        /\ <<h[1], h[2]>> \o <<h[3]>> = <<h[1], h[2], h[3]>>
    BY <2>1, Tuples
  <2>3. <<h[1], h[2]>> \in Seq(Piece)
    BY <2>1
  <2>4. FlattenSeq(h) = (h[1] \o h[2]) \o h[3]
    <3>1. FlattenSeq(<<h[1]>> \o <<h[2]>>) = FlattenSeq(<<h[1]>>) \o FlattenSeq(<<h[2]>>)
      BY <1>4, <1>5, <2>1, Zenon
    <3>2. FlattenSeq(<<h[1], h[2]>> \o <<h[3]>>)
            = FlattenSeq(<<h[1], h[2]>>) \o FlattenSeq(<<h[3]>>)
      BY <1>4, <1>5, <2>1, <2>3, Zenon
    <3>3. FlattenSeq(h) = FlattenSeq(<<h[1], h[2]>> \o <<h[3]>>)
      BY <2>1, <2>2, Zenon
    <3> QED BY <1>4, <2>1, <2>2, <3>1, <3>2, <3>3, Zenon
  <2> QED BY <1>1, <1>2, <1>8, <2>4
<1> QED BY <1>6, <1>7, <1>8

\* What is read out of a number is its digits.
LEMMA HeardNumber ==
  ASSUME NEW g \in Seq(DOMAIN Digits), g # <<>>, NEW d,
         d = [i \in 1..Len(g) |-> Digits[g[i]]]
  PROVE  LET w == AppendChineseNumber(d)
         IN  w \in Seq(Words) /\ w # <<>> /\ Heard(w) = g
<1> DEFINE w == AppendChineseNumber(d)
           D(n) == Word("digit", n)
           T == Word("ten", 0)
<1>0. Len(g) \in Nat /\ Len(g) # 0 /\ \A i \in 1..Len(g) : g[i] \in DOMAIN Digits
  BY LenProperties, ElementOfSeq, EmptySeq
<1>1. /\ Len(d) = Len(g)
      /\ \A i \in 1..Len(g) : d[i] \in 0..9 /\ d[i] = Digits[g[i]] /\ DigitChar(d[i]) = g[i]
  <2> DEFINE Value == 0..9
  <2>1. d \in [1..Len(g) -> Value]
    BY <1>0, DigitIs
  <2> HIDE DEF Value
  <2>2. d \in Seq(Value)
    BY <1>0, <2>1, SeqDef
  <2>3. Len(d) = Len(g)
    BY <1>0, <2>1, <2>2, LenProperties
  <2>4. \A i \in 1..Len(g) : d[i] \in 0..9 /\ d[i] = Digits[g[i]] /\ DigitChar(d[i]) = g[i]
    BY <1>0, DigitIs
  <2> QED BY <2>3, <2>4
<1>2. CASE Len(d) = 2 /\ d[1] # 0
  <2>1. /\ 1 \in 1..Len(g) /\ 2 \in 1..Len(g)
        /\ g = <<g[1], g[2]>> /\ g[1] \in DOMAIN Digits /\ g[2] \in DOMAIN Digits
        /\ d[1] \in 0..9 /\ d[2] \in 0..9 /\ DigitChar(d[1]) = g[1] /\ DigitChar(d[2]) = g[2]
    <3>1. Len(g) = 2
      BY <1>1, <1>2, Zenon
    <3>2. 1 \in 1..Len(g) /\ 2 \in 1..Len(g)
      BY <3>1
    <3>3. g = <<g[1], g[2]>>
      BY <3>1
    <3> QED BY <1>0, <1>1, <3>2, <3>3, Zenon
  <2>2. w = ((IF d[1] # 1 THEN <<D(d[1])>> ELSE <<>>) \o <<T>>)
            \o (IF d[2] # 0 THEN <<D(d[2])>> ELSE <<>>)
    BY <1>2, Zenon DEF AppendChineseNumber
  <2>3. /\ D(d[1]) \in Words /\ D(d[2]) \in Words /\ T \in Words
        /\ T.kind = "ten" /\ \A n : D(n).kind = "digit" /\ D(n).n = n
    BY <2>1 DEF Words, Word
  <2> HIDE DEF w, D, T
  <2>4. <<>> \o <<T>> = <<T>> /\ <<T>> \o <<>> = <<T>>
        /\ <<D(d[1])>> \o <<T>> = <<D(d[1]), T>> /\ <<D(d[1]), T>> \o <<>> = <<D(d[1]), T>>
        /\ <<T>> \o <<D(d[2])>> = <<T, D(d[2])>>
        /\ <<D(d[1]), T>> \o <<D(d[2])>> = <<D(d[1]), T, D(d[2])>>
    <3>1. <<T>> \in Seq({T}) /\ <<D(d[1]), T>> \in Seq({D(d[1]), T})
      OBVIOUS
    <3>2. /\ <<>> \o <<T>> = <<T>> /\ <<T>> \o <<>> = <<T>>
          /\ <<D(d[1]), T>> \o <<>> = <<D(d[1]), T>>
      BY <3>1, ConcatEmptySeq
    <3>3. <<D(d[1])>> \o <<T>> = <<D(d[1]), T>>
      BY Tuples, Zenon
    <3>4. <<D(d[1]), T>> \o <<D(d[2])>> = <<D(d[1]), T, D(d[2])>>
      <4> DEFINE x == D(d[1])
                 y == D(d[2])
      <4> HIDE DEF x, y
      <4>1. <<x, T>> \o <<y>> = <<x, T, y>>
        BY Tuples
      <4> QED BY <4>1 DEF x, y
    <3>5. <<T>> \o <<D(d[2])>> = <<T, D(d[2])>>
      BY Tuples, Zenon
    <3> QED BY <3>2, <3>3, <3>4, <3>5, Zenon
  <2>5. \A x : <<>> \o <<x>> = <<x>> /\ <<x>> \o <<>> = <<x>> /\ <<>> \o <<>> = <<>>
    OBVIOUS
  <2>6. \A x, y : <<x>> \o <<y>> = <<x, y>>
    BY Tuples, Zenon
  <2>7. \A i : w[i].kind = "digit" => HeardAt(w, i) = <<DigitChar(w[i].n)>>
    BY Zenon DEF HeardAt
  <2>8. \A i : w[i].kind = "ten" =>
          HeardAt(w, i) = (IF IsDigit(w, i - 1) THEN <<>> ELSE <<DigitChar(1)>>)
                          \o (IF IsDigit(w, i + 1) THEN <<>> ELSE <<DigitChar(0)>>)
    <3> TAKE i
    <3> HAVE w[i].kind = "ten"
    <3>1. w[i].kind # "digit" /\ w[i].kind # "point"
      OBVIOUS
    <3> QED BY <3>1, Zenon DEF HeardAt
  <2>9. CASE d[1] # 1 /\ d[2] # 0
    <3>1. w = <<D(d[1]), T, D(d[2])>>
      BY <2>2, <2>4, <2>9
    <3>2. w \in Seq(Words) /\ Len(w) = 3 /\ w[1] = D(d[1]) /\ w[2] = T /\ w[3] = D(d[2])
      BY <2>3, <3>1
    <3>3. IsDigit(w, 2 - 1) /\ IsDigit(w, 2 + 1)
      BY <2>3, <3>2 DEF IsDigit
    <3>4. HeardAt(w, 1) = <<g[1]>> /\ HeardAt(w, 3) = <<g[2]>>
      <4>1. w[1].kind = "digit" /\ w[1].n = d[1] /\ w[3].kind = "digit" /\ w[3].n = d[2]
        BY <2>3, <3>2
      <4> QED BY <2>1, <2>7, <4>1, Zenon
    <3>7. HeardAt(w, 2) = <<>> \o <<>>
      BY <2>3, <2>8, <3>2, <3>3, Zenon
    <3>5. Heard(w) = (<<g[1]>> \o (<<>> \o <<>>)) \o <<g[2]>>
      BY <3>2, <3>4, <3>7, HeardFew
    <3>6. Heard(w) = g
      <4>1. Heard(w) = <<g[1]>> \o <<g[2]>>
        BY <2>5, <3>5
      <4> QED BY <2>1, <2>6, <4>1, Zenon
    <3> QED BY <3>2, <3>6, EmptySeq DEF w
  <2>10. CASE d[1] # 1 /\ d[2] = 0
    <3>1. w = <<D(d[1]), T>>
      BY <2>2, <2>4, <2>10
    <3>2. w \in Seq(Words) /\ Len(w) = 2 /\ w[1] = D(d[1]) /\ w[2] = T
      BY <2>3, <3>1
    <3>3. IsDigit(w, 2 - 1) /\ ~ IsDigit(w, 2 + 1)
      BY <2>3, <3>2 DEF IsDigit
    <3>4. HeardAt(w, 1) = <<g[1]>>
      <4>1. w[1].kind = "digit" /\ w[1].n = d[1]
        BY <2>3, <3>2
      <4> QED BY <2>1, <2>7, <4>1, Zenon
    <3>7. HeardAt(w, 2) = <<>> \o <<g[2]>>
      BY <2>1, <2>3, <2>8, <2>10, <3>2, <3>3, Zenon
    <3>5. Heard(w) = <<g[1]>> \o (<<>> \o <<g[2]>>)
      BY <3>2, <3>4, <3>7, HeardFew
    <3>6. Heard(w) = g
      BY <2>1, <2>5, <2>6, <3>5, Zenon
    <3> QED BY <3>2, <3>6, EmptySeq DEF w
  <2>11. CASE d[1] = 1 /\ d[2] # 0
    <3>1. w = <<T, D(d[2])>>
      BY <2>2, <2>4, <2>11
    <3>2. w \in Seq(Words) /\ Len(w) = 2 /\ w[1] = T /\ w[2] = D(d[2])
      BY <2>3, <3>1
    <3>3. ~ IsDigit(w, 1 - 1) /\ IsDigit(w, 1 + 1)
      BY <2>3, <3>2 DEF IsDigit
    <3>4. HeardAt(w, 2) = <<g[2]>>
      <4>1. w[2].kind = "digit" /\ w[2].n = d[2]
        BY <2>3, <3>2
      <4> QED BY <2>1, <2>7, <4>1, Zenon
    <3>7. HeardAt(w, 1) = <<g[1]>> \o <<>>
      <4>1. w[1].kind = "ten" /\ DigitChar(1) = g[1]
        BY <2>1, <2>3, <2>11, <3>2
      <4> QED BY <2>8, <3>3, <4>1, Zenon
    <3>5. Heard(w) = (<<g[1]>> \o <<>>) \o <<g[2]>>
      BY <3>2, <3>4, <3>7, HeardFew
    <3>6. Heard(w) = g
      BY <2>1, <2>5, <2>6, <3>5, Zenon
    <3> QED BY <3>2, <3>6, EmptySeq DEF w
  <2>12. CASE d[1] = 1 /\ d[2] = 0
    <3>1. w = <<T>>
      BY <2>2, <2>4, <2>12
    <3>2. w \in Seq(Words) /\ Len(w) = 1 /\ w[1] = T
      BY <2>3, <3>1
    <3>3. ~ IsDigit(w, 1 - 1) /\ ~ IsDigit(w, 1 + 1)
      BY <2>3, <3>2 DEF IsDigit
    <3>4. HeardAt(w, 1) = <<g[1]>> \o <<g[2]>>
      BY <2>1, <2>3, <2>8, <2>12, <3>2, <3>3, Zenon
    <3>5. Heard(w) = <<g[1]>> \o <<g[2]>>
      BY <3>2, <3>4, HeardFew
    <3>6. Heard(w) = g
      BY <2>1, <2>6, <3>5, Zenon
    <3> QED BY <3>2, <3>6, EmptySeq DEF w
  <2> QED BY <2>9, <2>10, <2>11, <2>12, Zenon
<1>3. CASE ~ (Len(d) = 2 /\ d[1] # 0)
  <2>1. w = [i \in 1..Len(d) |-> Word("digit", d[i])]
    BY <1>3, Zenon DEF AppendChineseNumber
  <2>2. w = [i \in 1..Len(g) |-> Word("digit", Digits[g[i]])]
    BY <1>1, <2>1
  <2> HIDE DEF w
  <2>3. w \in Seq(Words) /\ Len(w) = Len(g) /\ Heard(w) = g
    BY <2>2, HeardDigits
  <2> QED BY <1>0, <2>3, EmptySeq DEF w
<1> QED BY <1>2, <1>3

\* The decimals are read out one by one.
LEMMA HeardDecimals ==
  ASSUME NEW g \in Seq(DOMAIN Digits), NEW d,
         d = [i \in 1..Len(g) |-> Digits[g[i]]]
  PROVE  LET u == OneByOne(d, Len(g))
         IN  u \in Seq(Words) /\ Len(u) = Len(g) /\ Heard(u) = g
<1> DEFINE w == [i \in 1..Len(g) |-> Word("digit", Digits[g[i]])]
           s == [i \in 1..Len(g) |-> AppendChineseNumber(<<d[i]>>)]
<1>1. w \in Seq(Words) /\ Len(w) = Len(g) /\ Heard(w) = g
  BY HeardDigits
<1>2. s = [i \in 1..Len(w) |-> <<w[i]>>]
  <2>1. ASSUME NEW v
        PROVE  AppendChineseNumber(<<v>>) = <<Word("digit", v)>>
    <3>1. Len(<<v>>) = 1 /\ Len(<<v>>) # 2
      OBVIOUS
    <3>2. AppendChineseNumber(<<v>>) = [i \in 1..1 |-> Word("digit", <<v>>[i])]
      BY <3>1, Zenon DEF AppendChineseNumber
    <3>3. [i \in 1..1 |-> Word("digit", <<v>>[i])] = [i \in 1..1 |-> Word("digit", v)]
      OBVIOUS
    <3>4. \A y : [i \in 1..1 |-> y] = <<y>>
      OBVIOUS
    <3> QED BY <3>2, <3>3, <3>4, Zenon
  <2>2. \A i \in 1..Len(g) : AppendChineseNumber(<<d[i]>>) = <<w[i]>>
    <3> TAKE i \in 1..Len(g)
    <3>1. d[i] = Digits[g[i]] /\ w[i] = Word("digit", Digits[g[i]])
      OBVIOUS
    <3> QED BY <2>1, <3>1, Zenon
  <2> HIDE DEF w
  <2> QED BY <1>1, <2>2
<1> HIDE DEF w, s
<1>3. FlattenSeq(s) = w
  BY <1>1, <1>2, FlattenSingles
<1> QED BY <1>1, <1>3, Zenon DEF s, OneByOne

-----------------------------------------------------------------------------
(* What is to be heard, from a place in the text on. *)

Pieces(x) == [i \in 1..Len(x) |-> IF x[i] \in Silent THEN <<>> ELSE <<x[i]>>]
From(x, here) == FlattenSeq(SubSeq(Pieces(x), here, Len(x)))

LEMMA PiecesAre ==
  ASSUME NEW x \in Seq(Chars)
  PROVE  /\ Pieces(x) \in Seq(Seq(Chars)) /\ Len(Pieces(x)) = Len(x)
         /\ \A i \in 1..Len(x) : Pieces(x)[i] = IF x[i] \in Silent THEN <<>> ELSE <<x[i]>>
<1> DEFINE P == Pieces(x)
<1>0. Len(x) \in Nat /\ \A i \in 1..Len(x) : x[i] \in Chars
  BY LenProperties, ElementOfSeq
<1>1. \A c \in Chars : <<c>> \in Seq(Chars) /\ <<>> \in Seq(Chars)
  OBVIOUS
<1>2. P \in [1..Len(x) -> Seq(Chars)]
      /\ \A i \in 1..Len(x) : P[i] = IF x[i] \in Silent THEN <<>> ELSE <<x[i]>>
  BY <1>0, <1>1, Zenon DEF Pieces
<1> HIDE DEF P
<1>3. P \in Seq(Seq(Chars))
  BY <1>0, <1>2, SeqDef
<1>4. Len(P) = Len(x)
  BY <1>0, <1>2, <1>3, LenProperties
<1> QED BY <1>2, <1>3, <1>4 DEF P

LEMMA FromStart ==
  ASSUME NEW x \in Seq(Chars)
  PROVE  From(x, 1) = ToBeHeard(x)
<1> DEFINE P == Pieces(x)
<1>1. P \in Seq(Seq(Chars)) /\ Len(P) = Len(x)
  BY PiecesAre
<1> HIDE DEF P
<1>2. SubSeq(P, 1, Len(x)) = P
  BY <1>1, SubSeqFull
<1> QED BY <1>2, Zenon DEF From, ToBeHeard, Pieces, P

LEMMA FromEnd ==
  ASSUME NEW x \in Seq(Chars)
  PROVE  From(x, Len(x) + 1) = <<>>
<1>1. Len(x) \in Nat
  BY LenProperties
<1>2. SubSeq(Pieces(x), Len(x) + 1, Len(x)) = <<>>
  BY <1>1, SubSeqEmpty
<1> QED BY <1>2, FlattenEmpty DEF From

LEMMA FromSplit ==
  ASSUME NEW x \in Seq(Chars), NEW here \in 1..Len(x), NEW e \in here..Len(x)
  PROVE  /\ From(x, here) = FlattenSeq(SubSeq(Pieces(x), here, e)) \o From(x, e + 1)
         /\ From(x, e + 1) \in Seq(Chars)
<1> DEFINE P == Pieces(x)
           a == SubSeq(P, here, e)
           b == SubSeq(P, e + 1, Len(x))
<1>0. P \in Seq(Seq(Chars)) /\ Len(P) = Len(x)
  BY PiecesAre
<1>1. Len(x) \in Nat /\ \A i \in 1..Len(x) : P[i] \in Seq(Chars)
  BY <1>0, LenProperties, ElementOfSeq
<1> HIDE DEF P
<1>2. a \o b = SubSeq(P, here, Len(x))
  <2> here \in 1..Len(P) + 1 /\ e \in here - 1..Len(P) /\ Len(x) \in e..Len(P)
    BY <1>0, <1>1
  <2> QED BY <1>0, ConcatAdjacentSubSeq
<1>3. a \in Seq(Seq(Chars)) /\ b \in Seq(Seq(Chars))
  <2>1. /\ here \in Int /\ e \in Int /\ e + 1 \in Int /\ Len(x) \in Int
        /\ \A i \in here..e : P[i] \in Seq(Chars)
        /\ \A i \in (e + 1)..Len(x) : P[i] \in Seq(Chars)
    BY <1>1
  <2> QED BY <2>1, SubSeqProperties
<1> HIDE DEF a, b
<1>4. FlattenSeq(a \o b) = FlattenSeq(a) \o FlattenSeq(b)
  BY <1>3, FlattenConcat
<1>5. FlattenSeq(b) \in Seq(Chars)
  BY <1>3, FlattenType
<1>6. From(x, here) = FlattenSeq(a \o b)
  BY <1>2, Zenon DEF From, P
<1>7. From(x, e + 1) = FlattenSeq(b)
  BY DEF From, P, b
<1> QED BY <1>4, <1>5, <1>6, <1>7 DEF a, P

LEMMA OneAlone ==
  ASSUME NEW S, NEW s \in Seq(S), NEW here \in 1..Len(s)
  PROVE  SubSeq(s, here, here) = <<s[here]>>
<1>1. Len(s) \in Nat /\ here \in here..Len(s) /\ here \in Int /\ here + 1 \in Int /\ here < here + 1
      /\ s[here] \in S
  BY LenProperties, ElementOfSeq
<1>2. SubSeq(s, here, here) = <<s[here]>> \o SubSeq(s, here + 1, here)
  BY <1>1, SubSeqRecursiveFirst
<1>3. SubSeq(s, here + 1, here) = <<>>
  BY <1>1, SubSeqEmpty
<1>4. <<s[here]>> \in Seq(S)
  BY <1>1
<1> QED BY <1>2, <1>3, <1>4, ConcatEmptySeq

LEMMA FromSilent ==
  ASSUME NEW x \in Seq(Chars), NEW here \in 1..Len(x), x[here] \in Silent
  PROVE  From(x, here) = From(x, here + 1)
<1> DEFINE P == Pieces(x)
<1>0. P \in Seq(Seq(Chars)) /\ Len(P) = Len(x) /\ P[here] = <<>>
  BY PiecesAre
<1>1. From(x, here) = FlattenSeq(SubSeq(P, here, here)) \o From(x, here + 1)
      /\ From(x, here + 1) \in Seq(Chars)
  <2> here \in here..Len(x) /\ Len(x) \in Nat
    BY LenProperties
  <2> QED BY FromSplit
<1> HIDE DEF P
<1>2. SubSeq(P, here, here) = <<P[here]>>
  BY <1>0, OneAlone
<1>3. FlattenSeq(<<<<>>>>) = <<>>
  <2> <<>> \in Seq(Chars)
    OBVIOUS
  <2> QED BY FlattenOne
<1>4. FlattenSeq(SubSeq(P, here, here)) = <<>>
  BY <1>0, <1>2, <1>3, Zenon
<1> QED BY <1>1, <1>4, ConcatEmptySeq

\* n characters that are read out.
LEMMA FromText ==
  ASSUME NEW x \in Seq(Chars), NEW here \in 1..Len(x), NEW n \in Nat, n > 0,
         here + n <= Len(x) + 1, \A i \in 1..n : x[here + i - 1] \notin Silent
  PROVE  /\ From(x, here) = SubSeq(x, here, here + n - 1) \o From(x, here + n)
         /\ SubSeq(x, here, here + n - 1) \in Seq(Chars)
         /\ Len(SubSeq(x, here, here + n - 1)) = n
         /\ \A i \in 1..n : SubSeq(x, here, here + n - 1)[i] = x[here + i - 1]
<1> DEFINE P == Pieces(x)
           e == here + n - 1
           g == SubSeq(x, here, e)
           s == SubSeq(P, here, e)
<1>0. /\ P \in Seq(Seq(Chars)) /\ Len(P) = Len(x) /\ Len(x) \in Nat
      /\ \A i \in 1..Len(x) : x[i] \in Chars /\ P[i] \in Seq(Chars)
      /\ \A i \in 1..Len(x) : x[i] \notin Silent => P[i] = <<x[i]>>
  BY PiecesAre, LenProperties, ElementOfSeq
<1>1. /\ e \in here..Len(x) /\ e + 1 = here + n /\ e - here + 1 = n
      /\ here \in Int /\ e \in Int /\ here <= e
  BY <1>0
<1>2. From(x, here) = FlattenSeq(s) \o From(x, e + 1)
  BY <1>1, FromSplit
<1> HIDE DEF P, e
<1>3. /\ g \in Seq(Chars) /\ Len(g) = n
      /\ \A i \in 1..n : g[i] = x[here + i - 1]
  <2>1. \A i \in here..e : x[i] \in Chars
    BY <1>0, <1>1
  <2>2. /\ g \in Seq(Chars) /\ Len(g) = IF here <= e THEN e - here + 1 ELSE 0
        /\ \A i \in 1..(e - here + 1) : g[i] = x[here + i - 1]
    BY <1>1, <2>1, SubSeqProperties
  <2> QED BY <1>1, <2>2
<1>4. /\ s \in Seq(Seq(Chars)) /\ Len(s) = n
      /\ \A i \in 1..n : s[i] = P[here + i - 1]
  <2>1. \A i \in here..e : P[i] \in Seq(Chars)
    BY <1>0, <1>1
  <2>2. /\ s \in Seq(Seq(Chars)) /\ Len(s) = IF here <= e THEN e - here + 1 ELSE 0
        /\ \A i \in 1..(e - here + 1) : s[i] = P[here + i - 1]
    BY <1>1, <2>1, SubSeqProperties
  <2> QED BY <1>1, <2>2
<1> HIDE DEF g, s
<1>5. \A i \in 1..n : s[i] = <<g[i]>>
  <2> TAKE i \in 1..n
  <2>1. here + i - 1 \in 1..Len(x)
    BY <1>0
  <2> QED BY <1>0, <1>3, <1>4, <2>1
<1>6. s = [i \in 1..Len(g) |-> <<g[i]>>]
  <2>1. DOMAIN s = 1..Len(g) /\ s = [i \in DOMAIN s |-> s[i]]
    BY <1>3, <1>4, LenProperties
  <2> QED BY <1>3, <1>5, <2>1
<1>7. FlattenSeq(s) = g
  BY <1>3, <1>6, FlattenSingles
<1> QED BY <1>1, <1>2, <1>3, <1>7 DEF g, e

-----------------------------------------------------------------------------
(* w is how the text x is read out from a place on: it is heard as it is      *)
(* written, and it begins with a number only if the text does.                *)

Reads(x, here, w) ==
  /\ w \in Seq(Words) /\ Heard(w) = From(x, here)
  /\ w # <<>> /\ Numeric(w[1]) =>
       \E j \in here..Len(x) :
         x[j] \in DOMAIN Digits /\ \A k \in here..(j - 1) : x[k] \in Silent

LEMMA FirstStays ==
  ASSUME NEW S, NEW u \in Seq(S), NEW v \in Seq(S), u # <<>>
  PROVE  (u \o v)[1] = u[1]
<1>1. Len(u) > 0 /\ Len(u) \in Nat /\ Len(v) \in Nat
  BY LenProperties, EmptySeq
<1>2. \A i \in 1..Len(u) + Len(v) : (u \o v)[i] = IF i <= Len(u) THEN u[i] ELSE v[i - Len(u)]
  BY ConcatProperties
<1>3. 1 \in 1..Len(u) + Len(v) /\ 1 <= Len(u)
  BY <1>1
<1> DEFINE w == u \o v
<1> HIDE DEF w
<1> QED BY <1>2, <1>3

LEMMA ReadsEnd ==
  ASSUME NEW x \in Seq(Chars)
  PROVE  Reads(x, Len(x) + 1, <<>>)
<1>1. <<>> \in Seq(Words)
  OBVIOUS
<1>2. Heard(<<>>) = <<>>
  <2> DEFINE h == [i \in 1..Len(<<>>) |-> HeardAt(<<>>, i)]
  <2>1. h \in Seq(Seq(Sound)) /\ Len(h) = Len(<<>>)
    BY <1>1, HeardPieces
  <2> HIDE DEF h
  <2>2. h = <<>>
    BY <2>1, EmptySeq
  <2>3. FlattenSeq(h) = <<>>
    BY <2>2, FlattenEmpty, Zenon
  <2> QED BY <2>3, Zenon DEF Heard, h
<1> QED BY <1>1, <1>2, FromEnd, Zenon DEF Reads

LEMMA ReadsSilent ==
  ASSUME NEW x \in Seq(Chars), NEW here \in 1..Len(x), x[here] \in Silent,
         NEW w, Reads(x, here + 1, w)
  PROVE  Reads(x, here, w)
<1>1. w \in Seq(Words) /\ Heard(w) = From(x, here)
  BY FromSilent DEF Reads
<1>2. ASSUME w # <<>>, Numeric(w[1])
      PROVE  \E j \in here..Len(x) :
               x[j] \in DOMAIN Digits /\ \A k \in here..(j - 1) : x[k] \in Silent
  <2>1. PICK j \in (here + 1)..Len(x) :
          x[j] \in DOMAIN Digits /\ \A k \in (here + 1)..(j - 1) : x[k] \in Silent
    BY <1>2, Zenon DEF Reads
  <2>2. Len(x) \in Nat
    BY LenProperties
  <2>3. j \in here..Len(x) /\ \A k \in here..(j - 1) : x[k] \in Silent
    BY <2>1, <2>2
  <2> QED BY <2>1, <2>3
<1> QED BY <1>1, <1>2, Zenon DEF Reads

LEMMA ReadsChar ==
  ASSUME NEW x \in Seq(Chars), NEW here \in 1..Len(x), x[here] \notin Silent,
         NEW k, k = x[here] \/ (k = "point" /\ x[here] = Point),
         NEW v, Reads(x, here + 1, v)
  PROVE  Reads(x, here, <<Word(k, 0)>> \o v)
<1> DEFINE u == <<Word(k, 0)>>
           c == x[here]
<1>0. /\ c \in Chars /\ Len(x) \in Nat
      /\ v \in Seq(Words) /\ Heard(v) = From(x, here + 1)
  BY LenProperties, ElementOfSeq DEF Reads
<1>1. u \in Seq(Words) /\ Heard(u) = <<c>> /\ ~ Numeric(Word(k, 0))
  BY <1>0, HeardOne
<1>2. u # <<>> /\ Len(u) = 1 /\ u[1] = Word(k, 0)
  OBVIOUS
<1> HIDE DEF u
<1>3. Apart(u, v)
  BY <1>1, <1>2 DEF Apart
<1>4. u \o v \in Seq(Words) /\ Heard(u \o v) = <<c>> \o From(x, here + 1)
  BY <1>0, <1>1, <1>3, HeardApart, ConcatProperties
<1>5. From(x, here) = <<c>> \o From(x, here + 1)
  <2>1. /\ 1 \in Nat /\ 1 > 0 /\ here + 1 <= Len(x) + 1
        /\ \A i \in 1..1 : x[here + i - 1] \notin Silent
    BY <1>0
  <2>2. From(x, here) = SubSeq(x, here, here + 1 - 1) \o From(x, here + 1)
    BY <2>1, FromText
  <2>3. here + 1 - 1 = here
    OBVIOUS
  <2>4. SubSeq(x, here, here) = <<x[here]>>
    BY OneAlone
  <2> QED BY <2>2, <2>3, <2>4
<1>6. (u \o v)[1] = u[1]
  BY <1>0, <1>1, <1>2, FirstStays
<1> QED BY <1>1, <1>2, <1>4, <1>5, <1>6, Zenon DEF Reads, u

LEMMA ReadsDigits ==
  ASSUME NEW x \in Seq(Chars), ~ RunsTogether(x), NEW here \in 1..Len(x),
         NEW n, Run(x, here, n),
         NEW u \in Seq(Words), u # <<>>, Heard(u) = SubSeq(x, here, here + n - 1),
         NEW v, Reads(x, here + n, v)
  PROVE  Reads(x, here, u \o v)
<1>0. /\ Len(x) \in Nat /\ n \in Nat /\ n > 0 /\ here + n <= Len(x) + 1
      /\ \A i \in 1..n : x[here + i - 1] \in DOMAIN Digits
      /\ here + n <= Len(x) => x[here + n] \notin DOMAIN Digits
      /\ v \in Seq(Words) /\ Heard(v) = From(x, here + n)
  BY LenProperties DEF Reads, Run
<1>1. Apart(u, v)
  <2> SUFFICES ASSUME v # <<>>, Numeric(v[1])
               PROVE  FALSE
    BY DEF Apart
  <2>1. PICK j \in (here + n)..Len(x) :
          x[j] \in DOMAIN Digits /\ \A k \in (here + n)..(j - 1) : x[k] \in Silent
    BY Zenon DEF Reads
  <2> DEFINE i == here + n - 1
  <2>2. i \in 1..Len(x) /\ x[i] \in DOMAIN Digits /\ i + 1 = here + n
    <3>1. n \in 1..n /\ i \in 1..Len(x) /\ i + 1 = here + n
      BY <1>0
    <3> QED BY <1>0, <3>1
  <2>3. j \in (i + 2)..Len(x)
    <3>1. ASSUME j = here + n
          PROVE  FALSE
      <4>1. here + n <= Len(x) /\ x[here + n] \in DOMAIN Digits
        BY <1>0, <2>1, <3>1
      <4> QED BY <1>0, <4>1
    <3>2. j \in Nat /\ j > here + n /\ j <= Len(x)
      BY <1>0, <2>1, <3>1
    <3> QED BY <1>0, <3>2
  <2> HIDE DEF i
  <2>4. \A k \in (i + 1)..(j - 1) : x[k] \in Silent
    BY <2>1, <2>2
  <2>5. {x[i], x[j]} \subseteq DOMAIN Digits
    BY <2>1, <2>2
  <2> QED BY <2>2, <2>3, <2>4, <2>5, Zenon DEF RunsTogether
<1>2. u \o v \in Seq(Words) /\ Heard(u \o v) = SubSeq(x, here, here + n - 1) \o From(x, here + n)
  BY <1>0, <1>1, HeardApart, ConcatProperties
<1>3. From(x, here) = SubSeq(x, here, here + n - 1) \o From(x, here + n)
  <2> \A i \in 1..n : x[here + i - 1] \notin Silent
    BY <1>0, NumberAssumption
  <2> QED BY <1>0, FromText
<1>4. \E j \in here..Len(x) :
        x[j] \in DOMAIN Digits /\ \A k \in here..(j - 1) : x[k] \in Silent
  <2>1. x[here] \in DOMAIN Digits
    <3>1. 1 \in 1..n /\ here + 1 - 1 = here
      BY <1>0
    <3> QED BY <1>0, <3>1
  <2>2. here \in here..Len(x) /\ \A k \in here..(here - 1) : x[k] \in Silent
    BY <1>0
  <2> QED BY <2>1, <2>2
<1> QED BY <1>2, <1>3, <1>4, Zenon DEF Reads

-----------------------------------------------------------------------------
(* StripForTts. *)

LEMMA SpokenLooksAhead ==
  ASSUME NEW x \in Seq(Chars), NEW here \in 1..Len(x) + 1, NEW f, NEW g,
         \A i \in (here + 1)..Len(x) + 1 : f[i] = g[i]
  PROVE  Spoken(x, f, here) = Spoken(x, g, here)
<1>0. Len(x) \in Nat
  BY LenProperties
<1>1. CASE AtEnd(x, here)
  BY <1>1, Zenon DEF AtEnd
<1>2. CASE AtSilent(x, here)
  <2>1. here + 1 \in (here + 1)..Len(x) + 1
    BY <1>0, <1>2 DEF AtSilent
  <2> QED BY <1>2, <2>1, Zenon DEF AtSilent
<1>3. CASE AtChar(x, here)
  <2>1. here + 1 \in (here + 1)..Len(x) + 1
    BY <1>0, <1>3 DEF AtChar
  <2> QED BY <1>3, <2>1, Zenon DEF AtChar
<1>4. CASE \E n : AtNumber(x, here, n)
  <2>1. PICK n : AtNumber(x, here, n)
    BY <1>4
  <2>2. here + n \in (here + 1)..Len(x) + 1
    BY <1>0, <2>1 DEF AtNumber, Run
  <2> QED BY <2>1, <2>2, Zenon DEF AtNumber
<1>5. CASE \E n, m : AtDecimals(x, here, n, m)
  <2>1. PICK n, m : AtDecimals(x, here, n, m)
    BY <1>5
  <2>2. here + n + 1 + m \in (here + 1)..Len(x) + 1
    BY <1>0, <2>1 DEF AtDecimals, Run
  <2>3. f[here + n + 1 + m] = g[here + n + 1 + m]
    BY <2>2, Zenon
  <2> QED BY <2>1, <2>3, Zenon DEF AtDecimals
<1> QED BY <1>1, <1>2, <1>3, <1>4, <1>5, SpokenIs

LEMMA StripExists ==
  ASSUME NEW x \in Seq(Chars)
  PROVE  \E f : f = [here \in 1..(Len(x) + 1) |-> Spoken(x, f, here)]
<1> DEFINE L == Len(x) + 1
           Left(n) == {here \in 1..L : L - here <= n}
           Done == {n \in Nat : \E f : f = [here \in Left(n) |-> Spoken(x, f, here)]}
<1>0. L \in Nat
  BY LenProperties
<1>1. ASSUME NEW k \in Nat, \A n \in 0..k - 1 : n \in Done
      PROVE  k \in Done
  <2>1. \E f : k > 0 => f = [here \in Left(k - 1) |-> Spoken(x, f, here)]
    <3>1. CASE k = 0
      BY <3>1
    <3>2. CASE k # 0
      <4>1. k - 1 \in 0..k - 1
        BY <3>2
      <4>2. k - 1 \in Done
        BY <1>1, <4>1, Zenon
      <4> QED BY <4>2, Zenon
    <3> QED BY <3>1, <3>2
  <2>2. PICK f : k > 0 => f = [here \in Left(k - 1) |-> Spoken(x, f, here)]
    BY <2>1
  <2> DEFINE g == [here \in Left(k) |-> Spoken(x, f, here)]
  <2>3. \A here \in Left(k) : g[here] = Spoken(x, f, here)
    OBVIOUS
  <2>4. g = [here \in Left(k) |-> g[here]]
    OBVIOUS
  <2> HIDE DEF g
  <2>5. ASSUME NEW here \in Left(k - 1), k > 0
        PROVE  g[here] = f[here]
    <3>1. here \in Left(k)
      BY <1>0
    <3>2. f[here] = Spoken(x, f, here)
      BY <2>2, <2>5, Zenon
    <3> QED BY <2>3, <3>1, <3>2, Zenon
  <2>6. ASSUME NEW here \in Left(k)
        PROVE  Spoken(x, f, here) = Spoken(x, g, here)
    <3>1. \A i \in (here + 1)..L : f[i] = g[i]
      <4> TAKE i \in (here + 1)..L
      <4>1. k > 0 /\ i \in Left(k - 1)
        BY <1>0
      <4> QED BY <2>5, <4>1, Zenon
    <3>2. here \in 1..L
      OBVIOUS
    <3> QED BY <3>1, <3>2, SpokenLooksAhead
  <2>7. \A here \in Left(k) : g[here] = Spoken(x, g, here)
    BY <2>3, <2>6, Zenon
  <2>8. g = [here \in Left(k) |-> Spoken(x, g, here)]
    BY <2>4, <2>7, Zenon
  <2> QED BY <2>8, Zenon
<1> HIDE DEF Done
<1>2. Nat \subseteq Done
  BY <1>1, AllNumbers
<1> USE DEF Done
<1>3. PICK f : f = [here \in Left(L) |-> Spoken(x, f, here)]
  BY <1>0, <1>2
<1>4. Left(L) = 1..L
  BY <1>0
<1> QED BY <1>3, <1>4

LEMMA StripIs ==
  ASSUME NEW x \in Seq(Chars)
  PROVE  \E f : /\ f = [here \in 1..(Len(x) + 1) |-> Spoken(x, f, here)]
                /\ StripForTts(x) = f[1]
<1>1. \E f : f = [here \in 1..(Len(x) + 1) |-> Spoken(x, f, here)]
  BY StripExists
<1> QED BY <1>1, Zenon DEF StripForTts, Spoken

LEMMA RunText ==
  ASSUME NEW x \in Seq(Chars), NEW here \in 1..Len(x) + 1, NEW n, Run(x, here, n)
  PROVE  LET g == SubSeq(x, here, here + n - 1)
         IN  /\ here \in 1..Len(x) /\ here + n \in (here + 1)..(Len(x) + 1)
             /\ g \in Seq(DOMAIN Digits) /\ g # <<>> /\ Len(g) = n
             /\ Values(x, here, n) = [i \in 1..Len(g) |-> Digits[g[i]]]
<1> DEFINE g == SubSeq(x, here, here + n - 1)
<1>0. /\ Len(x) \in Nat /\ n \in Nat /\ n > 0 /\ here + n <= Len(x) + 1
      /\ \A i \in 1..n : x[here + i - 1] \in DOMAIN Digits
  BY LenProperties DEF Run
<1>1. \A i \in here..(here + n - 1) : x[i] \in DOMAIN Digits
  <2> TAKE i \in here..(here + n - 1)
  <2>1. i - here + 1 \in 1..n /\ here + (i - here + 1) - 1 = i
    BY <1>0
  <2> QED BY <1>0, <2>1
<1>2. /\ g \in Seq(DOMAIN Digits) /\ Len(g) = n
      /\ \A i \in 1..n : g[i] = x[here + i - 1]
  <2>1. /\ here \in Int /\ here + n - 1 \in Int /\ here <= here + n - 1
        /\ (here + n - 1) - here + 1 = n
    BY <1>0
  <2>2. /\ g \in Seq(DOMAIN Digits)
        /\ Len(g) = IF here <= here + n - 1 THEN (here + n - 1) - here + 1 ELSE 0
        /\ \A i \in 1..((here + n - 1) - here + 1) : g[i] = x[here + i - 1]
    BY <1>1, <2>1, SubSeqProperties
  <2> HIDE DEF g
  <2> QED BY <2>1, <2>2
<1> HIDE DEF g
<1>3. g # <<>>
  BY <1>0, <1>2, EmptySeq
<1>4. Values(x, here, n) = [i \in 1..Len(g) |-> Digits[g[i]]]
  BY <1>2 DEF Values
<1>5. here \in 1..Len(x) /\ here + n \in (here + 1)..(Len(x) + 1)
  BY <1>0
<1> QED BY <1>2, <1>3, <1>4, <1>5 DEF g

LEMMA ReadsNumber ==
  ASSUME NEW x \in Seq(Chars), ~ RunsTogether(x), NEW here \in 1..Len(x) + 1,
         NEW n, Run(x, here, n), NEW v, Reads(x, here + n, v)
  PROVE  Reads(x, here, AppendChineseNumber(Values(x, here, n)) \o v)
<1> DEFINE g == SubSeq(x, here, here + n - 1)
           d == Values(x, here, n)
           u == AppendChineseNumber(d)
<1>1. /\ here \in 1..Len(x) /\ g \in Seq(DOMAIN Digits) /\ g # <<>>
      /\ d = [i \in 1..Len(g) |-> Digits[g[i]]]
  BY RunText
<1> HIDE DEF g, d
<1>2. u \in Seq(Words) /\ u # <<>> /\ Heard(u) = g
  BY <1>1, HeardNumber
<1> HIDE DEF u
<1>3. Reads(x, here, u \o v)
  BY <1>1, <1>2, ReadsDigits DEF g
<1> QED BY <1>3 DEF u, d

LEMMA ReadsDecimals ==
  ASSUME NEW x \in Seq(Chars), ~ RunsTogether(x), NEW here \in 1..Len(x) + 1,
         NEW n, Run(x, here, n), NEW v, Reads(x, here + n, v)
  PROVE  Decimals(x, here, n) \in Seq(Words) /\ Reads(x, here, Decimals(x, here, n) \o v)
<1> DEFINE g == SubSeq(x, here, here + n - 1)
           d == Values(x, here, n)
           u == Decimals(x, here, n)
<1> HIDE DEF u
<1>1. /\ here \in 1..Len(x) /\ g \in Seq(DOMAIN Digits) /\ g # <<>>
      /\ d = [i \in 1..Len(g) |-> Digits[g[i]]]
  BY RunText
<1>6. Len(g) = n
  BY RunText
<1>2. u = OneByOne(d, Len(g))
  BY <1>6, Zenon DEF Decimals, u
<1> HIDE DEF g, d
<1>3. u \in Seq(Words) /\ Len(u) = Len(g) /\ Heard(u) = g
  BY <1>1, <1>2, HeardDecimals
<1>4. u # <<>>
  BY <1>1, <1>3, EmptySeq
<1>5. Reads(x, here, u \o v)
  BY <1>1, <1>3, <1>4, ReadsDigits DEF g
<1> QED BY <1>3, <1>5 DEF u

LEMMA ReadsStep ==
  ASSUME NEW x \in Seq(Chars), ~ RunsTogether(x), NEW here \in 1..Len(x) + 1, NEW f,
         \A i \in (here + 1)..(Len(x) + 1) : Reads(x, i, f[i])
  PROVE  Reads(x, here, Spoken(x, f, here))
<1>0. Len(x) \in Nat
  BY LenProperties
<1>1. CASE AtEnd(x, here)
  <2>1. here = Len(x) + 1 /\ Spoken(x, f, here) = <<>>
    BY <1>1 DEF AtEnd
  <2> QED BY <2>1, ReadsEnd
<1>2. CASE AtSilent(x, here)
  <2>1. here \in 1..Len(x) /\ x[here] \in Silent /\ Spoken(x, f, here) = f[here + 1]
    BY <1>2 DEF AtSilent
  <2>2. here + 1 \in (here + 1)..(Len(x) + 1)
    BY <1>0, <2>1
  <2>3. Reads(x, here + 1, f[here + 1])
    BY <2>2
  <2> QED BY <2>1, <2>3, ReadsSilent
<1>3. CASE AtChar(x, here)
  <2>1. here \in 1..Len(x) /\ x[here] \notin Silent
    BY <1>3 DEF AtChar
  <2>2. here + 1 \in (here + 1)..(Len(x) + 1)
    BY <1>0, <2>1
  <2>3. Reads(x, here + 1, f[here + 1])
    BY <2>2
  <2>4. Reads(x, here, <<Word(x[here], 0)>> \o f[here + 1])
    BY <2>1, <2>3, ReadsChar
  <2> QED BY <1>3, <2>4, Zenon DEF AtChar
<1>4. CASE \E n : AtNumber(x, here, n)
  <2>1. PICK n : AtNumber(x, here, n)
    BY <1>4
  <2>2. Run(x, here, n)
    BY <2>1 DEF AtNumber
  <2>3. here + n \in (here + 1)..(Len(x) + 1)
    BY <1>0, <2>2 DEF Run
  <2>4. Reads(x, here, AppendChineseNumber(Values(x, here, n)) \o f[here + n])
    BY <2>2, <2>3, ReadsNumber
  <2> QED BY <2>1, <2>4, Zenon DEF AtNumber
<1>5. CASE \E n, m : AtDecimals(x, here, n, m)
  <2>1. PICK n, m : AtDecimals(x, here, n, m)
    BY <1>5
  <2> DEFINE p == here + n
             b == here + n + 1
             e == here + n + 1 + m
             D == Decimals(x, b, m)
             W == <<Word("point", 0)>>
  <2>2. Run(x, here, n) /\ Run(x, b, m) /\ here + n <= Len(x) /\ x[here + n] = Point
    BY <2>1, Zenon DEF AtDecimals
  <2>3. /\ p \in 1..Len(x) /\ b \in 1..Len(x) + 1 /\ e \in (here + 1)..(Len(x) + 1)
        /\ p + 1 = b /\ b + m = e
    BY <1>0, <2>2 DEF Run
  <2>4. Spoken(x, f, here) = AppendChineseNumber(Values(x, here, n)) \o ((W \o D) \o f[e])
    BY <2>1, Zenon DEF AtDecimals
  <2> HIDE DEF b, e, D
  <2>5. Reads(x, b + m, f[e])
    BY <2>3
  <2>6. D \in Seq(Words) /\ Reads(x, b, D \o f[e])
    BY <2>2, <2>3, <2>5, ReadsDecimals DEF D
  <2>7. Point \in Chars /\ x[p] = Point /\ x[p] \notin Silent
    BY <2>2, SplitterAssumption, NumberAssumption
  <2>8. W \in Seq(Words)
    BY <2>7, HeardOne
  <2> DEFINE k == "point"
  <2>9. Reads(x, p, <<Word(k, 0)>> \o (D \o f[e]))
    <3> HIDE DEF p
    <3> QED BY <2>3, <2>6, <2>7, ReadsChar
  <2> HIDE DEF W
  <2>10. (W \o D) \o f[e] = W \o (D \o f[e])
    <3>1. f[e] \in Seq(Words)
      BY <2>5 DEF Reads
    <3>2. Groups(Words)
      BY Regroup, Zenon
    <3> QED BY <2>6, <2>8, <3>1, <3>2 DEF Groups
  <2>11. Reads(x, here + n, (W \o D) \o f[e])
    BY <2>9, <2>10 DEF W
  <2>12. Reads(x, here, AppendChineseNumber(Values(x, here, n)) \o ((W \o D) \o f[e]))
    BY <2>2, <2>11, ReadsNumber
  <2> QED BY <2>4, <2>12
<1> QED BY <1>1, <1>2, <1>3, <1>4, <1>5, SpokenIs

LEMMA HeardAsWritten ==
  ASSUME NEW x \in Seq(Chars), ~ RunsTogether(x)
  PROVE  Heard(StripForTts(x)) = ToBeHeard(x)
<1> DEFINE L == Len(x) + 1
<1>0. L \in Nat /\ L > 0
  BY LenProperties
<1>1. PICK f : /\ f = [here \in 1..L |-> Spoken(x, f, here)]
               /\ StripForTts(x) = f[1]
  BY StripIs
<1>2. \A here \in 1..L : f[here] = Spoken(x, f, here)
  BY <1>1, Zenon
<1> DEFINE Done == {n \in Nat : \A here \in 1..L : L - here = n => Reads(x, here, f[here])}
<1>3. ASSUME NEW k \in Nat, \A n \in 0..k - 1 : n \in Done
      PROVE  k \in Done
  <2> SUFFICES ASSUME NEW here \in 1..L, L - here = k
               PROVE  Reads(x, here, f[here])
    OBVIOUS
  <2>1. \A i \in (here + 1)..L : Reads(x, i, f[i])
    <3> TAKE i \in (here + 1)..L
    <3>1. L - i \in 0..k - 1 /\ i \in 1..L
      BY <1>0
    <3>2. L - i \in Done
      BY <1>3, <3>1, Zenon
    <3> QED BY <3>1, <3>2
  <2>2. Reads(x, here, Spoken(x, f, here))
    BY <2>1, ReadsStep
  <2> QED BY <1>2, <2>2
<1> HIDE DEF Done
<1>4. Nat \subseteq Done
  BY <1>3, AllNumbers
<1> USE DEF Done
<1>5. Reads(x, 1, f[1])
  <2>1. L - 1 \in Nat /\ 1 \in 1..L
    BY <1>0
  <2> QED BY <1>4, <2>1
<1>6. Heard(f[1]) = From(x, 1)
  BY <1>5 DEF Reads
<1> QED BY <1>1, <1>6, FromStart

-----------------------------------------------------------------------------
(* The sentences that are handed on. *)

LEMMA CharsOfType ==
  ASSUME NEW b \in Seq(Byte)
  PROVE  CharsOf(b) \in Seq(Chars)
<1> DEFINE h == [i \in 1..Len(b) |-> IF b[i][2] = 1 THEN <<b[i][1]>> ELSE <<>>]
<1>0. Len(b) \in Nat /\ \A i \in 1..Len(b) : b[i] \in Byte
  BY LenProperties, ElementOfSeq
<1>1. \A i \in 1..Len(b) : b[i][1] \in Chars
  BY <1>0 DEF Byte
<1>2. \A c \in Chars : <<c>> \in Seq(Chars) /\ <<>> \in Seq(Chars)
  OBVIOUS
<1>3. h \in [1..Len(b) -> Seq(Chars)]
  BY <1>1, <1>2, Zenon
<1>4. CharsOf(b) = FlattenSeq(h)
  BY Zenon DEF CharsOf
<1> HIDE DEF h
<1>5. h \in Seq(Seq(Chars))
  BY <1>0, <1>3, SeqDef
<1> QED BY <1>4, <1>5, FlattenType

LEMMA SplitterInvBytes ==
  ASSUME SplitterInv, NEW i \in 1..Len(sentences)
  PROVE  sentences[i] \in Seq(Byte)
<1> DEFINE T == Bytes(reply)
<1>1. reply \in Seq(Chars) /\ fed \in 0..Len(T) /\ (Feeding(T) \/ Flushed(T))
  BY DEF SplitterInv
<1>2. T \in Seq(Byte) /\ Len(T) \in Nat
  <2>1. WholeChars(T)
    BY <1>1, BytesAreWhole
  <2> QED BY <2>1, LenProperties DEF WholeChars
<1> HIDE DEF T
<1>3. sentences \in Seq(Seq(Byte))
  <2>1. CASE Feeding(T)
    BY <2>1 DEF Feeding, IsCut
  <2>2. CASE Flushed(T)
    <3>1. PICK t \in 0..fed : \E cut :
             /\ t < fed /\ IsCut(T, 0, cut, t)
             /\ sentences = Append(cut, SubSeq(T, t + 1, fed))
      BY <2>2 DEF Flushed
    <3>2. PICK cut :
            /\ t < fed /\ IsCut(T, 0, cut, t)
            /\ sentences = Append(cut, SubSeq(T, t + 1, fed))
      BY <3>1
    <3>3. \A p \in (t + 1)..fed : T[p] \in Byte
      BY <1>1, <1>2, ElementOfSeq
    <3>4. t + 1 \in Int /\ fed \in Int
      BY <1>1, <1>2, <3>1
    <3>5. SubSeq(T, t + 1, fed) \in Seq(Byte)
      BY <3>3, <3>4, SubSeqProperties
    <3>6. cut \in Seq(Seq(Byte))
      BY <3>2 DEF IsCut
    <3> QED BY <3>2, <3>5, <3>6, AppendProperties
  <2> QED BY <1>1, <2>1, <2>2
<1> QED BY <1>3, ElementOfSeq

LEMMA SplitterInvSpoken == SplitterInv => SpokenAsWritten
<1> SUFFICES ASSUME SplitterInv, NEW i \in 1..Len(sentences),
                    ~ RunsTogether(CharsOf(sentences[i]))
             PROVE  Heard(StripForTts(CharsOf(sentences[i]))) = ToBeHeard(CharsOf(sentences[i]))
  BY Zenon DEF SpokenAsWritten
<1> DEFINE x == CharsOf(sentences[i])
<1>1. x \in Seq(Chars)
  BY SplitterInvBytes, CharsOfType
<1> HIDE DEF x
<1>2. ~ RunsTogether(x) => Heard(StripForTts(x)) = ToBeHeard(x)
  BY <1>1, HeardAsWritten
<1> QED BY <1>2 DEF x

\* Whatever the reply and its deltas, each sentence is heard as it was written:
\* StripForTts loses no character but those that are not read out, and every
\* number it spells is the number written, unless two numbers run together.
\* (sentence_splitter.h:104-173)
THEOREM SpokenTheorem == SplitterSpec => []SpokenAsWritten
BY SplitterInvTheorem, SplitterInvSpoken, PTL
=============================================================================

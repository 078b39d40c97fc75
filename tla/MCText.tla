--------------------------------- MODULE MCText ---------------------------------
(***************************************************************************)
(* The algorithms without threads, on small inputs: a reply is streamed        *)
(* through the splitter, or the user types a question, which a tool may        *)
(* answer, or writes a configuration file.                                   *)
(***************************************************************************)
EXTENDS SentenceSplitter, Calculator, Config

MCChars == {"hao", "!", "comma", "0", "1", "2", ".", "*"}
MCSize == [c \in MCChars |->
             IF c = "hao" THEN 3 ELSE IF c = "comma" THEN 2 ELSE 1]
MCTerminals == {"!"}
MCCommas == {"comma"}
MCDigits == [c \in {"0", "1", "2"} |-> Value[c]]
MCSilent == {"*"}

MCAlphabet == {"0", "2", "-", "/", "*", "(", ")", ".", " ", "t", "k", "c", "C"}
MCTime == {<<"t">>}
MCCalc == {<<"k">>}
MCSysInfo == {<<"c">>}
MCLower == [c \in {"C"} |-> "c"]

MCIds == {"", "a", "b"}
MCPrompts == {"", "p", "q"}

MCInit == SplitterInit /\ question = <<>> /\ files = <<Absent, Absent, Absent>>

\* A file is written to one place, where there may be others behind it.
WriteConfig ==
  \E k \in 1..3, file \in Files, other \in {Absent, Bad("garbled")} :
    files' = [n \in 1..3 |-> IF n < k THEN Absent ELSE IF n = k THEN file ELSE other]

MCNext ==
  \/ SplitterNext /\ UNCHANGED <<question, files>>
  \/ /\ fed = 0 /\ reply = <<>> /\ files = <<Absent, Absent, Absent>>
     /\ \E c \in Alphabet : Type(c)
     /\ UNCHANGED <<splitterVars, files>>
  \/ /\ fed = 0 /\ reply = <<>> /\ question = <<>>
     /\ files = <<Absent, Absent, Absent>> /\ WriteConfig
     /\ UNCHANGED <<splitterVars, question>>

MCSpec == MCInit /\ [][MCNext]_<<splitterVars, question, files>>
=============================================================================

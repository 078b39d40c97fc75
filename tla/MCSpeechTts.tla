----------------------------- MODULE MCSpeechTts -----------------------------
(* SpeechTts with two cancelling threads (IO and audio) and two sessions.     *)
EXTENDS SpeechTts, TLC

CONSTANTS io, audio, s1, s2

MCCancellers == {io, audio}
MCSessions == {s1, s2}
MCSymmetry == Permutations(MCCancellers) \union Permutations(MCSessions)
=============================================================================

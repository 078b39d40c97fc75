----------------------------- MODULE MCSpeechMic -----------------------------
(* SpeechMic with two browsers that pass the microphone on to each other.     *)
EXTENDS SpeechMic

CONSTANTS s1, s2

MCSessions == {s1, s2}
=============================================================================

---------------------------- MODULE SentenceSplitter ----------------------------
(***************************************************************************)
(* src/src/dialog/sentence_splitter.h: the reply of the model arrives in      *)
(* deltas that may end at any byte, even inside a UTF-8 character; Feed cuts   *)
(* it into sentences for the synthesiser, and StripForTts makes a sentence     *)
(* speakable.                                                               *)
(*                                                                         *)
(* A byte is a pair <<character, k>>, the k-th byte of a character, so that    *)
(* "inside a character" can be said; what else a character is matters only     *)
(* through the sets it belongs to.                                          *)
(***************************************************************************)
EXTENDS Integers, Sequences, SequencesExt

CONSTANTS
  Chars,          \* characters, with the number of their bytes
  Size,
  Terminals,      \* those that end a sentence
  Commas,         \* those that end the first sentence, or an overlong one
  Digits,         \* [digit characters -> 0..9]
  Point,          \* the decimal point
  Silent,         \* markdown, quotes and parentheses that are not read out
  MinBytes, SoftMaxBytes, FirstMinBytes,
  MaxChars        \* bound: characters of a reply

ASSUME SplitterAssumption ==
  /\ Size \in [Chars -> 1..4]
  /\ Terminals \subseteq Chars /\ Commas \subseteq Chars /\ Silent \subseteq Chars
  /\ DOMAIN Digits \subseteq Chars /\ Point \in Chars
  /\ MinBytes \in Nat /\ SoftMaxBytes \in Nat /\ FirstMinBytes \in Nat
  /\ MaxChars \in Nat

\* A digit has a value of its own; digits and point are read out.  (Other words
\* than those for numbers are characters.)
ASSUME NumberAssumption ==
  /\ Digits \in [DOMAIN Digits -> 0..9]
  /\ \A c, d \in DOMAIN Digits : Digits[c] = Digits[d] => c = d
  /\ Point \notin DOMAIN Digits
  /\ (DOMAIN Digits \union {Point}) \intersect Silent = {}
  /\ {"digit", "point", "ten"} \intersect Chars = {}

VARIABLES
  reply,         \* the characters of the whole reply
  fed,           \* how many of its bytes have been fed
  buffer, firstCutDone,
  sentences      \* the sentences handed on so far

splitterVars == <<reply, fed, buffer, firstCutDone, sentences>>

Bytes(chars) ==
  FlattenSeq([i \in 1..Len(chars) |->
                [k \in 1..Size[chars[i]] |-> <<chars[i], k>>]])
CharsOf(bytes) ==
  FlattenSeq([i \in 1..Len(bytes) |->
                IF bytes[i][2] = 1 THEN <<bytes[i][1]>> ELSE <<>>])

TypeOK ==
  /\ reply \in Seq(Chars) /\ fed \in 0..Len(Bytes(reply))
  /\ firstCutDone \in BOOLEAN
  /\ \A i \in 1..Len(sentences) : sentences[i] # <<>>

SplitterInit ==
  /\ reply \in UNION {[1..n -> Chars] : n \in 0..MaxChars}
  /\ fed = 0 /\ buffer = <<>> /\ firstCutDone = FALSE /\ sentences = <<>>

-----------------------------------------------------------------------------
\* A byte that begins no character counts as a character of its own.
Utf8CharLen(byte) == IF byte[2] = 1 THEN Size[byte[1]] ELSE 1

\* A sentence of len bytes may end with character ch.
Cut(ch, len, done) ==
  IF done
  THEN \/ ch \in Terminals /\ len >= MinBytes
       \/ ch \in Commas /\ len >= SoftMaxBytes
  ELSE ch \in Terminals \union Commas /\ len >= FirstMinBytes

\* Where the character that begins behind byte pos ends; Len(bytes) + 1 if it is
\* not there as a whole.
\* Mutant: an incomplete last character is taken for a whole one.
BugCharEnd(bytes, pos) ==
  Min({pos + Utf8CharLen(bytes[pos + 1]), Len(bytes)})
CharEnd(bytes, pos) ==
  Min({pos + Utf8CharLen(bytes[pos + 1]), Len(bytes) + 1})

\* The scan of Feed, with the variables of its loop: the sentences cut off, and
\* what stays in the buffer.
Scan(bytes, firstDone) ==
  LET places == 0..Len(bytes)
      scan[loop \in [start : places, pos : places, done : BOOLEAN]] ==
        LET end == CharEnd(bytes, loop.pos)
            later == scan[[start |-> end, pos |-> end, done |-> TRUE]]
        IN  IF loop.pos = Len(bytes) \/ end > Len(bytes)
            THEN [rest |-> SubSeq(bytes, loop.start + 1, Len(bytes)),
                  done |-> loop.done, cut |-> <<>>]
            ELSE IF Cut(bytes[loop.pos + 1][1], end - loop.start, loop.done)
            THEN [later EXCEPT !.cut = <<SubSeq(bytes, loop.start + 1, end)>> \o @]
            ELSE scan[[loop EXCEPT !.pos = end]]
  IN  scan[[start |-> 0, pos |-> 0, done |-> firstDone]]

\* Feed: the next n bytes of the reply arrive.
Feed(n) ==
  LET bytes == Bytes(reply)
      scan == Scan(buffer \o SubSeq(bytes, fed + 1, fed + n), firstCutDone)
  IN  /\ n \in 1..(Len(bytes) - fed)
      /\ fed' = fed + n
      /\ sentences' = sentences \o scan.cut
      /\ buffer' = scan.rest
      /\ firstCutDone' = scan.done
      /\ UNCHANGED reply

\* Flush, at the end of the reply: the tail is the last sentence.
Flush ==
  /\ fed = Len(Bytes(reply))
  /\ buffer # <<>>
  /\ sentences' = Append(sentences, buffer)
  /\ buffer' = <<>>
  /\ UNCHANGED <<reply, fed, firstCutDone>>

SplitterNext == Flush \/ \E n \in 1..Len(Bytes(reply)) : Feed(n)

SplitterSpec == SplitterInit /\ [][SplitterNext]_splitterVars

-----------------------------------------------------------------------------
(* StripForTts, on the characters of a sentence; a word is what is spoken. *)

Word(kind, n) == [kind |-> kind, n |-> n]

\* Mutant: a ten is read out like a teen.
BugAppendChineseNumber(digits) ==
  IF Len(digits) = 2 /\ digits[1] # 0
  THEN <<Word("ten", 0)>> \o
       (IF digits[2] # 0 THEN <<Word("digit", digits[2])>> ELSE <<>>)
  ELSE [i \in 1..Len(digits) |-> Word("digit", digits[i])]

\* Two digits are read as a number, any others one by one.
AppendChineseNumber(digits) ==
  IF Len(digits) = 2 /\ digits[1] # 0
  THEN (IF digits[1] # 1 THEN <<Word("digit", digits[1])>> ELSE <<>>)
       \o <<Word("ten", 0)>>
       \o (IF digits[2] # 0 THEN <<Word("digit", digits[2])>> ELSE <<>>)
  ELSE [i \in 1..Len(digits) |-> Word("digit", digits[i])]

\* The digits at the beginning of a text.
DigitsOf(text) ==
  LET other == SelectInSeq(text, LAMBDA c : c \notin DOMAIN Digits)
  IN  [i \in 1..(IF other = 0 THEN Len(text) ELSE other - 1) |-> Digits[text[i]]]

StripForTts(sentence) ==
  LET strip[at \in 1..(Len(sentence) + 1)] ==
        LET text == SubSeq(sentence, at, Len(sentence))
            whole == DigitsOf(text)
            after == SubSeq(text, Len(whole) + 1, Len(text))
            part  == IF after # <<>> /\ Head(after) = Point
                     THEN DigitsOf(Tail(after)) ELSE <<>>
        IN  IF text = <<>> THEN <<>>
            ELSE IF Head(text) \in Silent THEN strip[at + 1]
            ELSE IF whole = <<>> THEN <<Word(Head(text), 0)>> \o strip[at + 1]
            ELSE AppendChineseNumber(whole) \o
                 (IF part = <<>> THEN strip[at + Len(whole)]
                  ELSE <<Word("point", 0)>>
                       \o FlattenSeq([i \in 1..Len(part) |->
                                        AppendChineseNumber(<<part[i]>>)])
                       \o strip[at + Len(whole) + 1 + Len(part)])
  IN  strip[1]

-----------------------------------------------------------------------------
(* Correctness. *)

\* The bytes after which a character of the text is complete.
CharEnds(bytes) ==
  {e \in 1..Len(bytes) : bytes[e][2] = Size[bytes[e][1]]}

\* The sentences of a text that is there as a whole: each ends at the first
\* character it may end with.
SentencesOf(bytes) ==
  LET from[start \in 0..Len(bytes)] ==
        LET ends == {e \in CharEnds(bytes) :
                       e > start /\ Cut(bytes[e][1], e - start, start > 0)}
        IN  IF ends = {} THEN <<>>
            ELSE <<SubSeq(bytes, start + 1, Min(ends))>> \o from[Min(ends)]
  IN  from[0]

\* However the reply is cut into deltas, no byte of what was fed is lost or
\* doubled, and the sentences are those of that text in one piece, each as early
\* as the rules for the first and for the later sentences allow and at the end of
\* a character, and a tail.  (sentence_splitter.h:13, 27-63)
SameSentences ==
  LET text == SubSeq(Bytes(reply), 1, fed)
      whole == SentencesOf(text)
  IN  /\ FlattenSeq(sentences) \o buffer = text
      /\ \/ sentences = whole
         \/ buffer = <<>> /\ fed = Len(Bytes(reply)) /\ sentences # <<>>
              /\ Front(sentences) = whole

\* What a listener takes words for: a ten with no digit before it is 1., one
\* with none after it is .0.
IsDigit(words, i) == i \in 1..Len(words) /\ words[i].kind = "digit"
DigitChar(n) == CHOOSE c \in DOMAIN Digits : Digits[c] = n
HeardAt(words, i) ==
  CASE words[i].kind = "digit" -> <<DigitChar(words[i].n)>>
    [] words[i].kind = "point" -> <<Point>>
    [] words[i].kind = "ten" ->
         (IF IsDigit(words, i - 1) THEN <<>> ELSE <<DigitChar(1)>>)
         \o (IF IsDigit(words, i + 1) THEN <<>> ELSE <<DigitChar(0)>>)
    [] OTHER -> <<words[i].kind>>
Heard(words) == FlattenSeq([i \in 1..Len(words) |-> HeardAt(words, i)])

\* A text without what is not read out.
ToBeHeard(text) ==
  FlattenSeq([i \in 1..Len(text) |-> IF text[i] \in Silent THEN <<>> ELSE <<text[i]>>])

\* Two numbers with nothing between them but what is not read out, as in 10*5.
RunsTogether(text) ==
  \E i \in 1..Len(text) : \E j \in (i + 2)..Len(text) :
    /\ {text[i], text[j]} \subseteq DOMAIN Digits
    /\ \A k \in (i + 1)..(j - 1) : text[k] \in Silent

\* A sentence is heard as it was written, without what is not read out: no
\* character is lost, and every number, whole or with decimals, is the number
\* written; unless two numbers run together.  (sentence_splitter.h:104-173)
SpokenAsWritten ==
  \A i \in 1..Len(sentences) :
    LET text == CharsOf(sentences[i])
    IN  \/ Heard(StripForTts(text)) = ToBeHeard(text)
        \/ RunsTogether(text)
=============================================================================

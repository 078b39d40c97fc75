------------------------------- MODULE Calculator -------------------------------
(***************************************************************************)
(* src/src/dialog/tools.cpp: the local tools.  A question that is an          *)
(* arithmetic expression, or that holds a keyword of a tool, is answered       *)
(* without the model.                                                       *)
(*                                                                         *)
(* A text is a sequence of one-character strings.  Numbers are exact           *)
(* fractions <<numerator, denominator>>: the rounding of a double is left      *)
(* out, and so is its test for a divisor below 1e-12, which is zero here.      *)
(***************************************************************************)
EXTENDS Integers, Sequences, SequencesExt

CONSTANTS
  Alphabet,                 \* the characters of a question
  Time, Calc, SysInfo,      \* the keywords of the three tools, as texts
  Lower,                    \* std::tolower, on the characters it changes
  MaxQuestion               \* bound: characters of a question

ASSUME CalculatorAssumption ==
  /\ Time \union Calc \union SysInfo \subseteq Seq(Alphabet) \ {<<>>}
  /\ DOMAIN Lower \subseteq Alphabet
  /\ MaxQuestion \in Nat

VARIABLE question

None == <<>>
Numerals == <<"0", "1", "2", "3", "4", "5", "6", "7", "8", "9">>
Value == [c \in Range(Numerals) |-> (CHOOSE n \in 1..10 : Numerals[n] = c) - 1]
Operators == {"+", "-", "*", "/"}
NumberChars == DOMAIN Value \union {"."}
ExprChars == DOMAIN Value \union Operators \union {"(", ")", ".", " "}

-----------------------------------------------------------------------------
(* Fractions *)

Fractions == Int \X (Nat \ {0})
Abs(a) == IF a < 0 THEN -a ELSE a
Fraction(n, d) ==
  LET g == Max({k \in 1..Abs(d) : n % k = 0 /\ d % k = 0})
      sign == IF d < 0 THEN -1 ELSE 1
  IN  <<sign * (n \div g), Abs(d) \div g>>

Apply(op, a, b) ==
  CASE op = "+" -> Fraction(a[1] * b[2] + b[1] * a[2], a[2] * b[2])
    [] op = "-" -> Fraction(a[1] * b[2] - b[1] * a[2], a[2] * b[2])
    [] op = "*" -> Fraction(a[1] * b[1], a[2] * b[2])
    [] op = "/" -> Fraction(a[1] * b[2], a[2] * b[1])

-----------------------------------------------------------------------------
(* ExprEval: recursive descent.  A parser starts behind the first characters of
   s and returns the value and how far it read; a failure has no value. *)

Failure == [value |-> None, at |-> 0]
Behind(i) == [value |-> None, at |-> i]

\* How far the characters of a kind go.
Past(s, i, chars) == Min({j \in i..Len(s) : j = Len(s) \/ s[j + 1] \notin chars})
Skip(s, i) == Past(s, i, {" "})

NextIs(s, i, chars) == i < Len(s) /\ s[i + 1] \in chars

\* The number whose digits are these, the first of them before its point.
Decimal(digits, whole) ==
  LET read[n \in 0..Len(digits)] ==
        IF n = 0 THEN <<0, 1>>
        ELSE <<10 * read[n - 1][1] + Value[digits[n]],
               read[n - 1][2] * (IF n > whole THEN 10 ELSE 1)>>
  IN  Fraction(read[Len(digits)][1], read[Len(digits)][2])

\* std::stod on digits and points: it reads up to the second point, and needs
\* a digit.
Stod(s) ==
  LET points == {i \in 1..Len(s) : s[i] = "."}
      first  == Min(points \union {Len(s) + 1})
      second == Min((points \ {first}) \union {Len(s) + 1})
      digits == SubSeq(s, 1, first - 1) \o SubSeq(s, first + 1, second - 1)
  IN  IF digits = <<>> THEN None ELSE Decimal(digits, first - 1)

\* What the loops of ParseExpr and ParseTerm look for, and what they parse then.
Signs   == [exprRest |-> {"+", "-"}, termRest |-> {"*", "/"}]
\* Mutant: an operand of * is parsed as a whole term, so that 8 / 2 * 2 is 2.
BugOperand == [exprRest |-> "term", termRest |-> "term"]
Operand == [exprRest |-> "term", termRest |-> "factor"]

\* ParseExpr and ParseTerm, each with its loop from the operand read so far,
\* and ParseFactor.
Rules == {"expr", "exprRest", "term", "termRest", "factor"}
Parse(s) ==
  LET
    parse[job \in [rule : Rules, value : Fractions \union {None}, at : 0..Len(s)]] ==
      LET do(rule, left) == parse[[rule |-> rule, value |-> left.value, at |-> left.at]]
          i == Skip(s, job.at)
          sign == s[i + 1]
          right == do(Operand[job.rule], Behind(i + 1))
          signed == do("factor", Behind(i + 1))
          inner == do("expr", Behind(i + 1))
          close == Skip(s, inner.at)
          end == Past(s, i, NumberChars)
          read == Stod(SubSeq(s, i + 1, end))
      IN  CASE job.rule = "expr" -> do("exprRest", do("term", Behind(job.at)))
            [] job.rule = "term" -> do("termRest", do("factor", Behind(job.at)))
            [] job.rule \in DOMAIN Signs ->
                 IF job.value = None THEN Failure
                 ELSE IF ~NextIs(s, i, Signs[job.rule]) THEN [value |-> job.value, at |-> i]
                 ELSE IF right.value = None \/ (sign = "/" /\ right.value[1] = 0)
                 THEN Failure
                 ELSE do(job.rule, [value |-> Apply(sign, job.value, right.value),
                                    at |-> right.at])
            [] job.rule = "factor" ->
                 IF NextIs(s, i, {"+"}) THEN signed
                 ELSE IF NextIs(s, i, {"-"})
                 THEN IF signed.value = None THEN Failure
                      ELSE [signed EXCEPT !.value = <<-@[1], @[2]>>]
                 ELSE IF NextIs(s, i, {"("})
                 THEN IF inner.value # None /\ NextIs(s, close, {")"})
                      THEN [inner EXCEPT !.at = close + 1] ELSE Failure
                 ELSE IF read = None THEN Failure ELSE [value |-> read, at |-> end]
  IN  parse[[rule |-> "expr", value |-> None, at |-> 0]]

Eval(s) ==
  LET parsed == Parse(s)
  IN  IF parsed.value # None /\ Skip(s, parsed.at) = Len(s)
      THEN parsed.value ELSE None

-----------------------------------------------------------------------------
(* The tools *)

\* Mutant: the pattern takes as few characters as it can.
BugExtractExpression(text) ==
  LET starts == {a \in 1..(Len(text) - 2) :
                   \A i \in a..(a + 2) : text[i] \in ExprChars}
      run == SubSeq(text, Min(starts), Min(starts) + 2)
  IN  IF starts = {} THEN None
      ELSE IF \E i \in 1..Len(run) : run[i] \in Operators THEN run ELSE None

\* The leftmost run of at least three expression characters, if it holds an
\* operator: a later run is not looked at.
ExtractExpression(text) ==
  LET inRun(a, b) == \A i \in a..b : text[i] \in ExprChars
      starts == {a \in 1..(Len(text) - 2) : inRun(a, a + 2)}
      a == Min(starts)
      b == Max({x \in (a + 2)..Len(text) : inRun(a, x)})
      run == SubSeq(text, a, b)
  IN  IF starts = {} THEN None
      ELSE IF \E i \in 1..Len(run) : run[i] \in Operators THEN run ELSE None

\* Keywords of ASCII letters are found whatever their case.
ContainsIgnoreCase(text, needle) ==
  LET low(c) == IF c \in DOMAIN Lower THEN Lower[c] ELSE c
  IN  \E i \in 0..(Len(text) - Len(needle)) :
        \A j \in 1..Len(needle) : low(text[i + j]) = low(needle[j])

HasKeyword(text, keywords) == \E k \in keywords : ContainsIgnoreCase(text, k)

\* The answer of the tool "calc" names the expression and its value, if any.
CalcHandler(text) ==
  LET expr == ExtractExpression(text)
  IN  [tool |-> "calc", expr |-> expr,
       value |-> IF expr = None THEN None ELSE Eval(expr)]

NoTool == [tool |-> "none", expr |-> None, value |-> None]

\* ToolRegistry::TryHandle.  The other two tools answer with a text of their own.
TryHandle(text) ==
  LET pure == /\ \A i \in 1..Len(text) : text[i] \in ExprChars
              /\ CalcHandler(text).value # None
      tool == IF pure THEN "calc"
              ELSE IF HasKeyword(text, Time) THEN "time"
              ELSE IF HasKeyword(text, Calc) THEN "calc"
              ELSE IF HasKeyword(text, SysInfo) THEN "sysinfo" ELSE "none"
  IN  IF tool = "calc" THEN CalcHandler(text) ELSE [NoTool EXCEPT !.tool = tool]

\* The user types one more character.
Type(c) == Len(question) < MaxQuestion /\ question' = Append(question, c)

-----------------------------------------------------------------------------
(* Correctness: the values of a text by the grammar of arithmetic,
     expr = term | expr + term | expr - term
     term = factor | term * factor | term / factor
     factor = + factor | - factor | ( expr ) | number
   with spaces around any of them.  A text that is no expression, or divides
   by zero, has none. *)

IsNumber(s) ==
  /\ \E i \in 1..Len(s) : s[i] \in DOMAIN Value
  /\ \A i \in 1..Len(s) : s[i] \in NumberChars
  /\ \A i, j \in 1..Len(s) : s[i] = "." /\ s[j] = "." => i = j

NumberValue(s) ==
  LET point == Min({i \in 1..Len(s) : s[i] = "."} \union {Len(s) + 1})
  IN  Decimal(SubSeq(s, 1, point - 1) \o SubSeq(s, point + 1, Len(s)), point - 1)

Results(op, X, Y) ==
  {Apply(op, x, y) : x \in X, y \in {z \in Y : op # "/" \/ z[1] # 0}}

\* The values of each part <<a, b>> of a text: of its characters from a to b.
ExprValues(s) ==
  LET
    values[part \in (1..Len(s) + 1) \X (0..Len(s))] ==
      LET a == part[1]
          b == part[2]
          text == SubSeq(s, a, b)
          signs(ops) == {i \in a + 1..b - 1 : s[i] \in ops}
          factor == IF a > b THEN {}
                    ELSE IF s[a] \in {" ", "+"} THEN values[<<a + 1, b>>].factor
                    ELSE IF s[b] = " " THEN values[<<a, b - 1>>].factor
                    ELSE IF s[a] = "-"
                    THEN {<<-x[1], x[2]>> : x \in values[<<a + 1, b>>].factor}
                    ELSE IF s[a] = "(" /\ s[b] = ")" THEN values[<<a + 1, b - 1>>].expr
                    ELSE IF IsNumber(text) THEN {NumberValue(text)} ELSE {}
          term == factor \union
                  UNION {Results(s[i], values[<<a, i - 1>>].term,
                                 values[<<i + 1, b>>].factor) : i \in signs({"*", "/"})}
          expr == term \union
                  UNION {Results(s[i], values[<<a, i - 1>>].expr,
                                 values[<<i + 1, b>>].term) : i \in signs({"+", "-"})}
      IN  [expr |-> expr, term |-> term, factor |-> factor]
  IN  values[<<1, Len(s)>>].expr

\* std::stod takes what precedes the second point of a number.
HasOddNumber(s) ==
  \E i, j \in 1..Len(s) :
    /\ i < j /\ s[i] = "." /\ s[j] = "."
    /\ \A k \in i..j : s[k] \in NumberChars

\* A value the calculator answers with is that of a part of the question, by
\* the rules of arithmetic; numbers with two points excepted.
\* (tools.cpp:82-168)
AnswersAreRight ==
  \A result \in {TryHandle(question)} :
    result.tool = "calc" /\ result.value # None =>
      /\ \E i \in 1..Len(question) : \E j \in i..Len(question) :
           result.expr = SubSeq(question, i, j)
      /\ ExprValues(result.expr) = {result.value} \/ HasOddNumber(result.expr)

\* A question that is an expression with an operator gets its value, and so does
\* one with a keyword of the calculator, unless it has one of the time too or
\* holds another run of three expression characters.  (tools.cpp:69-79, 253-274)
ExpressionsAreSolved ==
  \A i \in 1..Len(question) : \A j \in (i + 2)..Len(question) :
    LET expr == SubSeq(question, i, j)
        outside == 1..Len(question) \ (i..j)
    IN  /\ ExprValues(expr) # {}
        /\ \E k \in i..j : question[k] \in Operators
        /\ outside = {}
           \/ /\ HasKeyword(question, Calc) /\ ~HasKeyword(question, Time)
              /\ \A k \in outside : question[k] \notin ExprChars
        => TryHandle(question) = [tool |-> "calc", expr |-> expr,
                                  value |-> CHOOSE v \in ExprValues(expr) : TRUE]
=============================================================================

--------------------------- MODULE ExchangeProofs ---------------------------
(***************************************************************************)
(* A session parses the lines that were sent, and a client that reports an *)
(* answer has all of it, for every length of lines and listings, every set *)
(* of commands, and however the streams are cut.                           *)
(***************************************************************************)
EXTENDS Exchange, FiniteSetTheorems, SequenceTheorems, TLAPS

-----------------------------------------------------------------------------
(***************************************************************************)
(* Sequences.                                                              *)
(***************************************************************************)

\* A set of positions has a least one.
LEMMA LeastPosition ==
    ASSUME NEW I \in SUBSET Nat, I # {}
    PROVE  \E x \in I : \A y \in I : x <= y
<1> DEFINE R == {ss \in Nat \X Nat : ss[1] < ss[2]}
<1>1. IsWellFoundedOn(R, Nat)
  BY NatLessThanWellFounded DEF OpToRel
<1> HIDE DEF R
<1>2. PICK x \in I : \A y \in I : ~ (<<y, x>> \in R)
  BY <1>1, WFMin
<1>3. \A y \in I : ~ (y < x)
  BY <1>2 DEF R
<1> QED BY <1>3

LEMMA FrontType ==
    ASSUME NEW S, NEW s \in Seq(S)
    PROVE  /\ Front(s) \in Seq(S)
           /\ s # <<>> => Len(Front(s)) = Len(s) - 1
           /\ \A i \in 1 .. Len(s) - 1 : Front(s)[i] = s[i]
<1>1. Len(s) \in Nat /\ (s # <<>> => Len(s) # 0)
  BY EmptySeq, LenProperties
<1>2. \A i \in 1 .. Len(s) - 1 : s[i] \in S
  BY <1>1, ElementOfSeq
<1>3. /\ SubSeq(s, 1, Len(s) - 1) \in Seq(S)
      /\ Len(SubSeq(s, 1, Len(s) - 1))
           = IF 1 <= Len(s) - 1 THEN Len(s) - 1 - 1 + 1 ELSE 0
      /\ \A i \in 1 .. Len(s) - 1 - 1 + 1 : SubSeq(s, 1, Len(s) - 1)[i] = s[1 + i - 1]
  <2>1. Len(s) - 1 \in Int
    BY <1>1
  <2> QED BY <1>2, <2>1, SubSeqProperties
<1>4. /\ Front(s) \in Seq(S)
      /\ Len(Front(s)) = IF 1 <= Len(s) - 1 THEN Len(s) - 1 - 1 + 1 ELSE 0
      /\ \A i \in 1 .. Len(s) - 1 - 1 + 1 : Front(s)[i] = s[1 + i - 1]
  BY <1>3, Zenon DEF Front
<1>5. ASSUME s # <<>> PROVE Len(Front(s)) = Len(s) - 1
  <2>1. Len(s) \in Nat \ {0}
    BY <1>5, EmptySeq
  <2>2. Len(Front(s)) = IF 1 <= Len(s) - 1 THEN Len(s) - 1 - 1 + 1 ELSE 0
    BY <1>4
  <2>3. \A n \in Nat \ {0} : (IF 1 <= n - 1 THEN n - 1 - 1 + 1 ELSE 0) = n - 1
    OBVIOUS
  <2> QED BY <2>1, <2>2, <2>3, Zenon
<1>6. ASSUME NEW i \in 1 .. Len(s) - 1 PROVE Front(s)[i] = s[i]
  <2>1. i \in 1 .. Len(s) - 1 - 1 + 1 /\ 1 + i - 1 = i
    BY <1>1
  <2> QED BY <1>4, <2>1
<1> QED BY <1>4, <1>5, <1>6

\* A sequence with one element appended ends with it.
LEMMA CommandEnds ==
    ASSUME NEW S, NEW c \in Seq(S), NEW e \in S, NEW s, s = c \o <<e>>
    PROVE  s # <<>> /\ Last(s) = e /\ Front(s) = c
<1>1. <<e>> \in Seq(S) /\ Len(<<e>>) = 1 /\ <<e>>[1] = e
  OBVIOUS
<1>2. /\ s \in Seq(S) /\ Len(s) = Len(c) + 1 /\ Len(c) \in Nat
      /\ \A i \in 1 .. Len(c) : s[i] = c[i]
      /\ s[Len(c) + 1] = e
  BY <1>1
<1>3. s # <<>>
  BY <1>2
<1>4. /\ Front(s) \in Seq(S) /\ Len(Front(s)) = Len(s) - 1
      /\ \A i \in 1 .. Len(s) - 1 : Front(s)[i] = s[i]
  BY <1>2, <1>3, FrontType
<1>5. Front(s) = c
  <2>1. Len(s) - 1 = Len(c)
    BY <1>2
  <2> QED BY <1>2, <1>4, <2>1, SeqEqual
<1> QED BY <1>2, <1>3, <1>5 DEF Last

\* A piece of k elements behind position p.
LEMMA PieceOf ==
    ASSUME NEW S, NEW s \in Seq(S), NEW p \in Nat, NEW k \in Nat, p + k <= Len(s)
    PROVE  /\ SubSeq(s, p + 1, p + k) \in Seq(S)
           /\ Len(SubSeq(s, p + 1, p + k)) = k
           /\ \A i \in 1 .. k : SubSeq(s, p + 1, p + k)[i] = s[p + i]
<1>1. Len(s) \in Nat
  OBVIOUS
<1>2. \A i \in p + 1 .. p + k : i \in 1 .. Len(s)
  BY <1>1
<1>3. /\ SubSeq(s, p + 1, p + k) \in Seq(S)
      /\ Len(SubSeq(s, p + 1, p + k)) = IF p + 1 <= p + k THEN (p + k) - (p + 1) + 1 ELSE 0
  BY <1>1, <1>2
<1>4. Len(SubSeq(s, p + 1, p + k)) = k
  BY <1>3
<1>5. ASSUME NEW i \in 1 .. k PROVE SubSeq(s, p + 1, p + k)[i] = s[p + i]
  <2>1. i \in 1 .. (p + k) - (p + 1) + 1 /\ (p + 1) + i - 1 = p + i
    OBVIOUS
  <2> QED BY <1>1, <1>2, <2>1
<1> QED BY <1>3, <1>4, <1>5

\* What a read of n cells leaves behind and what it brings.
Moved(S, from, to, n, a, b) ==
    /\ a \in Seq(S) /\ b \in Seq(S)
    /\ Len(a) = Len(to) + n /\ Len(b) = Len(from) - n
    /\ \A i \in 1 .. Len(to) : a[i] = to[i]
    /\ \A i \in 1 .. n : a[Len(to) + i] = from[i]
    /\ \A i \in 1 .. Len(from) - n : b[i] = from[n + i]

LEMMA MovedCells ==
    ASSUME NEW S, NEW from \in Seq(S), NEW to \in Seq(S), NEW n \in 1 .. Len(from),
           NEW a, a = to \o SubSeq(from, 1, n),
           NEW b, b = SubSeq(from, n + 1, Len(from))
    PROVE  Moved(S, from, to, n, a, b)
<1> DEFINE s == SubSeq(from, 1, n)
<1>1. s \in Seq(S) /\ Len(s) = n /\ \A i \in 1 .. n : s[i] = from[i]
  OBVIOUS
<1>2. b \in Seq(S) /\ Len(b) = Len(from) - n /\ \A i \in 1 .. Len(from) - n : b[i] = from[n + i]
  OBVIOUS
<1> HIDE DEF s
<1>3. /\ to \o s \in Seq(S) /\ Len(to \o s) = Len(to) + n
      /\ \A i \in 1 .. Len(to) : (to \o s)[i] = to[i]
      /\ \A i \in 1 .. n : (to \o s)[Len(to) + i] = s[i]
  <2>1. /\ to \o s \in Seq(S) /\ Len(to \o s) = Len(to) + Len(s)
        /\ \A i \in 1 .. Len(to) + Len(s) :
              (to \o s)[i] = IF i <= Len(to) THEN to[i] ELSE s[i - Len(to)]
    BY <1>1, ConcatProperties, Zenon
  <2>2. Len(to) \in Nat /\ n \in Nat
    OBVIOUS
  <2>3. ASSUME NEW i \in 1 .. Len(to) PROVE (to \o s)[i] = to[i]
    BY <1>1, <2>1, <2>2
  <2>4. ASSUME NEW i \in 1 .. n PROVE (to \o s)[Len(to) + i] = s[i]
    <3>1. /\ Len(to) + i \in 1 .. Len(to) + Len(s) /\ ~ (Len(to) + i <= Len(to))
          /\ (Len(to) + i) - Len(to) = i
      BY <1>1, <2>2
    <3> QED BY <2>1, <3>1
  <2> QED BY <1>1, <2>1, <2>3, <2>4
<1> QED BY <1>1, <1>2, <1>3 DEF s, Moved

-----------------------------------------------------------------------------
(***************************************************************************)
(* Lines of a text.                                                        *)
(***************************************************************************)

LEMMA NewlinesFinite ==
    ASSUME NEW text \in Seq(Cells)
    PROVE  /\ Newlines(text) \subseteq 1 .. Len(text)
           /\ IsFiniteSet(Newlines(text))
           /\ LineCount(text) \in Nat
<1>1. Newlines(text) \subseteq 1 .. Len(text)
  BY DEF Newlines
<1>2. IsFiniteSet(1 .. Len(text))
  BY FS_Interval
<1> QED BY <1>1, <1>2, FS_Subset, FS_CardinalityType DEF LineCount

\* More lines end by a later position, and none by the start of the text.
LEMMA LinesByMonotone ==
    ASSUME NEW text \in Seq(Cells), NEW p \in Int, NEW q \in Int, p <= q
    PROVE  /\ LinesBy(text, p) \in Nat /\ LinesBy(text, q) \in Nat
           /\ LinesBy(text, p) <= LinesBy(text, q)
           /\ LinesBy(text, q) <= LineCount(text)
           /\ p < q /\ q \in Newlines(text) => LinesBy(text, p) < LinesBy(text, q)
<1> DEFINE P == {j \in Newlines(text) : j <= p}
           Q == {j \in Newlines(text) : j <= q}
<1>1. Newlines(text) \subseteq Int /\ IsFiniteSet(Newlines(text))
  BY NewlinesFinite
<1>2. P \in SUBSET Q /\ Q \in SUBSET Newlines(text)
  BY <1>1
<1>3. IsFiniteSet(Q) /\ IsFiniteSet(P)
  BY <1>1, <1>2, FS_Subset
<1>4. /\ Cardinality(P) \in Nat /\ Cardinality(Q) \in Nat
      /\ Cardinality(P) <= Cardinality(Q)
      /\ Cardinality(Q) <= Cardinality(Newlines(text))
      /\ Cardinality(Q) = Cardinality(P) => Q = P
  <2> HIDE DEF P, Q
  <2> QED BY <1>1, <1>2, <1>3, FS_Subset, FS_CardinalityType
<1>5. p < q /\ q \in Newlines(text) => Q # P
  <2> SUFFICES ASSUME p < q, q \in Newlines(text) PROVE q \in Q /\ q \notin P
    OBVIOUS
  <2> QED OBVIOUS
<1> QED BY <1>4, <1>5 DEF LinesBy, LineCount

\* From one line break to the next one the count goes up by one.
LEMMA LinesByNext ==
    ASSUME NEW text \in Seq(Cells), NEW p \in Int, NEW q \in Newlines(text), p < q,
           \A j \in Newlines(text) : j <= p \/ q <= j
    PROVE  LinesBy(text, q) = LinesBy(text, p) + 1
<1> DEFINE P == {j \in Newlines(text) : j <= p}
           Q == {j \in Newlines(text) : j <= q}
<1>1. Newlines(text) \subseteq Int /\ IsFiniteSet(Newlines(text))
  BY NewlinesFinite
<1>2. Q = P \cup {q} /\ q \notin P /\ P \in SUBSET Newlines(text)
  BY <1>1
<1>3. IsFiniteSet(P)
  BY <1>1, <1>2, FS_Subset
<1>4. Cardinality(Q) = Cardinality(P) + 1
  <2> HIDE DEF P, Q
  <2> QED BY <1>2, <1>3, FS_AddElement
<1> QED BY <1>4 DEF LinesBy

\* By the last line break all lines have ended.
LEMMA LinesByAll ==
    ASSUME NEW text \in Seq(Cells), NEW p, \A j \in Newlines(text) : j <= p
    PROVE  LinesBy(text, p) = LineCount(text)
<1>1. {j \in Newlines(text) : j <= p} = Newlines(text)
  OBVIOUS
<1> QED BY <1>1 DEF LinesBy, LineCount

LEMMA LinesByNone ==
    ASSUME NEW text \in Seq(Cells), NEW p \in Int, \A j \in Newlines(text) : p < j
    PROVE  LinesBy(text, p) = 0
<1>1. Newlines(text) \subseteq Int
  BY NewlinesFinite
<1>2. {j \in Newlines(text) : j <= p} = {}
  BY <1>1
<1> QED BY <1>2, FS_EmptySet DEF LinesBy

\* A line ends at its line break.
LEMMA LineEndIs ==
    ASSUME NEW text \in Seq(Cells), NEW p \in 0 .. Len(text),
           p = 0 \/ p \in Newlines(text)
    PROVE  /\ LinesBy(text, p) \in 0 .. LineCount(text)
           /\ LineEnd(text, LinesBy(text, p)) = p
<1>1. Newlines(text) \subseteq 1 .. Len(text) /\ LineCount(text) \in Nat
  BY NewlinesFinite
<1>2. LinesBy(text, p) \in 0 .. LineCount(text)
  BY <1>1, LinesByMonotone
<1>3. LinesBy(text, 0) = 0
  BY <1>1, LinesByNone
<1>4. ASSUME p \in Newlines(text) PROVE LineEnd(text, LinesBy(text, p)) = p
  <2>1. LinesBy(text, p) # 0
    <3>1. 0 < p
      BY <1>1, <1>4
    <3> QED BY <1>3, <1>4, <3>1, LinesByMonotone
  <2>2. ASSUME NEW i \in Newlines(text), LinesBy(text, i) = LinesBy(text, p)
        PROVE  i = p
    <3>1. i \in Int /\ p \in Int
      BY <1>1
    <3>2. ~ (i < p)
      BY <1>4, <2>2, <3>1, LinesByMonotone
    <3>3. ~ (p < i)
      BY <1>4, <2>2, <3>1, LinesByMonotone
    <3> QED BY <3>1, <3>2, <3>3
  <2> QED BY <1>4, <2>1, <2>2 DEF LineEnd
<1> QED BY <1>2, <1>3, <1>4 DEF LineEnd

\* The good lines are at least those that are known to be good ...
LEMMA GoodLinesAtLeast ==
    ASSUME NEW text \in Seq(Cells), NEW h \in 0 .. LineCount(text),
           \A l \in 1 .. h : Len(LineOf(text, l)) <= MaxLine
    PROVE  h <= GoodLines(text)
<1> DEFINE good == {k \in 1 .. LineCount(text) :
                       \A l \in 1 .. k : Len(LineOf(text, l)) <= MaxLine}
<1>1. LineCount(text) \in Nat
  BY NewlinesFinite
<1>2. IsFiniteSet(good)
  <2>1. good \in SUBSET (1 .. LineCount(text)) /\ IsFiniteSet(1 .. LineCount(text))
    BY <1>1, FS_Interval
  <2> HIDE DEF good
  <2> QED BY <2>1, FS_Subset
<1>3. 1 .. h \in SUBSET good
  BY <1>1
<1>4. Cardinality(1 .. h) = h
  BY FS_Interval
<1>5. Cardinality(1 .. h) <= Cardinality(good)
  <2> HIDE DEF good
  <2> QED BY <1>2, <1>3, FS_Subset
<1> QED BY <1>4, <1>5 DEF GoodLines

\* ... and just those if the next one is not, or there is none.
LEMMA GoodLinesAre ==
    ASSUME NEW text \in Seq(Cells), NEW h \in 0 .. LineCount(text),
           \A l \in 1 .. h : Len(LineOf(text, l)) <= MaxLine,
           h = LineCount(text) \/ ~ (Len(LineOf(text, h + 1)) <= MaxLine)
    PROVE  GoodLines(text) = h
<1> DEFINE good == {k \in 1 .. LineCount(text) :
                       \A l \in 1 .. k : Len(LineOf(text, l)) <= MaxLine}
<1>1. LineCount(text) \in Nat
  BY NewlinesFinite
<1>2. good = 1 .. h
  <2>1. 1 .. h \subseteq good
    BY <1>1
  <2>2. ASSUME NEW k \in good PROVE k \in 1 .. h
    <3>1. k \in 1 .. LineCount(text) /\ \A l \in 1 .. k : Len(LineOf(text, l)) <= MaxLine
      OBVIOUS
    <3>2. ~ (h < k)
      <4> SUFFICES ASSUME h < k PROVE FALSE
        OBVIOUS
      <4>1. h + 1 \in 1 .. k /\ h # LineCount(text)
        BY <1>1, <3>1
      <4> QED BY <3>1, <4>1
    <3> QED BY <1>1, <3>1, <3>2
  <2> QED BY <2>1, <2>2
<1>3. Cardinality(1 .. h) = h
  BY FS_Interval
<1> QED BY <1>2, <1>3 DEF GoodLines

-----------------------------------------------------------------------------
(***************************************************************************)
(* The session's side.                                                     *)
(***************************************************************************)

\* How much of the wire the session has taken out of its buffer.
Position == Len(wire) - Len(input) - Len(toServer)

\* The buffer and what is on its way continue the wire at the position, which
\* is just behind the line break of the last line that was handled.
InStep ==
    /\ Position \in 0 .. Len(wire)
    /\ \A i \in 1 .. Len(input) : input[i] = wire[Position + i]
    /\ \A i \in 1 .. Len(toServer) : toServer[i] = wire[Position + Len(input) + i]
    /\ Position = 0 \/ Position \in Newlines(wire)
    /\ LinesBy(wire, Position) = Len(handled)

\* The lines handled are lines of the wire, and none was too long.
HandledAsSent ==
    \A k \in 1 .. Len(handled) :
        handled[k] = StripLine(LineOf(wire, k)) /\ Len(LineOf(wire, k)) <= MaxLine

\* The session only reads when no complete line is in its buffer.
NothingLeft ==
    /\ \A i \in 1 .. Len(input) : input[i] # Newline
    /\ Len(input) < MaxLine

FrameTypeOK ==
    /\ {wire, input, toServer} \subseteq Seq(Cells)
    /\ handled \in Seq(Seq(Cells))
    /\ call # NoCall => call \in AcquireCalls

FrameInv ==
    /\ FrameTypeOK
    /\ client = "start" => session = "none"
    /\ session = "none" =>
          /\ <<input, toServer, handled, response, toClient, answers>>
                = <<<<>>, <<>>, <<>>, <<>>, <<>>, <<>>>>
          /\ received = NoCall
    /\ session # "none" => InStep
    /\ HandledAsSent
    /\ session = "reading" => NothingLeft
    /\ session \in {"eof", "too_large"} => Len(handled) = GoodLines(wire)
    /\ session = "too_large" => Oversized(wire)
    /\ session = "eof" => ~ Oversized(wire)

LEMMA NumeralFields ==
    ASSUME NEW sign, NEW digits, NEW unit
    PROVE  /\ Numeral(sign, digits, unit).kind = "numeral"
           /\ Numeral(sign, digits, unit).sign = sign
           /\ Numeral(sign, digits, unit).digits = digits
           /\ Numeral(sign, digits, unit).unit = unit
           /\ sign \in {"none", "+", "-"} /\ digits \in Nat /\ unit \in DOMAIN Units
                => Numeral(sign, digits, unit) \in Tokens
BY DEF Numeral, Tokens

\* A number is written as a numeral without a unit.
LEMMA SignedToken ==
    ASSUME NEW i \in Int
    PROVE  /\ Signed(i) \in Tokens
           /\ Signed(i).kind = "numeral" /\ Signed(i).unit = "none"
           /\ i < 0 => Signed(i).sign = "-" /\ Signed(i).digits = - i
           /\ i >= 0 => Signed(i).sign = "none" /\ Signed(i).digits = i
<1>1. "none" \in DOMAIN Units
  BY UnitsAssumption
<1>2. CASE i < 0
  <2>1. Signed(i) = Numeral("-", - i, "none") /\ - i \in Nat
    BY <1>2 DEF Signed
  <2> QED BY <1>1, <1>2, <2>1, NumeralFields
<1>3. CASE ~ (i < 0)
  <2>1. Signed(i) = Numeral("none", i, "none") /\ i \in Nat
    BY <1>3 DEF Signed
  <2> QED BY <1>1, <1>3, <2>1, NumeralFields
<1> QED BY <1>2, <1>3

\* What Client::acquire sends is a sequence of tokens with the numbers written
\* out, and the size and the priority are the third and the fourth.
LEMMA AcquireCommandType ==
    ASSUME NEW c \in AcquireCalls
    PROVE  /\ AcquireCommand(c) \in Seq(Tokens \cup {Newline})
           /\ AcquireCommand(c) \in Seq(Cells)
           /\ Len(AcquireCommand(c)) \in 4 .. 6
           /\ AcquireCommand(c)[3] = Signed(c.bytes)
           /\ AcquireCommand(c)[4] = Signed(c.options.priority)
<1> DEFINE T == Tokens \cup {Newline}
           front == <<Word("acquire"), c.name, Signed(c.bytes), Signed(c.options.priority)>>
           cost == IF c.options.estimated_cost = 0 THEN <<>>
                   ELSE <<Signed(c.options.estimated_cost)>>
           rest == IF c.options.timeout = MaxMillis THEN <<>>
                   ELSE <<Signed(c.options.timeout)>> \o cost
<1>1. \A i \in Int : Signed(i) \in Tokens
  BY SignedToken
<1>2. /\ c.name \in T /\ c.bytes \in Int /\ c.options.priority \in Int
      /\ c.options.timeout \in Int /\ c.options.estimated_cost \in Int
  BY CommandsAssumption, WidthAssumption
<1>3. Word("acquire") \in T
  <2>1. "acquire" \in STRING
    BY VerbsAssumption DEF Verbs, ClientVerbs
  <2> QED BY <2>1 DEF Word, Tokens
<1> HIDE DEF T
<1>4. Signed(c.bytes) \in T /\ Signed(c.options.priority) \in T
      /\ Signed(c.options.timeout) \in T /\ Signed(c.options.estimated_cost) \in T
  BY <1>1, <1>2 DEF T
<1>5. front \in Seq(T) /\ Len(front) = 4
      /\ front[3] = Signed(c.bytes) /\ front[4] = Signed(c.options.priority)
  BY <1>2, <1>3, <1>4
<1>6. cost \in Seq(T) /\ Len(cost) \in 0 .. 1
  BY <1>4
<1>7. rest \in Seq(T) /\ Len(rest) \in 0 .. 2
  <2> HIDE DEF cost
  <2>1. <<Signed(c.options.timeout)>> \in Seq(T) /\ Len(<<Signed(c.options.timeout)>>) = 1
    BY <1>4
  <2>2. /\ <<Signed(c.options.timeout)>> \o cost \in Seq(T)
        /\ Len(<<Signed(c.options.timeout)>> \o cost) \in 0 .. 2
    BY <1>6, <2>1, ConcatProperties
  <2> QED BY <2>2
<1>8. AcquireCommand(c) = front \o rest
  BY DEF AcquireCommand
<1>9. AcquireCommand(c) \in Seq(T) /\ Len(AcquireCommand(c)) \in 4 .. 6
      /\ AcquireCommand(c)[3] = front[3] /\ AcquireCommand(c)[4] = front[4]
  <2> HIDE DEF front, rest
  <2>1. /\ front \o rest \in Seq(T) /\ Len(front \o rest) = Len(front) + Len(rest)
        /\ (front \o rest)[3] = front[3] /\ (front \o rest)[4] = front[4]
    <3>1. /\ front \o rest \in Seq(T) /\ Len(front \o rest) = Len(front) + Len(rest)
          /\ \A i \in 1 .. Len(front) + Len(rest) :
                (front \o rest)[i] = IF i <= Len(front) THEN front[i] ELSE rest[i - Len(front)]
      BY <1>5, <1>7, ConcatProperties, Zenon
    <3> QED BY <1>5, <1>7, <3>1
  <2> QED BY <1>5, <1>7, <1>8, <2>1
<1>10. AcquireCommand(c) \in Seq(Cells)
  BY <1>9, SeqMonotonic DEF Cells, T
<1> QED BY <1>5, <1>9, <1>10 DEF T

\* The cells of a text are told apart.
LEMMA CellsTold ==
    /\ \A t \in Tokens : t \notin {Newline, CarriageReturn, Blank} /\ t.kind \in {"word", "numeral"}
    /\ Newline # CarriageReturn /\ Newline # Blank /\ CarriageReturn # Blank
    /\ Newline.kind = "newline" /\ CarriageReturn.kind = "cr" /\ Blank.kind = "blank"
    /\ \A t \in BrokenTokens : t.kind = "broken"
BY DEF Tokens, Newline, CarriageReturn, Blank, BrokenTokens

LEMMA OnlyBroken ==
    ASSUME NEW x \in Cells \cup BrokenTokens
    PROVE  IF x.kind = "broken" THEN x \in BrokenTokens ELSE x \in Cells
BY CellsTold DEF Cells

\* What a command with at most one broken word is spelled as: the same up to
\* that word.
LEMMA SpelledText ==
    ASSUME NEW c \in Seq(Cells \cup BrokenTokens), \A i \in BrokenAt(c) : BrokenAt(c) = {i}
    PROVE  /\ Spelled(c) \in Seq(Cells)
           /\ BrokenAt(c) = {} => Spelled(c) = c
           /\ \A i \in BrokenAt(c) :
                 /\ i \in 1 .. Len(c) /\ Len(Spelled(c)) >= i - 1
                 /\ \A k \in 1 .. i - 1 : Spelled(c)[k] = c[k]
<1>1. /\ Len(c) \in Nat /\ BrokenAt(c) \subseteq 1 .. Len(c)
      /\ \A k \in 1 .. Len(c) : c[k] \in Cells \cup BrokenTokens
  BY ElementOfSeq DEF BrokenAt
<1>2. /\ \A k \in 1 .. Len(c) : k \notin BrokenAt(c) => c[k] \in Cells
      /\ \A k \in BrokenAt(c) : c[k] \in BrokenTokens
  <2>1. \A k \in 1 .. Len(c) : k \in BrokenAt(c) <=> c[k].kind = "broken"
    BY DEF BrokenAt
  <2> QED BY <1>1, <2>1, OnlyBroken
<1>3. CASE BrokenAt(c) = {}
  <2>1. Spelled(c) = c
    BY <1>3 DEF Spelled
  <2>2. c \in Seq(Cells)
    <3>1. \A k \in 1 .. Len(c) : c[k] \in Cells
      BY <1>2, <1>3
    <3> QED BY <1>1, <3>1
  <2> QED BY <1>3, <2>1, <2>2
<1>4. CASE BrokenAt(c) # {}
  <2> DEFINE i == CHOOSE i \in BrokenAt(c) : TRUE
  <2>1. i \in BrokenAt(c)
    BY <1>4
  <2>2. Spelled(c) = SubSeq(c, 1, i - 1) \o c[i].cells \o SubSeq(c, i + 1, Len(c))
    BY <1>4 DEF Spelled
  <2> HIDE DEF i
  <2>3. /\ i \in 1 .. Len(c) /\ BrokenAt(c) = {i} /\ c[i] \in BrokenTokens
        /\ \A k \in 1 .. Len(c) : k # i => c[k] \in Cells
    BY <1>1, <1>2, <2>1
  <2> DEFINE before == SubSeq(c, 1, i - 1)
             middle == c[i].cells
             after == SubSeq(c, i + 1, Len(c))
  <2>4. middle \in Seq(Cells)
    <3>1. middle \in Seq(Tokens \cup {Newline, CarriageReturn})
      BY <2>3 DEF BrokenTokens
    <3> HIDE DEF middle
    <3> QED BY <3>1, SeqMonotonic DEF Cells
  <2>5. /\ before \in Seq(Cells) /\ Len(before) = i - 1
        /\ \A k \in 1 .. i - 1 : before[k] = c[k]
    <3>1. \A k \in 1 .. i - 1 : c[k] \in Cells
      BY <1>1, <2>3
    <3> QED BY <1>1, <2>3, <3>1
  <2>6. after \in Seq(Cells)
    <3>1. \A k \in i + 1 .. Len(c) : c[k] \in Cells
      BY <1>1, <2>3
    <3> QED BY <1>1, <2>3, <3>1
  <2> HIDE DEF before, middle, after
  <2> DEFINE u == before \o middle
  <2>7. /\ u \in Seq(Cells) /\ Len(u) = Len(before) + Len(middle)
        /\ \A k \in 1 .. Len(before) + Len(middle) :
              u[k] = IF k <= Len(before) THEN before[k] ELSE middle[k - Len(before)]
    <3>1. before \in Seq(Cells) /\ middle \in Seq(Cells)
      BY <2>4, <2>5
    <3> QED BY <3>1, ConcatProperties, Zenon
  <2> HIDE DEF u
  <2>8. /\ u \o after \in Seq(Cells) /\ Len(u \o after) = Len(u) + Len(after)
        /\ \A k \in 1 .. Len(u) + Len(after) :
              (u \o after)[k] = IF k <= Len(u) THEN u[k] ELSE after[k - Len(u)]
    <3>1. u \in Seq(Cells) /\ after \in Seq(Cells)
      BY <2>6, <2>7
    <3> QED BY <3>1, ConcatProperties, Zenon
  <2>9. Spelled(c) = u \o after
    BY <2>2 DEF u, before, middle, after
  <2>10. Len(middle) \in Nat /\ Len(after) \in Nat
    BY <2>4, <2>6
  <2>11. Len(Spelled(c)) >= i - 1
    BY <2>3, <2>5, <2>7, <2>8, <2>9, <2>10
  <2>12. ASSUME NEW k \in 1 .. i - 1 PROVE Spelled(c)[k] = c[k]
    <3>1. /\ k \in 1 .. Len(before) + Len(middle) /\ k <= Len(before)
          /\ k \in 1 .. Len(u) + Len(after) /\ k <= Len(u)
      BY <2>3, <2>5, <2>7, <2>10
    <3> QED BY <2>5, <2>7, <2>8, <2>9, <3>1
  <2>13. Spelled(c) \in Seq(Cells)
    BY <2>8, <2>9
  <2> QED BY <1>4, <2>3, <2>11, <2>12, <2>13
<1> QED BY <1>3, <1>4

\* What the library or gpumemctl is asked to send.
CommandOK ==
    /\ kind \in {"library", "ctl"} /\ kind \in Clients
    /\ command \in Seq(Cells \cup BrokenTokens)
    /\ \A i \in BrokenAt(command) : BrokenAt(command) = {i}
    /\ kind = "library" =>
          /\ command \in Seq(Cells)
          /\ \A i \in DOMAIN command : command[i] = CarriageReturn => i = Len(command)
    /\ kind = "ctl" => command \in Seq((Cells \ {Newline}) \cup BrokenTokens)
    /\ call # NoCall => call \in AcquireCalls /\ command = AcquireCommand(call)

LEMMA InitCommand ==
    ASSUME Init, kind # "raw"
    PROVE  CommandOK /\ wire = Spelled(command) \o <<Newline>>
<1>1. /\ kind \in {"library", "ctl"} /\ kind \in Clients
      /\ call # NoCall => kind = "library" /\ call \in AcquireCalls
      /\ wire = Spelled(command) \o <<Newline>>
  BY ExchangeAssumption DEF Init
<1>2. CASE call # NoCall
  <2>1. command = AcquireCommand(call) /\ kind = "library" /\ call \in AcquireCalls
    BY <1>1, <1>2 DEF Init
  <2>2. command \in Seq(Tokens \cup {Newline}) /\ command \in Seq(Cells)
    BY <2>1, AcquireCommandType
  <2>3. \A i \in DOMAIN command : command[i] # CarriageReturn /\ command[i].kind # "broken"
    <3> SUFFICES ASSUME NEW i \in 1 .. Len(command)
                 PROVE  command[i] # CarriageReturn /\ command[i].kind # "broken"
      BY <2>2
    <3>1. command[i] \in Tokens \cup {Newline}
      BY <2>2, ElementOfSeq
    <3> QED BY <3>1, CellsTold
  <2>4. BrokenAt(command) = {}
    BY <2>3 DEF BrokenAt
  <2>5. command \in Seq(Cells \cup BrokenTokens)
    BY <2>2, SeqMonotonic
  <2> QED BY <1>1, <2>1, <2>2, <2>3, <2>4, <2>5 DEF CommandOK
<1>3. CASE call = NoCall /\ kind = "library"
  <2>1. command \in Commands["library"] /\ "library" \in Clients
    BY <1>1, <1>3 DEF Init
  <2>2. command \in Seq(Cells) /\ WellSpaced(command)
    BY <2>1, CommandsAssumption
  <2>3. BrokenAt(command) = {}
    <3> SUFFICES ASSUME NEW i \in 1 .. Len(command) PROVE command[i].kind # "broken"
      BY <2>2 DEF BrokenAt
    <3>1. command[i] \in Cells
      BY <2>2, ElementOfSeq
    <3> QED BY <3>1, CellsTold DEF Cells
  <2>4. command \in Seq(Cells \cup BrokenTokens)
    BY <2>2, SeqMonotonic
  <2> QED BY <1>1, <1>3, <2>2, <2>3, <2>4 DEF CommandOK, WellSpaced
<1>4. CASE call = NoCall /\ kind = "ctl"
  <2>1. command \in Commands["ctl"] /\ "ctl" \in Clients
    BY <1>1, <1>4 DEF Init
  <2>2. /\ command \in Seq((Cells \ {Newline}) \cup BrokenTokens)
        /\ \A i \in BrokenAt(command) : BrokenAt(command) = {i}
    BY <2>1, CommandsAssumption
  <2>3. command \in Seq(Cells \cup BrokenTokens)
    <3>1. (Cells \ {Newline}) \cup BrokenTokens \subseteq Cells \cup BrokenTokens
      OBVIOUS
    <3> QED BY <2>2, <3>1, SeqMonotonic
  <2> QED BY <1>1, <1>4, <2>2, <2>3 DEF CommandOK
<1> QED BY <1>1, <1>2, <1>3, <1>4

LEMMA FrameInit == Init => FrameInv
<1> SUFFICES ASSUME Init PROVE FrameInv
  OBVIOUS
<1>1. call # NoCall => call \in AcquireCalls
  BY DEF Init
<1>2. wire \in Seq(Cells)
  <2>1. CASE kind = "raw"
    <3>1. wire \in Seq(Cells \ {Blank})
      BY <2>1, CommandsAssumption DEF Init
    <3>2. Cells \ {Blank} \subseteq Cells
      OBVIOUS
    <3> QED BY <3>1, <3>2, SeqMonotonic
  <2>2. CASE kind # "raw"
    <3>1. CommandOK /\ wire = Spelled(command) \o <<Newline>>
      BY <2>2, InitCommand
    <3>2. Spelled(command) \in Seq(Cells)
      BY <3>1, SpelledText DEF CommandOK
    <3>3. <<Newline>> \in Seq(Cells)
      BY DEF Cells
    <3> QED BY <3>1, <3>2, <3>3, ConcatProperties
  <2> QED BY <2>1, <2>2
<1> QED BY <1>1, <1>2 DEF Init, FrameInv, FrameTypeOK, HandledAsSent

\* The first line break of the buffer.
LEMMA NewlineAtIsFirst ==
    ASSUME input \in Seq(Cells)
    PROVE  /\ NewlineAt \in 0 .. Len(input)
           /\ NewlineAt = 0 => \A i \in 1 .. Len(input) : input[i] # Newline
           /\ NewlineAt # 0 => /\ input[NewlineAt] = Newline
                               /\ \A i \in 1 .. NewlineAt - 1 : input[i] # Newline
<1> DEFINE I == {i \in 1 .. Len(input) : input[i] = Newline}
<1>1. NewlineAt = IF I # {} THEN Min(I) ELSE 0
  BY DEF NewlineAt, SelectInSeq
<1>2. ASSUME I # {} PROVE Min(I) \in I /\ \A y \in I : Min(I) <= y
  <2>1. I \in SUBSET Nat
    OBVIOUS
  <2>2. \E x \in I : \A y \in I : x <= y
    <3> HIDE DEF I
    <3> QED BY <1>2, <2>1, LeastPosition
  <2> HIDE DEF I
  <2> QED BY <2>2 DEF Min
<1>3. CASE I = {}
  BY <1>1, <1>3
<1>4. CASE I # {}
  <2>1. NewlineAt \in I /\ \A y \in I : NewlineAt <= y
    BY <1>1, <1>2, <1>4
  <2> QED BY <2>1
<1> QED BY <1>3, <1>4

\* A step that neither takes from the buffer nor puts into it, and at most
\* ends the session for an outer reason.
LEMMA FrameKept ==
    ASSUME FrameInv, UNCHANGED <<call, wire, input, toServer, handled>>,
           \/ session' = session
           \/ session # "none" /\ session' \in {"stopped", "dead", "write_failed", "processing"},
           session' = "none" => UNCHANGED <<response, toClient, answers, received>>,
           client' = "start" => session' = "none"
    PROVE  FrameInv'
<1>1. FrameTypeOK' /\ HandledAsSent'
  BY DEF FrameInv, FrameTypeOK, HandledAsSent
<1>2. InStep => InStep'
  BY DEF InStep, Position
<1>3. NothingLeft => NothingLeft'
  BY DEF NothingLeft
<1>4. Oversized(wire)' = Oversized(wire) /\ GoodLines(wire)' = GoodLines(wire)
  BY Zenon
<1> QED BY <1>1, <1>2, <1>3, <1>4 DEF FrameInv

\* Connect: the wire is sent, all of it or a part, or nothing happens.
LEMMA FrameConnect == FrameInv /\ Connect => FrameInv'
<1> SUFFICES ASSUME FrameInv, Connect PROVE FrameInv'
  OBVIOUS
<1>1. /\ session = "none" /\ input = <<>> /\ toServer = <<>> /\ handled = <<>>
      /\ response = <<>> /\ toClient = <<>> /\ answers = <<>> /\ received = NoCall
      /\ wire \in Seq(Cells) /\ client = "start"
  BY DEF FrameInv, FrameTypeOK, Connect
<1>2. CASE session' = session
  <2>1. UNCHANGED <<call, wire, input, toServer, handled, response, toClient, answers, received>>
    BY <1>1, <1>2 DEF Connect, parser
  <2>2. session' = "none"
    BY <1>1, <1>2
  <2> QED BY <1>2, <2>1, <2>2, FrameKept
<1>3. CASE session' # session
  <2>1. /\ session' = "reading" /\ toServer' = wire' /\ client' # "start"
        /\ wire' = wire \/ wire' \in Prefixes(Front(wire))
        /\ UNCHANGED <<call, input, handled>>
    BY <1>3 DEF Connect, Finish, parser
  <2>2. wire' \in Seq(Cells)
    <3>1. CASE wire' = wire
      BY <1>1, <3>1
    <3>2. CASE wire' \in Prefixes(Front(wire))
      <4>1. Front(wire) \in Seq(Cells)
        BY <1>1, FrontType
      <4>2. PICK l \in 0 .. Len(Front(wire)) : wire' = SubSeq(Front(wire), 1, l)
        BY <3>2 DEF Prefixes
      <4> QED BY <4>1, <4>2
    <3> QED BY <2>1, <3>1, <3>2
  <2>3. Newlines(wire') \subseteq 1 .. Len(wire')
    BY <2>2, NewlinesFinite
  <2>4. LinesBy(wire', 0) = 0
    BY <2>2, <2>3, LinesByNone
  <2>5. Position' = 0 /\ Len(input') = 0 /\ Len(handled') = 0 /\ Len(toServer') = Len(wire')
    BY <1>1, <2>1, <2>2 DEF Position
  <2>6. InStep'
    BY <2>1, <2>2, <2>4, <2>5 DEF InStep
  <2>7. HandledAsSent' /\ NothingLeft'
    BY <2>5, ExchangeAssumption DEF HandledAsSent, NothingLeft
  <2>8. FrameTypeOK'
    BY <1>1, <2>1, <2>2 DEF FrameTypeOK, FrameInv
  <2> QED BY <2>1, <2>6, <2>7, <2>8 DEF FrameInv
<1> QED BY <1>2, <1>3

\* Cells move from the way into the buffer.
LEMMA FrameSessionRead == FrameInv /\ SessionRead => FrameInv'
<1> SUFFICES ASSUME FrameInv, SessionRead PROVE FrameInv'
  OBVIOUS
<1>1. /\ InStep /\ session = "reading" /\ session' = "processing" /\ client # "start"
      /\ UNCHANGED <<call, wire, handled, client>>
      /\ {wire, input, toServer} \subseteq Seq(Cells)
  BY DEF FrameInv, FrameTypeOK, SessionRead, asked, reader, parser
<1>2. PICK n \in 1 .. Len(toServer) :
        /\ input' = input \o SubSeq(toServer, 1, n)
        /\ toServer' = SubSeq(toServer, n + 1, Len(toServer))
  BY DEF SessionRead
<1>3. /\ input' \in Seq(Cells) /\ toServer' \in Seq(Cells)
      /\ Len(input') = Len(input) + n /\ Len(toServer') = Len(toServer) - n
      /\ \A i \in 1 .. Len(input) : input'[i] = input[i]
      /\ \A i \in 1 .. n : input'[Len(input) + i] = toServer[i]
      /\ \A i \in 1 .. Len(toServer) - n : toServer'[i] = toServer[n + i]
  <2>1. input \in Seq(Cells) /\ toServer \in Seq(Cells)
    BY <1>1
  <2>2. Moved(Cells, toServer, input, n, input', toServer')
    BY <1>2, <2>1, MovedCells
  <2> QED BY <2>2 DEF Moved
<1>4. Position' = Position /\ Len(input) \in Nat /\ Len(toServer) \in Nat /\ Position \in Nat
  BY <1>1, <1>3 DEF Position, InStep
<1>5. \A i \in 1 .. Len(input') : input'[i] = wire[Position + i]
  <2> SUFFICES ASSUME NEW i \in 1 .. Len(input') PROVE input'[i] = wire[Position + i]
    OBVIOUS
  <2>1. CASE i <= Len(input)
    BY <1>1, <1>3, <1>4, <2>1 DEF InStep
  <2>2. CASE i > Len(input)
    <3>1. i - Len(input) \in 1 .. n /\ i = Len(input) + (i - Len(input))
      BY <1>3, <1>4, <2>2
    <3>2. input'[i] = toServer[i - Len(input)]
      BY <1>3, <3>1
    <3>3. toServer[i - Len(input)] = wire[Position + Len(input) + (i - Len(input))]
      BY <1>1, <3>1 DEF InStep
    <3> QED BY <1>4, <3>1, <3>2, <3>3
  <2> QED BY <1>3, <1>4, <2>1, <2>2
<1>6. \A i \in 1 .. Len(toServer') : toServer'[i] = wire[Position + Len(input') + i]
  <2> SUFFICES ASSUME NEW i \in 1 .. Len(toServer')
               PROVE  toServer'[i] = wire[Position + Len(input') + i]
    OBVIOUS
  <2>1. i \in 1 .. Len(toServer) - n /\ n + i \in 1 .. Len(toServer)
    BY <1>3, <1>4
  <2>2. toServer[n + i] = wire[Position + Len(input) + (n + i)]
    BY <1>1, <2>1 DEF InStep
  <2>3. Position + Len(input) + (n + i) = Position + Len(input') + i
    BY <1>3, <1>4
  <2> QED BY <1>3, <2>1, <2>2, <2>3
<1>7. InStep'
  BY <1>1, <1>4, <1>5, <1>6 DEF InStep
<1>8. HandledAsSent' /\ FrameTypeOK'
  BY <1>1, <1>3 DEF FrameInv, FrameTypeOK, HandledAsSent
<1> QED BY <1>1, <1>7, <1>8 DEF FrameInv

\* The next line goes from the position to the next line break of the wire.
LEMMA LineUpTo ==
    ASSUME FrameInv, session # "none", NEW q \in Newlines(wire), Position < q,
           \A j \in Newlines(wire) : j <= Position \/ q <= j
    PROVE  /\ LinesBy(wire, q) = Len(handled) + 1
           /\ Len(handled) + 1 \in 1 .. LineCount(wire)
           /\ LineOf(wire, Len(handled) + 1) = SubSeq(wire, Position + 1, q)
           /\ Len(LineOf(wire, Len(handled) + 1)) = q - Position
<1> DEFINE h == Len(handled)
<1>1. /\ InStep /\ wire \in Seq(Cells) /\ h \in Nat /\ Position \in 0 .. Len(wire)
      /\ q \in 1 .. Len(wire)
  BY NewlinesFinite DEF FrameInv, FrameTypeOK, InStep
<1>2. LinesBy(wire, q) = h + 1
  <2>1. LinesBy(wire, q) = LinesBy(wire, Position) + 1
    BY <1>1, LinesByNext
  <2> QED BY <1>1, <2>1 DEF InStep
<1>3. LineEnd(wire, h + 1) = q /\ h + 1 \in 0 .. LineCount(wire)
  BY <1>1, <1>2, LineEndIs
<1>4. LineEnd(wire, h) = Position
  BY <1>1, LineEndIs DEF InStep
<1>5. LineOf(wire, h + 1) = SubSeq(wire, Position + 1, q)
  <2> HIDE DEF h
  <2>1. (h + 1) - 1 = h
    BY <1>1
  <2>2. LineEnd(wire, (h + 1) - 1) = Position
    BY <1>4, <2>1
  <2> QED BY <1>3, <2>2 DEF LineOf
<1>6. Len(SubSeq(wire, Position + 1, q)) = q - Position
  BY <1>1
<1>7. h + 1 \in 1 .. LineCount(wire)
  BY <1>1, <1>3
<1> QED BY <1>2, <1>5, <1>6, <1>7

\* The line that the session sees at the front of its buffer is the next line
\* of the wire.
LEMMA NextLine ==
    ASSUME FrameInv, session # "none", NewlineAt # 0
    PROVE  LET q == Position + NewlineAt IN
           /\ q \in Newlines(wire)
           /\ LinesBy(wire, q) = Len(handled) + 1
           /\ Len(handled) + 1 \in 1 .. LineCount(wire)
           /\ LineOf(wire, Len(handled) + 1) = SubSeq(input, 1, NewlineAt)
           /\ Len(LineOf(wire, Len(handled) + 1)) = NewlineAt
<1> DEFINE q == Position + NewlineAt
           h == Len(handled)
<1>1. /\ InStep /\ {wire, input, toServer} \subseteq Seq(Cells) /\ h \in Nat
  BY DEF FrameInv, FrameTypeOK
<1>2. /\ NewlineAt \in 1 .. Len(input) /\ input[NewlineAt] = Newline
      /\ \A i \in 1 .. NewlineAt - 1 : input[i] # Newline
  BY <1>1, NewlineAtIsFirst
<1>3. /\ Position \in Nat /\ Position + Len(input) <= Len(wire) /\ Len(input) \in Nat
      /\ Len(wire) \in Nat
  BY <1>1 DEF InStep, Position
<1>4. q \in Newlines(wire) /\ q \in 1 .. Len(wire) /\ Position < q
  BY <1>1, <1>2, <1>3 DEF InStep, Newlines
<1>5. ASSUME NEW j \in Newlines(wire) PROVE j <= Position \/ q <= j
  <2>1. j \in 1 .. Len(wire) /\ wire[j] = Newline
    BY <1>1 DEF Newlines
  <2> SUFFICES ASSUME Position < j, j < q PROVE FALSE
    BY <1>3, <1>4, <2>1
  <2>2. j - Position \in 1 .. NewlineAt - 1 /\ j = Position + (j - Position)
    BY <1>2, <1>3, <2>1
  <2>3. input[j - Position] = wire[Position + (j - Position)]
    <3>1. j - Position \in 1 .. Len(input)
      BY <1>2, <1>3, <2>2
    <3> QED BY <1>1, <3>1 DEF InStep
  <2> QED BY <1>2, <2>1, <2>2, <2>3
<1>6. /\ LinesBy(wire, q) = h + 1 /\ h + 1 \in 1 .. LineCount(wire)
      /\ LineOf(wire, h + 1) = SubSeq(wire, Position + 1, q)
  BY <1>4, <1>5, LineUpTo
<1>10. SubSeq(wire, Position + 1, q) = SubSeq(input, 1, NewlineAt)
       /\ Len(SubSeq(input, 1, NewlineAt)) = NewlineAt
  <2> HIDE DEF q
  <2>1. q = Position + NewlineAt
    BY DEF q
  <2>2. /\ SubSeq(input, 1, NewlineAt) \in Seq(Cells)
        /\ Len(SubSeq(input, 1, NewlineAt)) = NewlineAt
        /\ \A i \in 1 .. NewlineAt : SubSeq(input, 1, NewlineAt)[i] = input[i]
    BY <1>1, <1>2
  <2>3. /\ SubSeq(wire, Position + 1, q) \in Seq(Cells)
        /\ Len(SubSeq(wire, Position + 1, q)) = NewlineAt
        /\ \A i \in 1 .. NewlineAt : SubSeq(wire, Position + 1, q)[i] = wire[Position + i]
    <3>1. NewlineAt \in Nat /\ Position + NewlineAt <= Len(wire) /\ wire \in Seq(Cells)
      BY <1>1, <1>2, <1>3
    <3> QED BY <1>3, <2>1, <3>1, PieceOf
  <2>4. \A i \in 1 .. NewlineAt : input[i] = wire[Position + i]
    BY <1>1, <1>2, <1>3 DEF InStep
  <2>5. \A i \in 1 .. NewlineAt :
           SubSeq(wire, Position + 1, q)[i] = SubSeq(input, 1, NewlineAt)[i]
    BY <2>2, <2>3, <2>4
  <2> QED BY <2>2, <2>3, <2>5, SeqEqual
<1> QED BY <1>4, <1>6, <1>10

LEMMA FrameProcessLine == FrameInv /\ ProcessLine => FrameInv'
<1> SUFFICES ASSUME FrameInv, ProcessLine PROVE FrameInv'
  OBVIOUS
<1> DEFINE text == SubSeq(input, 1, NewlineAt - 1)
           line == StripCR(text)
           q == Position + NewlineAt
           h == Len(handled)
<1>1. /\ session = "processing" /\ NewlineAt # 0 /\ ~ TooLarge /\ TakeLine(line)
      /\ session' \in {"processing", "write_failed"}
      /\ UNCHANGED <<call, wire, client, toServer>>
  BY DEF ProcessLine, asked, reader
<1>2. /\ InStep /\ {wire, input, toServer} \subseteq Seq(Cells) /\ handled \in Seq(Seq(Cells))
      /\ client # "start" /\ HandledAsSent
  BY <1>1 DEF FrameInv, FrameTypeOK
<1>3. NewlineAt \in 1 .. Len(input) /\ NewlineAt <= MaxLine
  BY <1>1, <1>2, NewlineAtIsFirst, ExchangeAssumption DEF TooLarge
<1>4. /\ q \in Newlines(wire) /\ LinesBy(wire, q) = h + 1
      /\ LineOf(wire, h + 1) = SubSeq(input, 1, NewlineAt)
      /\ Len(LineOf(wire, h + 1)) = NewlineAt
  BY <1>1, NextLine
<1>5. text \in Seq(Cells) /\ Front(LineOf(wire, h + 1)) = text
  <2>1. SubSeq(input, 1, NewlineAt) \in Seq(Cells) /\ Len(SubSeq(input, 1, NewlineAt)) = NewlineAt
        /\ \A i \in 1 .. NewlineAt : SubSeq(input, 1, NewlineAt)[i] = input[i]
    BY <1>2, <1>3
  <2>2. text \in Seq(Cells) /\ Len(text) = NewlineAt - 1
        /\ \A i \in 1 .. NewlineAt - 1 : text[i] = input[i]
    BY <1>2, <1>3
  <2>3. SubSeq(input, 1, NewlineAt) # <<>>
    BY <1>3, <2>1
  <2> DEFINE f == Front(SubSeq(input, 1, NewlineAt))
  <2>4. f \in Seq(Cells) /\ Len(f) = NewlineAt - 1
        /\ \A i \in 1 .. NewlineAt - 1 : f[i] = SubSeq(input, 1, NewlineAt)[i]
    <3> DEFINE whole == SubSeq(input, 1, NewlineAt)
    <3> HIDE DEF whole
    <3>1. whole \in Seq(Cells) /\ Len(whole) = NewlineAt /\ whole # <<>>
      BY <2>1, <2>3 DEF whole
    <3>2. Front(whole) \in Seq(Cells) /\ Len(Front(whole)) = Len(whole) - 1
          /\ \A i \in 1 .. Len(whole) - 1 : Front(whole)[i] = whole[i]
      BY <3>1, FrontType
    <3> QED BY <3>1, <3>2 DEF whole
  <2>5. f = text
    <3> HIDE DEF f, text
    <3>1. \A i \in 1 .. Len(f) : f[i] = text[i]
      BY <1>3, <2>1, <2>2, <2>4
    <3> QED BY <2>2, <2>4, <3>1, SeqEqual
  <2> QED BY <1>4, <2>2, <2>5
<1>6. line = StripLine(LineOf(wire, h + 1))
  <2> HIDE DEF text
  <2> QED BY <1>5 DEF StripLine
<1>7. line \in Seq(Cells)
  <2> HIDE DEF text
  <2> QED BY <1>5, FrontType DEF StripCR
<1> HIDE DEF line
<1>8. /\ input' = SubSeq(input, NewlineAt + 1, Len(input))
      /\ handled' = Append(handled, line)
  BY <1>1 DEF TakeLine
<1>9. /\ input' \in Seq(Cells) /\ Len(input') = Len(input) - NewlineAt
      /\ \A i \in 1 .. Len(input) - NewlineAt : input'[i] = input[NewlineAt + i]
  BY <1>2, <1>3, <1>8
<1>10. /\ handled' \in Seq(Seq(Cells)) /\ Len(handled') = h + 1
       /\ \A k \in 1 .. h : handled'[k] = handled[k]
       /\ handled'[h + 1] = line
  BY <1>2, <1>7, <1>8, AppendProperties
<1>11. /\ Position' = q /\ q \in 0 .. Len(wire) /\ Position \in Nat /\ Len(input) \in Nat
       /\ Len(toServer) \in Nat
  <2>1. Len(input) \in Nat /\ Len(toServer) \in Nat /\ Position \in Nat
    BY <1>2 DEF InStep
  <2>2. q \in 1 .. Len(wire)
    BY <1>2, <1>4, NewlinesFinite
  <2>3. Position' = Len(wire) - Len(input') - Len(toServer)
    BY <1>1 DEF Position
  <2>4. Position' = q
    <3>1. Len(wire) \in Nat
      BY <1>2
    <3> QED BY <1>3, <1>9, <2>1, <2>3, <3>1 DEF Position
  <2> QED BY <2>1, <2>2, <2>4
<1>12. \A i \in 1 .. Len(input') : input'[i] = wire'[Position' + i]
  <2> SUFFICES ASSUME NEW i \in 1 .. Len(input') PROVE input'[i] = wire[q + i]
    BY <1>1, <1>11
  <2>1. NewlineAt + i \in 1 .. Len(input) /\ i \in 1 .. Len(input) - NewlineAt
    BY <1>3, <1>9, <1>11
  <2>2. input[NewlineAt + i] = wire[Position + (NewlineAt + i)]
    BY <1>2, <2>1 DEF InStep
  <2>3. Position + (NewlineAt + i) = q + i
    BY <1>3, <1>11
  <2> QED BY <1>9, <2>1, <2>2, <2>3
<1>13. \A i \in 1 .. Len(toServer') : toServer'[i] = wire'[Position' + Len(input') + i]
  <2> SUFFICES ASSUME NEW i \in 1 .. Len(toServer) PROVE toServer[i] = wire[q + Len(input') + i]
    BY <1>1, <1>11
  <2>1. toServer[i] = wire[Position + Len(input) + i]
    BY <1>2 DEF InStep
  <2>2. Position + Len(input) + i = q + Len(input') + i
    BY <1>3, <1>9, <1>11
  <2> QED BY <2>1, <2>2
<1>14. InStep'
  <2> HIDE DEF q, h
  <2> QED BY <1>1, <1>4, <1>10, <1>11, <1>12, <1>13 DEF InStep
<1>15. HandledAsSent'
  <2> SUFFICES ASSUME NEW k \in 1 .. Len(handled')
               PROVE  /\ handled'[k] = StripLine(LineOf(wire, k))
                      /\ Len(LineOf(wire, k)) <= MaxLine
    BY <1>1 DEF HandledAsSent
  <2>1. CASE k = h + 1
    BY <1>3, <1>4, <1>6, <1>10, <2>1
  <2>2. CASE k # h + 1
    <3>1. k \in 1 .. h
      BY <1>2, <1>10, <2>2
    <3> QED BY <1>2, <1>10, <3>1 DEF HandledAsSent
  <2> QED BY <2>1, <2>2
<1>16. FrameTypeOK'
  BY <1>1, <1>2, <1>9, <1>10 DEF FrameInv, FrameTypeOK
<1> QED BY <1>1, <1>2, <1>14, <1>15, <1>16 DEF FrameInv

\* When there is no line break in the buffer or on its way, the buffer and
\* what is on its way are the rest of the wire.
LEMMA LastLine ==
    ASSUME FrameInv, session # "none", \A i \in 1 .. Len(input) : input[i] # Newline,
           \A i \in 1 .. Len(toServer) : toServer[i] # Newline
    PROVE  /\ LineCount(wire) = Len(handled)
           /\ Len(Rest(wire)) = Len(input) + Len(toServer)
<1>1. /\ InStep /\ {wire, input, toServer} \subseteq Seq(Cells)
      /\ Len(input) \in Nat /\ Len(toServer) \in Nat /\ Len(wire) \in Nat
      /\ Position \in 0 .. Len(wire) /\ Len(wire) = Position + Len(input) + Len(toServer)
  BY DEF FrameInv, FrameTypeOK, InStep, Position
<1>2. ASSUME NEW j \in Newlines(wire) PROVE j <= Position
  <2>1. j \in 1 .. Len(wire) /\ wire[j] = Newline
    BY <1>1 DEF Newlines
  <2> SUFFICES ASSUME Position < j PROVE FALSE
    BY <1>1, <2>1
  <2>2. CASE j <= Position + Len(input)
    <3>1. j - Position \in 1 .. Len(input) /\ Position + (j - Position) = j
      BY <1>1, <2>1, <2>2
    <3>2. input[j - Position] = wire[Position + (j - Position)]
      BY <1>1, <3>1 DEF InStep
    <3> QED BY <2>1, <3>1, <3>2
  <2>3. CASE j > Position + Len(input)
    <3> DEFINE i == j - Position - Len(input)
    <3>1. i \in 1 .. Len(toServer) /\ Position + Len(input) + i = j
      BY <1>1, <2>1, <2>3
    <3>2. toServer[i] = wire[Position + Len(input) + i]
      BY <1>1, <3>1 DEF InStep
    <3> QED BY <2>1, <3>1, <3>2
  <2> QED BY <1>1, <2>1, <2>2, <2>3
<1>3. LinesBy(wire, Position) = LineCount(wire)
  BY <1>1, <1>2, LinesByAll
<1>4. LineCount(wire) = Len(handled)
  BY <1>1, <1>3 DEF InStep
<1>5. LineEnd(wire, LineCount(wire)) = Position
  <2>1. LineEnd(wire, LinesBy(wire, Position)) = Position
    BY <1>1, LineEndIs DEF InStep
  <2> QED BY <1>3, <2>1
<1>6. Len(Rest(wire)) = Len(wire) - Position
  <2>1. Rest(wire) = SubSeq(wire, Position + 1, Len(wire))
    BY <1>5 DEF Rest
  <2> QED BY <1>1, <2>1
<1> QED BY <1>1, <1>4, <1>6

\* The session gives up on a line if and only if it is too long.
LEMMA FrameTooLarge == FrameInv /\ ProcessTooLarge => FrameInv'
<1> SUFFICES ASSUME FrameInv, ProcessTooLarge PROVE FrameInv'
  OBVIOUS
<1> DEFINE h == Len(handled)
<1>1. /\ session = "processing" /\ TooLarge /\ session' = "too_large"
      /\ UNCHANGED <<call, wire, client, toServer, input, handled>>
  BY DEF ProcessTooLarge, asked, reader
<1>2. /\ InStep /\ {wire, input, toServer} \subseteq Seq(Cells) /\ handled \in Seq(Seq(Cells))
      /\ client # "start" /\ HandledAsSent /\ h \in Nat /\ LineCount(wire) \in Nat
      /\ Position \in 0 .. Len(wire)
  BY <1>1, NewlinesFinite DEF FrameInv, FrameTypeOK, InStep
<1>3. \A l \in 1 .. h : Len(LineOf(wire, l)) <= MaxLine
  BY <1>2 DEF HandledAsSent
<1>4. ASSUME h + 1 \in 1 .. LineCount(wire), Len(LineOf(wire, h + 1)) \in Nat,
             Len(LineOf(wire, h + 1)) > MaxLine
      PROVE  GoodLines(wire) = h /\ Oversized(wire)
  <2>1. h \in 0 .. LineCount(wire) /\ h < LineCount(wire)
    BY <1>2, <1>4
  <2>2. ~ (Len(LineOf(wire, h + 1)) <= MaxLine)
    BY <1>4, ExchangeAssumption
  <2>3. GoodLines(wire) = h
    BY <1>2, <1>3, <2>1, <2>2, GoodLinesAre
  <2> QED BY <2>1, <2>3 DEF Oversized
<1>5. GoodLines(wire) = h /\ Oversized(wire)
  <2>1. CASE NewlineAt # 0
    <3>1. NewlineAt \in Nat /\ NewlineAt > MaxLine
      BY <1>1, <1>2, <2>1, NewlineAtIsFirst DEF TooLarge
    <3>2. h + 1 \in 1 .. LineCount(wire) /\ Len(LineOf(wire, h + 1)) = NewlineAt
      BY <1>1, <2>1, NextLine
    <3> QED BY <1>4, <3>1, <3>2
  <2>2. CASE NewlineAt = 0 /\ \A i \in 1 .. Len(toServer) : toServer[i] # Newline
    <3>1. LineCount(wire) = h /\ Len(Rest(wire)) = Len(input) + Len(toServer)
      BY <1>1, <1>2, <2>2, NewlineAtIsFirst, LastLine
    <3>2. Len(input) >= MaxLine /\ Len(input) \in Nat /\ Len(toServer) \in Nat
      BY <1>1, <1>2, <2>2 DEF TooLarge
    <3>3. Len(Rest(wire)) >= MaxLine
      BY <3>1, <3>2, ExchangeAssumption
    <3>4. GoodLines(wire) = h
      <4>1. h \in 0 .. LineCount(wire) /\ h = LineCount(wire)
        BY <1>2, <3>1
      <4> HIDE DEF h
      <4> QED BY <1>2, <1>3, <4>1, GoodLinesAre
    <3> QED BY <3>3, <3>4 DEF Oversized
  <2>3. CASE NewlineAt = 0 /\ \E i \in 1 .. Len(toServer) : toServer[i] = Newline
    <3> DEFINE I == {i \in 1 .. Len(toServer) : toServer[i] = Newline}
    <3>1. PICK m \in I : \A y \in I : m <= y
      <4>1. I \in SUBSET Nat /\ I # {}
        BY <2>3
      <4> HIDE DEF I
      <4> QED BY <4>1, LeastPosition
    <3> DEFINE q == Position + Len(input) + m
    <3>2. /\ Len(input) \in Nat /\ Len(toServer) \in Nat /\ Len(wire) \in Nat
          /\ Len(wire) = Position + Len(input) + Len(toServer)
          /\ m \in 1 .. Len(toServer) /\ toServer[m] = Newline
      BY <1>2 DEF Position
    <3>3. q \in Newlines(wire) /\ Position < q
      <4>1. wire[q] = Newline
        BY <1>2, <3>2 DEF InStep
      <4>2. q \in 1 .. Len(wire) /\ Position < q
        BY <1>2, <3>2
      <4> QED BY <1>2, <4>1, <4>2 DEF Newlines
    <3>4. ASSUME NEW j \in Newlines(wire) PROVE j <= Position \/ q <= j
      <4>1. j \in 1 .. Len(wire) /\ wire[j] = Newline
        BY <1>2 DEF Newlines
      <4> SUFFICES ASSUME Position < j, j < q PROVE FALSE
        BY <1>2, <3>2, <4>1
      <4>2. CASE j <= Position + Len(input)
        <5>1. j - Position \in 1 .. Len(input) /\ Position + (j - Position) = j
          BY <1>2, <3>2, <4>1, <4>2
        <5>2. input[j - Position] = wire[Position + (j - Position)]
          BY <1>2, <5>1 DEF InStep
        <5>3. input[j - Position] # Newline
          BY <1>2, <2>3, <5>1, NewlineAtIsFirst
        <5> QED BY <4>1, <5>1, <5>2, <5>3
      <4>3. CASE j > Position + Len(input)
        <5> DEFINE i == j - Position - Len(input)
        <5>1. i \in 1 .. Len(toServer) /\ Position + Len(input) + i = j /\ ~ (m <= i)
          BY <1>2, <3>2, <4>1, <4>3
        <5> HIDE DEF i
        <5>2. toServer[i] = wire[Position + Len(input) + i]
          BY <1>2, <5>1 DEF InStep
        <5>3. i \in I
          BY <4>1, <5>1, <5>2
        <5> QED BY <3>1, <5>1, <5>3
      <4> QED BY <1>2, <3>2, <4>1, <4>2, <4>3
    <3>5. /\ h + 1 \in 1 .. LineCount(wire)
          /\ Len(LineOf(wire, h + 1)) = q - Position
      BY <1>1, <3>3, <3>4, LineUpTo
    <3>6. q - Position \in Nat /\ q - Position > MaxLine
      <4>1. Len(input) >= MaxLine
        BY <1>1, <2>3 DEF TooLarge
      <4> QED BY <1>2, <3>2, <4>1, ExchangeAssumption
    <3> QED BY <1>4, <3>5, <3>6
  <2> QED BY <2>1, <2>2, <2>3
<1>6. GoodLines(wire') = Len(handled') /\ Oversized(wire')
  BY <1>1, <1>5
<1>7. InStep' /\ HandledAsSent' /\ FrameTypeOK'
  BY <1>1, <1>2 DEF FrameInv, FrameTypeOK, HandledAsSent, InStep, Position
<1> QED BY <1>1, <1>2, <1>6, <1>7 DEF FrameInv

\* At the end of the stream every line was handled and none was too long.
LEMMA FrameEof == FrameInv /\ SessionEof => FrameInv'
<1> SUFFICES ASSUME FrameInv, SessionEof PROVE FrameInv'
  OBVIOUS
<1> DEFINE h == Len(handled)
<1>1. /\ session = "reading" /\ toServer = <<>> /\ session' = "eof"
      /\ client \notin {"start", "reading"}
      /\ UNCHANGED <<call, wire, client, toServer, input, handled>>
  BY DEF SessionEof, asked, reader
<1>2. /\ InStep /\ {wire, input, toServer} \subseteq Seq(Cells) /\ handled \in Seq(Seq(Cells))
      /\ HandledAsSent /\ h \in Nat /\ NothingLeft /\ Len(input) \in Nat
  BY <1>1 DEF FrameInv, FrameTypeOK
<1>3. LineCount(wire) = h /\ Len(Rest(wire)) = Len(input)
  <2>1. Len(toServer) = 0
    BY <1>1
  <2>2. \A i \in 1 .. Len(toServer) : toServer[i] # Newline
    BY <2>1
  <2>3. LineCount(wire) = h /\ Len(Rest(wire)) = Len(input) + Len(toServer)
    BY <1>1, <1>2, <2>2, LastLine DEF NothingLeft
  <2> QED BY <1>2, <2>1, <2>3
<1>4. GoodLines(wire) = h
  BY <1>2, <1>3, GoodLinesAre DEF HandledAsSent
<1>5. ~ Oversized(wire)
  BY <1>2, <1>3, <1>4, ExchangeAssumption DEF Oversized, NothingLeft
<1>6. GoodLines(wire') = Len(handled') /\ ~ Oversized(wire')
  BY <1>1, <1>4, <1>5
<1>7. InStep' /\ HandledAsSent' /\ FrameTypeOK'
  BY <1>1, <1>2 DEF FrameInv, FrameTypeOK, HandledAsSent, InStep, Position
<1> QED BY <1>1, <1>2, <1>6, <1>7 DEF FrameInv

LEMMA FrameNeedMore == FrameInv /\ NeedMore => FrameInv'
<1> SUFFICES ASSUME FrameInv, NeedMore PROVE FrameInv'
  OBVIOUS
<1>1. /\ session = "processing" /\ NewlineAt = 0 /\ ~ TooLarge /\ session' = "reading"
      /\ UNCHANGED <<call, wire, client, toServer, input, handled>>
  BY DEF NeedMore, asked, reader, parser
<1>2. /\ InStep /\ input \in Seq(Cells) /\ client # "start"
  BY <1>1 DEF FrameInv, FrameTypeOK
<1>3. NothingLeft
  BY <1>1, <1>2, NewlineAtIsFirst, ExchangeAssumption DEF NothingLeft, TooLarge
<1>4. InStep' /\ HandledAsSent' /\ FrameTypeOK' /\ NothingLeft'
  BY <1>1, <1>2, <1>3 DEF FrameInv, FrameTypeOK, HandledAsSent, InStep, Position, NothingLeft
<1> QED BY <1>1, <1>2, <1>4 DEF FrameInv

LEMMA FrameNext == FrameInv /\ [Next]_vars => FrameInv'
<1> SUFFICES ASSUME FrameInv, [Next]_vars PROVE FrameInv'
  OBVIOUS
<1>1. CASE Connect
  BY <1>1, FrameConnect
<1>2. CASE ClientRead
  <2>1. /\ UNCHANGED <<call, wire, input, toServer, handled, session, answers, received>>
        /\ client' # "start" /\ toClient # <<>>
    BY <1>2 DEF ClientRead, Finish, asked, parser
  <2>2. session # "none"
    BY <2>1 DEF FrameInv
  <2> QED BY <2>1, <2>2, FrameKept
<1>3. CASE ClientEof
  <2>1. /\ UNCHANGED <<call, wire, input, toServer, handled, session, response, toClient,
                       answers, received>>
        /\ client' # "start"
    BY <1>3 DEF ClientEof, Finish, asked, parser
  <2> QED BY <2>1, FrameKept
<1>4. CASE RawClose
  <2>1. /\ UNCHANGED <<call, wire, input, toServer, handled, session, response, toClient,
                       answers, received>>
        /\ client' # "start"
    BY <1>4 DEF RawClose, Finish, asked, parser
  <2> QED BY <2>1, FrameKept
<1>5. CASE SessionRead
  BY <1>5, FrameSessionRead
<1>6. CASE ProcessTooLarge
  BY <1>6, FrameTooLarge
<1>7. CASE NeedMore
  BY <1>7, FrameNeedMore
<1>8. CASE ProcessLine
  BY <1>8, FrameProcessLine
<1>9. CASE SessionEof
  BY <1>9, FrameEof
<1>10. CASE SessionStops \/ DaemonDies
  <2>1. /\ UNCHANGED <<call, wire, input, toServer, handled, client>>
        /\ session # "none" /\ session' \in {"stopped", "dead"}
    BY <1>10 DEF SessionStops, DaemonDies, asked, reader, parser
  <2>2. client # "start"
    BY <2>1 DEF FrameInv
  <2> QED BY <2>1, <2>2, FrameKept
<1>11. CASE UNCHANGED vars
  <2>1. UNCHANGED <<call, wire, input, toServer, handled, session, client, response, toClient,
                    answers, received>>
    BY <1>11 DEF vars, asked, reader, parser
  <2>2. client' = "start" => session' = "none"
    BY <2>1 DEF FrameInv
  <2> QED BY <2>1, <2>2, FrameKept
<1> QED BY <1>1, <1>2, <1>3, <1>4, <1>5, <1>6, <1>7, <1>8, <1>9, <1>10, <1>11
        DEF Next, ClientStep, SessionStep

LEMMA FrameInvariance == Spec => []FrameInv
<1>1. Init => FrameInv
  BY FrameInit
<1>2. FrameInv /\ [Next]_vars => FrameInv'
  BY FrameNext
<1> QED BY <1>1, <1>2, PTL DEF Spec

\* For every limit on lines and every wire: the lines that a session parses
\* are the lines that were sent, in order, and a session that ends by itself
\* has parsed all of them up to one that is too long, which it reports if and
\* only if there is one (client_session, process_input).
THEOREM FramingCorrect == Spec => []FramedAsSent
<1>1. ASSUME FrameInv PROVE FramedAsSent
  <2>1. wire \in Seq(Cells) /\ handled \in Seq(Seq(Cells)) /\ LineCount(wire) \in Nat
    BY <1>1, NewlinesFinite DEF FrameInv, FrameTypeOK
  <2>2. Len(handled) \in 0 .. LineCount(wire)
    <3>1. CASE session = "none"
      BY <1>1, <2>1, <3>1 DEF FrameInv
    <3>2. CASE session # "none"
      <4>1. InStep
        BY <1>1, <3>2 DEF FrameInv
      <4> QED BY <2>1, <4>1, LineEndIs DEF InStep
    <3> QED BY <3>1, <3>2
  <2>3. Len(handled) <= GoodLines(wire)
    BY <1>1, <2>1, <2>2, GoodLinesAtLeast DEF FrameInv, HandledAsSent
  <2>4. \A k \in DOMAIN handled : handled[k] = StripLine(LineOf(wire, k))
    BY <1>1, <2>1 DEF FrameInv, HandledAsSent
  <2> QED BY <1>1, <2>3, <2>4 DEF FrameInv, FramedAsSent
<1> QED BY <1>1, FrameInvariance, PTL

-----------------------------------------------------------------------------
(***************************************************************************)
(* The client's side: the library and gpumemctl send a command and read    *)
(* the answer to its first line, which is the only one unless a word of    *)
(* the command is broken.                                                  *)
(***************************************************************************)

\* The wire is the command as it is spelled and a line break, or a part of it
\* if the write has failed.
CommandMeant ==
    /\ CommandOK
    /\ IF client = "WriteFailed" THEN wire \in Prefixes(Spelled(command))
       ELSE wire = Spelled(command) \o <<Newline>>

\* What was sent was not refused early.
Accepted ==
    IF kind = "ctl" THEN parse_error(tokenize(command)) = "None"
    ELSE command # <<>> /\ \A i \in DOMAIN command : command[i] # Newline

\* There is no other line break; without any the write has failed.
OneRequest ==
    Newlines(wire) = IF client = "WriteFailed" THEN {} ELSE {Len(wire)}

\* What was received is what the line says, and each line has its outcome.
ReceivedAsSent ==
    /\ \E S : outcomes \in Seq(S)
    /\ Len(outcomes) = Len(handled)
    /\ handled = <<>> => received = NoCall
    /\ received # NoCall /\ Len(handled) = 1 =>
          /\ parse_error(tokenize(handled[1])) = "None"
          /\ received = command_of(tokenize(handled[1]))

NoAnswer ==
    /\ answers = <<>> /\ response = <<>> /\ toClient = <<>>
    /\ handled = <<>> /\ session # "too_large"

\* An answer tells what a line ended with.
Tells(text, line, error) ==
    IF error = "None" THEN text[1] = Word("OK")
    ELSE /\ error \in LineErrors(line)
         /\ text = OneLine(ErrorCode(line, error))

\* The first answer tells what became of the first line, and what the client
\* has read and what is on its way begin with it, as far as they go.
Answered ==
    /\ \E S : answers \in Seq(Seq(S)) /\ {response, toClient} \subseteq Seq(S)
    /\ answers # <<>> /\ answers[1] # <<>>
    /\ \A i \in 1 .. Len(response) : i <= Len(answers[1]) => response[i] = answers[1][i]
    /\ \A i \in 1 .. Len(toClient) :
          Len(response) + i <= Len(answers[1]) => toClient[i] = answers[1][Len(response) + i]
    /\ SingleLine => Len(response) + Len(toClient) <= Len(answers[1])
    /\ session \in {"reading", "processing"} => Len(answers[1]) <= Len(response) + Len(toClient)
    /\ IF handled = <<>> THEN session = "too_large" /\ answers[1] = OneLine("request_too_large")
       ELSE Tells(answers[1], handled[1], outcomes[1])

Listening == {"reading", "None", "BrokerRejected"}

ReplyInv ==
    kind # "raw" =>
        /\ CommandMeant
        /\ session # "none" => Accepted /\ (SingleLine => OneRequest)
        /\ ReceivedAsSent
        /\ client \in Listening => session # "none" /\ (NoAnswer \/ Answered)
        /\ client = "None" => response # <<>> /\ ~ IsError(response)
        /\ client = "BrokerRejected" => response # <<>> /\ IsError(response)
        /\ client \in {"InvalidRequest", "Usage", "ConnectionFailed"} => session = "none"

\* A client of this kind that sends one line has at most one handled; then all
\* of the wire has been taken.
LEMMA OnceHandled ==
    ASSUME FrameInv, session # "none", handled # <<>>, OneRequest
    PROVE  /\ client # "WriteFailed" /\ Len(handled) = 1
           /\ input = <<>> /\ toServer = <<>>
           /\ LineOf(wire, 1) = wire
<1>1. /\ InStep /\ {wire, input, toServer} \subseteq Seq(Cells) /\ handled \in Seq(Seq(Cells))
      /\ Newlines(wire) \subseteq {Len(wire)} /\ Newlines(wire) \subseteq 1 .. Len(wire)
  BY NewlinesFinite DEF FrameInv, FrameTypeOK, OneRequest
<1>2. LinesBy(wire, 0) = 0
  BY <1>1, LinesByNone
<1>3. LinesBy(wire, Position) # 0 /\ LinesBy(wire, Position) = Len(handled)
  <2>1. Len(handled) # 0
    BY <1>1, EmptySeq
  <2> QED BY <1>1, <2>1 DEF InStep
<1>4. Position \in Newlines(wire) /\ Position = Len(wire)
  BY <1>1, <1>2, <1>3 DEF InStep
<1>5. client # "WriteFailed" /\ Newlines(wire) = {Len(wire)}
  BY <1>4 DEF OneRequest
<1>6. LineCount(wire) = 1
  BY <1>5, FS_Singleton DEF LineCount
<1>7. LinesBy(wire, Position) = LineCount(wire)
  <2>1. \A j \in Newlines(wire) : j <= Position
    BY <1>1, <1>4, <1>5
  <2> QED BY <1>1, <2>1, LinesByAll
<1>8. Len(handled) = 1
  BY <1>3, <1>6, <1>7
<1>9. input = <<>> /\ toServer = <<>>
  <2>1. Len(input) \in Nat /\ Len(toServer) \in Nat /\ Len(wire) \in Nat
    BY <1>1
  <2>2. Len(input) = 0 /\ Len(toServer) = 0
    BY <1>4, <2>1 DEF Position
  <2> QED BY <1>1, <2>2, EmptySeq
<1>10. LineOf(wire, 1) = wire
  <2>1. LineEnd(wire, 1) = Len(wire)
    <3>1. LineEnd(wire, LinesBy(wire, Position)) = Position
      BY <1>1, <1>4, LineEndIs DEF InStep
    <3> QED BY <1>4, <1>6, <1>7, <3>1
  <2>2. LineEnd(wire, 1 - 1) = 0
    BY DEF LineEnd
  <2>3. LineOf(wire, 1) = SubSeq(wire, 1, Len(wire))
    BY <2>1, <2>2 DEF LineOf
  <2>4. SubSeq(wire, 1, Len(wire)) = wire
    BY <1>1, SubSeqFull
  <2> QED BY <2>3, <2>4
<1> QED BY <1>5, <1>8, <1>9, <1>10

\* A line without its carriage return.
LEMMA StripCRText ==
    ASSUME NEW S, NEW s \in Seq(S)
    PROVE  /\ StripCR(s) \in Seq(S) /\ Len(StripCR(s)) <= Len(s)
           /\ \A i \in 1 .. Len(StripCR(s)) : StripCR(s)[i] = s[i]
           /\ s # <<>> /\ s[Len(s)] # CarriageReturn => StripCR(s) = s
<1>1. Len(s) \in Nat
  OBVIOUS
<1>2. CASE s # <<>> /\ Last(s) = CarriageReturn
  <2>1. /\ Front(s) \in Seq(S) /\ Len(Front(s)) = Len(s) - 1
        /\ \A i \in 1 .. Len(s) - 1 : Front(s)[i] = s[i]
    BY <1>2, FrontType
  <2>2. StripCR(s) = Front(s)
    BY <1>2 DEF StripCR
  <2> QED BY <1>1, <1>2, <2>1, <2>2 DEF Last
<1>3. CASE ~ (s # <<>> /\ Last(s) = CarriageReturn)
  <2>1. StripCR(s) = s
    BY <1>3 DEF StripCR
  <2> QED BY <1>1, <2>1
<1> QED BY <1>2, <1>3

\* The tokens of a line.
LEMMA TokenizeText ==
    ASSUME NEW S, NEW s \in Seq(S)
    PROVE  /\ tokenize(s) \in Seq(S)
           /\ tokenize(s) # <<>> => /\ s # <<>> /\ FirstToken(s) \in 1 .. Len(s)
                                    /\ tokenize(s)[1] = s[FirstToken(s)]
           /\ \A i \in FirstToken(s) + 1 .. Len(s) : s[i] # Blank => Len(tokenize(s)) # 1
           /\ s # <<>> /\ s[1] # Blank /\ s[Len(s)] # Blank => tokenize(s) = s
<1> DEFINE f == FirstToken(s)
           l == LastToken(s)
<1>1. /\ Len(s) \in Nat /\ (s # <<>> => Len(s) # 0) /\ (s = <<>> => Len(s) = 0)
  BY EmptySeq
<1>2. f \in {1, 2} /\ l \in Int /\ l <= Len(s) /\ Len(s) - 1 <= l
      /\ (l # Len(s) => s[Len(s)] = Blank)
  BY <1>1 DEF FirstToken, LastToken
<1>3. tokenize(s) = SubSeq(s, f, l)
  BY DEF tokenize
<1> HIDE DEF f, l
<1>4. \A i \in f .. l : s[i] \in S
  <2>1. \A i \in f .. l : i \in 1 .. Len(s)
    BY <1>1, <1>2
  <2> QED BY <2>1, ElementOfSeq
<1>5. /\ SubSeq(s, f, l) \in Seq(S)
      /\ Len(SubSeq(s, f, l)) = IF f <= l THEN l - f + 1 ELSE 0
      /\ \A i \in 1 .. l - f + 1 : SubSeq(s, f, l)[i] = s[f + i - 1]
  BY <1>2, <1>4, SubSeqProperties
<1>6. ASSUME tokenize(s) # <<>>
      PROVE  s # <<>> /\ f \in 1 .. Len(s) /\ tokenize(s)[1] = s[f]
  <2>1. Len(SubSeq(s, f, l)) # 0
    BY <1>3, <1>5, <1>6, EmptySeq
  <2>2. f <= l
    BY <1>5, <2>1
  <2>3. 1 \in 1 .. l - f + 1 /\ f + 1 - 1 = f /\ f \in 1 .. Len(s) /\ s # <<>>
    BY <1>1, <1>2, <2>2
  <2> QED BY <1>3, <1>5, <2>3
<1>7. ASSUME NEW i \in f + 1 .. Len(s), s[i] # Blank PROVE Len(tokenize(s)) # 1
  <2>1. i <= l
    BY <1>1, <1>2, <1>7
  <2>2. f <= l /\ l - f + 1 # 1
    BY <1>1, <1>2, <2>1
  <2> QED BY <1>3, <1>5, <2>2
<1>8. ASSUME s # <<>>, s[1] # Blank, s[Len(s)] # Blank PROVE tokenize(s) = s
  <2>1. f = 1 /\ l = Len(s)
    BY <1>8 DEF f, l, FirstToken, LastToken
  <2> QED BY <1>3, <2>1, SubSeqFull
<1> QED BY <1>3, <1>5, <1>6, <1>7, <1>8 DEF f

\* The library sends one line.
LEMMA LibrarySingle ==
    ASSUME CommandOK, kind = "library"
    PROVE  SingleLine
<1>1. command \in Seq(Cells)
  BY DEF CommandOK
<1> SUFFICES ASSUME NEW i \in 1 .. Len(command) PROVE command[i].kind # "broken"
  BY <1>1 DEF SingleLine, BrokenAt
<1>2. command[i] \in Cells
  BY <1>1, ElementOfSeq
<1> QED BY <1>2, CellsTold DEF Cells

\* The only line of a client that sends one is its command.
LEMMA LineIsCommand ==
    ASSUME FrameInv, ReplyInv, kind # "raw", SingleLine, handled # <<>>
    PROVE  /\ Len(handled) = 1 /\ handled[1] = StripCR(command)
           /\ command \in Seq(Cells) /\ CommandOK
<1>1. session # "none" /\ wire \in Seq(Cells)
  BY DEF FrameInv, FrameTypeOK
<1>2. OneRequest /\ CommandMeant
  BY <1>1 DEF ReplyInv
<1>3. client # "WriteFailed" /\ Len(handled) = 1 /\ LineOf(wire, 1) = wire
  BY <1>1, <1>2, OnceHandled
<1>4. /\ CommandOK /\ wire = Spelled(command) \o <<Newline>>
  BY <1>2, <1>3 DEF CommandMeant
<1>5. command \in Seq(Cells) /\ Spelled(command) = command
  <2>1. Spelled(command) \in Seq(Cells) /\ (BrokenAt(command) = {} => Spelled(command) = command)
    BY <1>4, SpelledText DEF CommandOK
  <2> QED BY <2>1 DEF SingleLine
<1>6. Front(wire) = command
  <2>1. Newline \in Cells
    BY DEF Cells
  <2> QED BY <1>4, <1>5, <2>1, CommandEnds
<1>7. handled[1] = StripLine(wire)
  BY <1>3 DEF FrameInv, HandledAsSent
<1> QED BY <1>3, <1>4, <1>5, <1>6, <1>7 DEF StripLine

-----------------------------------------------------------------------------
(***************************************************************************)
(* Answers.                                                                *)
(***************************************************************************)

LEMMA WordsTold ==
    ASSUME NEW x
    PROVE  /\ Word(x) # Newline
           /\ \A y : Word(x) = Word(y) <=> x = y
BY DEF Word, Newline

LEMMA OneLineText ==
    ASSUME NEW code
    PROVE  /\ OneLine(code) \in Seq({Word(code), Newline})
           /\ Len(OneLine(code)) = 2 /\ OneLine(code) # <<>>
           /\ OneLine(code)[1] = Word(code) /\ OneLine(code)[2] = Newline
           /\ IsError(OneLine(code)) <=> code # "OK"
<1>1. /\ OneLine(code) \in Seq({Word(code), Newline})
      /\ Len(OneLine(code)) = 2 /\ OneLine(code) # <<>>
      /\ OneLine(code)[1] = Word(code) /\ OneLine(code)[2] = Newline
  BY DEF OneLine
<1> QED BY <1>1, WordsTold DEF IsError

\* A listing begins with OK, and no line but the last one is END unless a row
\* is.
LEMMA ListingText ==
    ASSUME NEW T, NEW rows \in Seq(T)
    PROVE  LET t == Listing(rows) IN
           /\ \E S : t \in Seq(S)
           /\ Len(t) \in Nat /\ Len(t) >= 4 /\ t # <<>>
           /\ t[1] = Word("OK") /\ t[2] = Newline
           /\ "END" \notin T => \A m \in 2 .. Len(t) : t[m - 1] = Word("END") => m = Len(t)
<1> DEFINE n == Len(rows)
           S == {Newline, Word("OK"), Word("END")} \cup {Word(x) : x \in T}
           cell(i) == IF i % 2 = 0 THEN Newline ELSE Word(rows[(i + 1) \div 2])
           body == [i \in 1 .. 2 * n |-> cell(i)]
           t == Listing(rows)
<1>1. n \in Nat
  OBVIOUS
<1>2. \A i \in 1 .. 2 * n : i % 2 # 0 => (i + 1) \div 2 \in 1 .. n
  BY <1>1
<1>3. \A i \in 1 .. 2 * n : cell(i) \in {Newline} \cup {Word(x) : x \in T}
  <2> SUFFICES ASSUME NEW i \in 1 .. 2 * n PROVE cell(i) \in {Newline} \cup {Word(x) : x \in T}
    OBVIOUS
  <2>1. CASE i % 2 = 0
    BY <2>1
  <2>2. CASE i % 2 # 0
    <3>1. rows[(i + 1) \div 2] \in T
      BY <1>2, <2>2, ElementOfSeq
    <3> QED BY <2>2, <3>1
  <2> QED BY <2>1, <2>2
<1> HIDE DEF cell
<1>4. /\ body \in Seq(S) /\ Len(body) = 2 * n
      /\ \A i \in 1 .. 2 * n : body[i] \in {Newline} \cup {Word(x) : x \in T}
  <2>1. \A i \in 1 .. 2 * n : cell(i) \in S
    BY <1>3
  <2> HIDE DEF S
  <2> QED BY <1>1, <1>3, <2>1
<1>5. /\ OneLine("OK") \in Seq(S) /\ Len(OneLine("OK")) = 2 /\ OneLine("OK")[1] = Word("OK")
      /\ OneLine("OK")[2] = Newline
      /\ OneLine("END") \in Seq(S) /\ Len(OneLine("END")) = 2 /\ OneLine("END")[1] = Word("END")
  BY DEF OneLine
<1>6. t = OneLine("OK") \o body \o OneLine("END")
  BY DEF Listing, cell
<1> HIDE DEF S, body
<1> DEFINE a == OneLine("OK")
           z == OneLine("END")
           u == a \o body
<1>7. /\ u \in Seq(S) /\ Len(u) = Len(a) + Len(body)
      /\ \A i \in 1 .. Len(a) + Len(body) : u[i] = IF i <= Len(a) THEN a[i] ELSE body[i - Len(a)]
  BY <1>4, <1>5, ConcatProperties, Zenon
<1>8. /\ t \in Seq(S) /\ Len(t) = 4 + 2 * n
      /\ \A i \in 1 .. 2 + 2 * n : t[i] = u[i]
  <2>1. t = u \o z
    BY <1>6
  <2> HIDE DEF a, z, u, t
  <2>2. /\ u \o z \in Seq(S) /\ Len(u \o z) = Len(u) + Len(z)
        /\ \A i \in 1 .. Len(u) + Len(z) : (u \o z)[i] = IF i <= Len(u) THEN u[i] ELSE z[i - Len(u)]
    <3>1. u \in Seq(S) /\ z \in Seq(S)
      BY <1>5, <1>7 DEF z
    <3> QED BY <3>1, ConcatProperties, Zenon
  <2>3. Len(u) = 2 + 2 * n /\ Len(z) = 2
    BY <1>1, <1>4, <1>5, <1>7 DEF a, z
  <2> QED BY <1>1, <2>1, <2>2, <2>3
<1>9. t[1] = Word("OK") /\ t[2] = Newline /\ \A i \in 3 .. 2 + 2 * n : t[i] = body[i - 2]
  <2>1. Len(a) = 2 /\ a[1] = Word("OK") /\ a[2] = Newline /\ Len(body) = 2 * n
    BY <1>4, <1>5
  <2> HIDE DEF a, u, t, body
  <2>2. u[1] = a[1] /\ u[2] = a[2] /\ t[1] = u[1] /\ t[2] = u[2]
    BY <1>1, <1>7, <1>8, <2>1
  <2>3. ASSUME NEW i \in 3 .. 2 + 2 * n PROVE t[i] = body[i - 2]
    <3>1. i \in 1 .. 2 + 2 * n /\ i \in 1 .. Len(a) + Len(body) /\ ~ (i <= Len(a))
      BY <1>1, <2>1
    <3>2. u[i] = body[i - Len(a)] /\ t[i] = u[i]
      BY <1>7, <1>8, <3>1
    <3> QED BY <2>1, <3>2
  <2> QED BY <2>1, <2>2, <2>3
<1>10. ASSUME "END" \notin T, NEW m \in 2 .. Len(t), t[m - 1] = Word("END") PROVE m = Len(t)
  <2> HIDE DEF t
  <2>1. t[1] # Word("END") /\ t[2] # Word("END")
    BY <1>9, WordsTold
  <2>2. \A i \in 3 .. 2 + 2 * n : t[i] # Word("END")
    <3> SUFFICES ASSUME NEW i \in 3 .. 2 + 2 * n PROVE t[i] # Word("END")
      OBVIOUS
    <3>1. i - 2 \in 1 .. 2 * n
      BY <1>1
    <3>2. t[i] \in {Newline} \cup {Word(x) : x \in T}
      BY <1>4, <1>9, <3>1
    <3> QED BY <1>10, <3>2, WordsTold
  <2>3. m - 1 \notin 1 .. 2 + 2 * n
    <3> SUFFICES ASSUME m - 1 \in 1 .. 2 + 2 * n PROVE FALSE
      OBVIOUS
    <3>1. m - 1 = 1 \/ m - 1 = 2 \/ m - 1 \in 3 .. 2 + 2 * n
      BY <1>1
    <3> QED BY <1>10, <2>1, <2>2, <3>1
  <2>4. m \in 2 .. 4 + 2 * n
    BY <1>8
  <2>5. \A k \in Nat : m - 1 \notin 1 .. 2 + k /\ m \in 2 .. 4 + k => m = 4 + k
    BY <2>4
  <2>6. 2 * n \in Nat
    BY <1>1
  <2>7. m = 4 + 2 * n
    BY <2>3, <2>4, <2>5, <2>6
  <2> QED BY <1>8, <2>7
<1>11. t # <<>> /\ Len(t) \in Nat /\ Len(t) >= 4
  <2> HIDE DEF t
  <2>1. Len(t) \in Nat /\ Len(t) >= 4
    BY <1>1, <1>8
  <2> QED BY <1>8, <2>1
<1> QED BY <1>8, <1>9, <1>10, <1>11

\* What a query answers is a listing, and no row of it is END.
LEMMA ListingsAreListings ==
    ASSUME NEW verb \in Queries, NEW t \in Listings(verb)
    PROVE  \E T : \E rows \in Seq(T) : t = Listing(rows) /\ "END" \notin T
<1> DEFINE Goal == \E T : \E rows \in Seq(T) : t = Listing(rows) /\ "END" \notin T
<1> SUFFICES Goal
  OBVIOUS
<1>1. ASSUME NEW T, NEW rows \in Seq(T), t = Listing(rows), "END" \notin T
      PROVE  Goal
  BY <1>1
<1>2. ASSUME NEW n \in Nat, NEW x \in {"bytes", "healthy", "last_loaded", "counter"},
             t = Listing([i \in 1 .. n |-> x])
      PROVE  Goal
  <2>1. [i \in 1 .. n |-> x] \in Seq({x})
    OBVIOUS
  <2>2. "END" \notin {x}
    OBVIOUS
  <2> QED BY <1>2, <2>1, <2>2
<1> HIDE DEF Goal
<1>3. CASE verb = "status"
  <2>1. PICK n \in 0 .. MaxRows : t = Listing([i \in 1 .. n |-> "bytes"])
    BY <1>3 DEF Listings, format_status
  <2>2. n \in Nat
    BY ExchangeAssumption
  <2> QED BY <1>2, <2>1, <2>2
<1>4. CASE verb = "nodes"
  <2>1. PICK n \in 0 .. MaxRows : t = Listing([i \in 1 .. n |-> "healthy"])
    BY <1>4 DEF Listings, format_nodes
  <2>2. n \in Nat
    BY ExchangeAssumption
  <2> QED BY <1>2, <2>1, <2>2
<1>5. CASE verb = "models"
  <2>1. PICK rows \in BoundedSeq(RowEnds, MaxRows) : t = Listing(rows)
    BY <1>5 DEF Listings, format_models
  <2>2. PICK m \in 0 .. MaxRows : rows \in [1 .. m -> RowEnds]
    BY <2>1 DEF BoundedSeq, SeqOf
  <2>3. rows \in Seq(RowEnds)
    BY <2>2, ExchangeAssumption
  <2>4. "END" \notin RowEnds
    BY ExchangeAssumption
  <2> QED BY <1>1, <2>1, <2>3, <2>4
<1>6. CASE verb = "residency"
  <2>1. PICK r \in BoundedSeq(BOOLEAN, MaxRows) : t = format_residency(r)
    BY <1>6 DEF Listings
  <2> DEFINE listed == {i \in DOMAIN r : r[i]}
  <2>2. t = Listing([i \in 1 .. Cardinality(listed) |-> "last_loaded"])
    BY <2>1 DEF format_residency
  <2>3. PICK m \in 0 .. MaxRows : r \in [1 .. m -> BOOLEAN]
    BY <2>1 DEF BoundedSeq, SeqOf
  <2>4. listed \in SUBSET (1 .. m) /\ IsFiniteSet(1 .. m)
    BY <2>3, FS_Interval
  <2>5. Cardinality(listed) \in Nat
    <3> HIDE DEF listed
    <3> QED BY <2>4, FS_Subset, FS_CardinalityType
  <2> HIDE DEF listed
  <2> QED BY <1>2, <2>2, <2>5
<1>7. CASE verb = "metrics"
  <2>1. t = Listing([i \in 1 .. 9 |-> "counter"])
    BY <1>7 DEF Listings, format_metrics
  <2> QED BY <1>2, <2>1, ExchangeAssumption
<1> QED BY <1>3, <1>4, <1>5, <1>6, <1>7 DEF Queries

\* Every error that a line can end with has a code of its own, and none is OK.
LEMMA ParseCodes ==
    ASSUME NEW e \in ParseErrors, NEW g \in ParseErrors
    PROVE  /\ format_parse_error(e) \in {"invalid_request", "invalid_size", "invalid_name",
                                         "invalid_model_id", "invalid_metadata", "invalid_path"}
           /\ format_parse_error(e) = format_parse_error(g) => e = g
BY DEF ParseErrors, format_parse_error

ManagerCodes == {"unknown_client", "duplicate_client", "insufficient_memory", "timeout"}
ModelCodes == {"duplicate_model", "unknown_model", "model_in_use", "refcount_underflow",
               "unknown_residency", "insufficient_memory", "file_unavailable", "source_changed",
               "read_failure", "backend_failure", "unsupported"}
NodeCodes == {"invalid_endpoint", "duplicate_node", "unknown_node"}
OperationCodes == ManagerCodes \cup ModelCodes \cup NodeCodes
                  \cup {"metrics_unavailable", "nodes_unavailable"}

LEMMA OperationCodesTold ==
    ASSUME NEW verb \in Verbs, NEW e \in OperationErrors(verb), NEW g \in OperationErrors(verb)
    PROVE  /\ AnswerCode(verb, e) \in OperationCodes
           /\ AnswerCode(verb, e) = AnswerCode(verb, g) => e = g
           /\ e \notin ParseErrors /\ e # "None"
<1>1. CASE verb \in ClientVerbs
  <2>1. {e, g} \subseteq {"UnknownClient", "DuplicateClient", "InsufficientMemory", "Timeout"}
    BY <1>1 DEF OperationErrors, ManagerErrors, ClientVerbs, ModelVerbs, NodeVerbs
  <2>2. /\ AnswerCode(verb, e) = format_operation_result(e)
        /\ AnswerCode(verb, g) = format_operation_result(g)
    BY <1>1, <2>1 DEF AnswerCode
  <2>3. /\ format_operation_result(e) \in ManagerCodes
        /\ format_operation_result(e) = format_operation_result(g) => e = g
    BY <2>1 DEF format_operation_result, ManagerCodes
  <2>4. e \notin ParseErrors /\ e # "None"
    BY <2>1 DEF ParseErrors
  <2> QED BY <2>2, <2>3, <2>4 DEF OperationCodes
<1>2. CASE verb \in ModelVerbs
  <2>1. {e, g} \subseteq {"DuplicateModel", "UnknownModel", "ModelInUse", "RefcountUnderflow",
                          "UnknownResidency", "InsufficientMemory", "FileUnavailable",
                          "SourceChanged", "ReadFailure", "BackendFailure", "BackendUnsupported"}
    <3>1. {e, g} \subseteq ModelErrors(verb)
      BY <1>2 DEF OperationErrors, ClientVerbs, ModelVerbs, NodeVerbs
    <3> QED BY <1>2, <3>1 DEF ModelErrors, ModelVerbs
  <2>2. verb = "share" => {e, g} \subseteq {"UnknownModel", "UnknownResidency",
                                            "BackendUnsupported", "BackendFailure"}
    BY <1>2 DEF OperationErrors, ModelErrors, ClientVerbs, ModelVerbs, NodeVerbs
  <2>3. verb \notin ClientVerbs /\ verb \notin NodeVerbs /\ e # "Unavailable" /\ g # "Unavailable"
    BY <1>2, <2>1 DEF ClientVerbs, ModelVerbs, NodeVerbs
  <2>4. /\ AnswerCode(verb, e) = format_model_operation_result(e)
        /\ AnswerCode(verb, g) = format_model_operation_result(g)
    BY <2>2, <2>3 DEF AnswerCode, format_share_result
  <2>5. format_model_operation_result(e) \in ModelCodes
    BY <2>1 DEF format_model_operation_result, ModelCodes
  <2>6. format_model_operation_result(e) = format_model_operation_result(g) => e = g
    BY <2>1 DEF format_model_operation_result
  <2>7. e \notin ParseErrors /\ e # "None"
    BY <2>1 DEF ParseErrors
  <2> QED BY <2>4, <2>5, <2>6, <2>7 DEF OperationCodes
<1>3. CASE verb \in NodeVerbs
  <2>1. {e, g} \subseteq {"InvalidEndpoint", "DuplicateNode", "UnknownNode", "Unavailable"}
    BY <1>3 DEF OperationErrors, NodeErrors, ClientVerbs, ModelVerbs, NodeVerbs
  <2>2. verb \notin ClientVerbs /\ verb # "metrics"
    BY <1>3 DEF ClientVerbs, NodeVerbs
  <2>3. \A x \in {e, g} :
           AnswerCode(verb, x) = IF x = "Unavailable" THEN "nodes_unavailable"
                                 ELSE format_node_operation_result(x)
    BY <1>3, <2>2 DEF AnswerCode
  <2>4. \A x \in {e, g} : x # "Unavailable" => format_node_operation_result(x) \in NodeCodes
    BY <2>1 DEF format_node_operation_result, NodeCodes
  <2>5. (/\ e # "Unavailable" /\ g # "Unavailable"
         /\ format_node_operation_result(e) = format_node_operation_result(g)) => e = g
    BY <2>1 DEF format_node_operation_result
  <2>6. AnswerCode(verb, e) = AnswerCode(verb, g) => e = g
    BY <2>3, <2>4, <2>5 DEF NodeCodes
  <2>7. e \notin ParseErrors /\ e # "None"
    BY <2>1 DEF ParseErrors
  <2> QED BY <2>3, <2>4, <2>6, <2>7 DEF OperationCodes
<1>4. CASE verb \in Queries
  <2>1. e = "Unavailable" /\ g = "Unavailable"
    BY <1>4 DEF OperationErrors, ClientVerbs, ModelVerbs, NodeVerbs, Queries
  <2> QED BY <2>1 DEF AnswerCode, ParseErrors, OperationCodes
<1> QED BY <1>1, <1>2, <1>3, <1>4 DEF Verbs

LEMMA ErrorCodesTold ==
    ASSUME NEW line, NEW e \in LineErrors(line)
    PROVE  /\ ErrorCode(line, e) # "OK" /\ e # "None"
           /\ \A g \in LineErrors(line) : ErrorCode(line, e) = ErrorCode(line, g) => e = g
<1> DEFINE verb == tokenize(line)[1].text
           ops == IF HasVerb(tokenize(line)) THEN OperationErrors(verb) ELSE {}
<1>1. LineErrors(line) = ParseErrors \cup ops
  BY DEF LineErrors
<1>2. ASSUME NEW x \in ops
      PROVE  /\ verb \in Verbs /\ x \in OperationErrors(verb)
             /\ x \notin ParseErrors /\ x # "None"
             /\ ErrorCode(line, x) = AnswerCode(verb, x)
             /\ AnswerCode(verb, x) \in OperationCodes
  <2>1. verb \in Verbs /\ x \in OperationErrors(verb)
    BY <1>2 DEF HasVerb
  <2> HIDE DEF verb
  <2>2. AnswerCode(verb, x) \in OperationCodes /\ x \notin ParseErrors /\ x # "None"
    BY <2>1, OperationCodesTold
  <2> QED BY <2>1, <2>2 DEF ErrorCode, verb
<1>3. ASSUME NEW x \in ParseErrors
      PROVE  /\ ErrorCode(line, x) = format_parse_error(x) /\ x # "None"
             /\ ErrorCode(line, x) \notin OperationCodes
             /\ ErrorCode(line, x) # "OK"
  <2>1. ErrorCode(line, x) = format_parse_error(x)
    BY DEF ErrorCode
  <2>2. format_parse_error(x) \in {"invalid_request", "invalid_size", "invalid_name",
                                   "invalid_model_id", "invalid_metadata", "invalid_path"}
    BY ParseCodes
  <2>3. /\ format_parse_error(x) \notin OperationCodes
        /\ format_parse_error(x) # "OK"
    BY <2>2 DEF OperationCodes, ManagerCodes, ModelCodes, NodeCodes
  <2> QED BY <2>1, <2>3 DEF ParseErrors
<1>4. "OK" \notin OperationCodes
  BY DEF OperationCodes, ManagerCodes, ModelCodes, NodeCodes
<1> HIDE DEF verb, ops
<1>5. ErrorCode(line, e) # "OK" /\ e # "None"
  BY <1>1, <1>2, <1>3, <1>4
<1>6. ASSUME NEW g \in LineErrors(line), ErrorCode(line, e) = ErrorCode(line, g) PROVE e = g
  <2>1. CASE e \in ParseErrors /\ g \in ParseErrors
    BY <1>3, <1>6, <2>1, ParseCodes
  <2>2. CASE e \in ops /\ g \in ops
    BY <1>2, <1>6, <2>2, OperationCodesTold
  <2>3. CASE e \in ParseErrors /\ g \in ops
    BY <1>2, <1>3, <1>6, <2>3
  <2>4. CASE e \in ops /\ g \in ParseErrors
    BY <1>2, <1>3, <1>6, <2>4
  <2> QED BY <1>1, <2>1, <2>2, <2>3, <2>4
<1> QED BY <1>5, <1>6

\* What a session sends for a line.
Reply(t, line, error) ==
    /\ \E S : t \in Seq(S)
    /\ t # <<>>
    /\ Tells(t, line, error)
    /\ \/ \E code : t = OneLine(code)
       \/ /\ HasVerb(tokenize(line)) /\ tokenize(line)[1].text \in Queries
          /\ parse_error(tokenize(line)) = "None"
          /\ t \in Listings(tokenize(line)[1].text)

LEMMA LineReplies ==
    ASSUME NEW line,
           \/ parse_error(tokenize(line)) = "None" /\ dispatch(tokenize(line)[1].text)
           \/ /\ parse_error(tokenize(line)) # "None"
              /\ outcomes' = Append(outcomes, parse_error(tokenize(line)))
              /\ Send(OneLine(format_parse_error(parse_error(tokenize(line)))))
    PROVE  \E t, error : /\ Send(t) /\ outcomes' = Append(outcomes, error)
                         /\ Reply(t, line, error)
<1> DEFINE tokens == tokenize(line)
           verb == tokens[1].text
<1>1. ASSUME NEW error \in LineErrors(line), NEW t, t = OneLine(ErrorCode(line, error))
      PROVE  Reply(t, line, error)
  <2>1. error # "None"
    BY ErrorCodesTold
  <2>2. t # <<>> /\ \E S : t \in Seq(S)
    BY <1>1, OneLineText
  <2> QED BY <1>1, <2>1, <2>2 DEF Reply, Tells
<1>2. CASE parse_error(tokens) # "None"
  <2>1. parse_error(tokens) \in ParseErrors
    BY <1>2 DEF parse_error, field_error, ParseErrors
  <2>2. parse_error(tokens) \in LineErrors(line)
    BY <2>1 DEF LineErrors
  <2>3. ErrorCode(line, parse_error(tokens)) = format_parse_error(parse_error(tokens))
    BY <2>1 DEF ErrorCode
  <2> QED BY <1>1, <1>2, <2>2, <2>3
<1>3. CASE parse_error(tokens) = "None"
  <2>1. HasVerb(tokens) /\ verb \in Verbs /\ dispatch(verb)
    BY <1>3 DEF parse_error, HasVerb
  <2>2. CASE \E error \in OperationErrors(verb) :
                /\ outcomes' = Append(outcomes, error)
                /\ Send(OneLine(AnswerCode(verb, error)))
    <3>1. PICK error \in OperationErrors(verb) :
                /\ outcomes' = Append(outcomes, error)
                /\ Send(OneLine(AnswerCode(verb, error)))
      BY <2>2
    <3>2. error \notin ParseErrors
      <4> HIDE DEF verb
      <4> QED BY <2>1, OperationCodesTold
    <3>3. error \in LineErrors(line) /\ ErrorCode(line, error) = AnswerCode(verb, error)
      BY <2>1, <3>2 DEF LineErrors, ErrorCode
    <3> QED BY <1>1, <3>1, <3>3
  <2>3. CASE /\ verb \notin Queries /\ outcomes' = Append(outcomes, "None")
             /\ Send(OneLine(AnswerCode(verb, "None")))
    <3> DEFINE t == OneLine(AnswerCode(verb, "None"))
    <3>1. AnswerCode(verb, "None") = "OK"
      BY DEF AnswerCode, format_operation_result, format_node_operation_result,
             format_share_result, format_model_operation_result
    <3>2. t # <<>> /\ (\E S : t \in Seq(S)) /\ t[1] = Word("OK")
      BY <3>1, OneLineText
    <3>3. Reply(t, line, "None")
      BY <3>2 DEF Reply, Tells
    <3> QED BY <2>3, <3>3
  <2>4. CASE /\ verb \in Queries /\ outcomes' = Append(outcomes, "None")
             /\ \E t \in Listings(verb) : Send(t)
    <3>1. PICK t \in Listings(verb) : Send(t)
      BY <2>4
    <3>2. PICK T : \E rows \in Seq(T) : t = Listing(rows)
      BY <2>4, ListingsAreListings
    <3>3. (\E S : t \in Seq(S)) /\ t # <<>> /\ t[1] = Word("OK")
      BY <3>2, ListingText
    <3>4. Reply(t, line, "None")
      BY <1>3, <2>1, <2>4, <3>3 DEF Reply, Tells
    <3> QED BY <2>4, <3>1, <3>4
  <2> QED BY <2>1, <2>2, <2>3, <2>4 DEF dispatch
<1> QED BY <1>2, <1>3

-----------------------------------------------------------------------------
(***************************************************************************)
(* The client reads the answer to its first line.                          *)
(***************************************************************************)

LEMMA ReplyInit == Init => ReplyInv
<1> SUFFICES ASSUME Init, kind # "raw" PROVE ReplyInv
  BY DEF ReplyInv
<1>1. /\ client = "start" /\ session = "none" /\ handled = <<>> /\ received = NoCall
      /\ outcomes = <<>>
  BY DEF Init
<1>2. CommandMeant
  BY <1>1, InitCommand DEF CommandMeant
<1>3. ReceivedAsSent
  <2>1. outcomes \in Seq({})
    BY <1>1, EmptySeq
  <2> QED BY <1>1, <2>1 DEF ReceivedAsSent
<1> QED BY <1>1, <1>2, <1>3 DEF ReplyInv, Listening

LEMMA AskedKept ==
    ASSUME UNCHANGED <<kind, call, command, wire>>,
           client' = client \/ "WriteFailed" \notin {client, client'}
    PROVE  /\ CommandMeant' <=> CommandMeant
           /\ Accepted' <=> Accepted
           /\ OneRequest' <=> OneRequest
           /\ SingleLine' <=> SingleLine
<1>1. CommandOK' <=> CommandOK
  BY DEF CommandOK
<1> QED BY <1>1 DEF CommandMeant, Accepted, OneRequest, SingleLine

\* A command that is accepted and not broken has no line break.
LEMMA NoBreakInside ==
    ASSUME CommandOK, Accepted, SingleLine
    PROVE  \A i \in 1 .. Len(command) : command[i] # Newline
<1>1. CASE kind = "library"
  BY <1>1 DEF Accepted, CommandOK
<1>2. CASE kind = "ctl"
  <2> SUFFICES ASSUME NEW i \in 1 .. Len(command) PROVE command[i] # Newline
    OBVIOUS
  <2>1. command \in Seq((Cells \ {Newline}) \cup BrokenTokens)
    BY <1>2 DEF CommandOK
  <2>2. command[i] \in (Cells \ {Newline}) \cup BrokenTokens
    BY <2>1, ElementOfSeq
  <2> QED BY <2>2, CellsTold
<1> QED BY <1>1, <1>2 DEF CommandOK

\* The client sends its command if it does not refuse it.
LEMMA ReplyConnect == FrameInv /\ ReplyInv /\ Connect => ReplyInv'
<1> SUFFICES ASSUME FrameInv, ReplyInv, Connect, kind # "raw" PROVE ReplyInv'
  BY DEF Connect, ReplyInv
<1>1. /\ session = "none" /\ client = "start" /\ handled = <<>> /\ response = <<>>
      /\ toClient = <<>> /\ answers = <<>> /\ wire \in Seq(Cells)
      /\ UNCHANGED <<kind, call, command, response, toClient, handled, received, outcomes, answers>>
      /\ CommandMeant /\ ReceivedAsSent
  BY DEF FrameInv, FrameTypeOK, Connect, ReplyInv, parser
<1>2. ReceivedAsSent'
  BY <1>1 DEF ReceivedAsSent
<1>3. CommandOK /\ CommandOK' /\ wire = Spelled(command) \o <<Newline>>
  BY <1>1 DEF CommandMeant, CommandOK
<1>4. CASE session' = session
  <2>1. wire' = wire /\ client' \in {"Usage", "InvalidRequest", "ConnectionFailed"}
    BY <1>1, <1>4 DEF Connect, Finish
  <2>2. CommandMeant'
    BY <1>1, <1>3, <2>1 DEF CommandMeant
  <2> QED BY <1>1, <1>2, <1>4, <2>1, <2>2 DEF ReplyInv, Listening
<1>5. CASE session' # session
  <2>1. ~ RefusedEarly /\ session' = "reading"
    BY <1>5 DEF Connect
  <2>2. Accepted
    <3>1. CASE kind = "library"
      <4>1. command # <<>> /\ ~ Contains(command, Newline) /\ command \in Seq(Cells)
        BY <1>3, <2>1, <3>1 DEF RefusedEarly, CommandOK
      <4> QED BY <3>1, <4>1 DEF Accepted, Contains
    <3>2. CASE kind = "ctl"
      BY <2>1, <3>2 DEF RefusedEarly, Accepted
    <3> QED BY <1>3, <3>1, <3>2 DEF CommandOK
  <2>3. Accepted'
    BY <1>1, <2>2 DEF Accepted
  <2> DEFINE s == Spelled(command)
  <2>4. s \in Seq(Cells) /\ (SingleLine => s = command)
    BY <1>3, SpelledText DEF CommandOK, SingleLine
  <2>5. /\ Len(s) \in Nat /\ Len(wire) = Len(s) + 1 /\ wire[Len(wire)] = Newline
        /\ \A i \in 1 .. Len(s) : wire[i] = s[i]
    <3> HIDE DEF s
    <3>1. Newline \in Cells /\ wire = s \o <<Newline>>
      BY <1>3 DEF Cells, s
    <3> QED BY <2>4, <3>1
  <2>6. SingleLine => \A i \in 1 .. Len(s) : s[i] # Newline
    BY <1>3, <2>2, <2>4, NoBreakInside
  <2>7. CASE wire' = wire /\ client' = "reading"
    <3>1. SingleLine => Newlines(wire) = {Len(wire)}
      <4> HIDE DEF s
      <4> SUFFICES ASSUME SingleLine PROVE Newlines(wire) = {Len(wire)}
        OBVIOUS
      <4>1. \A i \in 1 .. Len(wire) : wire[i] = Newline <=> i = Len(wire)
        BY <2>5, <2>6
      <4> QED BY <1>1, <2>5, <4>1 DEF Newlines
    <3>2. SingleLine' => OneRequest'
      BY <1>1, <2>7, <3>1 DEF OneRequest, SingleLine
    <3>3. NoAnswer' /\ CommandMeant'
      BY <1>1, <1>3, <2>1, <2>7 DEF NoAnswer, CommandMeant
    <3> QED BY <1>1, <1>2, <2>1, <2>3, <2>7, <3>2, <3>3 DEF ReplyInv
  <2>8. CASE client' = "WriteFailed" /\ wire' \in Prefixes(Front(wire))
    <3>1. Front(wire) = s
      <4> HIDE DEF s
      <4>1. Newline \in Cells /\ wire = s \o <<Newline>>
        BY <1>3 DEF Cells, s
      <4> QED BY <2>4, <4>1, CommandEnds
    <3>2. wire' \in Prefixes(s)
      BY <2>8, <3>1
    <3>3. CommandMeant'
      <4>1. wire' \in Prefixes(Spelled(command'))
        BY <1>1, <3>2
      <4> QED BY <1>3, <2>8, <4>1 DEF CommandMeant
    <3> HIDE DEF s
    <3>4. PICK l \in 0 .. Len(s) : wire' = SubSeq(s, 1, l)
      BY <3>2 DEF Prefixes
    <3>5. SingleLine => \A i \in DOMAIN wire' : wire'[i] # Newline
      <4>1. Len(wire') = l /\ wire' \in Seq(Cells) /\ \A i \in 1 .. l : wire'[i] = s[i]
        BY <2>4, <3>4
      <4>2. l \in Nat /\ l <= Len(s)
        BY <2>5
      <4>3. SingleLine => \A i \in 1 .. l : s[i] # Newline
        BY <2>6, <4>2
      <4> QED BY <4>1, <4>3
    <3>6. SingleLine' => OneRequest'
      BY <1>1, <2>8, <3>5 DEF OneRequest, Newlines, SingleLine
    <3> QED BY <1>1, <1>2, <2>3, <2>8, <3>3, <3>6 DEF ReplyInv, Listening
  <2> QED BY <1>5, <2>7, <2>8 DEF Connect, Finish
<1> QED BY <1>4, <1>5

\* The client reads on; what it has begins with the first answer.
LEMMA ReplyClientRead == ReplyInv /\ ClientRead => ReplyInv'
<1> SUFFICES ASSUME ReplyInv, ClientRead PROVE ReplyInv'
  OBVIOUS
<1>1. /\ client = "reading" /\ kind # "raw"
      /\ UNCHANGED <<kind, call, command, wire, session, handled, received, outcomes, answers>>
  BY DEF ClientRead, asked, parser
<1>2. PICK n \in 1 .. Len(toClient) :
        /\ response' = response \o SubSeq(toClient, 1, n)
        /\ toClient' = SubSeq(toClient, n + 1, Len(toClient))
  BY DEF ClientRead
<1>3. Answered /\ session # "none" /\ CommandMeant /\ ReceivedAsSent
      /\ Accepted /\ (SingleLine => OneRequest)
  <2>1. toClient # <<>>
    BY <1>2
  <2> QED BY <1>1, <2>1 DEF ReplyInv, NoAnswer, Listening
<1>4. PICK S : answers \in Seq(Seq(S)) /\ {response, toClient} \subseteq Seq(S)
  BY <1>3 DEF Answered
<1>5. /\ response' \in Seq(S) /\ toClient' \in Seq(S)
      /\ Len(response') = Len(response) + n /\ Len(toClient') = Len(toClient) - n
      /\ \A i \in 1 .. Len(response) : response'[i] = response[i]
      /\ \A i \in 1 .. n : response'[Len(response) + i] = toClient[i]
      /\ \A i \in 1 .. Len(toClient) - n : toClient'[i] = toClient[n + i]
  <2>1. response \in Seq(S) /\ toClient \in Seq(S)
    BY <1>4
  <2>2. Moved(S, toClient, response, n, response', toClient')
    BY <1>2, <2>1, MovedCells
  <2> QED BY <2>2 DEF Moved
<1>6. Len(response) \in Nat /\ Len(toClient) \in Nat
  BY <1>4
<1> DEFINE t == answers[1]
<1>7. Len(t) \in Nat
  <2>1. 1 \in 1 .. Len(answers)
    BY <1>3, <1>4, EmptySeq DEF Answered
  <2>2. t \in Seq(S)
    BY <1>4, <2>1, ElementOfSeq
  <2> QED BY <2>2
<1>8. \A i \in 1 .. Len(response') : i <= Len(t) => response'[i] = t[i]
  <2> SUFFICES ASSUME NEW i \in 1 .. Len(response'), i <= Len(t) PROVE response'[i] = t[i]
    OBVIOUS
  <2>1. CASE i <= Len(response)
    BY <1>3, <1>5, <1>6, <2>1 DEF Answered
  <2>2. CASE i > Len(response)
    <3>1. i - Len(response) \in 1 .. n /\ Len(response) + (i - Len(response)) = i
          /\ i - Len(response) \in 1 .. Len(toClient)
      BY <1>5, <1>6, <2>2
    <3>2. response'[Len(response) + (i - Len(response))] = toClient[i - Len(response)]
      BY <1>5, <3>1
    <3>3. toClient[i - Len(response)] = t[Len(response) + (i - Len(response))]
      BY <1>3, <3>1 DEF Answered
    <3> QED BY <3>1, <3>2, <3>3
  <2> QED BY <1>5, <1>6, <2>1, <2>2
<1>9. \A i \in 1 .. Len(toClient') :
         Len(response') + i <= Len(t) => toClient'[i] = t[Len(response') + i]
  <2> SUFFICES ASSUME NEW i \in 1 .. Len(toClient'), Len(response') + i <= Len(t)
               PROVE  toClient'[i] = t[Len(response') + i]
    OBVIOUS
  <2>1. i \in 1 .. Len(toClient) - n /\ n + i \in 1 .. Len(toClient)
        /\ Len(response) + (n + i) = Len(response') + i
    BY <1>5, <1>6
  <2>2. toClient[n + i] = t[Len(response) + (n + i)]
    BY <1>3, <2>1 DEF Answered
  <2> QED BY <1>5, <2>1, <2>2
<1>10. Len(response') + Len(toClient') = Len(response) + Len(toClient)
  BY <1>5, <1>6
<1>11. client' \in {"reading", "None", "BrokerRejected"} /\ response' # <<>>
  <2>1. Len(response') # 0
    BY <1>5, <1>6
  <2> QED BY <1>1, <1>5, <2>1, EmptySeq DEF ClientRead, Finish
<1>12. /\ CommandMeant' /\ ReceivedAsSent' /\ Accepted'
       /\ SingleLine' => OneRequest'
       /\ SingleLine' <=> SingleLine
  <2>1. ReceivedAsSent'
    BY <1>1, <1>3 DEF ReceivedAsSent
  <2> QED BY <1>1, <1>3, <1>11, <2>1, AskedKept
<1>13. Answered'
  <2>1. answers' \in Seq(Seq(S)) /\ {response', toClient'} \subseteq Seq(S)
    BY <1>1, <1>4, <1>5
  <2>2. /\ answers' # <<>> /\ answers'[1] = t /\ t # <<>>
        /\ IF handled' = <<>> THEN session' = "too_large" /\ t = OneLine("request_too_large")
           ELSE Tells(t, handled'[1], outcomes'[1])
    BY <1>1, <1>3 DEF Answered
  <2>3. /\ SingleLine' => Len(response') + Len(toClient') <= Len(t)
        /\ session' \in {"reading", "processing"} => Len(t) <= Len(response') + Len(toClient')
    BY <1>1, <1>3, <1>10, <1>12 DEF Answered
  <2> HIDE DEF t
  <2>4. \E R : answers' \in Seq(Seq(R)) /\ {response', toClient'} \subseteq Seq(R)
    BY <2>1
  <2> QED BY <1>8, <1>9, <2>2, <2>3, <2>4 DEF Answered
<1>14. /\ client' = "None" => ~ IsError(response')
       /\ client' = "BrokerRejected" => IsError(response')
  BY <1>1 DEF ClientRead, Finish
<1> QED BY <1>1, <1>3, <1>11, <1>12, <1>13, <1>14 DEF ReplyInv

\* A step of the session that neither handles a line nor answers; if it ends
\* the session, of what is on its way to the client a part may be left.
LEMMA ReplyKept ==
    ASSUME ReplyInv, UNCHANGED <<kind, call, command, wire, client, response, handled, received,
                                 outcomes, answers>>,
           \/ session' = session /\ toClient' = toClient
           \/ /\ session \in {"reading", "processing"}
              /\ session' \in {"reading", "processing"} /\ toClient' = toClient
           \/ /\ session \in {"reading", "processing"} /\ session' \in {"stopped", "dead", "eof"}
              /\ toClient' = toClient \/ toClient' \in Prefixes(toClient)
    PROVE  ReplyInv'
<1> SUFFICES ASSUME kind # "raw" PROVE ReplyInv'
  BY DEF ReplyInv
<1>1. /\ CommandMeant' <=> CommandMeant
      /\ Accepted' <=> Accepted
      /\ OneRequest' <=> OneRequest
      /\ SingleLine' <=> SingleLine
  BY AskedKept
<1>2. ReceivedAsSent' <=> ReceivedAsSent
  BY DEF ReceivedAsSent
<1>3. NoAnswer => NoAnswer'
  <2> SUFFICES ASSUME NoAnswer PROVE toClient' = <<>>
    BY DEF NoAnswer
  <2> QED BY DEF NoAnswer, Prefixes
<1>4. Answered => Answered'
  <2> SUFFICES ASSUME Answered PROVE Answered'
    OBVIOUS
  <2>1. PICK S : answers \in Seq(Seq(S)) /\ {response, toClient} \subseteq Seq(S)
    BY DEF Answered
  <2>2. toClient \in Seq(S) /\ Len(toClient) \in Nat /\ Len(response) \in Nat
    BY <2>1
  <2>3. /\ toClient' \in Seq(S) /\ Len(toClient') \in Nat /\ Len(toClient') <= Len(toClient)
        /\ \A i \in 1 .. Len(toClient') : toClient'[i] = toClient[i]
        /\ session' \in {"reading", "processing"} => toClient' = toClient
    <3>1. CASE toClient' = toClient
      BY <2>2, <3>1
    <3>2. CASE toClient' \in Prefixes(toClient) /\ session' \notin {"reading", "processing"}
      <4>1. PICK l \in 0 .. Len(toClient) : toClient' = SubSeq(toClient, 1, l)
        BY <3>2 DEF Prefixes
      <4> QED BY <2>2, <3>2, <4>1
    <3> QED BY <3>1, <3>2
  <2> DEFINE t == answers[1]
  <2>4. Len(t) \in Nat
    <3>1. 1 \in 1 .. Len(answers)
      BY <2>1, EmptySeq DEF Answered
    <3>2. t \in Seq(S)
      BY <2>1, <3>1, ElementOfSeq
    <3> QED BY <3>2
  <2>5. /\ SingleLine' => Len(response') + Len(toClient') <= Len(t)
        /\ session' \in {"reading", "processing"} => Len(t) <= Len(response') + Len(toClient')
    <3>1. SingleLine => Len(response) + Len(toClient) <= Len(t)
      BY DEF Answered
    <3>2. session' \in {"reading", "processing"} =>
             toClient' = toClient /\ session \in {"reading", "processing"}
      BY <2>3
    <3> QED BY <1>1, <2>2, <2>3, <2>4, <3>1, <3>2 DEF Answered
  <2>6. /\ \A i \in 1 .. Len(response') : i <= Len(t) => response'[i] = t[i]
        /\ \A i \in 1 .. Len(toClient') :
              Len(response') + i <= Len(t) => toClient'[i] = t[Len(response') + i]
    BY <2>2, <2>3 DEF Answered
  <2>7. answers' # <<>> /\ answers'[1] = t /\ t # <<>>
    BY DEF Answered
  <2>8. \E R : answers' \in Seq(Seq(R)) /\ {response', toClient'} \subseteq Seq(R)
    BY <2>1, <2>3
  <2>9. IF handled' = <<>> THEN session' = "too_large" /\ t = OneLine("request_too_large")
        ELSE Tells(t, handled'[1], outcomes'[1])
    BY DEF Answered
  <2> HIDE DEF t
  <2> QED BY <2>5, <2>6, <2>7, <2>8, <2>9 DEF Answered
<1> QED BY <1>1, <1>2, <1>3, <1>4 DEF ReplyInv

\* The first answer.
LEMMA FirstAnswer ==
    ASSUME NoAnswer, NEW t, Send(t), UNCHANGED <<response, command>>,
           \E S : t \in Seq(S), t # <<>>,
           IF handled' = <<>> THEN session' = "too_large" /\ t = OneLine("request_too_large")
           ELSE Tells(t, handled'[1], outcomes'[1])
    PROVE  Answered'
<1>1. PICK S : t \in Seq(S)
  OBVIOUS
<1>2. answers' = <<t>> /\ toClient' = t /\ response' = <<>>
  <2>1. answers' = <<>> \o <<t>> /\ toClient' = <<>> \o t
    BY DEF Send, NoAnswer
  <2>2. <<>> \o <<t>> = <<t>>
    OBVIOUS
  <2>3. <<>> \o t = t
    BY <1>1, ConcatEmptySeq
  <2> QED BY <2>1, <2>2, <2>3 DEF NoAnswer
<1>3. answers'[1] = t /\ answers' # <<>> /\ Len(response') = 0 /\ Len(t) \in Nat
  BY <1>1, <1>2
<1>4. answers' \in Seq(Seq(S)) /\ {response', toClient'} \subseteq Seq(S)
  BY <1>1, <1>2, EmptySeq
<1>5. /\ Len(response') + Len(toClient') <= Len(t) /\ Len(t) <= Len(response') + Len(toClient')
      /\ \A i \in 1 .. Len(response') : i <= Len(t) => response'[i] = t[i]
      /\ \A i \in 1 .. Len(toClient') :
            Len(response') + i <= Len(t) => toClient'[i] = t[Len(response') + i]
  BY <1>2, <1>3
<1>6. \E R : answers' \in Seq(Seq(R)) /\ {response', toClient'} \subseteq Seq(R)
  BY <1>4
<1> QED BY <1>3, <1>5, <1>6 DEF Answered

\* The first answer stays the first.
LEMMA FirstKept ==
    ASSUME NEW S, answers \in Seq(S), answers # <<>>, NEW t \in S, Send(t)
    PROVE  answers' \in Seq(S) /\ answers' # <<>> /\ answers'[1] = answers[1]
<1>1. answers' = answers \o <<t>>
  BY DEF Send
<1> DEFINE one == <<t>>
<1>2. answers \in Seq(S) /\ one \in Seq(S) /\ Len(one) = 1
  OBVIOUS
<1> HIDE DEF one
<1>3. /\ answers \o one \in Seq(S) /\ Len(answers \o one) = Len(answers) + Len(one)
      /\ \A i \in 1 .. Len(answers) + Len(one) :
            (answers \o one)[i] = IF i <= Len(answers) THEN answers[i] ELSE one[i - Len(answers)]
  BY <1>2, ConcatProperties, Zenon
<1>4. 1 \in 1 .. Len(answers) + Len(one) /\ 1 <= Len(answers) /\ Len(answers) + Len(one) # 0
  BY <1>2, EmptySeq
<1> QED BY <1>1, <1>3, <1>4 DEF one

\* An answer to a later line of a broken command goes behind the first one.
LEMMA LaterAnswer ==
    ASSUME Answered, ~ SingleLine, session \in {"reading", "processing"}, NEW t, Send(t),
           \E S : t \in Seq(S), UNCHANGED <<response, command>>, handled' # <<>>,
           handled'[1] = handled[1], outcomes'[1] = outcomes[1]
    PROVE  Answered'
<1> DEFINE a == answers[1]
<1>1. PICK R : answers \in Seq(Seq(R)) /\ {response, toClient} \subseteq Seq(R)
  BY DEF Answered
<1>2. PICK T : t \in Seq(T)
  OBVIOUS
<1> DEFINE S == R \cup T
<1>3. response \in Seq(S) /\ toClient \in Seq(S) /\ t \in Seq(S) /\ answers \in Seq(Seq(S))
  <2>1. R \subseteq S /\ T \subseteq S
    OBVIOUS
  <2> HIDE DEF S
  <2>2. Seq(R) \subseteq Seq(S) /\ Seq(T) \subseteq Seq(S)
    BY <2>1, SeqMonotonic
  <2>3. Seq(Seq(R)) \subseteq Seq(Seq(S))
    BY <2>2, SeqMonotonic
  <2> QED BY <1>1, <1>2, <2>2, <2>3
<1> HIDE DEF S
<1>4. 1 \in 1 .. Len(answers)
  BY <1>3, EmptySeq DEF Answered
<1>5. Len(a) \in Nat /\ Len(response) \in Nat /\ Len(toClient) \in Nat /\ Len(t) \in Nat
  <2>1. a \in Seq(S)
    BY <1>3, <1>4, ElementOfSeq
  <2> HIDE DEF a
  <2> QED BY <1>3, <2>1
<1>6. /\ answers' \in Seq(Seq(S)) /\ answers' # <<>> /\ answers'[1] = a
  BY <1>3, FirstKept DEF Answered
<1>7. /\ toClient' \in Seq(S) /\ Len(toClient') = Len(toClient) + Len(t)
      /\ \A i \in 1 .. Len(toClient) : toClient'[i] = toClient[i]
  <2>1. toClient' = toClient \o t
    BY DEF Send
  <2>2. /\ toClient \o t \in Seq(S) /\ Len(toClient \o t) = Len(toClient) + Len(t)
        /\ \A i \in 1 .. Len(toClient) + Len(t) :
              (toClient \o t)[i] = IF i <= Len(toClient) THEN toClient[i] ELSE t[i - Len(toClient)]
    <3>1. toClient \in Seq(S) /\ t \in Seq(S)
      BY <1>3
    <3> QED BY <3>1, ConcatProperties, Zenon
  <2>3. \A i \in 1 .. Len(toClient) : i \in 1 .. Len(toClient) + Len(t) /\ i <= Len(toClient)
    BY <1>5
  <2> QED BY <2>1, <2>2, <2>3
<1>8. Len(a) <= Len(response) + Len(toClient)
  BY DEF Answered
<1>9. Len(a) <= Len(response') + Len(toClient')
  BY <1>5, <1>7, <1>8
<1>10. \A i \in 1 .. Len(response') : i <= Len(a) => response'[i] = a[i]
  BY DEF Answered
<1>11. \A i \in 1 .. Len(toClient') :
          Len(response') + i <= Len(a) => toClient'[i] = a[Len(response') + i]
  <2> SUFFICES ASSUME NEW i \in 1 .. Len(toClient'), Len(response') + i <= Len(a)
               PROVE  toClient'[i] = a[Len(response') + i]
    OBVIOUS
  <2>1. i \in 1 .. Len(toClient)
    BY <1>5, <1>7, <1>8
  <2> QED BY <1>7, <2>1 DEF Answered
<1>12. ~ SingleLine'
  BY DEF SingleLine
<1>13. \E Q : answers' \in Seq(Seq(Q)) /\ {response', toClient'} \subseteq Seq(Q)
  BY <1>3, <1>6, <1>7
<1>14. a # <<>> /\ Tells(a, handled'[1], outcomes'[1])
  BY DEF Answered
<1> HIDE DEF a
<1> QED BY <1>6, <1>9, <1>10, <1>11, <1>12, <1>13, <1>14 DEF Answered

\* While the session processes the line of a command that has one nothing was
\* answered.
LEMMA Unanswered ==
    ASSUME FrameInv, ReplyInv, kind # "raw", session = "processing",
           TooLarge \/ NewlineAt # 0
    PROVE  /\ SingleLine => handled = <<>>
           /\ client \in Listening => IF handled = <<>> THEN NoAnswer ELSE Answered
<1>1. ASSUME SingleLine, handled # <<>> PROVE FALSE
  <2>1. OneRequest
    BY <1>1 DEF ReplyInv
  <2>2. input = <<>>
    BY <1>1, <2>1, OnceHandled
  <2>3. Len(input) = 0 /\ input \in Seq(Cells)
    BY <2>2 DEF FrameInv, FrameTypeOK
  <2>4. NewlineAt = 0
    BY <2>3, NewlineAtIsFirst
  <2>5. ~ TooLarge
    BY <2>3, <2>4, ExchangeAssumption DEF TooLarge
  <2> QED BY <2>4, <2>5
<1>2. client \in Listening => IF handled = <<>> THEN NoAnswer ELSE Answered
  BY DEF ReplyInv, Answered, NoAnswer
<1> QED BY <1>1, <1>2

LEMMA ReplyTooLarge == FrameInv /\ ReplyInv /\ ProcessTooLarge => ReplyInv'
<1> SUFFICES ASSUME FrameInv, ReplyInv, ProcessTooLarge, kind # "raw" PROVE ReplyInv'
  BY DEF ProcessTooLarge, ReplyInv, asked
<1> DEFINE t == OneLine("request_too_large")
<1>1. /\ session = "processing" /\ TooLarge /\ session' = "too_large" /\ Send(t)
      /\ UNCHANGED <<kind, call, command, wire, client, response, handled, received, outcomes>>
  BY DEF ProcessTooLarge, asked, reader
<1>2. /\ SingleLine => handled = <<>>
      /\ client \in Listening => IF handled = <<>> THEN NoAnswer ELSE Answered
  BY <1>1, Unanswered
<1>3. t # <<>> /\ \E S : t \in Seq(S)
  BY OneLineText
<1>4. client \in Listening => Answered'
  <2> HIDE DEF t
  <2>1. CASE handled = <<>> /\ client \in Listening
    BY <1>1, <1>2, <1>3, <2>1, FirstAnswer DEF t
  <2>2. CASE handled # <<>> /\ client \in Listening
    BY <1>1, <1>2, <1>3, <2>2, LaterAnswer
  <2> QED BY <2>1, <2>2
<1>5. /\ CommandMeant' <=> CommandMeant
      /\ Accepted' <=> Accepted
      /\ OneRequest' <=> OneRequest
      /\ SingleLine' <=> SingleLine
  BY <1>1, AskedKept
<1>6. ReceivedAsSent' <=> ReceivedAsSent
  BY <1>1 DEF ReceivedAsSent
<1> QED BY <1>1, <1>4, <1>5, <1>6 DEF ReplyInv

\* What became of a line when one more is handled.
LEMMA OutcomeAppended ==
    ASSUME FrameInv, ReceivedAsSent, NEW line, NEW error, handled' = Append(handled, line),
           outcomes' = Append(outcomes, error)
    PROVE  /\ \E S : outcomes' \in Seq(S)
           /\ Len(outcomes') = Len(handled') /\ handled' # <<>>
           /\ handled = <<>> => handled'[1] = line /\ outcomes'[1] = error /\ Len(handled') = 1
           /\ handled # <<>> => /\ handled'[1] = handled[1] /\ outcomes'[1] = outcomes[1]
                                /\ Len(handled') # 1
<1>1. PICK S : outcomes \in Seq(S)
  BY DEF ReceivedAsSent
<1>2. handled \in Seq(Seq(Cells)) /\ Len(outcomes) = Len(handled) /\ Len(handled) \in Nat
  BY DEF FrameInv, FrameTypeOK, ReceivedAsSent
<1>3. PICK H : handled \in Seq(H) /\ line \in H
  <2>1. Seq(Cells) \subseteq Seq(Cells) \cup {line}
    OBVIOUS
  <2>2. handled \in Seq(Seq(Cells) \cup {line})
    BY <1>2, <2>1, SeqMonotonic
  <2> QED BY <2>2
<1>4. PICK O : outcomes \in Seq(O) /\ error \in O
  <2>1. S \subseteq S \cup {error}
    OBVIOUS
  <2>2. outcomes \in Seq(S \cup {error})
    BY <1>1, <2>1, SeqMonotonic
  <2> QED BY <2>2
<1>5. /\ handled' \in Seq(H) /\ Len(handled') = Len(handled) + 1
      /\ \A i \in 1 .. Len(handled) : handled'[i] = handled[i]
      /\ handled'[Len(handled) + 1] = line
  BY <1>3, AppendProperties
<1>6. /\ outcomes' \in Seq(O) /\ Len(outcomes') = Len(outcomes) + 1
      /\ \A i \in 1 .. Len(outcomes) : outcomes'[i] = outcomes[i]
      /\ outcomes'[Len(outcomes) + 1] = error
  BY <1>4, AppendProperties
<1>7. handled' # <<>>
  BY <1>2, <1>5
<1>8. handled = <<>> => Len(handled) = 0
  OBVIOUS
<1>9. handled # <<>> => 1 \in 1 .. Len(handled) /\ 1 \in 1 .. Len(outcomes) /\ Len(handled) # 0
  BY <1>2, EmptySeq
<1> QED BY <1>2, <1>5, <1>6, <1>7, <1>8, <1>9

\* One more line is handled and answered.
LEMMA ReplyProcessLine == FrameInv /\ ReplyInv /\ ProcessLine => ReplyInv'
<1> SUFFICES ASSUME FrameInv, ReplyInv, ProcessLine, kind # "raw" PROVE ReplyInv'
  BY DEF ProcessLine, ReplyInv, asked
<1>1. /\ session = "processing" /\ NewlineAt # 0 /\ session' \in {"processing", "write_failed"}
      /\ UNCHANGED <<kind, call, command, wire, client, response>> /\ ReceivedAsSent
  BY DEF ProcessLine, asked, reader, ReplyInv
<1>2. /\ SingleLine => handled = <<>>
      /\ client \in Listening => IF handled = <<>> THEN NoAnswer ELSE Answered
  BY <1>1, Unanswered
<1>3. PICK line :
        /\ handled' = Append(handled, line)
        /\ \/ /\ parse_error(tokenize(line)) = "None"
              /\ received' = command_of(tokenize(line))
              /\ dispatch(tokenize(line)[1].text)
           \/ /\ parse_error(tokenize(line)) # "None"
              /\ received' = NoCall
              /\ outcomes' = Append(outcomes, parse_error(tokenize(line)))
              /\ Send(OneLine(format_parse_error(parse_error(tokenize(line)))))
  BY DEF ProcessLine, TakeLine
<1>4. PICK t, error : Send(t) /\ outcomes' = Append(outcomes, error) /\ Reply(t, line, error)
  BY <1>3, LineReplies
<1>5. /\ \E S : outcomes' \in Seq(S)
      /\ Len(outcomes') = Len(handled') /\ handled' # <<>>
      /\ handled = <<>> => handled'[1] = line /\ outcomes'[1] = error /\ Len(handled') = 1
      /\ handled # <<>> => /\ handled'[1] = handled[1] /\ outcomes'[1] = outcomes[1]
                           /\ Len(handled') # 1
  BY <1>1, <1>3, <1>4, OutcomeAppended
<1>6. ReceivedAsSent'
  BY <1>3, <1>5 DEF ReceivedAsSent
<1>7. client \in Listening => Answered'
  <2>1. t # <<>> /\ (\E S : t \in Seq(S)) /\ Tells(t, line, error)
    BY <1>4 DEF Reply
  <2>2. CASE handled = <<>> /\ client \in Listening
    BY <1>1, <1>2, <1>4, <1>5, <2>1, <2>2, FirstAnswer
  <2>3. CASE handled # <<>> /\ client \in Listening
    BY <1>1, <1>2, <1>4, <1>5, <2>1, <2>3, LaterAnswer
  <2> QED BY <2>2, <2>3
<1>8. /\ CommandMeant' <=> CommandMeant
      /\ Accepted' <=> Accepted
      /\ OneRequest' <=> OneRequest
      /\ SingleLine' <=> SingleLine
  BY <1>1, AskedKept
<1> QED BY <1>1, <1>6, <1>7, <1>8 DEF ReplyInv

\* A session that reads the end of the stream says no more to a client that
\* has its answer, unless it has read a part of another line.
LEMMA EofAnswers ==
    ASSUME FrameInv, ReplyInv, SessionEof, kind # "raw", client \in Listening
    PROVE  /\ Answered /\ handled # <<>>
           /\ \/ UNCHANGED <<answers, toClient>>
              \/ ~ SingleLine /\ Send(OneLine("invalid_request"))
<1>1. session = "reading" /\ client \notin {"start", "reading"}
  BY DEF SessionEof
<1>2. response # <<>>
  BY <1>1 DEF ReplyInv, Listening
<1>3. handled # <<>> /\ Answered
  BY <1>1, <1>2 DEF ReplyInv, NoAnswer, Answered
<1>4. SingleLine => input = <<>>
  BY <1>1, <1>3, OnceHandled DEF ReplyInv
<1> QED BY <1>3, <1>4 DEF SessionEof

LEMMA ReplyEof == FrameInv /\ ReplyInv /\ SessionEof => ReplyInv'
<1> SUFFICES ASSUME FrameInv, ReplyInv, SessionEof, kind # "raw" PROVE ReplyInv'
  BY DEF SessionEof, ReplyInv, asked
<1>1. /\ session = "reading" /\ session' = "eof" /\ client \notin {"start", "reading"}
      /\ UNCHANGED <<kind, call, command, wire, client, response, handled, received, outcomes>>
  BY DEF SessionEof, asked, reader
<1>2. /\ CommandMeant' <=> CommandMeant
      /\ Accepted' <=> Accepted
      /\ OneRequest' <=> OneRequest
      /\ SingleLine' <=> SingleLine
  BY <1>1, AskedKept
<1>3. ReceivedAsSent' <=> ReceivedAsSent
  BY <1>1 DEF ReceivedAsSent
<1>4. CASE client \in Listening
  <2>1. Answered /\ handled # <<>>
    BY <1>4, EofAnswers
  <2>2. CASE UNCHANGED <<answers, toClient>>
    BY <1>1, <2>2, ReplyKept
  <2>3. CASE ~ SingleLine /\ Send(OneLine("invalid_request"))
    <3> DEFINE t == OneLine("invalid_request")
    <3>1. \E S : t \in Seq(S)
      BY OneLineText
    <3>2. Send(t)
      BY <2>3
    <3> HIDE DEF t
    <3>3. Answered'
      BY <1>1, <2>1, <2>3, <3>1, <3>2, LaterAnswer
    <3> QED BY <1>1, <1>2, <1>3, <3>3 DEF ReplyInv
  <2> QED BY <1>4, <2>2, <2>3, EofAnswers
<1>5. CASE client \notin Listening
  BY <1>1, <1>2, <1>3, <1>5 DEF ReplyInv, Listening
<1> QED BY <1>4, <1>5

\* A client that is not listening any more.
LEMMA ReplyGone ==
    ASSUME FrameInv, ReplyInv,
           UNCHANGED <<kind, call, command, wire, session, response, handled, received, outcomes>>,
           client = "reading", kind # "raw" => client' = "ReadFailed"
    PROVE  ReplyInv'
<1> SUFFICES ASSUME kind # "raw" PROVE ReplyInv'
  BY DEF ReplyInv
<1>1. /\ CommandMeant' <=> CommandMeant
      /\ Accepted' <=> Accepted
      /\ OneRequest' <=> OneRequest
      /\ SingleLine' <=> SingleLine
  BY AskedKept
<1>2. ReceivedAsSent' <=> ReceivedAsSent
  BY DEF ReceivedAsSent
<1> QED BY <1>1, <1>2 DEF ReplyInv, Listening

LEMMA ReplyNext == FrameInv /\ ReplyInv /\ [Next]_vars => ReplyInv'
<1> SUFFICES ASSUME FrameInv, ReplyInv, [Next]_vars PROVE ReplyInv'
  OBVIOUS
<1>1. CASE Connect
  BY <1>1, ReplyConnect
<1>2. CASE ClientRead
  BY <1>2, ReplyClientRead
<1>3. CASE ClientEof \/ RawClose
  <2>1. /\ UNCHANGED <<kind, call, command, wire, session, response, handled, received, outcomes>>
        /\ client = "reading" /\ (kind # "raw" => client' = "ReadFailed")
    BY <1>3 DEF ClientEof, RawClose, Finish, asked, parser
  <2> QED BY <2>1, ReplyGone
<1>4. CASE SessionRead \/ NeedMore \/ SessionStops
  <2>1. /\ UNCHANGED <<kind, call, command, wire, client, response, handled, received, outcomes,
                       answers, toClient>>
        /\ session \in {"reading", "processing"}
        /\ session' \in {"reading", "processing", "stopped"}
    BY <1>4 DEF SessionRead, NeedMore, SessionStops, asked, reader, parser
  <2> QED BY <2>1, ReplyKept
<1>5. CASE DaemonDies
  <2>1. /\ UNCHANGED <<kind, call, command, wire, client, response, handled, received, outcomes,
                       answers>>
        /\ session \in {"reading", "processing"} /\ session' = "dead"
        /\ toClient' \in Prefixes(toClient)
    BY <1>5 DEF DaemonDies, asked, reader, parser
  <2> QED BY <2>1, ReplyKept
<1>6. CASE ProcessTooLarge
  BY <1>6, ReplyTooLarge
<1>7. CASE ProcessLine
  BY <1>7, ReplyProcessLine
<1>8. CASE SessionEof
  BY <1>8, ReplyEof
<1>9. CASE UNCHANGED vars
  <2>1. UNCHANGED <<kind, call, command, wire, client, response, handled, received, outcomes,
                    answers, toClient, session>>
    BY <1>9 DEF vars, asked, reader, parser
  <2> QED BY <2>1, ReplyKept
<1> QED BY <1>1, <1>2, <1>3, <1>4, <1>5, <1>6, <1>7, <1>8, <1>9
        DEF Next, ClientStep, SessionStep

\* What is kept of the exchange: the framing of the session and, for the
\* library and gpumemctl, one command and the answer to its first line.
THEOREM ExchangeInvariance == Spec => [](FrameInv /\ ReplyInv)
<1>1. Init => FrameInv /\ ReplyInv
  BY FrameInit, ReplyInit
<1>2. FrameInv /\ ReplyInv /\ [Next]_vars => (FrameInv /\ ReplyInv)'
  BY FrameNext, ReplyNext
<1> QED BY <1>1, <1>2, PTL DEF Spec

\* No more lines are handled than were meant when the write has failed: the
\* last of them, that was to be ended by the line break behind the command, is
\* not.
LEMMA WriteFailedLines ==
    ASSUME FrameInv, ReplyInv, kind # "raw", client = "WriteFailed"
    PROVE  Len(handled) <= LineCount(Spelled(command))
<1> DEFINE s == Spelled(command)
<1>1. s \in Seq(Cells) /\ wire \in Prefixes(s) /\ wire \in Seq(Cells)
  <2>1. CommandOK /\ wire \in Prefixes(Spelled(command))
    BY DEF ReplyInv, CommandMeant
  <2> QED BY <2>1, SpelledText DEF CommandOK, FrameInv, FrameTypeOK
<1> HIDE DEF s
<1>2. PICK l \in 0 .. Len(s) : wire = SubSeq(s, 1, l)
  BY <1>1 DEF Prefixes
<1>3. Len(wire) = l /\ l \in Nat /\ l <= Len(s) /\ \A i \in 1 .. l : wire[i] = s[i]
  BY <1>1, <1>2
<1>4. Newlines(wire) \in SUBSET Newlines(s)
  <2>1. DOMAIN wire = 1 .. l /\ 1 .. l \subseteq DOMAIN s
    BY <1>1, <1>3
  <2> QED BY <1>3, <2>1 DEF Newlines
<1>5. LineCount(wire) <= LineCount(s) /\ LineCount(wire) \in Nat /\ LineCount(s) \in Nat
  <2>1. IsFiniteSet(Newlines(s)) /\ LineCount(wire) \in Nat /\ LineCount(s) \in Nat
    BY <1>1, NewlinesFinite
  <2> QED BY <1>4, <2>1, FS_Subset DEF LineCount
<1>6. Len(handled) <= LineCount(wire)
  <2>1. CASE session = "none"
    <3>1. Len(handled) = 0
      BY <2>1 DEF FrameInv
    <3> QED BY <1>5, <3>1
  <2>2. CASE session # "none"
    <3>1. Position \in 0 .. Len(wire) /\ LinesBy(wire, Position) = Len(handled)
      BY <2>2 DEF FrameInv, InStep
    <3>2. Position \in Int /\ Position <= Position
      BY <1>3, <3>1
    <3> QED BY <1>1, <3>1, <3>2, LinesByMonotone
  <2> QED BY <2>1, <2>2
<1>7. Len(handled) \in Nat
  BY DEF FrameInv, FrameTypeOK
<1> QED BY <1>5, <1>6, <1>7 DEF s

\* For all commands, whatever their length, with blanks, carriage returns and
\* broken words, and all tables of errors: a client that reports success or a
\* refusal tells the truth about the first line that it sent, each error has
\* its own code, and a command that could not be sent whole was not run whole
\* (Client::request, gpumemctl's main, dispatch, the format_ functions).
THEOREM OutcomeCorrect == Spec => []OutcomeArrives
<1>1. ASSUME FrameInv, ReplyInv PROVE OutcomeArrives
  <2> SUFFICES ASSUME kind # "raw" PROVE OutcomeArrives
    BY DEF OutcomeArrives
  <2> DEFINE a == answers[1]
  <2>1. ASSUME client \in {"None", "BrokerRejected"}
        PROVE  /\ response[1] = a[1] /\ (client = "None" <=> response[1] = Word("OK"))
               /\ IF handled = <<>> THEN a = OneLine("request_too_large")
                  ELSE Tells(a, handled[1], outcomes[1])
    <3>1. /\ response # <<>> /\ Answered
          /\ client = "None" => ~ IsError(response)
          /\ client = "BrokerRejected" => IsError(response)
      BY <1>1, <2>1 DEF ReplyInv, Listening, NoAnswer
    <3>2. PICK S : answers \in Seq(Seq(S)) /\ {response, toClient} \subseteq Seq(S)
      BY <3>1 DEF Answered
    <3>3. 1 \in 1 .. Len(response) /\ 1 \in 1 .. Len(answers)
      BY <3>1, <3>2, EmptySeq DEF Answered
    <3>4. 1 <= Len(a)
      <4>1. a \in Seq(S) /\ a # <<>>
        BY <3>1, <3>2, <3>3, ElementOfSeq DEF Answered
      <4> HIDE DEF a
      <4> QED BY <4>1, EmptySeq
    <3>5. response[1] = a[1]
      BY <3>1, <3>3, <3>4 DEF Answered
    <3> QED BY <2>1, <3>1, <3>5 DEF IsError, Answered
  <2> HIDE DEF a
  <2>2. OneLine("request_too_large")[1] = Word("request_too_large")
        /\ Word("request_too_large") # Word("OK")
    BY OneLineText, WordsTold
  <2>3. ASSUME client \in {"None", "BrokerRejected"}, handled # <<>>, outcomes[1] # "None"
        PROVE  /\ outcomes[1] \in LineErrors(handled[1])
               /\ response[1] = Word(ErrorCode(handled[1], outcomes[1]))
               /\ response[1] # Word("OK")
    <3>1. /\ outcomes[1] \in LineErrors(handled[1])
          /\ a = OneLine(ErrorCode(handled[1], outcomes[1]))
      BY <2>1, <2>3 DEF Tells
    <3>2. ErrorCode(handled[1], outcomes[1]) # "OK"
      BY <3>1, ErrorCodesTold
    <3>3. response[1] = Word(ErrorCode(handled[1], outcomes[1]))
      BY <2>1, <2>3, <3>1, OneLineText
    <3> QED BY <3>1, <3>2, <3>3, WordsTold
  <2>4. ASSUME client = "None"
        PROVE  handled # <<>> /\ outcomes[1] = "None" /\ (SingleLine => Len(handled) = 1)
    <3>1. handled # <<>>
      BY <2>1, <2>2, <2>4
    <3>2. outcomes[1] = "None"
      BY <2>1, <2>3, <2>4, <3>1
    <3> QED BY <1>1, <3>1, <3>2, LineIsCommand
  <2>5. ASSUME client = "BrokerRejected"
        PROVE  IF handled = <<>> THEN response[1] = Word("request_too_large")
               ELSE /\ outcomes[1] # "None"
                    /\ \A error \in LineErrors(handled[1]) :
                          response[1] = Word(ErrorCode(handled[1], error))
                              <=> error = outcomes[1]
    <3>1. CASE handled = <<>>
      BY <2>1, <2>2, <2>5, <3>1
    <3>2. CASE handled # <<>>
      <4>1. response[1] # Word("OK")
        BY <2>1, <2>5
      <4>2. outcomes[1] # "None"
        BY <2>1, <2>5, <3>2, <4>1 DEF Tells
      <4>3. /\ outcomes[1] \in LineErrors(handled[1])
            /\ response[1] = Word(ErrorCode(handled[1], outcomes[1]))
        BY <2>3, <2>5, <3>2, <4>2
      <4>4. \A error \in LineErrors(handled[1]) :
               ErrorCode(handled[1], outcomes[1]) = ErrorCode(handled[1], error)
                  => outcomes[1] = error
        BY <4>3, ErrorCodesTold
      <4>5. \A error \in LineErrors(handled[1]) :
               response[1] = Word(ErrorCode(handled[1], error)) <=> error = outcomes[1]
        BY <4>3, <4>4, WordsTold
      <4> QED BY <3>2, <4>2, <4>5
    <3> QED BY <3>1, <3>2
  <2>6. client \in {"InvalidRequest", "Usage", "ConnectionFailed"} => handled = <<>>
    BY <1>1 DEF ReplyInv, FrameInv
  <2>7. client = "WriteFailed" => Len(handled) <= LineCount(Spelled(command))
    BY <1>1, WriteFailedLines
  <2> QED BY <2>4, <2>5, <2>6, <2>7 DEF OutcomeArrives
<1> QED BY <1>1, ExchangeInvariance, PTL

-----------------------------------------------------------------------------
(***************************************************************************)
(* Numbers.                                                                *)
(***************************************************************************)

\* The check before the multiplication rules out that it overflows.
LEMMA ProductFits ==
    ASSUME NEW d \in Nat, NEW u \in Nat \ {0}, NEW M \in Nat, d <= M \div u
    PROVE  d * u <= M
<1> DEFINE q == M \div u
<1>1. q \in Nat /\ u * q <= M
  OBVIOUS
<1>2. PICK e \in Nat : q = d + e
  <2>1. q - d \in Nat /\ q = d + (q - d)
    <3> HIDE DEF q
    <3> QED BY <1>1 DEF q
  <2> QED BY <2>1
<1> HIDE DEF q
<1>3. u * q = d * u + e * u
  BY <1>2
<1>4. e * u \in Nat /\ d * u \in Nat /\ u * q \in Nat
  BY <1>1
<1> QED BY <1>1, <1>3, <1>4

LEMMA SizeParsed ==
    ASSUME NEW token \in Cells, parse_size(token) # NoValue
    PROVE  /\ parse_size(token) = token.digits * Units[token.unit]
           /\ parse_size(token) <= MaxBytes
           /\ token.kind = "numeral"
<1>1. /\ token.kind = "numeral"
      /\ token.digits \in 1 .. MaxBytes \div Units[token.unit]
      /\ parse_size(token) = token.digits * Units[token.unit]
  BY DEF parse_size
<1>2. token.digits \in Nat /\ token.unit \in DOMAIN Units
  <2>1. token \in Tokens
    BY <1>1, CellsTold DEF Cells
  <2> QED BY <1>1, <2>1 DEF Tokens
<1>3. Units[token.unit] \in Nat \ {0} /\ MaxBytes \in Nat
  BY <1>2, UnitsAssumption, WidthAssumption
<1>4. token.digits <= MaxBytes \div Units[token.unit]
  BY <1>1, <1>3
<1> QED BY <1>1, <1>2, <1>3, <1>4, ProductFits

LEMMA PriorityParsed ==
    ASSUME NEW token \in Cells, parse_priority(token) # NoValue
    PROVE  parse_priority(token) = IF token.sign = "-" THEN - token.digits ELSE token.digits
<1>1. token.kind = "numeral"
  BY DEF parse_priority
<1>2. token \in [kind : {"numeral"}, sign : {"none", "+", "-"}, digits : Nat, unit : DOMAIN Units]
  <2>1. token \in Tokens
    BY <1>1, CellsTold DEF Cells
  <2> QED BY <1>1, <2>1 DEF Tokens
<1> DEFINE bare == [token EXCEPT !.sign = "none"]
           magnitude == parse_unsigned(bare)
<1>3. bare.digits = token.digits
  BY <1>2
<1>4. magnitude # NoValue
  BY <1>1 DEF parse_priority
<1>5. magnitude = bare.digits
  <2> HIDE DEF bare
  <2> QED BY <1>4 DEF parse_unsigned
<1> HIDE DEF bare
<1>6. parse_priority(token) = IF token.sign = "-" THEN - magnitude ELSE magnitude
  <2> HIDE DEF magnitude
  <2> QED BY <1>1 DEF parse_priority, magnitude, bare
<1> QED BY <1>3, <1>5, <1>6

LEMMA AcquireParsed ==
    ASSUME NEW f \in Seq(Cells), parse_error(f) = "None", command_of(f).verb = "acquire"
    PROVE  /\ Len(f) \in 3 .. 6
           /\ command_of(f).bytes = parse_size(f[3]) /\ parse_size(f[3]) # NoValue
           /\ Len(f) >= 4 => /\ command_of(f).options.priority = parse_priority(f[4])
                             /\ parse_priority(f[4]) # NoValue
<1>1. f[1].text = "acquire"
  BY DEF command_of
<1>2. Len(f) \in 3 .. 6 /\ field_error("acquire", f) = "None"
  BY <1>1 DEF parse_error, Arities, Queries
<1>3. SizeField("acquire") = 3
  BY DEF SizeField
<1>4. parse_size(f[3]) # NoValue
  BY <1>2, <1>3 DEF field_error
<1>5. command_of(f).bytes = parse_size(f[3]) /\ command_of(f).options = acquire_options(f)
  BY <1>1, <1>3 DEF command_of
<1>6. \A x \in DOMAIN DefaultOptions : acquire_options(f)[x] # NoValue
  BY <1>2 DEF field_error
<1>7. "priority" \in DOMAIN DefaultOptions
  BY DEF DefaultOptions
<1>8. acquire_options(f).priority # NoValue
  BY <1>6, <1>7
<1>9. Len(f) >= 4 => acquire_options(f).priority = parse_priority(f[4])
  BY DEF acquire_options
<1> QED BY <1>2, <1>4, <1>5, <1>8, <1>9

\* What Client::acquire writes for its size and its priority reads as them.
LEMMA CallNumbers ==
    ASSUME NEW f \in Seq(Cells), NEW c \in AcquireCalls, f = AcquireCommand(c),
           parse_error(f) = "None", command_of(f).verb = "acquire"
    PROVE  /\ command_of(f).bytes = c.bytes
           /\ command_of(f).options.priority = c.options.priority
<1>1. c.bytes \in Int /\ c.bytes >= 0 /\ c.options.priority \in Int
  BY CommandsAssumption, WidthAssumption
<1>2. Len(f) \in 4 .. 6 /\ f[3] = Signed(c.bytes) /\ f[4] = Signed(c.options.priority)
  BY AcquireCommandType
<1>3. f[3] \in Cells /\ f[3].digits = c.bytes /\ f[3].unit = "none"
  BY <1>1, <1>2, SignedToken DEF Cells
<1>4. /\ f[4] \in Cells
      /\ c.options.priority < 0 => f[4].sign = "-" /\ f[4].digits = - c.options.priority
      /\ c.options.priority >= 0 => f[4].sign = "none" /\ f[4].digits = c.options.priority
  BY <1>1, <1>2, SignedToken DEF Cells
<1>5. /\ command_of(f).bytes = parse_size(f[3]) /\ parse_size(f[3]) # NoValue
      /\ command_of(f).options.priority = parse_priority(f[4]) /\ parse_priority(f[4]) # NoValue
  BY <1>2, AcquireParsed
<1>6. command_of(f).bytes = c.bytes
  <2>1. parse_size(f[3]) = f[3].digits * Units[f[3].unit]
    BY <1>3, <1>5, SizeParsed
  <2>2. Units["none"] = 1
    BY UnitsAssumption
  <2> QED BY <1>1, <1>3, <1>5, <2>1, <2>2
<1>7. command_of(f).options.priority = c.options.priority
  <2>1. parse_priority(f[4]) = IF f[4].sign = "-" THEN - f[4].digits ELSE f[4].digits
    BY <1>4, <1>5, PriorityParsed
  <2> QED BY <1>1, <1>4, <1>5, <2>1
<1> QED BY <1>6, <1>7

\* What Client::acquire writes has no blanks and no carriage return, so it is
\* its own tokens.
LEMMA CallTokens ==
    ASSUME NEW c \in AcquireCalls
    PROVE  tokenize(StripCR(AcquireCommand(c))) = AcquireCommand(c)
<1> DEFINE f == AcquireCommand(c)
<1>1. f \in Seq(Tokens \cup {Newline}) /\ f \in Seq(Cells) /\ Len(f) \in 4 .. 6
  BY AcquireCommandType
<1> HIDE DEF f
<1>2. f # <<>> /\ 1 \in 1 .. Len(f) /\ Len(f) \in 1 .. Len(f)
  BY <1>1
<1>3. \A i \in 1 .. Len(f) : f[i] # CarriageReturn /\ f[i] # Blank
  <2> SUFFICES ASSUME NEW i \in 1 .. Len(f) PROVE f[i] # CarriageReturn /\ f[i] # Blank
    OBVIOUS
  <2>1. f[i] \in Tokens \cup {Newline}
    BY <1>1, ElementOfSeq
  <2> QED BY <2>1, CellsTold
<1>4. StripCR(f) = f
  BY <1>1, <1>2, <1>3, StripCRText
<1>5. tokenize(f) = f
  BY <1>1, <1>2, <1>3, TokenizeText
<1> QED BY <1>4, <1>5 DEF f

\* For all widths, units and commands of one line: the size and the priority
\* of an acquire arrive as they were meant or the line is refused (parse_size,
\* parse_priority, Client::acquire).
THEOREM NumbersCorrect == Spec => []NumbersArrive
<1>1. ASSUME FrameInv, ReplyInv PROVE NumbersArrive
  <2> DEFINE f == tokenize(StripCR(command))
  <2> SUFFICES ASSUME kind # "raw", SingleLine, received # NoCall, received.verb = "acquire"
               PROVE  /\ received.bytes = f[3].digits * Units[f[3].unit]
                      /\ received.bytes <= MaxBytes
                      /\ call # NoCall =>
                            /\ received.bytes = call.bytes
                            /\ received.options.priority = call.options.priority
                      /\ call = NoCall /\ Len(f) > 3 =>
                            received.options.priority =
                                IF f[4].sign = "-" THEN - f[4].digits ELSE f[4].digits
    BY DEF NumbersArrive
  <2>1. handled # <<>> /\ ReceivedAsSent
    BY <1>1 DEF ReplyInv, ReceivedAsSent
  <2>2. Len(handled) = 1 /\ handled[1] = StripCR(command) /\ command \in Seq(Cells) /\ CommandOK
    BY <1>1, <2>1, LineIsCommand
  <2>3. parse_error(f) = "None" /\ received = command_of(f) /\ command_of(f).verb = "acquire"
    BY <2>1, <2>2 DEF ReceivedAsSent
  <2>4. f \in Seq(Cells)
    <3>1. StripCR(command) \in Seq(Cells)
      BY <2>2, StripCRText
    <3> QED BY <3>1, TokenizeText
  <2>5. call # NoCall => call \in AcquireCalls /\ f = AcquireCommand(call)
    BY <2>2, CallTokens DEF CommandOK
  <2> HIDE DEF f
  <2>6. /\ Len(f) \in 3 .. 6
        /\ received.bytes = parse_size(f[3]) /\ parse_size(f[3]) # NoValue
        /\ Len(f) >= 4 => /\ received.options.priority = parse_priority(f[4])
                          /\ parse_priority(f[4]) # NoValue
    BY <2>3, <2>4, AcquireParsed
  <2>7. f[3] \in Cells /\ (Len(f) >= 4 => f[4] \in Cells)
    <3>1. 3 \in 1 .. Len(f) /\ (Len(f) >= 4 => 4 \in 1 .. Len(f))
      BY <2>6
    <3> QED BY <2>4, <3>1, ElementOfSeq
  <2>8. received.bytes = f[3].digits * Units[f[3].unit] /\ received.bytes <= MaxBytes
    BY <2>6, <2>7, SizeParsed
  <2>9. call # NoCall => /\ received.bytes = call.bytes
                         /\ received.options.priority = call.options.priority
    BY <2>3, <2>4, <2>5, CallNumbers
  <2>10. Len(f) > 3 => received.options.priority =
                           IF f[4].sign = "-" THEN - f[4].digits ELSE f[4].digits
    <3>1. Len(f) > 3 => Len(f) >= 4
      BY <2>6
    <3> QED BY <2>6, <2>7, <3>1, PriorityParsed
  <2> QED BY <2>8, <2>9, <2>10
<1> QED BY <1>1, ExchangeInvariance, PTL

-----------------------------------------------------------------------------
(***************************************************************************)
(* The client stops reading at the end of its answer.                      *)
(***************************************************************************)

\* No part of an answer looks complete, but for that of a listing that is taken
\* for one line and that of one with a row that looks like its end.
Whole(text) ==
    \A m \in 1 .. Len(text) :
        Complete(SubSeq(text, 1, m)) =>
            \/ m = Len(text)
            \/ /\ m > 1 /\ text[1] = Word("OK") /\ text[2] = Newline
               /\ TakenForOneLine \/ text[m - 1] = Word("pathEND")

WholeInv ==
    kind # "raw" /\ client \in Listening =>
        /\ answers # <<>> => Whole(answers[1])
        /\ client # "reading" => Complete(response)

\* What Complete sees of a part of an answer.
LEMMA PartOfAnswer ==
    ASSUME NEW S, NEW t \in Seq(S), NEW m \in 1 .. Len(t)
    PROVE  LET p == SubSeq(t, 1, m) IN
           /\ Len(p) = m /\ p # <<>> /\ m \in Nat
           /\ \A i \in 1 .. m : p[i] = t[i]
<1> DEFINE p == SubSeq(t, 1, m)
<1>1. m \in Nat /\ Len(p) = m /\ p \in Seq(S) /\ \A i \in 1 .. m : p[i] = t[i]
  OBVIOUS
<1> HIDE DEF p
<1>2. p # <<>>
  BY <1>1, EmptySeq
<1> QED BY <1>1, <1>2 DEF p

LEMMA OneLineWhole ==
    ASSUME NEW code
    PROVE  Whole(OneLine(code))
<1> DEFINE t == OneLine(code)
<1>1. /\ t \in Seq({Word(code), Newline}) /\ Len(t) = 2 /\ t[1] = Word(code)
  BY OneLineText
<1> HIDE DEF t
<1> SUFFICES ASSUME NEW m \in 1 .. Len(t), Complete(SubSeq(t, 1, m)), m # Len(t) PROVE FALSE
  BY DEF Whole, t
<1> DEFINE p == SubSeq(t, 1, m)
<1>2. m = 1 /\ Len(p) = 1 /\ p[1] = Word(code)
  BY <1>1, PartOfAnswer
<1> HIDE DEF p
<1>3. ~ EndsInEND(p) /\ ~ Contains(p, Newline)
  BY <1>2, WordsTold DEF EndsInEND, Contains
<1> QED BY <1>3 DEF Complete, p

LEMMA ListingWhole ==
    ASSUME Multiline \/ TakenForOneLine, NEW verb \in Queries, NEW t \in Listings(verb)
    PROVE  Whole(t)
<1>1. PICK T : \E rows \in Seq(T) : t = Listing(rows) /\ "END" \notin T
  BY ListingsAreListings
<1>2. PICK rows \in Seq(T) : t = Listing(rows) /\ "END" \notin T
  BY <1>1
<1>3. /\ \E S : t \in Seq(S)
      /\ t[1] = Word("OK") /\ t[2] = Newline /\ Len(t) \in Nat
      /\ \A m \in 2 .. Len(t) : t[m - 1] = Word("END") => m = Len(t)
  BY <1>2, ListingText
<1>4. PICK S : t \in Seq(S)
  BY <1>3
<1> SUFFICES ASSUME NEW m \in 1 .. Len(t), Complete(SubSeq(t, 1, m))
             PROVE  m = Len(t) \/ (m > 1 /\ (TakenForOneLine \/ t[m - 1] = Word("pathEND")))
  BY <1>3 DEF Whole
<1> DEFINE p == SubSeq(t, 1, m)
<1>5. Len(p) = m /\ m \in Nat /\ \A i \in 1 .. m : p[i] = t[i]
  BY <1>4, PartOfAnswer
<1>6. Complete(p)
  OBVIOUS
<1> HIDE DEF p
<1>7. ~ IsError(p)
  BY <1>3, <1>5 DEF IsError
<1>8. CASE Multiline
  <2>1. EndsInEND(p)
    BY <1>6, <1>7, <1>8 DEF Complete
  <2>2. m > 1 /\ p[m - 1] \in {Word("END"), Word("pathEND")}
    BY <1>5, <2>1 DEF EndsInEND
  <2>3. m - 1 \in 1 .. m /\ m \in 2 .. Len(t)
    BY <1>3, <1>5, <2>2
  <2>4. t[m - 1] \in {Word("END"), Word("pathEND")}
    BY <1>5, <2>2, <2>3
  <2> QED BY <1>3, <2>2, <2>3, <2>4
<1>9. CASE ~ Multiline
  <2>1. Contains(p, Newline)
    BY <1>6, <1>7, <1>9 DEF Complete
  <2>2. p[1] # Newline
    BY <1>3, <1>5, WordsTold
  <2>3. PICK i \in 1 .. Len(p) : p[i] = Newline
    BY <2>1 DEF Contains
  <2>4. i # 1 /\ i \in 1 .. m
    BY <1>5, <2>2, <2>3
  <2>5. m > 1
    BY <1>5, <2>4
  <2> QED BY <1>9, <2>5
<1> QED BY <1>8, <1>9

\* The word that a session takes for the verb of the first line is the first
\* one of the command as it is spelled.
LEMMA VerbOfLine ==
    ASSUME FrameInv, ReplyInv, kind # "raw", client # "WriteFailed", session = "processing",
           NewlineAt # 0, handled = <<>>, NEW line,
           line = StripCR(SubSeq(input, 1, NewlineAt - 1)), tokenize(line) # <<>>
    PROVE  LET s == Spelled(command) IN
           /\ s \in Seq(Cells) /\ s # <<>> /\ FirstToken(s) \in 1 .. Len(s)
           /\ tokenize(line)[1] = s[FirstToken(s)]
<1> DEFINE s == Spelled(command)
<1>1. /\ {wire, input, toServer} \subseteq Seq(Cells) /\ InStep /\ CommandOK
      /\ wire = s \o <<Newline>>
  BY DEF FrameInv, FrameTypeOK, ReplyInv, CommandMeant
<1>2. s \in Seq(Cells)
  BY <1>1, SpelledText DEF CommandOK
<1> HIDE DEF s
<1>3. /\ Len(s) \in Nat /\ Len(wire) = Len(s) + 1 /\ \A i \in 1 .. Len(s) : wire[i] = s[i]
  <2>1. Newline \in Cells
    BY DEF Cells
  <2> QED BY <1>1, <1>2, <2>1
<1>4. Position = 0
  <2>1. Newlines(wire) \subseteq 1 .. Len(wire)
    BY <1>1, NewlinesFinite
  <2>2. LinesBy(wire, Position) = 0
    BY <1>1 DEF InStep
  <2> SUFFICES ASSUME Position # 0 PROVE FALSE
    OBVIOUS
  <2>3. Position \in Newlines(wire) /\ 0 < Position /\ Position \in Int
    BY <1>1, <2>1 DEF InStep
  <2>4. LinesBy(wire, 0) \in Nat /\ LinesBy(wire, 0) < LinesBy(wire, Position)
    <3>1. wire \in Seq(Cells) /\ 0 \in Int /\ 0 <= Position
      BY <1>1, <2>3
    <3> HIDE DEF Position
    <3> QED BY <2>3, <3>1, LinesByMonotone
  <2> QED BY <2>2, <2>4
<1>5. /\ \A i \in 1 .. Len(input) : input[i] = wire[i]
      /\ Len(input) \in Nat /\ Len(input) <= Len(wire)
  <2>1. Len(input) \in Nat /\ Len(toServer) \in Nat /\ Len(wire) \in Nat
    BY <1>1
  <2>2. \A i \in 1 .. Len(input) : input[i] = wire[0 + i]
    BY <1>1, <1>4 DEF InStep
  <2> QED BY <1>4, <2>1, <2>2 DEF Position
<1>6. NewlineAt \in 1 .. Len(input)
  BY <1>1, <1>5, NewlineAtIsFirst
<1> DEFINE n == NewlineAt - 1
           q == SubSeq(input, 1, n)
<1>7. n \in Nat /\ n < Len(input)
  BY <1>5, <1>6
<1>8. q \in Seq(Cells) /\ Len(q) = n /\ \A i \in 1 .. n : q[i] = input[i]
  <2>1. input \in Seq(Cells)
    BY <1>1
  <2> HIDE DEF n
  <2> QED BY <1>5, <1>7, <2>1
<1>9. line = StripCR(q)
  OBVIOUS
<1> HIDE DEF n, q
<1>10. /\ line \in Seq(Cells) /\ Len(line) <= Len(q)
       /\ \A i \in 1 .. Len(line) : line[i] = q[i]
  BY <1>8, <1>9, StripCRText
<1>11. Len(line) \in Nat /\ Len(line) <= Len(s)
  BY <1>3, <1>5, <1>7, <1>8, <1>10
<1>12. \A i \in 1 .. Len(line) : line[i] = s[i]
  <2> SUFFICES ASSUME NEW i \in 1 .. Len(line) PROVE line[i] = s[i]
    OBVIOUS
  <2>1. i \in 1 .. n /\ i \in 1 .. Len(input) /\ i \in 1 .. Len(s)
    BY <1>5, <1>7, <1>8, <1>10, <1>11
  <2> QED BY <1>3, <1>5, <1>8, <1>10, <2>1
<1>13. line # <<>> /\ FirstToken(line) \in 1 .. Len(line) /\ tokenize(line)[1] = line[FirstToken(line)]
  BY <1>10, TokenizeText
<1>14. s # <<>> /\ 1 \in 1 .. Len(line)
  <2>1. 1 \in 1 .. Len(line)
    BY <1>11, <1>13
  <2>2. Len(s) # 0
    BY <1>11, <2>1
  <2> QED BY <2>1, <2>2
<1>15. FirstToken(line) = FirstToken(s)
  BY <1>12, <1>13, <1>14 DEF FirstToken
<1>16. FirstToken(s) \in 1 .. Len(s)
  BY <1>11, <1>13, <1>15
<1> QED BY <1>2, <1>12, <1>13, <1>14, <1>15, <1>16 DEF s

\* A command that gpumemctl has parsed is not broken in its verb.
LEMMA VerbOfCommand ==
    ASSUME CommandOK, Accepted, kind = "ctl"
    PROVE  tokenize(command)[1] = Spelled(command)[FirstToken(Spelled(command))]
<1> DEFINE s == Spelled(command)
           F == FirstToken(command)
<1>1. command \in Seq(Cells \cup BrokenTokens) /\ HasVerb(tokenize(command))
  BY DEF CommandOK, Accepted, parse_error
<1>2. /\ command # <<>> /\ F \in 1 .. Len(command)
      /\ tokenize(command)[1] = command[F] /\ command[F].kind = "word"
  BY <1>1, TokenizeText DEF HasVerb
<1>3. CASE BrokenAt(command) = {}
  BY <1>2, <1>3, SpelledText DEF CommandOK
<1>4. CASE BrokenAt(command) # {}
  <2>1. PICK i \in BrokenAt(command) : TRUE
    BY <1>4
  <2>2. /\ i \in 1 .. Len(command) /\ Len(s) >= i - 1 /\ s \in Seq(Cells)
        /\ \A k \in 1 .. i - 1 : s[k] = command[k]
    BY <2>1, SpelledText DEF CommandOK
  <2> HIDE DEF s
  <2>3. command[i].kind = "broken"
    BY <2>1 DEF BrokenAt
  <2>4. F < i
    <3>1. i # F
      BY <1>2, <2>3
    <3>2. CASE command[1] = Blank
      <4>1. F = 2 /\ i # 1
        BY <1>2, <2>3, <3>2, CellsTold DEF FirstToken
      <4> QED BY <2>2, <3>1, <4>1
    <3>3. CASE command[1] # Blank
      <4>1. F = 1
        BY <3>3 DEF FirstToken
      <4> QED BY <2>2, <3>1, <4>1
    <3> QED BY <3>2, <3>3
  <2>5. F \in Nat /\ F >= 1 /\ i \in Nat
    BY <1>2, <2>2
  <2>6. 1 \in 1 .. i - 1 /\ F \in 1 .. i - 1 /\ Len(s) # 0
    BY <2>2, <2>4, <2>5
  <2>7. s # <<>> /\ s[1] = command[1] /\ s[F] = command[F]
    BY <2>2, <2>6
  <2>8. FirstToken(s) = F
    BY <1>2, <2>7 DEF FirstToken
  <2> QED BY <1>2, <2>7, <2>8 DEF s
<1> QED BY <1>3, <1>4

\* A query is known for a listing unless it is one of the cases that are taken
\* for one line.
LEMMA QueryIsMultiline ==
    ASSUME FrameInv, ReplyInv, kind # "raw", client # "WriteFailed", session = "processing",
           NewlineAt # 0, handled = <<>>, NEW line,
           line = StripCR(SubSeq(input, 1, NewlineAt - 1)), HasVerb(tokenize(line)),
           tokenize(line)[1].text \in Queries
    PROVE  Multiline \/ TakenForOneLine
<1> DEFINE s == Spelled(command)
           v == s[FirstToken(s)]
<1>1. /\ s \in Seq(Cells) /\ s # <<>> /\ FirstToken(s) \in 1 .. Len(s)
      /\ tokenize(line)[1] = v
  BY VerbOfLine DEF HasVerb
<1>2. v.kind = "word" /\ v.text \in Queries
  BY <1>1 DEF HasVerb
<1>3. v = Word(v.text)
  <2>1. v \in Cells
    <3> HIDE DEF s
    <3> QED BY <1>1, ElementOfSeq
  <2> HIDE DEF v
  <2>2. v \in [kind : {"word"}, text : STRING]
    BY <1>2, <2>1, CellsTold DEF Cells, Tokens
  <2> QED BY <2>2 DEF Word
<1>4. CommandOK /\ Accepted
  BY DEF ReplyInv, CommandMeant
<1>5. CASE kind = "library"
  <2>1. s = command /\ \A i \in DOMAIN command : command[i] = CarriageReturn => i = Len(command)
    BY <1>4, <1>5, LibrarySingle, SpelledText DEF SingleLine, CommandOK
  <2>2. CASE command[1] = Blank
    BY <1>5, <2>2 DEF TakenForOneLine
  <2>3. CASE command[1] # Blank
    <3>1. v = command[1]
      BY <2>1, <2>3 DEF FirstToken
    <3>2. Len(command) \in Nat /\ DOMAIN command = 1 .. Len(command)
      BY <1>1, <2>1
    <3>3. Len(command) > 1 /\ command[2] = CarriageReturn => Len(command) = 2
      BY <2>1, <3>2
    <3> HIDE DEF v
    <3> QED BY <1>2, <1>5, <3>1, <3>3 DEF Multiline, TakenForOneLine
  <2> QED BY <2>2, <2>3
<1>6. CASE kind = "ctl"
  <2>1. tokenize(command)[1] = v
    BY <1>4, <1>6, VerbOfCommand
  <2> HIDE DEF v
  <2> QED BY <1>2, <1>3, <1>6, <2>1 DEF Multiline, TakenForOneLine
<1> QED BY <1>4, <1>5, <1>6 DEF CommandOK

\* Whether an answer looks complete depends on the command only.
LEMMA CompleteKept ==
    ASSUME UNCHANGED <<kind, command, response>>
    PROVE  Complete(response)' <=> Complete(response)
BY DEF Complete, Multiline, EndsInEND, IsError

LEMMA WholeInit == Init => WholeInv
BY DEF Init, WholeInv, Listening

LEMMA WholeClientRead == WholeInv /\ ClientRead => WholeInv'
<1> SUFFICES ASSUME WholeInv, ClientRead PROVE WholeInv'
  OBVIOUS
<1>1. /\ client = "reading" /\ kind # "raw"
      /\ UNCHANGED <<kind, command, answers>>
      /\ client' # "reading" => Complete(response')
  BY DEF ClientRead, Finish, asked, parser
<1>2. client' # "reading" => Complete(response)'
  BY <1>1 DEF Complete, Multiline, EndsInEND, IsError
<1>3. answers' # <<>> => Whole(answers'[1])
  BY <1>1 DEF WholeInv, Listening
<1>4. answers' # <<>> => Whole(answers[1])'
  BY <1>1, <1>3 DEF Whole, Complete, Multiline, EndsInEND, IsError, TakenForOneLine
<1> QED BY <1>2, <1>4 DEF WholeInv

\* A session answers a client that listens: for the first time, or behind its
\* first answer.
LEMMA WholeAnswer ==
    ASSUME WholeInv, kind # "raw", UNCHANGED <<kind, command, client, response>>,
           NEW t, Send(t), \E S : t \in Seq(S),
           client \in Listening => (NoAnswer /\ Whole(t)) \/ Answered
    PROVE  WholeInv'
<1> SUFFICES ASSUME client \in Listening
             PROVE  Whole(answers[1])' /\ (client # "reading" => Complete(response)')
  BY DEF WholeInv
<1>1. Whole(answers'[1])
  <2>1. CASE NoAnswer /\ Whole(t)
    <3>1. answers' = <<>> \o <<t>>
      BY <2>1 DEF Send, NoAnswer
    <3>2. <<>> \o <<t>> = <<t>>
      OBVIOUS
    <3>3. answers'[1] = t
      BY <3>1, <3>2
    <3> QED BY <2>1, <3>3
  <2>2. CASE Answered
    <3>1. PICK R : answers \in Seq(Seq(R))
      BY <2>2 DEF Answered
    <3>2. PICK T : t \in Seq(T)
      OBVIOUS
    <3> DEFINE S == Seq(R) \cup {t}
    <3>3. answers \in Seq(S) /\ t \in S
      <4>1. Seq(R) \subseteq S /\ t \in S
        OBVIOUS
      <4> HIDE DEF S
      <4> QED BY <3>1, <4>1, SeqMonotonic
    <3> HIDE DEF S
    <3>4. answers # <<>>
      BY <2>2 DEF Answered
    <3>5. answers'[1] = answers[1]
      BY <3>3, <3>4, FirstKept
    <3> QED BY <3>4, <3>5 DEF WholeInv
  <2> QED BY <2>1, <2>2
<1>2. Whole(answers[1])'
  BY <1>1 DEF Whole, Complete, Multiline, EndsInEND, IsError, TakenForOneLine
<1> QED BY <1>2, CompleteKept DEF WholeInv

LEMMA WholeProcessLine == FrameInv /\ ReplyInv /\ WholeInv /\ ProcessLine => WholeInv'
<1> SUFFICES ASSUME FrameInv, ReplyInv, WholeInv, ProcessLine, kind # "raw" PROVE WholeInv'
  BY DEF ProcessLine, WholeInv, asked
<1> DEFINE line == StripCR(SubSeq(input, 1, NewlineAt - 1))
<1>1. /\ session = "processing" /\ NewlineAt # 0
      /\ UNCHANGED <<kind, command, client, response>>
  BY DEF ProcessLine, asked, reader
<1>2. client \in Listening => IF handled = <<>> THEN NoAnswer ELSE Answered
  BY <1>1, Unanswered
<1>3. \/ parse_error(tokenize(line)) = "None" /\ dispatch(tokenize(line)[1].text)
      \/ /\ parse_error(tokenize(line)) # "None"
         /\ outcomes' = Append(outcomes, parse_error(tokenize(line)))
         /\ Send(OneLine(format_parse_error(parse_error(tokenize(line)))))
  BY DEF ProcessLine
<1>4. PICK t, error : Send(t) /\ Reply(t, line, error)
  <2>1. \E t, error : /\ Send(t) /\ outcomes' = Append(outcomes, error)
                      /\ Reply(t, line, error)
    <3> HIDE DEF line
    <3> QED BY <1>3, LineReplies
  <2> QED BY <2>1
<1>5. client \in Listening /\ handled = <<>> => Whole(t)
  <2> SUFFICES ASSUME client \in Listening, handled = <<>> PROVE Whole(t)
    OBVIOUS
  <2>1. CASE \E code : t = OneLine(code)
    BY <2>1, OneLineWhole
  <2>2. CASE /\ HasVerb(tokenize(line)) /\ tokenize(line)[1].text \in Queries
             /\ t \in Listings(tokenize(line)[1].text)
    <3>1. client # "WriteFailed"
      BY DEF Listening
    <3>2. Multiline \/ TakenForOneLine
      BY <1>1, <2>2, <3>1, QueryIsMultiline
    <3> QED BY <2>2, <3>2, ListingWhole
  <2> HIDE DEF line
  <2> QED BY <1>4, <2>1, <2>2 DEF Reply
<1>6. \E S : t \in Seq(S)
  <2> HIDE DEF line
  <2> QED BY <1>4 DEF Reply
<1> QED BY <1>1, <1>2, <1>4, <1>5, <1>6, WholeAnswer

LEMMA WholeNext == FrameInv /\ ReplyInv /\ WholeInv /\ [Next]_vars => WholeInv'
<1> SUFFICES ASSUME FrameInv, ReplyInv, WholeInv, [Next]_vars, kind # "raw" PROVE WholeInv'
  <2>1. [Next]_vars => kind' = kind
    BY DEF Next, ClientStep, SessionStep, Connect, ClientRead, ClientEof, RawClose, SessionRead,
           ProcessTooLarge, NeedMore, ProcessLine, SessionEof, SessionStops, DaemonDies, vars, asked
  <2> QED BY <2>1 DEF WholeInv
<1>1. ASSUME UNCHANGED <<kind, command, client, response, answers>> PROVE WholeInv'
  <2>1. Whole(answers[1])' <=> Whole(answers[1])
    BY <1>1 DEF Whole, Complete, Multiline, EndsInEND, IsError, TakenForOneLine
  <2> QED BY <1>1, <2>1, CompleteKept DEF WholeInv
<1>2. CASE Connect
  <2>1. answers' = <<>> /\ (client' \in Listening => client' = "reading")
    BY <1>2 DEF Connect, Finish, FrameInv, Listening, parser
  <2> QED BY <2>1 DEF WholeInv
<1>3. CASE ClientRead
  BY <1>3, WholeClientRead
<1>4. CASE ClientEof \/ RawClose
  <2>1. client' = "ReadFailed"
    BY <1>4 DEF ClientEof, RawClose, Finish
  <2> QED BY <2>1 DEF WholeInv, Listening
<1>5. CASE SessionRead \/ NeedMore \/ SessionStops \/ DaemonDies \/ UNCHANGED vars
  <2>1. UNCHANGED <<kind, command, client, response, answers>>
    BY <1>5 DEF SessionRead, NeedMore, SessionStops, DaemonDies, vars, asked, reader, parser
  <2> QED BY <1>1, <2>1
<1>6. CASE ProcessTooLarge
  <2> DEFINE t == OneLine("request_too_large")
  <2>1. /\ session = "processing" /\ TooLarge /\ UNCHANGED <<kind, command, client, response>>
        /\ Send(t)
    BY <1>6 DEF ProcessTooLarge, asked, reader
  <2>2. client \in Listening => NoAnswer \/ Answered
    BY <2>1, Unanswered
  <2>3. Whole(t) /\ \E S : t \in Seq(S)
    BY OneLineWhole, OneLineText
  <2> HIDE DEF t
  <2> QED BY <2>1, <2>2, <2>3, WholeAnswer
<1>7. CASE ProcessLine
  BY <1>7, WholeProcessLine
<1>8. CASE SessionEof
  <2>1. UNCHANGED <<kind, command, client, response>>
    BY <1>8 DEF SessionEof, asked, reader
  <2>2. CASE client \in Listening
    <3>1. Answered /\ (UNCHANGED answers \/ Send(OneLine("invalid_request")))
      BY <1>8, <2>2, EofAnswers
    <3>2. CASE UNCHANGED answers
      BY <1>1, <2>1, <3>2
    <3>3. CASE Send(OneLine("invalid_request"))
      <4>1. \E S : OneLine("invalid_request") \in Seq(S)
        BY OneLineText
      <4> QED BY <2>1, <3>1, <3>3, <4>1, WholeAnswer
    <3> QED BY <3>1, <3>2, <3>3
  <2>3. CASE client \notin Listening
    BY <2>1, <2>3 DEF WholeInv
  <2> QED BY <2>2, <2>3
<1> QED BY <1>2, <1>3, <1>4, <1>5, <1>6, <1>7, <1>8 DEF Next, ClientStep, SessionStep

\* What is complete and begins like an answer that has no complete part is all
\* of it.
LEMMA WholeSuffices ==
    ASSUME FrameInv, ReplyInv, WholeInv
    PROVE  ResponseWhole
<1> DEFINE a == answers[1]
           m == Len(response)
<1> SUFFICES ASSUME client \in {"None", "BrokerRejected"}, kind # "raw"
             PROVE  /\ answers # <<>>
                    /\ SingleLine => IsPrefix(response, a)
                    /\ \/ IsPrefix(a, response)
                       \/ /\ IsPrefix(OneLine("OK"), response)
                          /\ TakenForOneLine \/ RowLooksLikeEnd
  BY DEF ResponseWhole
<1>1. response # <<>> /\ Answered
  BY DEF ReplyInv, Listening, NoAnswer
<1>2. PICK S : answers \in Seq(Seq(S)) /\ {response, toClient} \subseteq Seq(S)
  BY <1>1 DEF Answered
<1>3. a \in Seq(S) /\ response \in Seq(S) /\ Len(toClient) \in Nat
  <2>1. 1 \in 1 .. Len(answers)
    BY <1>1, <1>2, EmptySeq DEF Answered
  <2> QED BY <1>2, <2>1, ElementOfSeq
<1>4. Whole(a) /\ Complete(response)
  BY <1>1 DEF WholeInv, Listening, Answered
<1>5. /\ answers # <<>> /\ (SingleLine => m + Len(toClient) <= Len(a))
      /\ \A i \in 1 .. m : i <= Len(a) => response[i] = a[i]
  BY <1>1 DEF Answered
<1> HIDE DEF a
<1>6. m \in Nat /\ Len(a) \in Nat /\ m # 0
  BY <1>1, <1>3, EmptySeq
<1>7. ASSUME m <= Len(a) PROVE response = SubSeq(a, 1, m) /\ SubSeq(response, 1, m) = response
  <2> HIDE DEF m
  <2>1. SubSeq(a, 1, m) \in Seq(S) /\ Len(SubSeq(a, 1, m)) = m
        /\ \A i \in 1 .. m : SubSeq(a, 1, m)[i] = a[i]
    BY <1>3, <1>6, <1>7
  <2>2. \A i \in 1 .. m : response[i] = a[i]
    BY <1>5, <1>6, <1>7
  <2>3. response = SubSeq(a, 1, m)
    BY <1>3, <2>1, <2>2, SeqEqual DEF m
  <2>4. SubSeq(response, 1, Len(response)) = response
    BY <1>3, SubSeqFull
  <2> QED BY <2>3, <2>4 DEF m
<1>8. SingleLine => IsPrefix(response, a)
  <2> SUFFICES ASSUME SingleLine PROVE IsPrefix(response, a)
    OBVIOUS
  <2>1. m <= Len(a)
    BY <1>3, <1>5, <1>6
  <2> QED BY <1>7, <2>1 DEF IsPrefix
<1>9. ASSUME Len(a) <= m PROVE IsPrefix(a, response)
  <2>1. /\ SubSeq(response, 1, Len(a)) \in Seq(S) /\ Len(SubSeq(response, 1, Len(a))) = Len(a)
        /\ \A i \in 1 .. Len(a) : SubSeq(response, 1, Len(a))[i] = response[i]
    BY <1>3, <1>6, <1>9
  <2>2. \A i \in 1 .. Len(a) : response[i] = a[i]
    BY <1>5, <1>6, <1>9
  <2>3. SubSeq(response, 1, Len(a)) = a
    BY <1>3, <2>1, <2>2, SeqEqual
  <2>4. SubSeq(a, 1, Len(a)) = a
    BY <1>3, SubSeqFull
  <2> QED BY <1>9, <2>3, <2>4 DEF IsPrefix
<1>10. ASSUME m < Len(a)
       PROVE  /\ IsPrefix(OneLine("OK"), response)
              /\ TakenForOneLine \/ RowLooksLikeEnd
  <2>1. m \in 1 .. Len(a) /\ m # Len(a) /\ m <= Len(a)
    BY <1>6, <1>10
  <2>2. Complete(SubSeq(a, 1, m))
    BY <1>4, <1>7, <2>1
  <2>3. /\ m > 1 /\ a[1] = Word("OK") /\ a[2] = Newline
        /\ TakenForOneLine \/ a[m - 1] = Word("pathEND")
    <3> HIDE DEF m
    <3> QED BY <1>4, <2>1, <2>2 DEF Whole
  <2>4. response[1] = Word("OK") /\ response[2] = Newline
    BY <1>5, <1>6, <1>10, <2>3
  <2>5. IsPrefix(OneLine("OK"), response)
    <3> DEFINE o == OneLine("OK")
    <3>1. o \in Seq({Word("OK"), Newline}) /\ Len(o) = 2 /\ o[1] = Word("OK") /\ o[2] = Newline
      BY OneLineText
    <3> HIDE DEF o
    <3>2. SubSeq(o, 1, 2) = o
      BY <3>1, SubSeqFull
    <3> DEFINE r == SubSeq(response, 1, 2)
    <3>3. r \in Seq(S) /\ Len(r) = 2 /\ r[1] = response[1] /\ r[2] = response[2]
      BY <1>3, <1>6, <2>3
    <3> HIDE DEF r
    <3>4. \A i \in 1 .. 2 : r[i] = o[i]
      BY <2>4, <3>1, <3>3
    <3>5. r = o
      BY <3>1, <3>3, <3>4, SeqEqual
    <3>6. 2 <= Len(response)
      BY <1>6, <2>3
    <3> QED BY <3>1, <3>2, <3>5, <3>6 DEF IsPrefix, r, o
  <2>6. a[m - 1] = Word("pathEND") => RowLooksLikeEnd
    <3>1. m - 1 \in 1 .. m /\ m - 1 <= Len(a)
      BY <1>6, <1>10, <2>3
    <3>2. response[m - 1] = a[m - 1]
      BY <1>5, <3>1
    <3> QED BY <2>3, <3>2 DEF RowLooksLikeEnd
  <2> QED BY <2>3, <2>5, <2>6
<1> QED BY <1>5, <1>6, <1>8, <1>9, <1>10

\* For all commands, those with blanks, carriage returns and broken words
\* included, all listings of any number of rows with any ends, and however the
\* answer is cut into reads: a client that reports an answer has all of the
\* answer to its first line, but for the listings that it takes for one line
\* and those with a row that looks like their end (Client::request,
\* is_multiline, gpumemctl's main).
THEOREM ResponseCorrect == Spec => []ResponseWhole
<1>1. Init => WholeInv
  BY WholeInit
<1>2. FrameInv /\ ReplyInv /\ WholeInv /\ [Next]_vars => WholeInv'
  BY WholeNext
<1>3. FrameInv /\ ReplyInv /\ WholeInv => ResponseWhole
  BY WholeSuffices
<1> QED BY <1>1, <1>2, <1>3, ExchangeInvariance, PTL DEF Spec

=============================================================================

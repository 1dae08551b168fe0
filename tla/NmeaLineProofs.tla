--------------------------- MODULE NmeaLineProofs ---------------------------
(* NmeaLine for every capacity of the buffer and every length of a line,   *)
(* and NmeaTokens for every number of fields and every text in them.       *)
EXTENDS NmeaTokens, TLAPS, WellFoundedInduction, SequenceTheorems

LEMMA AddCharBounds ==
    ASSUME BufferFits, addChar
    PROVE  /\ mPos' \in Nat /\ mPos' <= kMaxNmeaSize
           /\ mOverflow' \in BOOLEAN /\ holds' \in Contents
           /\ emitted' \in {"none", "line", "splice"}
<1> USE NmeaLineAssumption DEF NmeaLineTypeOK, BufferFits
<1>1. Appended \in Contents
  BY DEF Appended, Contents
<1>2. CASE mOverflow
  BY <1>2 DEF addChar, Newline
<1>3. CASE ~mOverflow /\ mPos >= kMaxNmeaSize
  BY <1>3 DEF addChar, Contents
<1>4. CASE ~mOverflow /\ ~(mPos >= kMaxNmeaSize)
  <2>1. mPos' \in {0, mPos + 1} /\ mPos + 1 <= kMaxNmeaSize
    BY <1>4 DEF addChar
  <2>2. holds' \in {"nothing", Appended} /\ "nothing" \in Contents
    BY <1>4 DEF addChar, Contents
  <2>3. emitted' \in {"none", "line", "splice"}
    BY <1>4 DEF addChar
  <2>4. mOverflow' \in BOOLEAN
    BY <1>4, Zenon DEF addChar
  <2>5. mPos' \in Nat /\ mPos' <= kMaxNmeaSize
    BY <2>1
  <2> QED BY <1>1, <2>2, <2>3, <2>4, <2>5, Zenon
<1> QED BY <1>2, <1>3, <1>4

\* No byte is ever stored outside mLine (NmeaParser.cpp:159, 168).
THEOREM BufferNeverOverruns == Spec => []BufferFits
<1>1. Init => BufferFits
  <2> SUFFICES ASSUME Init PROVE BufferFits
    OBVIOUS
  <2>1. wire \in [len: Nat \ {0}, sent: Nat] /\ wire.sent <= wire.len /\ mPos = 0
    BY NmeaLineAssumption DEF Init, WireStarts
  <2>2. mPos \in Nat /\ mPos <= kMaxNmeaSize
    BY <2>1, NmeaLineAssumption
  <2>3. holds \in Contents /\ emitted \in {"none", "line", "splice"}
    BY DEF Init, WireStarts, Contents
  <2>4. /\ mOverflow \in BOOLEAN /\ fed \in BOOLEAN
        /\ good \in BOOLEAN /\ lost \in BOOLEAN /\ active \in BOOLEAN
    BY Zenon DEF Init, WireStarts
  <2> QED BY <2>1, <2>2, <2>3, <2>4, Zenon DEF BufferFits, NmeaLineTypeOK
<1>2. BufferFits /\ [Next]_lineVars => BufferFits'
  <2> SUFFICES ASSUME BufferFits, [Next]_lineVars PROVE BufferFits'
    OBVIOUS
  <2> USE NmeaLineAssumption DEF NmeaLineTypeOK, BufferFits
  <2>1. CASE Receive
    <3>1. wire' = [wire EXCEPT !.sent = @ + 1] /\ wire'.sent <= wire'.len
      BY <2>1 DEF Receive
    <3>2. lost' \in BOOLEAN
      BY <2>1, Zenon DEF Receive
    <3>3. UNCHANGED <<fed, good, active>>
      BY <2>1 DEF Receive
    <3>4. /\ mPos' \in Nat /\ mPos' <= kMaxNmeaSize
          /\ mOverflow' \in BOOLEAN /\ holds' \in Contents
          /\ emitted' \in {"none", "line", "splice"}
      BY <2>1, AddCharBounds DEF Receive
    <3>5. wire' \in [len: Nat \ {0}, sent: Nat]
      BY <3>1
    <3> QED BY <3>1, <3>2, <3>3, <3>4, <3>5, Zenon
  <2>2. CASE Discard
    <3>1. wire' = [wire EXCEPT !.sent = @ + 1] /\ wire'.sent <= wire'.len
      BY <2>2 DEF Discard
    <3>2. wire' \in [len: Nat \ {0}, sent: Nat]
      BY <3>1
    <3>3. fed' \in BOOLEAN /\ lost' \in BOOLEAN
      BY <2>2, Zenon DEF Discard
    <3>4. emitted' = "none" /\ UNCHANGED <<mPos, mOverflow, holds, good, active>>
      BY <2>2 DEF Discard
    <3> QED BY <3>1, <3>2, <3>3, <3>4
  <2>3. CASE NextLine
    BY <2>3 DEF NextLine, Contents
  <2>4. CASE SwitchSession
    BY <2>4 DEF SwitchSession
  <2>5. CASE UNCHANGED lineVars
    BY <2>5 DEF lineVars
  <2> QED BY <2>1, <2>2, <2>3, <2>4, <2>5 DEF Next
<1> QED BY <1>1, <1>2, PTL DEF Spec

-----------------------------------------------------------------------------
\* While nothing is lost the buffer is empty, is being skipped, or is the
\* part of the current line that was sent.
UnspoiltInv ==
    /\ mOverflow => mPos = 0
    /\ ~lost => \/ mOverflow
                \/ mPos = 0 /\ wire.sent \in {0, wire.len}
                \/ mPos = wire.sent /\ holds = "current" /\ wire.sent < wire.len

LEMMA UnspoiltStep ==
    ASSUME BufferFits, UnspoiltInv, [Next]_lineVars
    PROVE  UnspoiltInv' /\ (wire' # wire /\ emitted' = "splice" => lost)
<1> USE NmeaLineAssumption DEF NmeaLineTypeOK, BufferFits, UnspoiltInv
<1>1. CASE Receive
  <2>1. /\ wire' = [wire EXCEPT !.sent = @ + 1] /\ wire.sent < wire.len
        /\ lost' = (lost /\ ~Newline)
        /\ addChar
    BY <1>1 DEF Receive
  <2>2. CASE mOverflow
    <3>1. mOverflow' = ~Newline /\ emitted' = "none" /\ UNCHANGED <<mPos, holds>>
      BY <2>1, <2>2 DEF addChar
    <3>2. CASE Newline
      BY <2>1, <2>2, <3>1, <3>2 DEF Newline
    <3>3. CASE ~Newline
      BY <2>1, <2>2, <3>1, <3>3
    <3> QED BY <3>2, <3>3
  <2>3. CASE ~mOverflow /\ mPos >= kMaxNmeaSize
    BY <2>1, <2>3 DEF addChar
  <2>4. CASE ~mOverflow /\ ~(mPos >= kMaxNmeaSize)
    BY <2>1, <2>4 DEF addChar, Newline, Appended
  <2> QED BY <2>2, <2>3, <2>4
<1>2. CASE Discard
  BY <1>2 DEF Discard
<1>3. CASE NextLine
  BY <1>3 DEF NextLine
<1>4. CASE SwitchSession
  BY <1>4 DEF SwitchSession
<1>5. CASE UNCHANGED lineVars
  BY <1>5 DEF lineVars
<1> QED BY <1>1, <1>2, <1>3, <1>4, <1>5 DEF Next

\* A sentence spliced of several lines is reported only after a loss.
THEOREM SpliceNeedsLoss == Spec => SplicedOnlyAfterLoss
<1>1. Init => UnspoiltInv
  BY DEF Init, WireStarts, UnspoiltInv
<1>2. BufferFits /\ UnspoiltInv /\ [Next]_lineVars => UnspoiltInv'
  BY UnspoiltStep
<1>3. BufferFits /\ UnspoiltInv /\ [Next]_lineVars
        => [wire' # wire /\ emitted' = "splice" => lost]_lineVars
  BY UnspoiltStep
<1> QED
  BY <1>1, <1>2, <1>3, BufferNeverOverruns, PTL DEF Spec, SplicedOnlyAfterLoss, BufferFits

-----------------------------------------------------------------------------
\* From a good start, the buffer is the part of the line that was sent, and
\* at the end of a line that fits the parser is ready for the next one.
GoodInv ==
    good /\ fed =>
        \/ /\ wire.sent < wire.len /\ wire.sent <= kMaxNmeaSize
           /\ ~mOverflow /\ mPos = wire.sent
           /\ mPos > 0 => holds = "current"
        \/ wire.sent < wire.len /\ wire.sent > kMaxNmeaSize
        \/ /\ wire.sent = wire.len
           /\ wire.len <= kMaxNmeaSize =>
                /\ mPos = 0 /\ ~mOverflow
                /\ wire.len >= MinSentence => emitted = "line"

LEMMA GoodStep ==
    ASSUME BufferFits, GoodInv, [Next]_lineVars PROVE GoodInv'
<1> USE NmeaLineAssumption DEF NmeaLineTypeOK, BufferFits, GoodInv
<1>1. CASE Receive
  <2>1. /\ wire' = [wire EXCEPT !.sent = @ + 1] /\ wire.sent < wire.len
        /\ UNCHANGED <<good, fed>>
        /\ addChar
    BY <1>1 DEF Receive
  <2>2. CASE wire.sent > kMaxNmeaSize
    BY <2>1, <2>2
  <2>3. CASE wire.sent = kMaxNmeaSize
    BY <2>1, <2>3
  <2>4. CASE good /\ fed /\ wire.sent < kMaxNmeaSize
    <3>1. ~mOverflow /\ mPos = wire.sent /\ Appended = "current"
      BY <2>1, <2>4 DEF Appended
    <3>2. /\ mPos' = IF Newline THEN 0 ELSE mPos + 1
          /\ holds' = IF Newline THEN "nothing" ELSE "current"
          /\ emitted' = IF ~Newline \/ mPos + 1 < MinSentence THEN "none" ELSE "line"
          /\ UNCHANGED mOverflow
      BY <2>1, <2>4, <3>1 DEF addChar
    <3>3. CASE Newline
      BY <2>1, <2>4, <3>1, <3>2, <3>3 DEF Newline
    <3>4. CASE ~Newline
      BY <2>1, <2>4, <3>1, <3>2, <3>4 DEF Newline
    <3> QED BY <3>3, <3>4
  <2>5. CASE ~(good /\ fed)
    BY <2>1, <2>5
  <2> QED BY <2>2, <2>3, <2>4, <2>5
<1>2. CASE Discard
  BY <1>2 DEF Discard
<1>3. CASE NextLine
  <2>1. wire.sent = wire.len /\ wire'.sent = 0 /\ wire'.len > 0
    BY <1>3 DEF NextLine
  <2>2. UNCHANGED <<mPos, mOverflow>> /\ (good' => good /\ fed /\ wire.len <= kMaxNmeaSize)
    BY <1>3 DEF NextLine
  <2> QED BY <2>1, <2>2
<1>4. CASE SwitchSession
  BY <1>4 DEF SwitchSession
<1>5. CASE UNCHANGED lineVars
  BY <1>5 DEF lineVars
<1> QED BY <1>1, <1>2, <1>3, <1>4, <1>5 DEF Next

\* As long as every byte is fed and no line is too long, every sentence is
\* reported.
THEOREM CleanLinesReported == Spec => []CleanLineReported
<1>1. Init => GoodInv
  BY NmeaLineAssumption DEF Init, WireStarts, GoodInv
<1>2. BufferFits /\ GoodInv /\ [Next]_lineVars => GoodInv'
  BY GoodStep
<1>3. BufferFits /\ GoodInv => CleanLineReported
  BY NmeaLineAssumption DEF GoodInv, CleanLineReported, BufferFits, NmeaLineTypeOK
<1> QED BY <1>1, <1>2, <1>3, BufferNeverOverruns, PTL DEF Spec

-----------------------------------------------------------------------------
(* Induction and recursion                                                 *)

\* A set of numbers that is not empty has a least one.
LEMMA LeastNumber ==
    ASSUME NEW T \in SUBSET Nat, T # {}
    PROVE  \E n \in T : \A t \in T : n <= t
<1> DEFINE R == {p \in Nat \X Nat : p[1] < p[2]}
<1>1. IsWellFoundedOn(R, Nat)
  BY NatLessThanWellFounded DEF OpToRel
<1> HIDE DEF R
<1>2. PICK n \in T : \A t \in T : ~(<<t, n>> \in R)
  BY <1>1, WFMin
<1>3. \A t \in T : ~(t < n)
  BY <1>2 DEF R
<1> QED
  BY <1>3

\* What holds of 0 and is passed on up to m holds up to m.
LEMMA IntervalInduction ==
    ASSUME NEW m \in Nat, NEW S, 0 \in S, \A i \in 1 .. m : i - 1 \in S => i \in S
    PROVE  \A i \in 0 .. m : i \in S
<1> DEFINE T == {i \in 0 .. m : i \notin S}
<1> SUFFICES ASSUME T # {} PROVE FALSE
  OBVIOUS
<1>1. T \in SUBSET Nat
  OBVIOUS
<1> HIDE DEF T
<1>2. PICK n \in T : \A t \in T : n <= t
  BY <1>1, LeastNumber
<1>3. n \in 1 .. m /\ n \notin S
  BY <1>2 DEF T
<1>4. n - 1 \in 0 .. m /\ ~(n <= n - 1)
  BY <1>3
<1>5. n - 1 \in S
  BY <1>2, <1>4 DEF T
<1> QED
  BY <1>3, <1>5

\* The recursion that starts with a and goes on with h has a solution in D.
Solvable(D, a, m, h) ==
    \E g \in [0 .. m -> D] :
       \A i \in 0 .. m : g[i] = IF i = 0 THEN a ELSE h[<<i, g[i - 1]>>]

\* Every recursion over an interval has a solution.
LEMMA RecursionExists ==
    ASSUME NEW D, NEW a \in D, NEW m \in Nat, NEW h \in [(1 .. m) \X D -> D]
    PROVE  Solvable(D, a, m, h)
<1> DEFINE S == {n \in 0 .. m : \E g \in [0 .. n -> D] :
                    \A i \in 0 .. n : g[i] = IF i = 0 THEN a ELSE h[<<i, g[i - 1]>>]}
<1>1. 0 \in S
  <2> DEFINE z == [n \in 0 .. 0 |-> a]
  <2>1. z \in [0 .. 0 -> D] /\ 0 \in 0 .. m
    OBVIOUS
  <2>2. \A i \in 0 .. 0 : i = 0 /\ z[i] = a
    OBVIOUS
  <2> HIDE DEF z
  <2>3. \A i \in 0 .. 0 : z[i] = IF i = 0 THEN a ELSE h[<<i, z[i - 1]>>]
    BY <2>2
  <2> QED
    BY <2>1, <2>3
<1>2. ASSUME NEW n \in 1 .. m, n - 1 \in S PROVE n \in S
  <2>1. PICK g \in [0 .. n - 1 -> D] :
           \A i \in 0 .. n - 1 : g[i] = IF i = 0 THEN a ELSE h[<<i, g[i - 1]>>]
    BY <1>2
  <2> DEFINE f == [i \in 0 .. n |-> IF i = n THEN h[<<n, g[n - 1]>>] ELSE g[i]]
  <2>2. g[n - 1] \in D
    OBVIOUS
  <2>3. h[<<n, g[n - 1]>>] \in D
    BY <2>2
  <2>4. f \in [0 .. n -> D]
    BY <2>3
  <2>5. ASSUME NEW i \in 0 .. n
        PROVE  f[i] = IF i = 0 THEN a ELSE h[<<i, f[i - 1]>>]
    <3>1. CASE i = n
      <4>1. f[i] = h[<<n, g[n - 1]>>] /\ f[n - 1] = g[n - 1] /\ i # 0
        BY <3>1
      <4> QED
        BY <3>1, <4>1
    <3>2. CASE i # n
      <4>1. i \in 0 .. n - 1
        BY <3>2
      <4>2. f[i] = g[i] /\ (i # 0 => f[i - 1] = g[i - 1])
        BY <3>2, <4>1
      <4> HIDE DEF f
      <4> QED
        BY <2>1, <4>1, <4>2
    <3> QED
      BY <3>1, <3>2
  <2> HIDE DEF f
  <2> QED
    BY <2>4, <2>5
<1>3. \A i \in 0 .. m : i \in S
  <2> HIDE DEF S
  <2> QED
    BY <1>1, <1>2, IntervalInduction
<1> QED
  BY <1>3 DEF Solvable

-----------------------------------------------------------------------------
(* The next comma                                                          *)

\* NextComma is the end or the first comma.
LEMMA NextCommaIs ==
    ASSUME NEW line, NEW p \in Nat, NEW end \in Nat, p <= end
    PROVE  LET q == NextComma(line, p, end)
           IN  /\ q \in p .. end /\ (q = end \/ line[q] = Comma)
               /\ \A j \in p .. q - 1 : line[j] # Comma
<1> DEFINE T == {i \in p .. end : i = end \/ line[i] = Comma}
<1>1. T \in SUBSET Nat /\ end \in T
  OBVIOUS
<1>2. PICK n \in T : \A t \in T : n <= t
  <2> HIDE DEF T
  <2> QED
    BY <1>1, LeastNumber
<1>3. ASSUME NEW j \in p .. n - 1 PROVE line[j] # Comma
  <2>1. j \in p .. end /\ ~(n <= j)
    BY <1>2
  <2> QED
    BY <1>2, <2>1
<1>4. n \in p .. end /\ (n = end \/ line[n] = Comma)
  BY <1>2
<1> QED
  BY <1>3, <1>4 DEF NextComma

\* A place with no comma before it, that is a comma or the end, is NextComma's.
LEMMA NextCommaAt ==
    ASSUME NEW line, NEW p \in Nat, NEW end \in Nat, NEW c \in p .. end,
           c = end \/ line[c] = Comma, \A j \in p .. c - 1 : line[j] # Comma
    PROVE  NextComma(line, p, end) = c
<1> DEFINE q == NextComma(line, p, end)
<1>1. /\ q \in p .. end /\ (q = end \/ line[q] = Comma)
      /\ \A j \in p .. q - 1 : line[j] # Comma
  BY NextCommaIs
<1> HIDE DEF q
<1>2. ~(q < c)
  <2> SUFFICES ASSUME q < c PROVE FALSE
    OBVIOUS
  <2>1. q \in p .. c - 1 /\ q # end
    BY <1>1
  <2> QED
    BY <1>1, <2>1
<1>3. ~(c < q)
  <2> SUFFICES ASSUME c < q PROVE FALSE
    OBVIOUS
  <2>1. c \in p .. q - 1 /\ c # end
    BY <1>1
  <2> QED
    BY <1>1, <2>1
<1> QED
  BY <1>1, <1>2, <1>3 DEF q

-----------------------------------------------------------------------------
(* What the tokenizer's loop does                                          *)

LoopFrom(line, p, end) ==
    /\ p = [count \in 0 .. kMaxTokens |->
              IF count = 0 THEN Begin(line)
              ELSE LET q == NextComma(line, p[count - 1], end) IN IF q < end THEN q + 1 ELSE q]

\* The places the loop goes through exist.
LEMMA LoopExists ==
    ASSUME NEW line, Begin(line) \in Nat, End(line) \in Nat, Begin(line) <= End(line)
    PROVE  \E p : LoopFrom(line, p, End(line))
<1> DEFINE end == End(line)
           D == 0 .. end
           Step(i) == LET q == NextComma(line, i, end) IN IF q < end THEN q + 1 ELSE q
           h == [x \in (1 .. kMaxTokens) \X D |-> Step(x[2])]
<1>1. end \in Nat /\ Begin(line) \in D /\ kMaxTokens \in Nat
  BY TokensAssumption
<1>2. ASSUME NEW i \in D PROVE Step(i) \in D
  <2>1. i \in Nat /\ i <= end
    BY <1>1
  <2>2. NextComma(line, i, end) \in i .. end
    BY <1>1, <2>1, NextCommaIs
  <2> QED
    BY <1>1, <2>1, <2>2
<1> HIDE DEF Step, end
<1>3. h \in [(1 .. kMaxTokens) \X D -> D]
  BY <1>2
<1>4. \A i \in 1 .. kMaxTokens : \A d \in D : h[<<i, d>>] = Step(d)
  OBVIOUS
<1> HIDE DEF h, D
<1>5. PICK g \in [0 .. kMaxTokens -> D] :
         \A i \in 0 .. kMaxTokens : g[i] = IF i = 0 THEN Begin(line) ELSE h[<<i, g[i - 1]>>]
  <2>1. Solvable(D, Begin(line), kMaxTokens, h)
    BY <1>1, <1>3, RecursionExists, Zenon
  <2> QED
    BY <2>1 DEF Solvable
<1>6. ASSUME NEW i \in 0 .. kMaxTokens
      PROVE  g[i] = IF i = 0 THEN Begin(line) ELSE Step(g[i - 1])
  <2>1. CASE i = 0
    BY <1>5, <2>1
  <2>2. CASE i # 0
    <3>1. i \in 1 .. kMaxTokens /\ i - 1 \in 0 .. kMaxTokens
      BY <1>1, <2>2
    <3>2. g[i - 1] \in D
      BY <3>1
    <3> QED
      BY <1>4, <1>5, <2>2, <3>1, <3>2
  <2> QED
    BY <2>1, <2>2
<1>7. g = [i \in 0 .. kMaxTokens |-> IF i = 0 THEN Begin(line) ELSE Step(g[i - 1])]
  BY <1>6
<1> QED
  BY <1>7 DEF LoopFrom, Step, end

\* The tokens are cut at the places the loop goes through.
LEMMA TokensAre ==
    ASSUME NEW line, Begin(line) \in Nat, End(line) \in Nat, Begin(line) <= End(line)
    PROVE  \E p : /\ LoopFrom(line, p, End(line))
                  /\ Tokenizer(line) =
                       [i \in {n \in 1 .. kMaxTokens : p[n - 1] < End(line)} |->
                          SubSeq(line, p[i - 1], NextComma(line, p[i - 1], End(line)) - 1)]
<1> DEFINE p == CHOOSE p : LoopFrom(line, p, End(line))
<1>1. LoopFrom(line, p, End(line))
  BY LoopExists
<1>2. Tokenizer(line) =
         [i \in {n \in 1 .. kMaxTokens : p[n - 1] < End(line)} |->
            SubSeq(line, p[i - 1], NextComma(line, p[i - 1], End(line)) - 1)]
  BY DEF Tokenizer, LoopFrom
<1> QED
  BY <1>1, <1>2

-----------------------------------------------------------------------------
(* A line that is cut into fields is read as these                          *)

\* The field i begins at o[i]; a comma is behind each but the last.
Cut(line, f, o) ==
    /\ o \in [0 .. Len(f) - 1 -> Nat]
    /\ o[0] = Begin(line) /\ End(line) \in Nat
    /\ \A i \in 0 .. Len(f) - 1 :
          /\ o[i] + Len(f[i + 1]) <= End(line)
          /\ \A j \in 1 .. Len(f[i + 1]) : line[o[i] + j - 1] = f[i + 1][j]
          /\ i = Len(f) - 1 => o[i] + Len(f[i + 1]) = End(line)
          /\ i < Len(f) - 1 => /\ o[i] + Len(f[i + 1]) < End(line)
                               /\ line[o[i] + Len(f[i + 1])] = Comma
                               /\ o[i + 1] = o[i] + Len(f[i + 1]) + 1

\* No field has a comma, nor any other character a line is taken apart by.
LEMMA FieldsHaveNoComma ==
    ASSUME NEW f \in Seq(FieldTexts), NEW i \in 1 .. Len(f)
    PROVE  /\ f[i] \in Seq(Int) /\ Len(f[i]) \in Nat
           /\ \A j \in 1 .. Len(f[i]) :
                 f[i][j] \in 0 .. 127 /\ f[i][j] \notin {Dollar, Star, Comma, CR, LF}
<1> DEFINE C == (0 .. 127) \ {Dollar, Star, Comma, CR, LF}
<1>1. f[i] \in Seq(C)
  <2>1. FieldTexts \subseteq Seq(C)
    BY TokensAssumption
  <2>2. f[i] \in FieldTexts
    BY ElementOfSeq
  <2> QED
    BY <2>1, <2>2
<1>3. \A c \in C : c \in 0 .. 127 /\ c \notin {Dollar, Star, Comma, CR, LF}
  OBVIOUS
<1> HIDE DEF C
<1>2. C \subseteq Int
  <2> SUFFICES ASSUME NEW c \in C PROVE c \in Int
    OBVIOUS
  <2>1. c \in 0 .. 127
    BY <1>3
  <2> QED
    BY <2>1
<1>4. f[i] \in Seq(Int)
  BY <1>1, <1>2, SeqMonotonic
<1>5. \A j \in 1 .. Len(f[i]) : f[i][j] \in C
  BY <1>1, ElementOfSeq
<1> QED
  BY <1>3, <1>4, <1>5, LenProperties

\* The comma behind a field is the next one.
LEMMA FieldEnds ==
    ASSUME NEW line, NEW f \in Seq(FieldTexts), NEW o, Cut(line, f, o),
           NEW i \in 0 .. Len(f) - 1
    PROVE  NextComma(line, o[i], End(line)) = o[i] + Len(f[i + 1])
<1> DEFINE c == o[i] + Len(f[i + 1])
           end == End(line)
<1>1. /\ o[i] \in Nat /\ end \in Nat /\ Len(f) \in Nat /\ i + 1 \in 1 .. Len(f)
      /\ c <= end /\ (i = Len(f) - 1 => c = end) /\ (i < Len(f) - 1 => line[c] = Comma)
      /\ \A j \in 1 .. Len(f[i + 1]) : line[o[i] + j - 1] = f[i + 1][j]
  <2>1. Len(f) \in Nat
    BY LenProperties
  <2>2. i + 1 \in 1 .. Len(f)
    BY <2>1
  <2>3. o[i] \in Nat /\ end \in Nat
    BY DEF Cut
  <2> QED
    BY <2>1, <2>2, <2>3 DEF Cut
<1>2. Len(f[i + 1]) \in Nat /\ \A j \in 1 .. Len(f[i + 1]) : f[i + 1][j] # Comma
  BY <1>1, FieldsHaveNoComma
<1>3. c \in o[i] .. end
  BY <1>1, <1>2
<1>4. c = end \/ line[c] = Comma
  BY <1>1
<1>5. ASSUME NEW j \in o[i] .. c - 1 PROVE line[j] # Comma
  <2>1. j - o[i] + 1 \in 1 .. Len(f[i + 1]) /\ o[i] + (j - o[i] + 1) - 1 = j
    BY <1>1, <1>2, SMTT(30)
  <2> QED
    BY <1>1, <1>2, <2>1
<1>6. NextComma(line, o[i], end) = c
  <2> HIDE DEF c, end
  <2> QED
    <3>1. o[i] \in Nat /\ end \in Nat
      BY <1>1
    <3>2. \A j \in o[i] .. c - 1 : line[j] # Comma
      BY <1>5
    <3> QED
      BY <1>3, <1>4, <3>1, <3>2, NextCommaAt, Zenon
<1> QED
  BY <1>6

\* The loop stands at the beginning of each field in turn, then at the end.
LEMMA LoopPlaces ==
    ASSUME NEW line, NEW f \in Seq(FieldTexts), f # <<>>, NEW o, Cut(line, f, o),
           NEW p, LoopFrom(line, p, End(line))
    PROVE  \A k \in 0 .. kMaxTokens : p[k] = IF k <= Len(f) - 1 THEN o[k] ELSE End(line)
<1> DEFINE end == End(line)
           At(k) == p[k] = IF k <= Len(f) - 1 THEN o[k] ELSE end
           S == {k \in 0 .. kMaxTokens : At(k)}
<1>0. kMaxTokens \in Nat /\ Len(f) \in Nat /\ Len(f) # 0 /\ end \in Nat
  BY TokensAssumption, LenProperties, EmptySeq DEF Cut
<1>1. 0 \in S
  <2>1. p[0] = Begin(line)
    BY <1>0 DEF LoopFrom
  <2> QED
    BY <1>0, <2>1 DEF Cut
<1>2. ASSUME NEW k \in 1 .. kMaxTokens, k - 1 \in S PROVE k \in S
  <2> DEFINE q == NextComma(line, p[k - 1], end)
  <2>1. p[k] = IF q < end THEN q + 1 ELSE q
    <3>1. k \in 0 .. kMaxTokens /\ k # 0
      BY <1>0
    <3> QED
      BY <3>1 DEF LoopFrom
  <2>2. At(k - 1)
    BY <1>2
  <2>3. CASE k - 1 <= Len(f) - 1
    <3>1. k - 1 \in 0 .. Len(f) - 1 /\ p[k - 1] = o[k - 1]
      BY <1>0, <2>2, <2>3
    <3> DEFINE c == o[k - 1] + Len(f[(k - 1) + 1])
    <3>2. q = c
      BY <3>1, FieldEnds
    <3>3. /\ k - 1 = Len(f) - 1 => c = end
          /\ k - 1 < Len(f) - 1 => c < end /\ o[(k - 1) + 1] = c + 1
      BY <3>1 DEF Cut
    <3> HIDE DEF q, c, end
    <3>4. CASE k - 1 = Len(f) - 1
      <4>1. p[k] = end /\ ~(k <= Len(f) - 1)
        BY <1>0, <2>1, <3>2, <3>3, <3>4
      <4> QED
        BY <1>0, <4>1
    <3>5. CASE k - 1 < Len(f) - 1
      <4>1. p[k] = c + 1
        BY <2>1, <3>2, <3>3, <3>5
      <4>2. (k - 1) + 1 = k /\ k <= Len(f) - 1
        BY <1>0, <3>5
      <4> QED
        BY <3>3, <3>5, <4>1, <4>2
    <3> QED
      BY <1>0, <2>3, <3>4, <3>5
  <2>4. CASE ~(k - 1 <= Len(f) - 1)
    <3>1. p[k - 1] = end /\ ~(k <= Len(f) - 1)
      BY <1>0, <2>2, <2>4
    <3>2. NextComma(line, end, end) \in end .. end
      <4> HIDE DEF end
      <4>1. end \in Nat /\ end <= end
        BY <1>0
      <4> QED
        BY <4>1, NextCommaIs
    <3>3. q = end
      BY <1>0, <3>1, <3>2
    <3> QED
      BY <1>0, <2>1, <3>1, <3>3
  <2> QED
    BY <2>3, <2>4
<1>3. \A k \in 0 .. kMaxTokens : k \in S
  <2> HIDE DEF S
  <2> QED
    BY <1>0, <1>1, <1>2, IntervalInduction
<1> QED
  BY <1>3

\* The tokens of a line that is cut into fields are these.
LEMMA FieldsAreTokens ==
    ASSUME NEW line, NEW f \in Seq(FieldTexts), f # <<>>, NEW o, Cut(line, f, o),
           NEW i \in 0 .. Len(f)
    PROVE  Get(line, i) = IF i < Len(f) /\ i < kMaxTokens THEN f[i + 1] ELSE <<>>
<1> DEFINE end == End(line)
<1>0. /\ kMaxTokens \in Nat /\ Len(f) \in Nat /\ Len(f) # 0 /\ end \in Nat
      /\ 0 \in 0 .. Len(f) - 1
  BY TokensAssumption, LenProperties, EmptySeq DEF Cut
<1>1. ASSUME i < Len(f)
      PROVE  /\ i \in 0 .. Len(f) - 1 /\ o[i] \in Nat
             /\ f[i + 1] \in Seq(Int) /\ Len(f[i + 1]) \in Nat
             /\ o[i] + Len(f[i + 1]) <= end
             /\ \A j \in 1 .. Len(f[i + 1]) :
                   line[o[i] + j - 1] = f[i + 1][j] /\ f[i + 1][j] \in Int
  <2>1. i \in 0 .. Len(f) - 1 /\ i + 1 \in 1 .. Len(f)
    BY <1>0, <1>1
  <2>2. f[i + 1] \in Seq(Int) /\ Len(f[i + 1]) \in Nat
    BY <2>1, FieldsHaveNoComma
  <2> QED
    BY <2>1, <2>2, ElementOfSeq DEF Cut
<1>2. Begin(line) \in Nat /\ Begin(line) <= end
  <2>1. 0 + 1 \in 1 .. Len(f)
    BY <1>0
  <2>2. Len(f[0 + 1]) \in Nat
    BY <2>1, FieldsHaveNoComma
  <2>3. o[0] \in Nat /\ o[0] + Len(f[0 + 1]) <= end /\ Begin(line) = o[0]
    BY <1>0 DEF Cut
  <2> QED
    BY <1>0, <2>2, <2>3
<1>3. PICK p : /\ LoopFrom(line, p, end)
               /\ Tokenizer(line) =
                    [k \in {n \in 1 .. kMaxTokens : p[n - 1] < end} |->
                       SubSeq(line, p[k - 1], NextComma(line, p[k - 1], end) - 1)]
  BY <1>0, <1>2, TokensAre
<1>4. \A k \in 0 .. kMaxTokens : p[k] = IF k <= Len(f) - 1 THEN o[k] ELSE end
  BY <1>3, LoopPlaces
<1> DEFINE tokens == Tokenizer(line)
<1>5. i + 1 \in DOMAIN tokens <=> i + 1 \in 1 .. kMaxTokens /\ p[i] < end
  <2>1. (i + 1) - 1 = i
    BY <1>0
  <2> QED
    BY <1>3, <2>1
<1>6. CASE i < Len(f) /\ i < kMaxTokens
  <2>1. i + 1 \in 1 .. kMaxTokens /\ i \in 0 .. kMaxTokens /\ i <= Len(f) - 1
    BY <1>0, <1>6
  <2>2. p[i] = o[i]
    BY <1>4, <2>1
  <2>3. CASE o[i] < end
    <3> DEFINE l == Len(f[i + 1])
               b == o[i]
               t == SubSeq(line, b, b + l - 1)
    <3>1. i + 1 \in DOMAIN tokens
      BY <1>5, <2>1, <2>2, <2>3
    <3>2. tokens[i + 1] = SubSeq(line, b, NextComma(line, b, end) - 1)
      <4>1. (i + 1) - 1 = i
        BY <1>0
      <4> QED
        BY <1>3, <1>5, <2>2, <3>1, <4>1
    <3>3. NextComma(line, b, end) = b + l
      BY <1>1, <1>6, FieldEnds
    <3>5. l \in Nat /\ b \in Nat /\ f[i + 1] \in Seq(Int)
      BY <1>1, <1>6
    <3>4. tokens[i + 1] = t
      <4> HIDE DEF l, b, tokens
      <4>1. NextComma(line, b, end) - 1 = b + l - 1
        BY <3>3, <3>5
      <4> QED
        BY <3>2, <4>1, Zenon
    <3>6. \A j \in 1 .. l : line[b + j - 1] = f[i + 1][j] /\ f[i + 1][j] \in Int
      BY <1>1, <1>6
    <3> HIDE DEF l, b
    <3>7. \A e \in b .. b + l - 1 : line[e] \in Int
      <4> TAKE e \in b .. b + l - 1
      <4>1. e - b + 1 \in 1 .. l /\ b + (e - b + 1) - 1 = e
        BY <3>5
      <4> QED
        BY <3>6, <4>1
    <3>8. /\ t \in Seq(Int)
          /\ Len(t) = IF b <= b + l - 1 THEN (b + l - 1) - b + 1 ELSE 0
          /\ \A j \in 1 .. (b + l - 1) - b + 1 : t[j] = line[b + j - 1]
      <4>1. b \in Int /\ b + l - 1 \in Int
        BY <3>5
      <4> QED
        BY <3>7, <4>1, SubSeqProperties
    <3>9. (b + l - 1) - b + 1 = l /\ (b <= b + l - 1 <=> l # 0)
      BY <3>5
    <3> HIDE DEF t
    <3>10. Len(t) = l /\ \A j \in 1 .. l : t[j] = f[i + 1][j]
      BY <3>6, <3>8, <3>9
    <3>11. t = f[i + 1]
      BY <3>5, <3>8, <3>10, SeqEqual DEF l
    <3> QED
      BY <1>6, <3>1, <3>4, <3>11 DEF Get
  <2>4. CASE ~(o[i] < end)
    <3>1. i + 1 \notin DOMAIN tokens
      BY <1>5, <2>2, <2>4
    <3>2. Len(f[i + 1]) = 0
      BY <1>0, <1>1, <1>6, <2>4
    <3>3. f[i + 1] = <<>>
      BY <1>1, <1>6, <3>2, EmptySeq
    <3> QED
      BY <1>6, <3>1, <3>3 DEF Get
  <2> QED
    BY <2>3, <2>4
<1>7. CASE ~(i < Len(f) /\ i < kMaxTokens)
  <2>1. i + 1 \notin DOMAIN tokens
    <3>1. CASE ~(i < kMaxTokens)
      BY <1>0, <1>5, <3>1
    <3>2. CASE i < kMaxTokens
      <4>1. i \in 0 .. kMaxTokens /\ ~(i <= Len(f) - 1)
        BY <1>0, <1>7, <3>2
      <4>2. p[i] = end
        BY <1>4, <4>1
      <4> QED
        BY <1>0, <1>5, <4>2
    <3> QED
      BY <3>1, <3>2
  <2> QED
    BY <1>7, <2>1 DEF Get
<1> QED
  BY <1>6, <1>7

-----------------------------------------------------------------------------
(* Numbers                                                                 *)

\* A recursion whose step depends on the value before and the position alone.
LEMMA IntRecursion ==
    ASSUME NEW a \in Int, NEW m \in Nat, NEW h,
           \A i \in 1 .. m : \A d \in Int : h[<<i, d>>] \in Int,
           h = [x \in (1 .. m) \X Int |-> h[x]]
    PROVE  Solvable(Int, a, m, h)
<1>1. h \in [(1 .. m) \X Int -> Int]
  <2>1. \A x \in (1 .. m) \X Int : h[x] \in Int
    <3> TAKE x \in (1 .. m) \X Int
    <3>1. x[1] \in 1 .. m /\ x[2] \in Int /\ x = <<x[1], x[2]>>
      OBVIOUS
    <3>2. h[<<x[1], x[2]>>] \in Int
      BY <3>1
    <3> QED
      BY <3>1, <3>2
  <2> QED
    BY <2>1
<1> QED
  BY <1>1, RecursionExists, Zenon

ReadsDigits(r, token) ==
    r = [i \in 0 .. Len(token) |->
           IF i = 0 THEN 0
           ELSE IF r[i - 1] < 0 \/ token[i] \notin Digits THEN -1
           ELSE r[i - 1] * 10 + (token[i] - 48)]

Weighs(w, text) == w = [n \in 0 .. Len(text) |-> IF n = 0 THEN 1 ELSE 10 * w[n - 1]]

SumsUp(s, w, text) ==
    s = [i \in 0 .. Len(text) |->
           IF i = 0 THEN 0 ELSE s[i - 1] + (text[i] - 48) * w[Len(text) - i]]

\* The recursions of str2int and of Value have solutions.
LEMMA ReadingExists ==
    ASSUME NEW token \in Seq(Int) PROVE \E r : ReadsDigits(r, token)
<1> DEFINE m == Len(token)
           Step(i, d) == IF d < 0 \/ token[i] \notin Digits THEN -1 ELSE d * 10 + (token[i] - 48)
           h == [x \in (1 .. m) \X Int |-> Step(x[1], x[2])]
<1>1. m \in Nat /\ \A i \in 1 .. m : token[i] \in Int
  BY LenProperties, ElementOfSeq
<1>2. \A i \in 1 .. m : \A d \in Int : Step(i, d) \in Int
  BY <1>1
<1> HIDE DEF Step, m
<1>3. \A i \in 1 .. m : \A d \in Int : h[<<i, d>>] = Step(i, d)
  OBVIOUS
<1>4. h = [x \in (1 .. m) \X Int |-> h[x]]
  OBVIOUS
<1> HIDE DEF h
<1>5. Solvable(Int, 0, m, h)
  <2>1. 0 \in Int /\ \A i \in 1 .. m : \A d \in Int : h[<<i, d>>] \in Int
    BY <1>2, <1>3, SMTT(30)
  <2> QED
    BY <1>1, <1>4, <2>1, IntRecursion, Zenon
<1>6. PICK g \in [0 .. m -> Int] :
         \A i \in 0 .. m : g[i] = IF i = 0 THEN 0 ELSE h[<<i, g[i - 1]>>]
  BY <1>5 DEF Solvable
<1>7. ASSUME NEW i \in 0 .. m
      PROVE  g[i] = IF i = 0 THEN 0 ELSE Step(i, g[i - 1])
  <2>1. CASE i = 0
    BY <1>6, <2>1
  <2>2. CASE i # 0
    <3>1. i \in 1 .. m /\ i - 1 \in 0 .. m
      BY <1>1, <2>2
    <3>2. g[i - 1] \in Int
      BY <3>1
    <3> QED
      BY <1>3, <1>6, <2>2, <3>1, <3>2
  <2> QED
    BY <2>1, <2>2
<1>8. g = [i \in 0 .. m |-> IF i = 0 THEN 0 ELSE Step(i, g[i - 1])]
  BY <1>7
<1> QED
  BY <1>8 DEF ReadsDigits, Step, m

LEMMA WeightsExist ==
    ASSUME NEW text \in Seq(Int)
    PROVE  \E w : Weighs(w, text) /\ \A n \in 0 .. Len(text) : w[n] \in Int
<1> DEFINE m == Len(text)
           h == [x \in (1 .. m) \X Int |-> 10 * x[2]]
<1>1. m \in Nat
  BY LenProperties
<1> HIDE DEF m
<1>2. \A i \in 1 .. m : \A d \in Int : h[<<i, d>>] = 10 * d /\ 10 * d \in Int
  OBVIOUS
<1>3. h = [x \in (1 .. m) \X Int |-> h[x]]
  OBVIOUS
<1> HIDE DEF h
<1>4. Solvable(Int, 1, m, h)
  <2>1. 1 \in Int /\ \A i \in 1 .. m : \A d \in Int : h[<<i, d>>] \in Int
    BY <1>2
  <2> QED
    BY <1>1, <1>3, <2>1, IntRecursion, Zenon
<1>5. PICK g \in [0 .. m -> Int] :
         \A i \in 0 .. m : g[i] = IF i = 0 THEN 1 ELSE h[<<i, g[i - 1]>>]
  BY <1>4 DEF Solvable
<1>6. ASSUME NEW i \in 0 .. m
      PROVE  g[i] = IF i = 0 THEN 1 ELSE 10 * g[i - 1]
  <2>1. CASE i = 0
    BY <1>5, <2>1
  <2>2. CASE i # 0
    <3>1. i \in 1 .. m /\ i - 1 \in 0 .. m
      BY <1>1, <2>2
    <3>2. g[i - 1] \in Int
      BY <3>1
    <3> QED
      BY <1>2, <1>5, <2>2, <3>1, <3>2
  <2> QED
    BY <2>1, <2>2
<1>7. g = [i \in 0 .. m |-> IF i = 0 THEN 1 ELSE 10 * g[i - 1]]
  BY <1>6
<1>8. \A n \in 0 .. m : g[n] \in Int
  OBVIOUS
<1> QED
  BY <1>7, <1>8 DEF Weighs, m

LEMMA SumExists ==
    ASSUME NEW text \in Seq(Int), NEW w, \A n \in 0 .. Len(text) : w[n] \in Int
    PROVE  \E s : SumsUp(s, w, text)
<1> DEFINE m == Len(text)
           Step(i, d) == d + (text[i] - 48) * w[m - i]
           h == [x \in (1 .. m) \X Int |-> Step(x[1], x[2])]
<1>1. m \in Nat /\ \A i \in 1 .. m : text[i] \in Int
  BY LenProperties, ElementOfSeq
<1>2. \A i \in 1 .. m : \A d \in Int : Step(i, d) \in Int
  <2> TAKE i \in 1 .. m, d \in Int
  <2>1. m - i \in 0 .. m
    BY <1>1
  <2>2. w[m - i] \in Int /\ text[i] \in Int
    BY <1>1, <2>1
  <2> QED
    BY <2>2
<1> HIDE DEF Step, m
<1>3. \A i \in 1 .. m : \A d \in Int : h[<<i, d>>] = Step(i, d)
  OBVIOUS
<1>4. h = [x \in (1 .. m) \X Int |-> h[x]]
  OBVIOUS
<1> HIDE DEF h
<1>5. Solvable(Int, 0, m, h)
  <2>1. 0 \in Int /\ \A i \in 1 .. m : \A d \in Int : h[<<i, d>>] \in Int
    BY <1>2, <1>3, SMTT(30)
  <2> QED
    BY <1>1, <1>4, <2>1, IntRecursion, Zenon
<1>6. PICK g \in [0 .. m -> Int] :
         \A i \in 0 .. m : g[i] = IF i = 0 THEN 0 ELSE h[<<i, g[i - 1]>>]
  BY <1>5 DEF Solvable
<1>7. ASSUME NEW i \in 0 .. m
      PROVE  g[i] = IF i = 0 THEN 0 ELSE Step(i, g[i - 1])
  <2>1. CASE i = 0
    BY <1>6, <2>1
  <2>2. CASE i # 0
    <3>1. i \in 1 .. m /\ i - 1 \in 0 .. m
      BY <1>1, <2>2
    <3>2. g[i - 1] \in Int
      BY <3>1
    <3> QED
      BY <1>3, <1>6, <2>2, <3>1, <3>2
  <2> QED
    BY <2>1, <2>2
<1>8. g = [i \in 0 .. m |-> IF i = 0 THEN 0 ELSE Step(i, g[i - 1])]
  BY <1>7
<1> QED
  BY <1>8 DEF SumsUp, Step, m

\* Reading digit by digit gives the value by weights; anything else in the text
\* gives -1.
LEMMA NumbersReadRight ==
    ASSUME NEW token \in Seq(Int)
    PROVE  str2int(token) = IF \A j \in 1 .. Len(token) : token[j] \in Digits
                            THEN Value(token) ELSE -1
<1> DEFINE m == Len(token)
           r == CHOOSE r : ReadsDigits(r, token)
           w == CHOOSE w : Weighs(w, token)
           s == CHOOSE s : SumsUp(s, w, token)
<1>1. ReadsDigits(r, token) /\ str2int(token) = r[m]
  <2>1. ReadsDigits(r, token)
    BY ReadingExists
  <2>2. str2int(token) = r[m]
    BY DEF str2int, ReadsDigits
  <2> QED
    BY <2>1, <2>2
<1>2. Weighs(w, token)
  BY WeightsExist
<1>3. m \in Nat /\ \A i \in 1 .. m : token[i] \in Int
  BY LenProperties, ElementOfSeq
<1>4. Value(token) = s[m]
  BY DEF Value, Weighs, SumsUp
<1> HIDE DEF r, w
<1>5. w[0] = 1 /\ \A n \in 1 .. m : w[n] = 10 * w[n - 1]
  <2>1. \A n \in 0 .. m : w[n] = IF n = 0 THEN 1 ELSE 10 * w[n - 1]
    BY <1>2 DEF Weighs
  <2> HIDE DEF m
  <2> QED
    BY <1>3, <2>1
<1>6. \A n \in 0 .. m : w[n] \in Int
  <2> DEFINE S == {n \in 0 .. m : w[n] \in Int}
  <2>1. 0 \in S
    BY <1>3, <1>5
  <2>2. ASSUME NEW n \in 1 .. m, n - 1 \in S PROVE n \in S
    BY <1>5, <2>2
  <2>3. \A n \in 0 .. m : n \in S
    <3> HIDE DEF S, m
    <3> QED
      BY <1>3, <2>1, <2>2, IntervalInduction
  <2> QED
    BY <2>3
<1>7. SumsUp(s, w, token)
  BY <1>6, SumExists
<1> HIDE DEF s
<1>8. s[0] = 0 /\ \A i \in 1 .. m : s[i] = s[i - 1] + (token[i] - 48) * w[m - i]
  <2>1. \A i \in 0 .. m :
           s[i] = IF i = 0 THEN 0 ELSE s[i - 1] + (token[i] - 48) * w[m - i]
    BY <1>7 DEF SumsUp
  <2> HIDE DEF m
  <2> QED
    BY <1>3, <2>1
<1>9. /\ r[0] = 0
      /\ \A i \in 1 .. m : r[i] = IF r[i - 1] < 0 \/ token[i] \notin Digits THEN -1
                                  ELSE r[i - 1] * 10 + (token[i] - 48)
  <2>1. \A i \in 0 .. m : r[i] = IF i = 0 THEN 0
                                 ELSE IF r[i - 1] < 0 \/ token[i] \notin Digits THEN -1
                                 ELSE r[i - 1] * 10 + (token[i] - 48)
    BY <1>1 DEF ReadsDigits
  <2> HIDE DEF m
  <2> QED
    BY <1>3, <2>1
<1> DEFINE Good(i) == \A j \in 1 .. i : token[j] \in Digits
           At(i) == IF Good(i) THEN r[i] \in Nat /\ r[i] * w[m - i] = s[i] /\ s[i] \in Int
                    ELSE r[i] = -1
           S == {i \in 0 .. m : At(i)}
<1> HIDE DEF m
<1>10. 0 \in S
  <2>1. w[m - 0] \in Int
    BY <1>3, <1>6
  <2> QED
    BY <1>3, <1>8, <1>9, <2>1
<1>11. ASSUME NEW i \in 1 .. m, i - 1 \in S PROVE i \in S
  <2>1. At(i - 1)
    BY <1>11
  <2>2. Good(i) <=> Good(i - 1) /\ token[i] \in Digits
    BY <1>3
  <2>3. token[i] \in Digits => token[i] - 48 \in Nat
    BY SMTT(30) DEF Digits
  <2> HIDE DEF Good
  <2>4. CASE Good(i)
    <3> DEFINE a == r[i - 1]
               d == token[i] - 48
               c == w[m - i]
    <3>1. a \in Nat /\ a * w[m - (i - 1)] = s[i - 1] /\ s[i - 1] \in Int /\ d \in Nat
      BY <2>1, <2>2, <2>3, <2>4
    <3>2. c \in Int /\ w[m - (i - 1)] = 10 * c
      <4>1. m - i \in 0 .. m /\ m - (i - 1) \in 1 .. m /\ (m - (i - 1)) - 1 = m - i
        BY <1>3
      <4> QED
        BY <1>5, <1>6, <4>1
    <3>3. r[i] = a * 10 + d
      BY <1>9, <2>2, <2>4, <3>1
    <3>4. s[i] = s[i - 1] + d * c
      BY <1>8
    <3> HIDE DEF a, d, c
    <3>5. r[i] \in Nat /\ s[i] \in Int
      BY <3>1, <3>2, <3>3, <3>4
    <3>6. (a * 10 + d) * c = a * (10 * c) + d * c
      BY <3>1, <3>2
    <3>7. r[i] * c = s[i]
      BY <3>1, <3>2, <3>3, <3>4, <3>6
    <3> QED
      BY <2>4, <3>5, <3>7 DEF c
  <2>5. CASE ~Good(i)
    <3>1. r[i] = -1
      BY <1>9, <2>1, <2>2, <2>5
    <3> QED
      BY <2>5, <3>1
  <2> QED
    BY <2>4, <2>5
<1>12. \A i \in 0 .. m : i \in S
  <2> HIDE DEF S
  <2> QED
    BY <1>3, <1>10, <1>11, IntervalInduction
<1>13. At(m)
  <2>1. m \in 0 .. m
    BY <1>3
  <2> QED
    BY <1>12, <2>1
<1>14. w[m - m] = 1
  BY <1>3, <1>5
<1>15. Good(m) => r[m] = s[m]
  BY <1>13, <1>14
<1>16. ~Good(m) => r[m] = -1
  BY <1>13
<1> QED
  BY <1>1, <1>4, <1>15, <1>16 DEF m

-----------------------------------------------------------------------------
(* Where the fields of a sentence are                                      *)

\* The characters between start and checksum.
Text == {c \in 0 .. 127 : c \notin {Dollar, Star, CR, LF}}

\* The library's theorem on \o, for all sequences at once.
LEMMA Concat ==
    \A S : \A a, b \in Seq(S) :
       /\ a \o b \in Seq(S) /\ Len(a \o b) = Len(a) + Len(b)
       /\ \A i \in 1 .. Len(a) + Len(b) :
             (a \o b)[i] = IF i <= Len(a) THEN a[i] ELSE b[i - Len(a)]
BY ConcatProperties

\* The parts of a concatenation.
Appends(t, S, a, b) ==
    /\ t \in Seq(S) /\ Len(t) = Len(a) + Len(b)
    /\ Len(a) \in Nat /\ Len(b) \in Nat
    /\ \A i \in 1 .. Len(a) : t[i] = a[i]
    /\ \A i \in 1 .. Len(b) : t[Len(a) + i] = b[i]

LEMMA Halves ==
    ASSUME NEW S, NEW a \in Seq(S), NEW b \in Seq(S)
    PROVE  Appends(a \o b, S, a, b)
<1> DEFINE t == a \o b
           l == Len(a)
           m == Len(b)
<1>1. /\ t \in Seq(S) /\ Len(t) = l + m
      /\ \A i \in 1 .. l + m : t[i] = IF i <= l THEN a[i] ELSE b[i - l]
  BY Concat
<1>2. l \in Nat /\ m \in Nat
  BY LenProperties
<1> HIDE DEF t, l, m
<1>3. \A i \in 1 .. l : t[i] = a[i]
  <2> TAKE i \in 1 .. l
  <2>1. i \in 1 .. l + m /\ i <= l
    BY <1>2
  <2> QED
    BY <1>1, <2>1
<1>4. \A i \in 1 .. m : t[l + i] = b[i]
  <2> TAKE i \in 1 .. m
  <2>1. l + i \in 1 .. l + m /\ ~(l + i <= l) /\ (l + i) - l = i
    BY <1>2
  <2> QED
    BY <1>1, <2>1
<1> QED
  BY <1>1, <1>2, <1>3, <1>4 DEF t, l, m, Appends

\* Two texts with a comma between them.
LEMMA CommaBetween ==
    ASSUME NEW S, Comma \in S, NEW a \in Seq(S), NEW b \in Seq(S)
    PROVE  LET t == a \o <<Comma>> \o b
           IN  /\ t \in Seq(S) /\ Len(t) = Len(a) + 1 + Len(b)
               /\ Len(a) \in Nat /\ Len(b) \in Nat
               /\ \A j \in 1 .. Len(a) : t[j] = a[j]
               /\ t[Len(a) + 1] = Comma
               /\ \A j \in 1 .. Len(b) : t[Len(a) + 1 + j] = b[j]
<1> DEFINE c == <<Comma>>
           ac == a \o c
           t == ac \o b
<1>1. c \in Seq(S) /\ Len(c) = 1 /\ c[1] = Comma
  OBVIOUS
<1> HIDE DEF c
<1>a. Appends(ac, S, a, c)
  BY <1>1, Halves, Zenon
<1>2. /\ ac \in Seq(S) /\ Len(ac) = Len(a) + Len(c) /\ Len(a) \in Nat
      /\ \A i \in 1 .. Len(a) : ac[i] = a[i]
      /\ \A i \in 1 .. Len(c) : ac[Len(a) + i] = c[i]
  BY <1>a DEF Appends
<1> HIDE DEF ac
<1>b. Appends(t, S, ac, b)
  BY <1>2, Halves, Zenon
<1>3. /\ t \in Seq(S) /\ Len(t) = Len(ac) + Len(b) /\ Len(b) \in Nat
      /\ \A i \in 1 .. Len(ac) : t[i] = ac[i]
      /\ \A i \in 1 .. Len(b) : t[Len(ac) + i] = b[i]
  BY <1>b DEF Appends
<1> HIDE DEF t
<1>4. Len(ac) = Len(a) + 1
  BY <1>1, <1>2
<1>5. \A j \in 1 .. Len(a) : t[j] = a[j]
  BY <1>2, <1>3, <1>4
<1>6. t[Len(a) + 1] = Comma
  <2>1. Len(a) + 1 \in 1 .. Len(ac) /\ 1 \in 1 .. Len(c)
    BY <1>1, <1>2, <1>4
  <2> QED
    BY <1>1, <1>2, <1>3, <2>1
<1>7. Len(t) = Len(a) + 1 + Len(b) /\ \A j \in 1 .. Len(b) : t[Len(a) + 1 + j] = b[j]
  BY <1>3, <1>4
<1> QED
  BY <1>2, <1>3, <1>5, <1>6, <1>7 DEF t, ac, c

Joins(g, f) ==
    g = [i \in 0 .. Len(f) - 1 |->
           IF i = 0 THEN f[1] ELSE g[i - 1] \o <<Comma>> \o f[i + 1]]

\* The characters of the joined fields are those of the fields, and commas.
LEMMA FieldsAreTexts ==
    ASSUME NEW f \in Seq(FieldTexts), NEW i \in 1 .. Len(f) PROVE f[i] \in Seq(Text)
<1> DEFINE C == (0 .. 127) \ {Dollar, Star, Comma, CR, LF}
<1>1. f[i] \in Seq(C)
  <2>1. FieldTexts \subseteq Seq(C)
    BY TokensAssumption
  <2>2. f[i] \in FieldTexts
    BY ElementOfSeq
  <2> QED
    BY <2>1, <2>2
<1>2. C \subseteq Text
  BY DEF Text
<1> HIDE DEF C
<1> QED
  BY <1>1, <1>2, SeqMonotonic

LEMMA CommaIsText == Comma \in Text
BY DEF Text, Dollar, Star, Comma, CR, LF

\* The recursion of Join has a solution.
LEMMA JoiningExists ==
    ASSUME NEW f \in Seq(FieldTexts), f # <<>> PROVE \E g : Joins(g, f)
<1> DEFINE m == Len(f) - 1
           D == Seq(Text)
           Step(i, d) == d \o <<Comma>> \o f[i + 1]
           h == [x \in (1 .. m) \X D |-> Step(x[1], x[2])]
<1>1. m \in Nat
  BY LenProperties, EmptySeq
<1>2. \A i \in 0 .. m : f[i + 1] \in D
  <2> TAKE i \in 0 .. m
  <2>1. Len(f) \in Nat
    BY LenProperties
  <2>2. i + 1 \in 1 .. Len(f)
    BY <1>1, <2>1
  <2> QED
    BY <2>2, FieldsAreTexts
<1>3. \A i \in 1 .. m : \A d \in D : Step(i, d) \in D
  <2> TAKE i \in 1 .. m
  <2> TAKE d \in D
  <2>1. f[i + 1] \in Seq(Text)
    BY <1>1, <1>2
  <2> QED
    BY <2>1, CommaBetween, CommaIsText
<1>4. f[1] \in D
  <2>1. 0 \in 0 .. m /\ 0 + 1 = 1
    BY <1>1
  <2> QED
    BY <1>2, <2>1
<1> HIDE DEF Step, m, D
<1>5. h \in [(1 .. m) \X D -> D]
  BY <1>3
<1>6. \A i \in 1 .. m : \A d \in D : h[<<i, d>>] = Step(i, d)
  OBVIOUS
<1> HIDE DEF h
<1>7. Solvable(D, f[1], m, h)
  BY <1>1, <1>4, <1>5, RecursionExists, Zenon
<1>8. PICK g \in [0 .. m -> D] :
         \A i \in 0 .. m : g[i] = IF i = 0 THEN f[1] ELSE h[<<i, g[i - 1]>>]
  BY <1>7 DEF Solvable
<1>9. ASSUME NEW i \in 0 .. m
      PROVE  g[i] = IF i = 0 THEN f[1] ELSE Step(i, g[i - 1])
  <2>1. CASE i = 0
    BY <1>8, <2>1
  <2>2. CASE i # 0
    <3>1. i \in 1 .. m /\ i - 1 \in 0 .. m
      BY <1>1, <2>2
    <3>2. g[i - 1] \in D
      BY <3>1
    <3> QED
      BY <1>6, <1>8, <2>2, <3>1, <3>2
  <2> QED
    BY <2>1, <2>2
<1>10. g = [i \in 0 .. m |-> IF i = 0 THEN f[1] ELSE Step(i, g[i - 1])]
  BY <1>9
<1> QED
  BY <1>10 DEF Joins, Step, m

\* What the recursion of Join says, step by step.
LEMMA JoinSteps ==
    ASSUME NEW f \in Seq(FieldTexts), f # <<>>, NEW g, Joins(g, f)
    PROVE  /\ Len(f) - 1 \in Nat /\ g[0] = f[1]
           /\ \A k \in 0 .. Len(f) - 1 : f[k + 1] \in Seq(Text)
           /\ \A k \in 1 .. Len(f) - 1 : g[k] = g[k - 1] \o <<Comma>> \o f[k + 1]
<1> DEFINE m == Len(f) - 1
           Step(k) == g[k - 1] \o <<Comma>> \o f[k + 1]
<1>1. m \in Nat /\ Len(f) = m + 1
  BY LenProperties, EmptySeq
<1>2. g = [k \in 0 .. m |-> IF k = 0 THEN f[1] ELSE Step(k)]
  BY DEF Joins
<1>3. \A k \in 0 .. m : f[k + 1] \in Seq(Text)
  <2> HIDE DEF m
  <2> TAKE k \in 0 .. m
  <2>1. k + 1 \in 1 .. Len(f)
    BY <1>1
  <2> QED
    BY <2>1, FieldsAreTexts
<1> HIDE DEF m, Step
<1>4. \A k \in 0 .. m : g[k] = IF k = 0 THEN f[1] ELSE Step(k)
  BY <1>2
<1>5. g[0] = f[1]
  BY <1>1, <1>4
<1>6. \A k \in 1 .. m : g[k] = Step(k)
  <2> TAKE k \in 1 .. m
  <2>1. k \in 0 .. m /\ k # 0
    BY <1>1
  <2> QED
    BY <1>4, <2>1
<1> QED
  BY <1>1, <1>3, <1>5, <1>6 DEF m, Step

StartsWith(t, s) == Len(s) <= Len(t) /\ \A j \in 1 .. Len(s) : t[j] = s[j]

\* How k fields are joined to k + 1.
JoinedOn(g, f, k) ==
    /\ g[k] \in Seq(Text)
    /\ Len(g[k]) = Len(g[k - 1]) + 1 + Len(f[k + 1])
    /\ StartsWith(g[k], g[k - 1])
    /\ g[k][Len(g[k - 1]) + 1] = Comma
    /\ \A j \in 1 .. Len(f[k + 1]) : g[k][Len(g[k - 1]) + 1 + j] = f[k + 1][j]

\* One more field joined.
LEMMA JoinStep ==
    ASSUME NEW f \in Seq(FieldTexts), f # <<>>, NEW g, Joins(g, f),
           NEW k \in 1 .. Len(f) - 1, g[k - 1] \in Seq(Text)
    PROVE  JoinedOn(g, f, k)
<1> DEFINE a == g[k - 1]
           b == f[k + 1]
           t == a \o <<Comma>> \o b
<1>1. Len(f) - 1 \in Nat
  BY JoinSteps
<1>2. k \in 0 .. Len(f) - 1
  BY <1>1
<1>3. a \in Seq(Text) /\ b \in Seq(Text) /\ g[k] = t
  BY <1>2, JoinSteps
<1> HIDE DEF a, b
<1>4. /\ t \in Seq(Text) /\ Len(t) = Len(a) + 1 + Len(b)
      /\ Len(a) \in Nat /\ Len(b) \in Nat
      /\ \A j \in 1 .. Len(a) : t[j] = a[j]
      /\ t[Len(a) + 1] = Comma
      /\ \A j \in 1 .. Len(b) : t[Len(a) + 1 + j] = b[j]
  BY <1>3, CommaBetween, CommaIsText, SMTT(30)
<1> HIDE DEF t
<1>5. StartsWith(t, a)
  BY <1>4 DEF StartsWith
<1> QED
  BY <1>3, <1>4, <1>5 DEF JoinedOn, a, b

\* What was joined first stays at the front.
LEMMA PrefixesJoin ==
    ASSUME NEW f \in Seq(FieldTexts), f # <<>>, NEW g, Joins(g, f)
    PROVE  \A k \in 0 .. Len(f) - 1 :
              /\ g[k] \in Seq(Text)
              /\ \A i \in 0 .. k : StartsWith(g[k], g[i])
<1> DEFINE m == Len(f) - 1
           S == {k \in 0 .. m : /\ g[k] \in Seq(Text)
                                /\ \A i \in 0 .. k : StartsWith(g[k], g[i])}
<1>1. m \in Nat /\ g[0] = f[1]
  BY JoinSteps
<1>2. 0 \in S
  <2>1. 0 \in 0 .. m
    BY <1>1
  <2>2. f[0 + 1] \in Seq(Text)
    BY <2>1, JoinSteps
  <2>3. g[0] \in Seq(Text) /\ Len(g[0]) \in Nat
    BY <1>1, <2>2
  <2>4. \A i \in 0 .. 0 : StartsWith(g[0], g[i])
    <3>1. StartsWith(g[0], g[0])
      BY <2>3 DEF StartsWith
    <3> QED
      BY <3>1
  <2> QED
    BY <2>1, <2>3, <2>4
<1>3. ASSUME NEW k \in 1 .. m, k - 1 \in S PROVE k \in S
  <2>1. g[k - 1] \in Seq(Text) /\ \A i \in 0 .. k - 1 : StartsWith(g[k - 1], g[i])
    BY <1>3
  <2>2. JoinedOn(g, f, k)
    BY <2>1, JoinStep
  <2>3. g[k] \in Seq(Text) /\ StartsWith(g[k], g[k - 1])
    BY <2>2 DEF JoinedOn
  <2>4. Len(g[k]) \in Nat /\ Len(g[k - 1]) \in Nat
    BY <2>1, <2>3
  <2>5. ASSUME NEW i \in 0 .. k PROVE StartsWith(g[k], g[i])
    <3>1. CASE i = k
      BY <2>4, <3>1 DEF StartsWith
    <3>2. CASE i # k
      <4>1. i \in 0 .. k - 1 /\ i \in 0 .. m /\ k - 1 \in 0 .. m
        BY <1>1, <3>2
      <4>2. StartsWith(g[k - 1], g[i])
        BY <2>1, <4>1
      <4> QED
        BY <2>3, <2>4, <4>2 DEF StartsWith
    <3> QED
      BY <3>1, <3>2
  <2>6. k \in 0 .. m
    BY <1>1
  <2> QED
    BY <2>3, <2>5, <2>6
<1> HIDE DEF S, m
<1>4. \A k \in 0 .. m : k \in S
  BY <1>1, <1>2, <1>3, IntervalInduction
<1> QED
  BY <1>4 DEF S, m

\* Where the field i is in the joined text, counted from 0.
Offset(g, f) == [i \in 0 .. Len(f) - 1 |-> Len(g[i]) - Len(f[i + 1])]

\* The text B is the fields, the field i behind o[i] characters.
Spread(B, f, o) ==
    /\ B \in Seq(Text) /\ Len(B) \in Nat
    /\ o \in [0 .. Len(f) - 1 -> Nat] /\ o[0] = 0
    /\ \A i \in 0 .. Len(f) - 1 :
          /\ Len(f[i + 1]) \in Nat
          /\ o[i] + Len(f[i + 1]) <= Len(B)
          /\ \A j \in 1 .. Len(f[i + 1]) : B[o[i] + j] = f[i + 1][j]
          /\ i = Len(f) - 1 => o[i] + Len(f[i + 1]) = Len(B)
          /\ i < Len(f) - 1 => /\ o[i] + Len(f[i + 1]) < Len(B)
                               /\ B[o[i] + Len(f[i + 1]) + 1] = Comma
                               /\ o[i + 1] = o[i] + Len(f[i + 1]) + 1

\* The joined fields are behind each other, with commas between.
LEMMA JoinSpreads ==
    ASSUME NEW f \in Seq(FieldTexts), f # <<>>
    PROVE  \E o : Spread(Join(f), f, o)
<1> DEFINE m == Len(f) - 1
           g == CHOOSE g : Joins(g, f)
           B == g[m]
           o == Offset(g, f)
<1>1. Joins(g, f)
  BY JoiningExists
<1>2. Join(f) = B
  BY DEF Join, Joins
<1> HIDE DEF g
<1>3. /\ m \in Nat /\ g[0] = f[1]
      /\ \A k \in 0 .. m : f[k + 1] \in Seq(Text)
  BY <1>1, JoinSteps
<1>4. \A k \in 0 .. m : g[k] \in Seq(Text) /\ \A i \in 0 .. k : StartsWith(g[k], g[i])
  BY <1>1, PrefixesJoin
<1>5. ASSUME NEW k \in 1 .. m PROVE JoinedOn(g, f, k)
  <2>1. k - 1 \in 0 .. m
    BY <1>3
  <2>2. g[k - 1] \in Seq(Text)
    BY <1>4, <2>1
  <2> QED
    BY <1>1, <2>2, JoinStep
<1> HIDE DEF m
<1>6. \A i \in 0 .. m : Len(g[i]) \in Nat /\ Len(f[i + 1]) \in Nat
  BY <1>3, <1>4, LenProperties
<1>7. B \in Seq(Text) /\ Len(B) \in Nat
  BY <1>3, <1>4, <1>6
<1>8. ASSUME NEW i \in 0 .. m PROVE StartsWith(B, g[i])
  BY <1>3, <1>4
<1>9. \A i \in 0 .. m : o[i] = Len(g[i]) - Len(f[i + 1])
  BY DEF Offset, m
<1> HIDE DEF B, o
<1>10. 0 \in 0 .. m /\ o[0] = 0
  <2>1. 0 \in 0 .. m /\ 0 + 1 = 1
    BY <1>3
  <2>2. o[0] = Len(g[0]) - Len(f[0 + 1]) /\ Len(g[0]) \in Nat
    BY <1>6, <1>9, <2>1
  <2>3. g[0] = f[0 + 1]
    BY <1>3, <2>1
  <2> QED
    BY <2>1, <2>2, <2>3
<1>11. ASSUME NEW i \in 1 .. m PROVE o[i] = Len(g[i - 1]) + 1 /\ o[i] \in Nat
  <2>1. i \in 0 .. m /\ i - 1 \in 0 .. m
    BY <1>3
  <2>2. Len(g[i]) = Len(g[i - 1]) + 1 + Len(f[i + 1])
    BY <1>5 DEF JoinedOn
  <2>3. o[i] = Len(g[i]) - Len(f[i + 1])
    BY <1>9, <2>1
  <2>4. Len(g[i - 1]) \in Nat /\ Len(f[i + 1]) \in Nat
    BY <1>6, <2>1
  <2> QED
    BY <2>2, <2>3, <2>4
<1>12. \A i \in 0 .. m : o[i] \in Nat
  <2> TAKE i \in 0 .. m
  <2>1. i = 0 \/ i \in 1 .. m
    BY <1>3
  <2> QED
    BY <1>10, <1>11, <2>1
<1>13. o \in [0 .. m -> Nat]
  BY <1>12 DEF o, Offset, m
<1>14. ASSUME NEW i \in 0 .. m
       PROVE  /\ Len(f[i + 1]) \in Nat
              /\ o[i] + Len(f[i + 1]) = Len(g[i])
              /\ Len(g[i]) <= Len(B)
  <2>1. Len(f[i + 1]) \in Nat /\ Len(g[i]) \in Nat
    BY <1>6
  <2>2. o[i] = Len(g[i]) - Len(f[i + 1])
    BY <1>9
  <2>3. Len(g[i]) <= Len(B)
    BY <1>8 DEF StartsWith
  <2> QED
    BY <2>1, <2>2, <2>3
<1>15. ASSUME NEW i \in 0 .. m, NEW j \in 1 .. Len(f[i + 1])
       PROVE  B[o[i] + j] = f[i + 1][j]
  <2>1. o[i] + j \in 1 .. Len(g[i])
    BY <1>6, <1>12, <1>14
  <2>2. B[o[i] + j] = g[i][o[i] + j]
    BY <1>8, <2>1 DEF StartsWith
  <2>3. CASE i = 0
    BY <1>3, <1>10, <2>2, <2>3
  <2>4. CASE i # 0
    <3>1. i \in 1 .. m
      BY <1>3, <2>4
    <3>2. g[i][Len(g[i - 1]) + 1 + j] = f[i + 1][j]
      BY <1>5, <3>1 DEF JoinedOn
    <3>3. o[i] = Len(g[i - 1]) + 1
      BY <1>11, <3>1
    <3> QED
      BY <2>2, <3>2, <3>3
  <2> QED
    BY <2>3, <2>4
<1>16. ASSUME NEW i \in 0 .. m, i < m
       PROVE  /\ o[i] + Len(f[i + 1]) < Len(B)
              /\ B[o[i] + Len(f[i + 1]) + 1] = Comma
              /\ o[i + 1] = o[i] + Len(f[i + 1]) + 1
  <2>1. i + 1 \in 1 .. m /\ i + 1 \in 0 .. m /\ (i + 1) - 1 = i
    BY <1>3, <1>16
  <2>2. JoinedOn(g, f, i + 1)
    BY <1>5, <2>1
  <2>3. /\ Len(g[i + 1]) = Len(g[i]) + 1 + Len(f[(i + 1) + 1])
        /\ g[i + 1][Len(g[i]) + 1] = Comma
    BY <2>1, <2>2 DEF JoinedOn
  <2>4. o[i + 1] = Len(g[i]) + 1
    BY <1>11, <2>1
  <2>5. /\ Len(g[i]) \in Nat /\ Len(g[i + 1]) \in Nat /\ Len(f[(i + 1) + 1]) \in Nat
        /\ Len(g[i + 1]) <= Len(B)
    BY <1>6, <1>14, <2>1
  <2>6. Len(g[i]) + 1 \in 1 .. Len(g[i + 1]) /\ Len(g[i]) < Len(B)
    <3> DEFINE x == Len(g[i])
               y == Len(g[i + 1])
               z == Len(f[(i + 1) + 1])
    <3>1. x \in Nat /\ y \in Nat /\ z \in Nat /\ y = x + 1 + z /\ y <= Len(B)
      BY <2>3, <2>5
    <3> HIDE DEF x, y, z
    <3>2. x + 1 \in 1 .. y /\ x < Len(B)
      BY <1>7, <3>1
    <3> QED
      BY <3>2 DEF x, y
  <2>7. B[Len(g[i]) + 1] = Comma
    BY <1>8, <2>1, <2>3, <2>6 DEF StartsWith
  <2> QED
    BY <1>14, <2>4, <2>6, <2>7
<1>17. ASSUME NEW i \in 0 .. m, i = m PROVE o[i] + Len(f[i + 1]) = Len(B)
  BY <1>14, <1>17 DEF B
<1>18. Spread(B, f, o)
  BY <1>7, <1>10, <1>13, <1>14, <1>15, <1>16, <1>17 DEF Spread, m
<1> QED
  BY <1>2, <1>18

-----------------------------------------------------------------------------
(* Where the constructor of the Tokenizer finds the joined fields          *)

\* The line is s characters in front of the b of B, c of a checksum, w of a
\* newline.
Laid(line, B, s, b, c, w) ==
    /\ s \in {0, 1} /\ b \in Nat /\ c \in {0, 3} /\ w \in {1, 2}
    /\ line \in Seq(Int) /\ Len(line) = s + b + c + w
    /\ s = 1 => line[1] = Dollar
    /\ \A j \in 1 .. b : line[s + j] = B[j]
    /\ \A j \in 1 .. b : line[s + j] \notin {Dollar, Star, CR, LF}
    /\ c = 3 => line[s + b + 1] = Star /\ line[s + b + 3] = 65
    /\ w = 1 => line[s + b + c + 1] = LF
    /\ w = 2 => line[s + b + c + 1] = CR /\ line[s + b + c + 2] = LF

\* The constructor finds the begin of the joined fields, with or without '$'.
LEMMA BeginIs ==
    ASSUME NEW line, NEW B, NEW s, NEW b, NEW c, NEW w, Laid(line, B, s, b, c, w)
    PROVE  Begin(line) = s + 1
<1> USE DEF Laid, Dollar, Star, CR, LF
<1>1. line # <<>>
  BY EmptySeq
<1>2. CASE s = 1
  BY <1>1, <1>2 DEF Begin
<1>3. CASE s = 0
  <2>1. line[1] # Dollar
    <3>1. CASE b # 0
      <4>1. 1 \in 1 .. b /\ s + 1 = 1
        BY <1>3, <3>1
      <4> QED
        BY <4>1
    <3>2. CASE b = 0 /\ c = 3
      BY <1>3, <3>2
    <3>3. CASE b = 0 /\ c = 0
      BY <1>3, <3>3
    <3> QED
      BY <3>1, <3>2, <3>3
  <2> QED
    BY <1>3, <2>1 DEF Begin
<1> QED
  BY <1>2, <1>3

\* It finds their end, with or without checksum and CR.
LEMMA EndIs ==
    ASSUME NEW line, NEW B, NEW s, NEW b, NEW c, NEW w, Laid(line, B, s, b, c, w)
    PROVE  End(line) = s + b + 1
<1> DEFINE p  == s + 1
           e1 == Len(line) + 1
           e2 == IF e1 > p /\ line[e1 - 1] = LF THEN e1 - 1 ELSE e1
           e3 == IF e2 < e1 /\ e2 > p /\ line[e2 - 1] = CR THEN e2 - 1 ELSE e2
           x  == s + b + c
<1>1. /\ s \in {0, 1} /\ b \in Nat /\ c \in {0, 3} /\ w \in {1, 2}
      /\ Len(line) = x + w /\ x \in Nat
  BY DEF Laid
<1>2. Begin(line) = p
  BY BeginIs
<1>3. End(line) = IF e3 >= p + 3 /\ line[e3 - 3] = Star THEN e3 - 3 ELSE e3
  BY <1>2 DEF End
<1>4. e1 - 1 = x + w /\ e1 > p
  BY <1>1
<1>5. line[x + w] = LF
  BY <1>1 DEF Laid
<1>6. e2 = x + w /\ e2 < e1
  BY <1>1, <1>4, <1>5
<1> HIDE DEF e2, e1
<1>7. e3 = x + 1
  <2>1. CASE w = 2
    <3>1. e2 - 1 = x + 1 /\ e2 > p
      BY <1>1, <1>6, <2>1
    <3>2. line[x + 1] = CR
      BY <2>1 DEF Laid
    <3> QED
      BY <1>6, <3>1, <3>2
  <2>2. CASE w = 1 /\ b + c = 0
    <3>1. e2 = p /\ p = x + 1 /\ ~(e2 > p)
      BY <1>1, <1>6, <2>2
    <3> QED
      BY <3>1
  <2>3. CASE w = 1 /\ b + c # 0
    <3>1. e2 - 1 = x /\ e2 = x + 1
      BY <1>1, <1>6, <2>3
    <3>2. line[x] # CR
      <4>1. CASE c = 3
        <5>1. x = s + b + 3
          BY <1>1, <4>1
        <5>2. line[s + b + 3] = 65
          BY <4>1 DEF Laid
        <5> QED
          BY <5>1, <5>2 DEF CR
      <4>2. CASE c = 0
        <5>1. b \in 1 .. b /\ x = s + b
          BY <1>1, <2>3, <4>2
        <5>2. line[s + b] \notin {Dollar, Star, CR, LF}
          BY <5>1 DEF Laid
        <5> QED
          BY <5>1, <5>2
      <4> QED
        BY <1>1, <4>1, <4>2
    <3> QED
      BY <3>1, <3>2
  <2> QED
    BY <1>1, <2>1, <2>2, <2>3
<1> HIDE DEF e3
<1>8. CASE c = 3
  <2>1. e3 - 3 = s + b + 1 /\ e3 >= p + 3
    BY <1>1, <1>7, <1>8
  <2>2. line[s + b + 1] = Star
    BY <1>8 DEF Laid
  <2> QED
    BY <1>3, <2>1, <2>2
<1>9. CASE c = 0
  <2>1. e3 = s + b + 1
    BY <1>1, <1>7, <1>9
  <2>2. ASSUME e3 >= p + 3 PROVE line[e3 - 3] # Star
    <3>1. b - 2 \in 1 .. b /\ e3 - 3 = s + (b - 2)
      BY <1>1, <2>1, <2>2
    <3>2. line[s + (b - 2)] \notin {Dollar, Star, CR, LF}
      BY <3>1 DEF Laid
    <3> QED
      BY <3>1, <3>2
  <2> QED
    BY <1>3, <2>1, <2>2
<1> QED
  BY <1>1, <1>8, <1>9

LEMMA TextsAreInts ==
    ASSUME NEW B \in Seq(Text)
    PROVE  /\ B \in Seq(Int) /\ Len(B) \in Nat
           /\ \A j \in 1 .. Len(B) : B[j] \notin {Dollar, Star, CR, LF}
<1>1. Text \subseteq Int
  <2>1. Text \subseteq 0 .. 127
    BY Zenon DEF Text
  <2>2. 0 .. 127 \subseteq Int
    OBVIOUS
  <2> QED
    BY <2>1, <2>2, Zenon
<1>a. \A c \in Text : c \notin {Dollar, Star, CR, LF}
  BY Zenon DEF Text
<1>2. B \in Seq(Int)
  BY <1>1, SeqMonotonic
<1>3. Len(B) \in Nat
  BY LenProperties
<1>4. \A j \in 1 .. Len(B) : B[j] \in Text
  BY ElementOfSeq
<1> QED
  BY <1>a, <1>2, <1>3, <1>4

\* What may stand in front of the joined fields and behind.
LEMMA Edges ==
    ASSUME NEW start \in {<<>>, <<Dollar>>}, NEW checksum \in {<<>>, <<Star, 55, 65>>},
           NEW newline \in {<<LF>>, <<CR, LF>>}
    PROVE  /\ start \in Seq(Int) /\ Len(start) \in {0, 1}
           /\ Len(start) = 1 => start[1] = Dollar
           /\ checksum \in Seq(Int) /\ Len(checksum) \in {0, 3}
           /\ Len(checksum) = 3 => checksum[1] = Star /\ checksum[3] = 65
           /\ newline \in Seq(Int) /\ Len(newline) \in {1, 2}
           /\ Len(newline) = 1 => newline[1] = LF
           /\ Len(newline) = 2 => newline[1] = CR /\ newline[2] = LF
<1> USE DEF Dollar, Star, CR, LF
<1>1. /\ start \in Seq(Int) /\ Len(start) \in {0, 1}
      /\ Len(start) = 1 => start[1] = Dollar
  <2>1. CASE start = <<>>
    BY <2>1, EmptySeq
  <2>2. CASE start = <<Dollar>>
    BY <2>2
  <2> QED
    BY <2>1, <2>2
<1>2. /\ checksum \in Seq(Int) /\ Len(checksum) \in {0, 3}
      /\ Len(checksum) = 3 => checksum[1] = Star /\ checksum[3] = 65
  <2>1. CASE checksum = <<>>
    BY <2>1, EmptySeq
  <2>2. CASE checksum = <<Star, 55, 65>>
    BY <2>2
  <2> QED
    BY <2>1, <2>2
<1>3. /\ newline \in Seq(Int) /\ Len(newline) \in {1, 2}
      /\ Len(newline) = 1 => newline[1] = LF
      /\ Len(newline) = 2 => newline[1] = CR /\ newline[2] = LF
  <2>1. CASE newline = <<LF>>
    BY <2>1
  <2>2. CASE newline = <<CR, LF>>
    BY <2>2
  <2> QED
    BY <2>1, <2>2
<1> QED
  BY <1>1, <1>2, <1>3

\* A sentence is laid out like this.
LEMMA SentenceIsLaid ==
    ASSUME NEW start \in {<<>>, <<Dollar>>}, NEW checksum \in {<<>>, <<Star, 55, 65>>},
           NEW newline \in {<<LF>>, <<CR, LF>>}, NEW B \in Seq(Text)
    PROVE  Laid(start \o B \o checksum \o newline, B,
                Len(start), Len(B), Len(checksum), Len(newline))
<1> DEFINE s == Len(start)
           b == Len(B)
           c == Len(checksum)
           w == Len(newline)
           t1 == start \o B
           t2 == t1 \o checksum
           line == t2 \o newline
<1>1. /\ B \in Seq(Int) /\ b \in Nat
      /\ \A j \in 1 .. b : B[j] \notin {Dollar, Star, CR, LF}
  BY TextsAreInts
<1>2. /\ start \in Seq(Int) /\ s \in {0, 1} /\ (s = 1 => start[1] = Dollar)
      /\ checksum \in Seq(Int) /\ c \in {0, 3}
      /\ (c = 3 => checksum[1] = Star /\ checksum[3] = 65)
      /\ newline \in Seq(Int) /\ w \in {1, 2}
      /\ (w = 1 => newline[1] = LF)
      /\ (w = 2 => newline[1] = CR /\ newline[2] = LF)
  BY Edges, ZenonT(30)
<1>3. Appends(t1, Int, start, B)
  BY <1>1, <1>2, Halves, Zenon
<1> HIDE DEF t1
<1>4. t1 \in Seq(Int)
  BY <1>3 DEF Appends
<1>5. Appends(t2, Int, t1, checksum)
  BY <1>2, <1>4, Halves, Zenon
<1> HIDE DEF t2
<1>6. t2 \in Seq(Int)
  BY <1>5 DEF Appends
<1>7. Appends(line, Int, t2, newline)
  BY <1>2, <1>6, Halves, Zenon
<1> HIDE DEF line, s, b, c, w
<1>8. /\ Len(t1) = s + b
      /\ \A j \in 1 .. s : t1[j] = start[j]
      /\ \A j \in 1 .. b : t1[s + j] = B[j]
  BY <1>3 DEF Appends, s, b
<1>9. /\ Len(t2) = s + b + c
      /\ \A j \in 1 .. s + b : t2[j] = t1[j]
      /\ \A j \in 1 .. c : t2[s + b + j] = checksum[j]
  BY <1>5, <1>8 DEF Appends, c
<1>10. /\ line \in Seq(Int) /\ Len(line) = s + b + c + w
       /\ \A j \in 1 .. s + b + c : line[j] = t2[j]
       /\ \A j \in 1 .. w : line[s + b + c + j] = newline[j]
  BY <1>7, <1>9 DEF Appends, w
<1>11. ASSUME s = 1 PROVE line[1] = Dollar
  <2>1. 1 \in 1 .. s /\ 1 \in 1 .. s + b /\ 1 \in 1 .. s + b + c
    BY <1>1, <1>2, <1>11
  <2> QED
    BY <1>2, <1>8, <1>9, <1>10, <1>11, <2>1
<1>12. ASSUME NEW j \in 1 .. b
       PROVE  line[s + j] = B[j] /\ line[s + j] \notin {Dollar, Star, CR, LF}
  <2>1. s + j \in 1 .. s + b /\ s + j \in 1 .. s + b + c
    BY <1>1, <1>2
  <2> QED
    BY <1>1, <1>8, <1>9, <1>10, <2>1
<1>13. ASSUME c = 3 PROVE line[s + b + 1] = Star /\ line[s + b + 3] = 65
  <2>1. /\ 1 \in 1 .. c /\ 3 \in 1 .. c
        /\ s + b + 1 \in 1 .. s + b + c /\ s + b + 3 \in 1 .. s + b + c
    BY <1>1, <1>2, <1>13
  <2> QED
    BY <1>2, <1>9, <1>10, <1>13, <2>1
<1>14. ASSUME w = 1 PROVE line[s + b + c + 1] = LF
  BY <1>2, <1>10, <1>14
<1>15. ASSUME w = 2 PROVE line[s + b + c + 1] = CR /\ line[s + b + c + 2] = LF
  <2>1. 1 \in 1 .. w /\ 2 \in 1 .. w
    BY <1>15
  <2> QED
    BY <1>2, <1>10, <1>15, <2>1
<1>16. Laid(line, B, s, b, c, w)
  BY <1>1, <1>2, <1>10, <1>11, <1>12, <1>13, <1>14, <1>15 DEF Laid
<1> QED
  BY <1>16 DEF line, t2, t1, s, b, c, w

-----------------------------------------------------------------------------
(* The property                                                            *)

\* Hence a sentence is cut into its fields.
LEMMA LaidIsCut ==
    ASSUME NEW f \in Seq(FieldTexts), f # <<>>,
           NEW line, NEW B, NEW s, NEW c, NEW w, Laid(line, B, s, Len(B), c, w),
           NEW o, Spread(B, f, o)
    PROVE  Cut(line, f, [i \in 0 .. Len(f) - 1 |-> s + 1 + o[i]])
<1> DEFINE m == Len(f) - 1
           b == Len(B)
           q == [i \in 0 .. m |-> s + 1 + o[i]]
<1>1. m \in Nat
  BY LenProperties, EmptySeq
<1>2. /\ s \in Nat /\ b \in Nat
      /\ \A j \in 1 .. b : line[s + j] = B[j]
  BY DEF Laid
<1>3. Begin(line) = s + 1 /\ End(line) = s + b + 1
  BY BeginIs, EndIs
<1>4. /\ o \in [0 .. m -> Nat] /\ o[0] = 0
      /\ \A i \in 0 .. m :
            /\ Len(f[i + 1]) \in Nat
            /\ o[i] + Len(f[i + 1]) <= b
            /\ \A j \in 1 .. Len(f[i + 1]) : B[o[i] + j] = f[i + 1][j]
            /\ i = m => o[i] + Len(f[i + 1]) = b
            /\ i < m => /\ o[i] + Len(f[i + 1]) < b
                        /\ B[o[i] + Len(f[i + 1]) + 1] = Comma
                        /\ o[i + 1] = o[i] + Len(f[i + 1]) + 1
  BY DEF Spread
<1> HIDE DEF m, b
<1>5. \A i \in 0 .. m : q[i] = s + 1 + o[i] /\ o[i] \in Nat
  BY <1>4
<1>6. q \in [0 .. m -> Nat]
  BY <1>2, <1>4
<1> HIDE DEF q
<1>7. q[0] = Begin(line)
  <2>1. 0 \in 0 .. m
    BY <1>1
  <2> QED
    BY <1>2, <1>3, <1>4, <1>5, <2>1
<1>8. ASSUME NEW i \in 0 .. m
      PROVE  /\ q[i] + Len(f[i + 1]) <= End(line)
             /\ \A j \in 1 .. Len(f[i + 1]) : line[q[i] + j - 1] = f[i + 1][j]
             /\ i = m => q[i] + Len(f[i + 1]) = End(line)
             /\ i < m => /\ q[i] + Len(f[i + 1]) < End(line)
                         /\ line[q[i] + Len(f[i + 1])] = Comma
                         /\ q[i + 1] = q[i] + Len(f[i + 1]) + 1
  <2> DEFINE l == Len(f[i + 1])
             x == o[i]
  <2>1. l \in Nat /\ x \in Nat /\ q[i] = s + 1 + x /\ x + l <= b
    BY <1>4, <1>5
  <2>2. /\ \A j \in 1 .. l : B[x + j] = f[i + 1][j]
        /\ i = m => x + l = b
        /\ i < m => x + l < b /\ B[x + l + 1] = Comma /\ o[i + 1] = x + l + 1
    BY <1>4
  <2> HIDE DEF l, x
  <2>3. ASSUME NEW j \in 1 .. l PROVE line[q[i] + j - 1] = f[i + 1][j]
    <3>1. q[i] + j - 1 = s + (x + j) /\ x + j \in 1 .. b
      BY <1>2, <2>1
    <3>2. line[s + (x + j)] = B[x + j]
      BY <1>2, <3>1
    <3> QED
      BY <2>2, <3>1, <3>2
  <2>4. ASSUME i < m
        PROVE  /\ q[i] + l < End(line) /\ line[q[i] + l] = Comma
               /\ q[i + 1] = q[i] + l + 1
    <3>1. q[i] + l = s + (x + l + 1) /\ x + l + 1 \in 1 .. b /\ i + 1 \in 0 .. m
      BY <1>1, <1>2, <2>1, <2>2, <2>4
    <3>2. line[s + (x + l + 1)] = B[x + l + 1]
      BY <1>2, <3>1
    <3>3. q[i + 1] = s + 1 + (x + l + 1)
      BY <1>5, <2>2, <2>4, <3>1
    <3>4. q[i + 1] = q[i] + l + 1
      BY <1>2, <2>1, <3>3
    <3>5. q[i] + l < End(line)
      BY <1>2, <1>3, <2>1, <2>2, <2>4
    <3> QED
      BY <2>2, <2>4, <3>1, <3>2, <3>4, <3>5
  <2>5. q[i] + l <= End(line) /\ (i = m => q[i] + l = End(line))
    BY <1>2, <1>3, <2>1, <2>2
  <2> QED
    BY <2>3, <2>4, <2>5 DEF l
<1>9. End(line) \in Nat
  BY <1>2, <1>3
<1>10. Cut(line, f, q)
  BY <1>6, <1>7, <1>8, <1>9 DEF Cut, m
<1> QED
  BY <1>10 DEF q, m

LEMMA SentencesAre ==
    ASSUME NEW F, NEW A, NEW C, NEW W, NEW x \in SentencesOf(F, A, C, W)
    PROVE  \E f \in F, start \in A, checksum \in C, newline \in W :
              x = [fields |-> f, line |-> Sentence(f, start, checksum, newline)]
BY SMT DEF SentencesOf

\* Every token of a sentence is its field, and every number is read.
LEMMA SentencesRead ==
    ASSUME NEW x \in Sentences PROVE ReadRight(x)
<1> DEFINE F == UNION {[1 .. n -> FieldTexts] : n \in 1 .. MaxFields}
           A == {<<>>, <<Dollar>>}
           C == {<<>>, <<Star, 55, 65>>}
           W == {<<LF>>, <<CR, LF>>}
<1>0. x \in SentencesOf(F, A, C, W)
  BY DEF Sentences
<1> HIDE DEF F, A, C, W
<1>1. PICK f \in F, start \in A, checksum \in C, newline \in W :
             x = [fields |-> f, line |-> Sentence(f, start, checksum, newline)]
  BY ONLY <1>0, SentencesAre, SMTT(20)
<1> USE DEF F, A, C, W
<1>2. PICK n \in 1 .. MaxFields : f \in [1 .. n -> FieldTexts]
  BY <1>1
<1>3. f \in Seq(FieldTexts) /\ f # <<>>
  <2>1. n \in Nat /\ n # 0
    BY TokensAssumption
  <2>2. f \in Seq(FieldTexts) /\ Len(f) = n
    BY <1>2, <2>1
  <2> QED
    BY <2>1, <2>2
<1> DEFINE B == Join(f)
           line == start \o B \o checksum \o newline
<1>4. x.fields = f /\ x.line = line
  BY <1>1 DEF Sentence
<1>5. PICK o : Spread(B, f, o)
  BY <1>3, JoinSpreads
<1> HIDE DEF B
<1>6. B \in Seq(Text)
  BY <1>5 DEF Spread
<1>7. Laid(line, B, Len(start), Len(B), Len(checksum), Len(newline))
  BY <1>6, SentenceIsLaid, ZenonT(30)
<1> HIDE DEF line
<1>8. Cut(line, f, [i \in 0 .. Len(f) - 1 |-> Len(start) + 1 + o[i]])
  BY <1>3, <1>5, <1>7, LaidIsCut
<1>9. ASSUME NEW i \in 0 .. Len(f)
      PROVE  LET field == IF i < Len(f) /\ i < kMaxTokens THEN f[i + 1] ELSE <<>>
             IN  /\ Get(line, i) = field
                 /\ Len(field) < 10 =>
                      str2int(Get(line, i)) =
                      IF \A j \in 1 .. Len(field) : field[j] \in Digits
                      THEN Value(field) ELSE -1
  <2> DEFINE field == IF i < Len(f) /\ i < kMaxTokens THEN f[i + 1] ELSE <<>>
  <2>1. Get(line, i) = field
    BY <1>3, <1>8, FieldsAreTokens
  <2>2. field \in Seq(Int)
    <3>1. CASE i < Len(f) /\ i < kMaxTokens
      <4>1. i + 1 \in 1 .. Len(f)
        BY <1>3, <3>1, LenProperties
      <4>2. f[i + 1] \in Seq(Int)
        BY <1>3, <4>1, FieldsHaveNoComma
      <4> QED
        BY <3>1, <4>2
    <3>2. CASE ~(i < Len(f) /\ i < kMaxTokens)
      BY <3>2
    <3> QED
      BY <3>1, <3>2
  <2> HIDE DEF field
  <2>3. str2int(field) = IF \A j \in 1 .. Len(field) : field[j] \in Digits
                         THEN Value(field) ELSE -1
    BY <2>2, NumbersReadRight
  <2> QED
    BY <2>1, <2>3 DEF field
<1> QED
  BY <1>4, <1>9 DEF ReadRight

\* No sentence is misread, whatever fields it has, empty ones included, with or
\* without '$', checksum and CR (NmeaParser.cpp:54-89): every token is its field,
\* and is read as its number.
THEOREM FieldsAlwaysRead == Spec => []FieldsRead
<1>1. MisreadLengths = {}
  BY SentencesRead DEF MisreadLengths
<1>2. FieldsRead
  BY <1>1 DEF FieldsRead
<1> QED
  BY <1>2, PTL DEF Spec
=============================================================================

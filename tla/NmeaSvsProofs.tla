--------------------------- MODULE NmeaSvsProofs ---------------------------
(* Theorems of NmeaSvs, for any talkers, views, message size and capacity.  *)
(* What OfThese returns is proved by induction over the naturals, which     *)
(* WFMin gives in a form without operator parameters.                       *)
EXTENDS NmeaSvs, TLAPS, WellFoundedInduction, SequenceTheorems

-----------------------------------------------------------------------------
(* Induction                                                                *)

LEMMA NatsWellFounded == IsWellFoundedOn({p \in Nat \X Nat : p[1] < p[2]}, Nat)
BY NatLessThanWellFounded DEF OpToRel

\* A set of numbers with 0 and every successor is Nat.
LEMMA SetInduction ==
    ASSUME NEW S \in SUBSET Nat, 0 \in S, \A n \in S : n + 1 \in S
    PROVE  S = Nat
<1> DEFINE T == Nat \ S
           R == {p \in Nat \X Nat : p[1] < p[2]}
<1> SUFFICES ASSUME T # {} PROVE FALSE
  OBVIOUS
<1>1. IsWellFoundedOn(R, Nat) /\ T \subseteq Nat
  BY NatsWellFounded
<1> HIDE DEF R
<1>2. PICK x \in T : \A y \in T : ~(<<y, x>> \in R)
  BY <1>1, WFMin
<1>3. x # 0 /\ x \in Nat
  OBVIOUS
<1>4. x - 1 \in Nat /\ <<x - 1, x>> \in R
  BY <1>3 DEF R
<1>5. x - 1 \in S
  BY <1>2, <1>4
<1> QED
  BY <1>3, <1>5

\* A set with the empty sequence and every extension of its members has all
\* sequences.
LEMMA SequenceInduction ==
    ASSUME NEW X, NEW Q, <<>> \in Q,
           \A s \in Seq(X), e \in X : s \in Q => Append(s, e) \in Q
    PROVE  Seq(X) \subseteq Q
<1> DEFINE S == {n \in Nat : \A s \in Seq(X) : Len(s) = n => s \in Q}
<1>1. 0 \in S
  BY EmptySeq
<1>2. ASSUME NEW n \in S PROVE n + 1 \in S
  <2> SUFFICES ASSUME NEW s \in Seq(X), Len(s) = n + 1 PROVE s \in Q
    OBVIOUS
  <2>1. s # <<>>
    BY EmptySeq
  <2>2. PICK t \in Seq(X), e \in X : s = Append(t, e)
    BY <2>1, SequenceEmptyOrAppend
  <2>3. Len(t) = n
    BY <2>2, AppendProperties, LenProperties
  <2> QED
    BY <2>2, <2>3
<1>3. S = Nat
  <2> HIDE DEF S
  <2>1. S \in SUBSET Nat
    BY DEF S
  <2> QED
    BY <1>1, <1>2, <2>1, SetInduction
<1> QED
  BY <1>3, LenProperties

-----------------------------------------------------------------------------
(* The entries of some constellations                                       *)

\* The recursion of OfThese, over the first m entries.
Filters(g, svs, ks, m) ==
    g = [n \in 0 .. m |->
           IF n = 0 THEN <<>>
           ELSE IF svs[n].constellation \in ks THEN Append(g[n - 1], svs[n])
           ELSE g[n - 1]]

LEMMA FilterExists ==
    ASSUME NEW svs, NEW ks, NEW m \in Nat
    PROVE  \E g : Filters(g, svs, ks, m)
<1> DEFINE S == {n \in Nat : \E g : Filters(g, svs, ks, n)}
<1>1. 0 \in S
  <2>1. Filters([n \in 0 .. 0 |-> <<>>], svs, ks, 0)
    BY DEF Filters
  <2> QED
    BY <2>1
<1>2. ASSUME NEW n \in S PROVE n + 1 \in S
  <2>1. PICK g : Filters(g, svs, ks, n)
    OBVIOUS
  <2> DEFINE h == [i \in 0 .. n + 1 |->
                     IF i = n + 1
                     THEN IF svs[i].constellation \in ks THEN Append(g[n], svs[i]) ELSE g[n]
                     ELSE g[i]]
  <2>2. Filters(h, svs, ks, n + 1)
    <3>1. ASSUME NEW i \in 0 .. n + 1
          PROVE  h[i] = IF i = 0 THEN <<>>
                        ELSE IF svs[i].constellation \in ks THEN Append(h[i - 1], svs[i])
                        ELSE h[i - 1]
      <4>1. CASE i = n + 1
        BY <4>1
      <4>2. CASE i # n + 1
        <5>1. i \in 0 .. n /\ h[i] = g[i] /\ (i # 0 => h[i - 1] = g[i - 1])
          BY <4>2
        <5>2. g[i] = IF i = 0 THEN <<>>
                     ELSE IF svs[i].constellation \in ks THEN Append(g[i - 1], svs[i])
                     ELSE g[i - 1]
          BY <2>1, <5>1 DEF Filters
        <5> QED
          BY <5>1, <5>2
      <4> QED
        BY <4>1, <4>2
    <3>2. h = [i \in 0 .. n + 1 |-> h[i]]
      OBVIOUS
    <3> HIDE DEF h
    <3> QED
      BY <3>1, <3>2 DEF Filters
  <2> QED
    BY <2>2
<1> HIDE DEF S
<1>3. S \in SUBSET Nat
  BY DEF S
<1>4. S = Nat
  BY <1>1, <1>2, <1>3, SetInduction
<1> QED
  BY <1>4 DEF S

LEMMA FiltersNext ==
    ASSUME NEW g, NEW svs, NEW ks, NEW m \in Nat, Filters(g, svs, ks, m),
           NEW n \in Nat, n + 1 <= m
    PROVE  g[n + 1] = IF svs[n + 1].constellation \in ks THEN Append(g[n], svs[n + 1]) ELSE g[n]
<1>1. PICK k \in 0 .. m : k = n + 1
  OBVIOUS
<1>2. k # 0 /\ k - 1 = n
  BY <1>1
<1>3. g[k] = IF k = 0 THEN <<>>
             ELSE IF svs[k].constellation \in ks THEN Append(g[k - 1], svs[k])
             ELSE g[k - 1]
  BY DEF Filters
<1>4. g[k] = IF svs[k].constellation \in ks THEN Append(g[n], svs[k]) ELSE g[n]
  BY <1>2, <1>3
<1> QED
  BY <1>1, <1>4

\* Lists that agree on the first m entries are filtered alike there.
LEMMA FiltersAgree ==
    ASSUME NEW s, NEW t, NEW ks, NEW m \in Nat, NEW k \in Nat, m <= k,
           \A i \in 1 .. m : s[i] = t[i],
           NEW g, Filters(g, s, ks, m), NEW h, Filters(h, t, ks, k)
    PROVE  g[m] = h[m]
<1> DEFINE S == {n \in Nat : n <= m => g[n] = h[n]}
<1>1. 0 \in S
  BY DEF Filters
<1>2. ASSUME NEW n \in S PROVE n + 1 \in S
  <2> SUFFICES ASSUME n + 1 <= m PROVE g[n + 1] = h[n + 1]
    OBVIOUS
  <2>1. g[n] = h[n] /\ s[n + 1] = t[n + 1] /\ n + 1 <= k
    OBVIOUS
  <2>2. g[n + 1] = IF s[n + 1].constellation \in ks THEN Append(g[n], s[n + 1]) ELSE g[n]
    BY <2>1, FiltersNext
  <2>3. h[n + 1] = IF t[n + 1].constellation \in ks THEN Append(h[n], t[n + 1]) ELSE h[n]
    BY <2>1, FiltersNext
  <2> QED
    BY <2>1, <2>2, <2>3
<1> HIDE DEF S
<1>3. S \in SUBSET Nat
  BY DEF S
<1>4. S = Nat
  BY <1>1, <1>2, <1>3, SetInduction
<1> QED
  BY <1>4 DEF S

LEMMA OfTheseFilters ==
    ASSUME NEW X, NEW svs \in Seq(X), NEW ks
    PROVE  \E g : Filters(g, svs, ks, Len(svs)) /\ OfThese(svs, ks) = g[Len(svs)]
<1> DEFINE g == CHOOSE g : Filters(g, svs, ks, Len(svs))
<1>1. Filters(g, svs, ks, Len(svs))
  BY FilterExists, LenProperties
<1>2. OfThese(svs, ks) = g[Len(svs)]
  BY DEF OfThese, Filters
<1> QED
  BY <1>1, <1>2

\* OfThese entry by entry.
LEMMA OfTheseEmpty == ASSUME NEW ks PROVE OfThese(<<>>, ks) = <<>>
<1>1. PICK g : Filters(g, <<>>, ks, 0) /\ OfThese(<<>>, ks) = g[0]
  BY OfTheseFilters, EmptySeq
<1> QED
  BY <1>1 DEF Filters

LEMMA OfTheseAppend ==
    ASSUME NEW X, NEW svs \in Seq(X), NEW sv \in X, NEW ks
    PROVE  OfThese(Append(svs, sv), ks) =
             IF sv.constellation \in ks THEN Append(OfThese(svs, ks), sv) ELSE OfThese(svs, ks)
<1> DEFINE n == Len(svs)
           more == Append(svs, sv)
<1>1. /\ n \in Nat /\ more \in Seq(X) /\ Len(more) = n + 1
      /\ \A i \in 1 .. n : svs[i] = more[i]
      /\ more[n + 1] = sv
  BY AppendProperties, LenProperties
<1>2. PICK g : Filters(g, svs, ks, n) /\ OfThese(svs, ks) = g[n]
  BY OfTheseFilters
<1> HIDE DEF more
<1>3. PICK h : Filters(h, more, ks, n + 1) /\ OfThese(more, ks) = h[n + 1]
  BY <1>1, OfTheseFilters
<1>4. g[n] = h[n]
  BY <1>1, <1>2, <1>3, FiltersAgree
<1>5. h[n + 1] = IF more[n + 1].constellation \in ks THEN Append(h[n], more[n + 1]) ELSE h[n]
  BY <1>1, <1>3, FiltersNext
<1> QED
  BY <1>1, <1>2, <1>3, <1>4, <1>5 DEF more

\* OfThese shortens a list at most, and keeps its entries' type.
LEMMA OfTheseType ==
    ASSUME NEW X, NEW ks
    PROVE  \A s \in Seq(X) : OfThese(s, ks) \in Seq(X) /\ Len(OfThese(s, ks)) <= Len(s)
<1> DEFINE Q == {s \in Seq(X) : OfThese(s, ks) \in Seq(X) /\ Len(OfThese(s, ks)) <= Len(s)}
<1>1. <<>> \in Q
  <2>1. OfThese(<<>>, ks) = <<>>
    BY OfTheseEmpty
  <2>2. <<>> \in Seq(X) /\ Len(<<>>) <= Len(<<>>)
    BY EmptySeq
  <2> QED
    BY <2>1, <2>2
<1>2. ASSUME NEW s \in Seq(X), NEW e \in X, s \in Q PROVE Append(s, e) \in Q
  <2>1. OfThese(s, ks) \in Seq(X) /\ Len(OfThese(s, ks)) <= Len(s)
    BY <1>2
  <2>2. /\ Append(s, e) \in Seq(X) /\ Len(Append(s, e)) = Len(s) + 1 /\ Len(s) \in Nat
        /\ Append(OfThese(s, ks), e) \in Seq(X)
        /\ Len(Append(OfThese(s, ks), e)) = Len(OfThese(s, ks)) + 1
        /\ Len(OfThese(s, ks)) \in Nat
    BY <2>1, AppendProperties, LenProperties
  <2>3. OfThese(Append(s, e), ks) \in {Append(OfThese(s, ks), e), OfThese(s, ks)}
    BY OfTheseAppend
  <2> QED
    BY <2>1, <2>2, <2>3
<1> HIDE DEF Q
<1>3. Seq(X) \subseteq Q
  BY <1>1, <1>2, SequenceInduction
<1> QED
  BY <1>3 DEF Q

\* All entries, and none.
LEMMA OfTheseAllOrNone ==
    ASSUME NEW X, NEW ks
    PROVE  \A s \in Seq(X) :
             /\ (\A i \in 1 .. Len(s) : s[i].constellation \in ks) => OfThese(s, ks) = s
             /\ (\A i \in 1 .. Len(s) : s[i].constellation \notin ks) => OfThese(s, ks) = <<>>
<1> DEFINE All(s)  == \A i \in 1 .. Len(s) : s[i].constellation \in ks
           None(s) == \A i \in 1 .. Len(s) : s[i].constellation \notin ks
           Q == {s \in Seq(X) : /\ All(s) => OfThese(s, ks) = s
                                /\ None(s) => OfThese(s, ks) = <<>>}
<1>1. <<>> \in Q
  BY OfTheseEmpty, EmptySeq
<1>2. ASSUME NEW s \in Seq(X), NEW e \in X, s \in Q PROVE Append(s, e) \in Q
  <2>1. /\ Append(s, e) \in Seq(X) /\ Len(Append(s, e)) = Len(s) + 1 /\ Len(s) \in Nat
        /\ \A i \in 1 .. Len(s) : Append(s, e)[i] = s[i]
        /\ Append(s, e)[Len(s) + 1] = e
    BY AppendProperties, LenProperties
  <2>2. All(Append(s, e)) => All(s) /\ e.constellation \in ks
    BY <2>1
  <2>3. None(Append(s, e)) => None(s) /\ e.constellation \notin ks
    BY <2>1
  <2>4. /\ All(s) => OfThese(s, ks) = s
        /\ None(s) => OfThese(s, ks) = <<>>
    BY <1>2
  <2> HIDE DEF All, None
  <2> QED
    BY <2>1, <2>2, <2>3, <2>4, OfTheseAppend
<1> HIDE DEF Q
<1>3. Seq(X) \subseteq Q
  BY <1>1, <1>2, SequenceInduction
<1> QED
  BY <1>3 DEF Q

LEMMA OfTheseConcat ==
    ASSUME NEW X, NEW ks, NEW s \in Seq(X)
    PROVE  \A t \in Seq(X) : OfThese(s \o t, ks) = OfThese(s, ks) \o OfThese(t, ks)
<1> DEFINE Q == {t \in Seq(X) : OfThese(s \o t, ks) = OfThese(s, ks) \o OfThese(t, ks)}
<1>0. OfThese(s, ks) \in Seq(X)
  BY OfTheseType
<1>1. <<>> \in Q
  <2>1. s \o <<>> = s /\ OfThese(s, ks) \o <<>> = OfThese(s, ks)
    BY <1>0, ConcatEmptySeq
  <2> QED
    BY <2>1, OfTheseEmpty, EmptySeq
<1>2. ASSUME NEW t \in Seq(X), NEW e \in X, t \in Q PROVE Append(t, e) \in Q
  <2>1. \A u \in Seq(X) : u \o Append(t, e) = Append(u \o t, e)
    <3> TAKE u \in Seq(X)
    <3>1. <<e>> \in Seq(X) /\ Append(t, e) = t \o <<e>> /\ u \o t \in Seq(X)
      BY AppendIsConcat, ConcatProperties
    <3>2. Append(u \o t, e) = (u \o t) \o <<e>>
      BY <3>1, AppendIsConcat
    <3> QED
      BY <3>1, <3>2, ConcatAssociative
  <2>2. s \o t \in Seq(X) /\ Append(t, e) \in Seq(X) /\ OfThese(t, ks) \in Seq(X)
    BY ConcatProperties, AppendProperties, OfTheseType
  <2>3. OfThese(s \o t, ks) = OfThese(s, ks) \o OfThese(t, ks)
    BY <1>2
  <2>4. OfThese(Append(s \o t, e), ks) =
          IF e.constellation \in ks THEN Append(OfThese(s \o t, ks), e) ELSE OfThese(s \o t, ks)
    BY <2>2, OfTheseAppend, ZenonT(30)
  <2>5. OfThese(Append(t, e), ks) =
          IF e.constellation \in ks THEN Append(OfThese(t, ks), e) ELSE OfThese(t, ks)
    BY OfTheseAppend
  <2>6. OfThese(s, ks) \o Append(OfThese(t, ks), e) = Append(OfThese(s, ks) \o OfThese(t, ks),
      e)
    <3> DEFINE a == OfThese(s, ks)
               b == OfThese(t, ks)
    <3> HIDE DEF a, b
    <3>1. a \in Seq(X) /\ b \in Seq(X) /\ <<e>> \in Seq(X)
      BY <1>0, <2>2 DEF a, b
    <3>2. Append(b, e) = b \o <<e>> /\ a \o b \in Seq(X)
      BY <3>1, AppendIsConcat, ConcatProperties
    <3>3. Append(a \o b, e) = (a \o b) \o <<e>>
      BY <3>2, AppendIsConcat
    <3>4. a \o Append(b, e) = Append(a \o b, e)
      BY <3>1, <3>2, <3>3, ConcatAssociative
    <3> QED
      BY <3>4 DEF a, b
  <2> QED
    BY <2>1, <2>2, <2>3, <2>4, <2>5, <2>6
<1> HIDE DEF Q
<1>3. Seq(X) \subseteq Q
  BY <1>1, <1>2, SequenceInduction
<1> QED
  BY <1>3 DEF Q

LEMMA OfTheseTwice ==
    ASSUME NEW X, NEW ks, NEW js
    PROVE  \A s \in Seq(X) : OfThese(OfThese(s, ks), js) = OfThese(s, ks \intersect js)
<1> DEFINE Q == {s \in Seq(X) : OfThese(OfThese(s, ks), js) = OfThese(s, ks \intersect js)}
<1>1. <<>> \in Q
  BY OfTheseEmpty, EmptySeq
<1>2. ASSUME NEW s \in Seq(X), NEW e \in X, s \in Q PROVE Append(s, e) \in Q
  <2>1. Append(s, e) \in Seq(X) /\ OfThese(s, ks) \in Seq(X)
    BY AppendProperties, OfTheseType
  <2>2. OfThese(OfThese(s, ks), js) = OfThese(s, ks \intersect js)
    BY <1>2
  <2>3. OfThese(Append(s, e), ks) =
          IF e.constellation \in ks THEN Append(OfThese(s, ks), e) ELSE OfThese(s, ks)
    BY OfTheseAppend
  <2>4. OfThese(Append(s, e), ks \intersect js) =
          IF e.constellation \in ks \intersect js
          THEN Append(OfThese(s, ks \intersect js), e) ELSE OfThese(s, ks \intersect js)
    BY OfTheseAppend
  <2>5. OfThese(Append(OfThese(s, ks), e), js) =
          IF e.constellation \in js
          THEN Append(OfThese(OfThese(s, ks), js), e) ELSE OfThese(OfThese(s, ks), js)
    BY <2>1, OfTheseAppend
  <2>6. OfThese(OfThese(Append(s, e), ks), js) = OfThese(Append(s, e), ks \intersect js)
    <3>1. CASE e.constellation \in ks
      <4>1. OfThese(Append(s, e), ks) = Append(OfThese(s, ks), e)
        BY <2>3, <3>1
      <4>2. e.constellation \in js <=> e.constellation \in ks \intersect js
        BY <3>1
      <4> QED
        BY <2>2, <2>4, <2>5, <4>1, <4>2
    <3>2. CASE e.constellation \notin ks
      BY <2>2, <2>3, <2>4, <3>2
    <3> QED
      BY <3>1, <3>2
  <2> QED
    BY <2>1, <2>6
<1> HIDE DEF Q
<1>3. Seq(X) \subseteq Q
  BY <1>1, <1>2, SequenceInduction
<1> QED
  BY <1>3 DEF Q

-----------------------------------------------------------------------------
(* AtMost, Entries and the satellites told of                               *)

LEMMA AtMostType ==
    ASSUME NEW X, NEW s \in Seq(X), NEW n \in Nat
    PROVE  /\ AtMost(s, n) \in Seq(X)
           /\ Len(AtMost(s, n)) = IF Len(s) <= n THEN Len(s) ELSE n
           /\ \A i \in 1 .. Len(AtMost(s, n)) : AtMost(s, n)[i] = s[i]
<1>1. CASE Len(s) <= n
  BY <1>1 DEF AtMost
<1>2. CASE ~(Len(s) <= n)
  <2>1. Len(s) \in Nat /\ \A i \in 1 .. n : s[i] \in X
    BY <1>2, LenProperties, ElementOfSeq
  <2>2. /\ SubSeq(s, 1, n) \in Seq(X)
        /\ Len(SubSeq(s, 1, n)) = n
        /\ \A i \in 1 .. n : SubSeq(s, 1, n)[i] = s[i]
    BY <2>1, SubSeqProperties
  <2> QED
    BY <1>2, <2>2 DEF AtMost
<1> QED
  BY <1>1, <1>2

\* What is beyond the capacity is cut off the end.
LEMMA AtMostConcat ==
    ASSUME NEW X, NEW s \in Seq(X), NEW t \in Seq(X), NEW n \in Nat, Len(s) <= n
    PROVE  AtMost(s \o t, n) = s \o AtMost(t, n - Len(s))
<1> DEFINE a == AtMost(s \o t, n)
           c == AtMost(t, n - Len(s))
           b == s \o c
<1>1. Len(s) \in Nat /\ Len(t) \in Nat /\ n - Len(s) \in Nat
  BY LenProperties
<1>2. /\ s \o t \in Seq(X) /\ Len(s \o t) = Len(s) + Len(t)
      /\ \A i \in 1 .. Len(s) + Len(t) :
           (s \o t)[i] = IF i <= Len(s) THEN s[i] ELSE t[i - Len(s)]
  BY ConcatProperties
<1>3. /\ a \in Seq(X)
      /\ Len(a) = IF Len(s) + Len(t) <= n THEN Len(s) + Len(t) ELSE n
      /\ \A i \in 1 .. Len(a) : a[i] = (s \o t)[i]
  BY <1>2, AtMostType, ZenonT(30)
<1>4. /\ c \in Seq(X)
      /\ Len(c) = IF Len(t) <= n - Len(s) THEN Len(t) ELSE n - Len(s)
      /\ \A i \in 1 .. Len(c) : c[i] = t[i]
  BY <1>1, AtMostType
<1> HIDE DEF a, c
<1>5. /\ b \in Seq(X) /\ Len(b) = Len(s) + Len(c)
      /\ \A i \in 1 .. Len(s) + Len(c) : b[i] = IF i <= Len(s) THEN s[i] ELSE c[i - Len(s)]
  BY <1>4, ConcatProperties
<1> HIDE DEF b
<1>6. Len(a) = Len(b)
  BY <1>1, <1>3, <1>4, <1>5
<1>7. ASSUME NEW i \in 1 .. Len(a) PROVE a[i] = b[i]
  <2>1. i \in 1 .. Len(s) + Len(t) /\ i \in 1 .. Len(s) + Len(c)
    BY <1>1, <1>3, <1>4, <1>5, <1>6
  <2>2. a[i] = IF i <= Len(s) THEN s[i] ELSE t[i - Len(s)]
    BY <1>2, <1>3, <2>1
  <2>3. b[i] = IF i <= Len(s) THEN s[i] ELSE c[i - Len(s)]
    BY <1>5, <2>1
  <2>4. ~(i <= Len(s)) => i - Len(s) \in 1 .. Len(c)
    BY <1>1, <1>4, <2>1
  <2> QED
    BY <1>4, <2>2, <2>3, <2>4
<1>8. a = b
  BY <1>3, <1>5, <1>6, <1>7, SeqEqual
<1> QED
  BY <1>8 DEF a, b, c

\* What the loop over a message's satellites has made of the list after n of them
\* (NmeaParser.cpp:259-277), and the recursion of AppendUpToMax.
Pushed(svs, entries, n) ==
    AtMost(svs \o entries, IF Len(svs) + n <= kMaxSvs THEN Len(svs) + n ELSE kMaxSvs)

Pushes(g, svs, entries) ==
    g = [n \in 0 .. Len(entries) |->
           IF n = 0 THEN svs
           ELSE IF Len(g[n - 1]) < kMaxSvs THEN Append(g[n - 1], entries[n])
           ELSE g[n - 1]]

LEMMA PushedType ==
    ASSUME NEW X, NEW svs \in Seq(X), NEW entries \in Seq(X), Len(svs) <= kMaxSvs,
           NEW n \in 0 .. Len(entries)
    PROVE  /\ Pushed(svs, entries, n) \in Seq(X)
           /\ Len(Pushed(svs, entries, n)) =
                IF Len(svs) + n <= kMaxSvs THEN Len(svs) + n ELSE kMaxSvs
           /\ \A i \in 1 .. Len(Pushed(svs, entries, n)) :
                Pushed(svs, entries, n)[i] = (svs \o entries)[i]
<1> DEFINE m == IF Len(svs) + n <= kMaxSvs THEN Len(svs) + n ELSE kMaxSvs
           t == svs \o entries
<1>1. Len(svs) \in Nat /\ Len(entries) \in Nat /\ kMaxSvs \in Nat
  BY LenProperties, SvsAssumption
<1>2. t \in Seq(X) /\ Len(t) = Len(svs) + Len(entries)
  BY ConcatProperties
<1>3. m \in Nat /\ m <= Len(svs) + Len(entries)
  BY <1>1
<1> HIDE DEF m, t
<1>4. /\ AtMost(t, m) \in Seq(X)
      /\ Len(AtMost(t, m)) = IF Len(t) <= m THEN Len(t) ELSE m
      /\ \A i \in 1 .. Len(AtMost(t, m)) : AtMost(t, m)[i] = t[i]
  BY <1>2, <1>3, AtMostType
<1>5. Len(AtMost(t, m)) = m
  BY <1>1, <1>2, <1>3, <1>4, SMTT(30)
<1> QED
  BY <1>4, <1>5 DEF Pushed, m, t

LEMMA OneMore ==
    ASSUME NEW X, NEW s \in Seq(X), NEW t \in Seq(X), NEW e \in X,
           Len(t) = Len(s) + 1, t[Len(s) + 1] = e, \A i \in 1 .. Len(s) : t[i] = s[i]
    PROVE  t = Append(s, e)
<1> DEFINE c == Append(s, e)
<1>1. /\ c \in Seq(X) /\ Len(c) = Len(s) + 1
      /\ \A i \in 1 .. Len(s) : c[i] = s[i]
      /\ c[Len(s) + 1] = e
  BY AppendProperties
<1>2. Len(s) \in Nat
  BY LenProperties
<1> HIDE DEF c
<1>3. ASSUME NEW i \in 1 .. Len(t) PROVE t[i] = c[i]
  <2>1. i \in 1 .. Len(s) \/ i = Len(s) + 1
    BY <1>2
  <2> QED
    BY <1>1, <2>1
<1> QED
  BY <1>1, <1>3, SeqEqual DEF c

\* One pass of the loop.
LEMMA PushedNext ==
    ASSUME NEW X, NEW svs \in Seq(X), NEW entries \in Seq(X), Len(svs) <= kMaxSvs,
           NEW n \in Nat, n + 1 <= Len(entries)
    PROVE  Pushed(svs, entries, n + 1) =
             IF Len(Pushed(svs, entries, n)) < kMaxSvs
             THEN Append(Pushed(svs, entries, n), entries[n + 1])
             ELSE Pushed(svs, entries, n)
<1> DEFINE a == Pushed(svs, entries, n)
           b == Pushed(svs, entries, n + 1)
           t == svs \o entries
<1>1. Len(svs) \in Nat /\ Len(entries) \in Nat /\ kMaxSvs \in Nat
  BY LenProperties, SvsAssumption
<1>2. /\ a \in Seq(X)
      /\ Len(a) = IF Len(svs) + n <= kMaxSvs THEN Len(svs) + n ELSE kMaxSvs
      /\ \A i \in 1 .. Len(a) : a[i] = t[i]
  BY <1>1, PushedType
<1>3. /\ b \in Seq(X)
      /\ Len(b) = IF Len(svs) + (n + 1) <= kMaxSvs THEN Len(svs) + (n + 1) ELSE kMaxSvs
      /\ \A i \in 1 .. Len(b) : b[i] = t[i]
  BY <1>1, PushedType
<1>4. t[Len(svs) + (n + 1)] = entries[n + 1]
  BY <1>1, ConcatProperties
<1>5. PICK e \in X : e = entries[n + 1]
  BY <1>1, ElementOfSeq
<1> HIDE DEF a, b, t
<1>6. CASE Len(a) < kMaxSvs
  <2>1. Len(a) = Len(svs) + n /\ Len(b) = Len(a) + 1
    BY <1>1, <1>2, <1>3, <1>6
  <2>2. b[Len(a) + 1] = e
    BY <1>1, <1>3, <1>4, <1>5, <2>1
  <2>3. \A i \in 1 .. Len(a) : b[i] = a[i]
    BY <1>1, <1>2, <1>3, <2>1
  <2>4. b = Append(a, e)
    BY <1>2, <1>3, <1>5, <2>1, <2>2, <2>3, OneMore
  <2> QED
    BY <1>5, <1>6, <2>4 DEF a, b
<1>7. CASE ~(Len(a) < kMaxSvs)
  <2>1. Len(b) = Len(a)
    BY <1>1, <1>2, <1>3, <1>7
  <2>2. a = b
    BY <1>2, <1>3, <2>1, SeqEqual
  <2> QED
    BY <1>7, <2>2 DEF a, b
<1> QED
  BY <1>6, <1>7

\* The entries pushed one by one are cut off where the list is full.
LEMMA AppendIsCut ==
    ASSUME NEW X, NEW svs \in Seq(X), NEW entries \in Seq(X), Len(svs) <= kMaxSvs
    PROVE  AppendUpToMax(svs, entries) = AtMost(svs \o entries, kMaxSvs)
<1> DEFINE m == Len(entries)
           h == [n \in 0 .. m |-> Pushed(svs, entries, n)]
<1>1. m \in Nat /\ Len(svs) \in Nat /\ kMaxSvs \in Nat /\ Len(svs \o entries) = Len(svs) + m
  BY LenProperties, ConcatProperties, SvsAssumption
<1>2. Pushed(svs, entries, 0) = svs
  <2>1. /\ Pushed(svs, entries, 0) \in Seq(X) /\ Len(Pushed(svs, entries, 0)) = Len(svs)
        /\ \A i \in 1 .. Len(Pushed(svs, entries, 0)) :
             Pushed(svs, entries, 0)[i] = (svs \o entries)[i]
    BY <1>1, PushedType
  <2>2. \A i \in 1 .. Len(svs) : (svs \o entries)[i] = svs[i]
    BY <1>1, ConcatProperties
  <2> QED
    BY <2>1, <2>2, SeqEqual
<1>3. Pushed(svs, entries, m) = AtMost(svs \o entries, kMaxSvs)
  BY <1>1 DEF Pushed, AtMost
<1>4. Pushes(h, svs, entries)
  <2>1. ASSUME NEW n \in 0 .. m
        PROVE  h[n] = IF n = 0 THEN svs
                      ELSE IF Len(h[n - 1]) < kMaxSvs THEN Append(h[n - 1], entries[n])
                      ELSE h[n - 1]
    <3>1. CASE n = 0
      BY <1>2, <3>1
    <3>2. CASE n # 0
      <4>1. PICK k \in Nat : k = n - 1
        BY <3>2
      <4>2. k + 1 = n /\ k + 1 <= m /\ h[n] = Pushed(svs, entries, k + 1)
            /\ h[n - 1] = Pushed(svs, entries, k)
        BY <1>1, <4>1
      <4> QED
        BY <3>2, <4>2, PushedNext
    <3> QED
      BY <3>1, <3>2
  <2>2. h = [n \in 0 .. m |-> h[n]]
    OBVIOUS
  <2> HIDE DEF h
  <2> QED
    BY <2>1, <2>2 DEF Pushes
<1> DEFINE g == CHOOSE g : Pushes(g, svs, entries)
<1>5. Pushes(g, svs, entries)
  BY <1>4
<1>6. AppendUpToMax(svs, entries) = g[m]
  BY DEF AppendUpToMax, Pushes
<1> HIDE DEF g, h
<1>7. m \in {n \in Nat : n <= m => g[n] = Pushed(svs, entries, n)}
  <2> DEFINE S == {n \in Nat : n <= m => g[n] = Pushed(svs, entries, n)}
  <2>1. 0 \in S
    BY <1>1, <1>2, <1>5 DEF Pushes
  <2>2. ASSUME NEW n \in S PROVE n + 1 \in S
    <3> SUFFICES ASSUME n + 1 <= m PROVE g[n + 1] = Pushed(svs, entries, n + 1)
      OBVIOUS
    <3>1. g[n] = Pushed(svs, entries, n)
      BY <1>1
    <3>2. PICK k \in 0 .. m : k = n + 1
      BY <1>1
    <3>3. k # 0 /\ k - 1 = n
      BY <3>2
    <3>4. g[k] = IF k = 0 THEN svs
                 ELSE IF Len(g[k - 1]) < kMaxSvs THEN Append(g[k - 1], entries[k])
                 ELSE g[k - 1]
      BY <1>5 DEF Pushes
    <3> QED
      BY <3>1, <3>2, <3>3, <3>4, PushedNext
  <2> HIDE DEF S
  <2>3. S \in SUBSET Nat
    BY DEF S
  <2>4. S = Nat
    BY <2>1, <2>2, <2>3, SetInduction
  <2> QED
    BY <1>1, <2>4 DEF S
<1> QED
  BY <1>1, <1>3, <1>6, <1>7

\* The first p elements, and the next n.
LEMMA AtMostNext ==
    ASSUME NEW X, NEW s \in Seq(X), NEW p \in Nat, NEW n \in Nat
    PROVE  AtMost(s, p) \o AtMost(SubSeq(s, p + 1, Len(s)), n) = AtMost(s, p + n)
<1> DEFINE a == AtMost(s, p)
           rest == SubSeq(s, p + 1, Len(s))
           c == AtMost(rest, n)
           b == a \o c
           d == AtMost(s, p + n)
<1>1. Len(s) \in Nat
  BY LenProperties
<1>2. /\ a \in Seq(X) /\ Len(a) = IF Len(s) <= p THEN Len(s) ELSE p
      /\ \A i \in 1 .. Len(a) : a[i] = s[i]
  BY AtMostType
<1>3. /\ rest \in Seq(X)
      /\ Len(rest) = IF p + 1 <= Len(s) THEN Len(s) - p ELSE 0
      /\ \A i \in 1 .. Len(rest) : rest[i] = s[p + i]
  <2>1. \A i \in p + 1 .. Len(s) : s[i] \in X
    BY <1>1, ElementOfSeq
  <2>2. /\ rest \in Seq(X)
        /\ Len(rest) = IF p + 1 <= Len(s) THEN Len(s) - (p + 1) + 1 ELSE 0
        /\ \A i \in 1 .. Len(s) - (p + 1) + 1 : rest[i] = s[(p + 1) + i - 1]
    BY <1>1, <2>1, SubSeqProperties
  <2> HIDE DEF rest
  <2>3. \A i \in 1 .. Len(rest) : i \in 1 .. Len(s) - (p + 1) + 1 /\ (p + 1) + i - 1 = p + i
    BY <1>1, <2>2
  <2> QED
    BY <1>1, <2>2, <2>3
<1> HIDE DEF rest
<1>4. /\ c \in Seq(X) /\ Len(c) = IF Len(rest) <= n THEN Len(rest) ELSE n
      /\ \A i \in 1 .. Len(c) : c[i] = rest[i]
  BY <1>3, AtMostType
<1>5. /\ d \in Seq(X) /\ Len(d) = IF Len(s) <= p + n THEN Len(s) ELSE p + n
      /\ \A i \in 1 .. Len(d) : d[i] = s[i]
  BY AtMostType
<1> HIDE DEF a, c, d
<1>6. /\ b \in Seq(X) /\ Len(b) = Len(a) + Len(c)
      /\ \A i \in 1 .. Len(a) + Len(c) : b[i] = IF i <= Len(a) THEN a[i] ELSE c[i - Len(a)]
  BY <1>2, <1>4, ConcatProperties
<1> HIDE DEF b
<1>7. Len(b) = Len(d)
  <2>1. CASE Len(s) <= p
    <3>1. Len(a) = Len(s) /\ Len(c) = 0 /\ Len(d) = Len(s)
      BY <1>1, <1>2, <1>3, <1>4, <1>5, <2>1
    <3> QED
      BY <1>1, <1>6, <3>1
  <2>2. CASE ~(Len(s) <= p)
    <3>1. Len(a) = p /\ Len(rest) = Len(s) - p
      BY <1>1, <1>2, <1>3, <2>2
    <3>2. CASE Len(s) <= p + n
      <4>1. Len(c) = Len(s) - p /\ Len(d) = Len(s)
        BY <1>1, <1>4, <1>5, <3>1, <3>2
      <4> QED
        BY <1>1, <1>6, <3>1, <4>1
    <3>3. CASE ~(Len(s) <= p + n)
      <4>1. Len(c) = n /\ Len(d) = p + n
        BY <1>1, <1>4, <1>5, <3>1, <3>3
      <4> QED
        BY <1>6, <3>1, <4>1
    <3> QED
      BY <3>2, <3>3
  <2> QED
    BY <2>1, <2>2
<1>8. ASSUME NEW i \in 1 .. Len(b) PROVE b[i] = d[i]
  <2>1. Len(a) \in Nat /\ Len(c) \in Nat /\ d[i] = s[i]
    BY <1>2, <1>4, <1>5, <1>7, LenProperties
  <2>2. CASE i <= Len(a)
    BY <1>2, <1>6, <2>1, <2>2
  <2>3. CASE ~(i <= Len(a))
    <3>1. i - Len(a) \in 1 .. Len(c) /\ i - Len(a) \in 1 .. Len(rest)
      BY <1>3, <1>1, <1>4, <1>6, <2>1, <2>3
    <3>2. b[i] = rest[i - Len(a)]
      BY <1>4, <1>6, <2>1, <2>3, <3>1
    <3>3. Len(a) = p
      BY <1>1, <1>2, <1>3, <3>1
    <3> QED
      BY <1>3, <2>1, <3>1, <3>2, <3>3
  <2> QED
    BY <2>2, <2>3
<1>9. b = d
  BY <1>5, <1>6, <1>7, <1>8, SeqEqual
<1> QED
  BY <1>9 DEF a, b, c, d, rest

Numbers == Nat \ {0}

\* The first p satellites of the view.
Told(p) == AtMost(burst.sats, p)

\* Entries come one for each satellite, all of the burst's constellation.
LEMMA EntriesType ==
    ASSUME NEW sats \in Seq(Numbers)
    PROVE  /\ Entries(sats) \in Seq(GnssSvInfo)
           /\ Len(Entries(sats)) = Len(sats)
           /\ \A i \in 1 .. Len(sats) : Entries(sats)[i].constellation = Constellation
<1>1. Len(sats) \in Nat /\ \A i \in 1 .. Len(sats) : sats[i] \in Numbers
  BY LenProperties, ElementOfSeq
<1>2. Constellation \in Constellations
  BY DEF Constellation, constellationForTalker, Constellations
<1>3. \A i \in 1 .. Len(sats) :
        [svid |-> sats[i], constellation |-> Constellation, used |-> sats[i] \in mUsedInFix]
            \in GnssSvInfo
  BY <1>1, <1>2 DEF GnssSvInfo, Numbers
<1> QED
  BY <1>1, <1>3 DEF Entries

LEMMA EntriesConcat ==
    ASSUME NEW s \in Seq(Numbers), NEW t \in Seq(Numbers)
    PROVE  Entries(s) \o Entries(t) = Entries(s \o t)
<1> DEFINE a == Entries(s) \o Entries(t)
           b == Entries(s \o t)
<1>1. /\ s \o t \in Seq(Numbers) /\ Len(s \o t) = Len(s) + Len(t)
      /\ \A i \in 1 .. Len(s) + Len(t) :
           (s \o t)[i] = IF i <= Len(s) THEN s[i] ELSE t[i - Len(s)]
  BY ConcatProperties
<1>2. /\ Entries(s) \in Seq(GnssSvInfo) /\ Len(Entries(s)) = Len(s)
      /\ Entries(t) \in Seq(GnssSvInfo) /\ Len(Entries(t)) = Len(t)
      /\ b \in Seq(GnssSvInfo) /\ Len(b) = Len(s) + Len(t)
      /\ Len(s) \in Nat /\ Len(t) \in Nat
  BY <1>1, EntriesType, LenProperties
<1>3. /\ a \in Seq(GnssSvInfo) /\ Len(a) = Len(s) + Len(t)
      /\ \A i \in 1 .. Len(s) + Len(t) :
           a[i] = IF i <= Len(s) THEN Entries(s)[i] ELSE Entries(t)[i - Len(s)]
  <2> DEFINE es == Entries(s)
             et == Entries(t)
  <2>1. /\ es \in Seq(GnssSvInfo) /\ Len(es) = Len(s)
        /\ et \in Seq(GnssSvInfo) /\ Len(et) = Len(t)
    BY <1>2
  <2> HIDE DEF es, et
  <2>2. /\ es \o et \in Seq(GnssSvInfo) /\ Len(es \o et) = Len(es) + Len(et)
        /\ \A i \in 1 .. Len(es) + Len(et) :
             (es \o et)[i] = IF i <= Len(es) THEN es[i] ELSE et[i - Len(es)]
    BY <2>1, ConcatProperties
  <2> QED
    BY <2>1, <2>2 DEF es, et
<1> DEFINE entry(x) == [svid |-> x, constellation |-> Constellation, used |-> x \in mUsedInFix]
<1>4. ASSUME NEW u, NEW i \in 1 .. Len(u) PROVE Entries(u)[i] = entry(u[i])
  BY <1>4 DEF Entries
<1> HIDE DEF a, entry
<1>5. ASSUME NEW i \in 1 .. Len(s) + Len(t) PROVE a[i] = b[i]
  <2>1. b[i] = entry((s \o t)[i])
    BY <1>1, <1>4
  <2>2. CASE i <= Len(s)
    <3>1. i \in 1 .. Len(s)
      BY <1>2, <2>2
    <3> QED
      BY <1>1, <1>3, <1>4, <2>1, <2>2, <3>1
  <2>3. CASE ~(i <= Len(s))
    <3>1. i - Len(s) \in 1 .. Len(t)
      BY <1>2, <2>3
    <3> QED
      BY <1>1, <1>3, <1>4, <2>1, <2>3, <3>1
  <2> QED
    BY <2>2, <2>3
<1> HIDE DEF b
<1>6. a = b
  BY <1>2, <1>3, <1>5, SeqEqual
<1> QED
  BY <1>6 DEF a, b

LEMMA ViewTypes ==
    ASSUME SvsTypeOK
    PROVE  /\ burst.sats \in Seq(Numbers) /\ burst.next \in Nat \ {0}
           /\ (burst.next - 1) * SatsPerGSV \in Nat
           /\ Message \in Seq(Numbers)
           /\ mSvs \in Seq(GnssSvInfo)
<1>1. burst.sats \in Seq(Numbers) /\ burst.next \in Nat \ {0} /\ mSvs \in Seq(GnssSvInfo)
  BY SvsAssumption DEF SvsTypeOK, Numbers
<1>2. PICK p \in Nat : p = (burst.next - 1) * SatsPerGSV
  BY <1>1, SvsAssumption
<1>3. \A i \in p + 1 .. Len(burst.sats) : burst.sats[i] \in Numbers
  BY <1>1, LenProperties, ElementOfSeq
<1>4. SubSeq(burst.sats, p + 1, Len(burst.sats)) \in Seq(Numbers)
  BY <1>1, <1>3, LenProperties, SubSeqProperties
<1>5. AtMost(SubSeq(burst.sats, p + 1, Len(burst.sats)), SatsPerGSV) \in Seq(Numbers)
  BY <1>4, AtMostType, SvsAssumption
<1> QED
  BY <1>1, <1>2, <1>5 DEF Message

LEMMA KeptType == ASSUME SvsTypeOK PROVE Kept \in Seq(GnssSvInfo) /\ Len(Kept) <= Len(mSvs)
<1>1. mSvs \in Seq(GnssSvInfo) /\ Len(mSvs) \in Nat
  BY LenProperties DEF SvsTypeOK
<1> QED
  BY <1>1, OfTheseType DEF Kept, Except

-----------------------------------------------------------------------------
(* Invariants                                                               *)

LEMMA EntriesEmpty == Entries(<<>>) = <<>>
<1>1. Entries(<<>>) \in Seq(GnssSvInfo) /\ Len(Entries(<<>>)) = 0
  BY EntriesType, EmptySeq
<1> QED
  BY <1>1, EmptySeq

\* Message 1 leaves nothing of the burst's constellation.
LEMMA BurstClears ==
    ASSUME SvsTypeOK, burst.next = 1 PROVE Of(Kept, Constellation) = <<>>
<1>1. mSvs \in Seq(GnssSvInfo)
  BY DEF SvsTypeOK
<1>2. Of(Kept, Constellation) =
        OfThese(mSvs, (Constellations \ {Constellation}) \intersect {Constellation})
  BY <1>1, OfTheseTwice DEF Kept, Except, Of
<1>3. (Constellations \ {Constellation}) \intersect {Constellation} = {}
  OBVIOUS
<1>4. OfThese(mSvs, {}) = <<>>
  BY <1>1, OfTheseAllOrNone
<1> QED
  BY <1>2, <1>3, <1>4

\* The entries of the first satellites are the first entries.
LEMMA CutEntries ==
    ASSUME NEW s \in Seq(Numbers), NEW n \in Nat
    PROVE  Entries(AtMost(s, n)) = AtMost(Entries(s), n)
<1> DEFINE es == Entries(s)
           c  == AtMost(s, n)
           a  == Entries(c)
           b  == AtMost(es, n)
<1>1. /\ c \in Seq(Numbers) /\ Len(c) = IF Len(s) <= n THEN Len(s) ELSE n
      /\ \A i \in 1 .. Len(c) : c[i] = s[i]
  BY AtMostType
<1>2. es \in Seq(GnssSvInfo) /\ Len(es) = Len(s) /\ Len(s) \in Nat
  BY EntriesType, LenProperties
<1>3. a \in Seq(GnssSvInfo) /\ Len(a) = Len(c)
  BY <1>1, EntriesType
<1>4. /\ b \in Seq(GnssSvInfo) /\ Len(b) = IF Len(es) <= n THEN Len(es) ELSE n
      /\ \A i \in 1 .. Len(b) : b[i] = es[i]
  BY <1>2, AtMostType
<1>5. ASSUME NEW i \in 1 .. Len(c) PROVE a[i] = es[i]
  <2>1. i \in 1 .. Len(s)
    BY <1>1, <1>2
  <2> QED
    BY <1>1, <1>5, <2>1 DEF Entries
<1> HIDE DEF es, c, a, b
<1>6. Len(a) = Len(b)
  BY <1>1, <1>2, <1>3, <1>4
<1>7. a = b
  BY <1>3, <1>4, <1>5, <1>6, SeqEqual
<1> QED
  BY <1>7 DEF a, b, c, es

\* The first elements of a longer sequence.
LEMMA AtMostOfLonger ==
    ASSUME NEW s \in Seq(Numbers), NEW t \in Seq(Numbers), NEW n \in 0 .. Len(s)
    PROVE  AtMost(s, n) = AtMost(s \o t, n)
<1> DEFINE a == AtMost(s, n)
           b == AtMost(s \o t, n)
<1>1. /\ s \o t \in Seq(Numbers) /\ Len(s \o t) = Len(s) + Len(t)
      /\ Len(s) \in Nat /\ Len(t) \in Nat /\ n \in Nat /\ n <= Len(s)
      /\ \A i \in 1 .. Len(s) : (s \o t)[i] = s[i]
  BY ConcatProperties, LenProperties
<1>2. /\ a \in Seq(Numbers) /\ Len(a) = IF Len(s) <= n THEN Len(s) ELSE n
      /\ \A i \in 1 .. Len(a) : a[i] = s[i]
  BY <1>1, AtMostType
<1>3. PICK u \in Seq(Numbers) : u = s \o t
  BY <1>1
<1>4. /\ b \in Seq(Numbers) /\ Len(b) = IF Len(u) <= n THEN Len(u) ELSE n
      /\ \A i \in 1 .. Len(b) : b[i] = u[i]
  BY <1>1, <1>3, AtMostType
<1> HIDE DEF a, b
<1>5. Len(a) = n /\ Len(b) = n
  BY <1>1, <1>2, <1>3, <1>4
<1>6. \A i \in 1 .. n : i \in 1 .. Len(s)
  BY <1>1
<1>7. a = b
  BY <1>1, <1>2, <1>3, <1>4, <1>5, <1>6, SeqEqual
<1> QED
  BY <1>7 DEF a, b

\* The types, and a list that is never longer than kMaxSvs (NmeaParser.cpp:276).
SvsInv == SvsTypeOK /\ Len(mSvs) <= kMaxSvs

\* What a message makes of the list.
LEMMA GSVAppends ==
    ASSUME SvsInv, GSV
    PROVE  /\ Kept \in Seq(GnssSvInfo) /\ Entries(Message) \in Seq(GnssSvInfo)
           /\ Len(Kept) \in Nat /\ Len(Kept) <= kMaxSvs
           /\ mSvs' = AtMost(Kept \o Entries(Message), kMaxSvs)
           /\ mSvs' \in Seq(GnssSvInfo) /\ Len(mSvs') <= kMaxSvs
<1>1. /\ Kept \in Seq(GnssSvInfo) /\ Entries(Message) \in Seq(GnssSvInfo)
      /\ Len(Kept) <= Len(mSvs)
  BY ViewTypes, KeptType, EntriesType DEF SvsInv
<1>2. Len(Kept) \in Nat /\ Len(mSvs) \in Nat /\ kMaxSvs \in Nat /\ Len(mSvs) <= kMaxSvs
  BY <1>1, LenProperties, SvsAssumption DEF SvsInv, SvsTypeOK
<1>3. Len(Kept) <= kMaxSvs
  BY <1>1, <1>2
<1>4. mSvs' = AtMost(Kept \o Entries(Message), kMaxSvs)
  BY <1>1, <1>3, AppendIsCut DEF GSV
<1>5. Kept \o Entries(Message) \in Seq(GnssSvInfo)
  BY <1>1, ConcatProperties
<1>6. PICK new \in Seq(GnssSvInfo) : new = Kept \o Entries(Message)
  BY <1>5
<1>7. mSvs' \in Seq(GnssSvInfo) /\ Len(mSvs') <= kMaxSvs
  <2>1. Len(new) \in Nat
    BY LenProperties
  <2>2. /\ AtMost(new, kMaxSvs) \in Seq(GnssSvInfo)
        /\ Len(AtMost(new, kMaxSvs)) = IF Len(new) <= kMaxSvs THEN Len(new) ELSE kMaxSvs
    BY <1>2, AtMostType
  <2>3. Len(AtMost(new, kMaxSvs)) <= kMaxSvs
    BY <1>2, <2>1, <2>2
  <2> QED
    BY <1>4, <1>6, <2>2, <2>3
<1> QED
  BY <1>1, <1>2, <1>3, <1>4, <1>7

LEMMA SvsInvariant == Spec => []SvsInv
<1>0. \A b \in [talker: Talkers, sats: Views, next: {1}] :
        b \in [talker: Talkers, sats: Views, next: Nat \ {0}]
  OBVIOUS
<1>1. Init => SvsInv
  <2> SUFFICES ASSUME Init PROVE SvsInv
    OBVIOUS
  <2>1. mSvs = <<>> /\ heard = <<>>
    BY DEF Init
  <2>2. mSvs \in Seq(GnssSvInfo) /\ heard \in Seq(Nat \ {0}) /\ Len(mSvs) <= kMaxSvs
    BY <2>1, EmptySeq, SvsAssumption
  <2> QED
    BY <1>0, <2>2 DEF Init, SvsInv, SvsTypeOK
<1>2. SvsInv /\ [Next]_svVars => SvsInv'
  <2> SUFFICES ASSUME SvsInv, [Next]_svVars PROVE SvsInv'
    OBVIOUS
  <2>0. /\ mUsedInFix \subseteq Nat \ {0}
        /\ burst \in [talker: Talkers, sats: Views, next: Nat \ {0}]
        /\ heard \in Seq(Nat \ {0})
        /\ intact \in BOOLEAN /\ begun \in BOOLEAN /\ reported \in BOOLEAN
        /\ mSvs \in Seq(GnssSvInfo) /\ Len(mSvs) <= kMaxSvs
    BY DEF SvsInv, SvsTypeOK
  <2>1. ASSUME NEW parsed \in BOOLEAN, Deliver(parsed)
        PROVE  /\ burst' \in [talker: Talkers, sats: Views, next: Nat \ {0}]
               /\ heard' \in Seq(Nat \ {0})
               /\ intact' \in BOOLEAN /\ begun' \in BOOLEAN
    <3>1. Message \in Seq(Nat \ {0}) /\ heard \o Message \in Seq(Nat \ {0})
      BY <2>0, ViewTypes, ConcatProperties DEF SvsInv, Numbers
    <3>2. heard' \in {heard, Message, heard \o Message}
      BY <2>1 DEF Deliver
    <3>3. heard' \in Seq(Nat \ {0})
      BY ONLY <2>0, <3>1, <3>2
    <3>4. [burst EXCEPT !.next = @ + 1] \in [talker: Talkers, sats: Views, next: Nat \ {0}]
      BY <2>0
    <3>5. burst' \in [talker: Talkers, sats: Views, next: Nat \ {0}]
      BY <2>1, <3>4, Zenon DEF Deliver
    <3>6. intact' \in BOOLEAN /\ begun' \in BOOLEAN
      BY <2>0, <2>1, Zenon DEF Deliver
    <3> QED
      BY <3>3, <3>5, <3>6
  <2>2. CASE GSV
    <3>1. mSvs' \in Seq(GnssSvInfo) /\ Len(mSvs') <= kMaxSvs
      BY <2>2, GSVAppends
    <3> QED
      BY <2>0, <2>1, <2>2, <3>1 DEF GSV, SvsInv, SvsTypeOK, GnssSvInfo
  <2>3. CASE LoseGSV
    BY <2>0, <2>1, <2>3 DEF LoseGSV, SvsInv, SvsTypeOK, GnssSvInfo
  <2>4. CASE GSA
    <3>1. \A i \in 1 .. Len(burst.sats) : burst.sats[i] \in Nat \ {0}
      BY ViewTypes, ElementOfSeq DEF SvsInv, Numbers
    <3>2. Len(burst.sats) \in Nat
      BY ViewTypes, LenProperties DEF SvsInv
    <3>3. mUsedInFix' \subseteq Nat \ {0}
      BY <2>4, <3>1, <3>2 DEF GSA
    <3> QED
      BY <2>0, <2>4, <3>3 DEF GSA, SvsInv, SvsTypeOK, GnssSvInfo
  <2>5. CASE NextBurst
    BY <1>0, <2>0, <2>5, EmptySeq DEF NextBurst, SvsInv, SvsTypeOK, GnssSvInfo
  <2>6. CASE UNCHANGED svVars
    BY <2>0, <2>6 DEF svVars, SvsInv, SvsTypeOK, GnssSvInfo
  <2> QED
    BY <2>2, <2>3, <2>4, <2>5, <2>6 DEF Next
<1> QED
  BY <1>1, <1>2, PTL DEF Spec

\* Every entry of the list is a satellite's, with a positive number and a known
\* constellation (NmeaParser.cpp:256-276).
THEOREM SvsTypeCorrect == Spec => []SvsTypeOK
<1>1. SvsInv => SvsTypeOK
  BY DEF SvsInv
<1> QED
  BY <1>1, SvsInvariant, PTL

\* While a burst arrives complete, and until its list was reported, a list with
\* room holds of its constellation what was told so far.
BurstInv ==
    /\ reported => burst.next = numMessages + 1
    /\ burst.next = 1 => ~intact
    /\ intact /\ (reported \/ ~BurstDone) /\ Len(mSvs) < kMaxSvs =>
         Of(mSvs, Constellation) = Entries(Told((burst.next - 1) * SatsPerGSV))

\* A burst's messages cover its view.
LEMMA MessagesSuffice ==
    ASSUME SvsTypeOK
    PROVE  numMessages \in Nat \ {0} /\ Told(numMessages * SatsPerGSV) = burst.sats
<1>1. burst.sats \in Seq(Numbers) /\ Len(burst.sats) \in Nat
  BY ViewTypes, LenProperties
<1>2. PICK s \in Nat \ {0} : s = SatsPerGSV
  BY SvsAssumption
<1>3. PICK n \in Nat : n = Len(burst.sats)
  BY <1>1
<1>4. CASE burst.sats = <<>>
  <2>1. Len(burst.sats) = 0 /\ numMessages = 1
    BY <1>4, EmptySeq DEF numMessages
  <2> QED
    BY <1>2, <2>1 DEF Told, AtMost
<1>5. CASE burst.sats # <<>>
  <2>1. n > 0
    BY <1>1, <1>3, <1>5, EmptySeq
  <2>2. PICK m \in Int : m = (n + s - 1) \div s
    BY <2>1
  <2>3. numMessages = m
    BY <1>2, <1>3, <1>5, <2>2 DEF numMessages
  <2>4. m * s <= n + s - 1 /\ n + s - 1 < m * s + s
    BY <2>1, <2>2
  <2>5. n <= m * s
    BY <2>4
  <2>6. m > 0
    <3> SUFFICES ASSUME m <= 0 PROVE FALSE
      BY <2>2
    <3>1. m * s <= 0
      BY <3>1
    <3> QED
      BY <2>1, <2>5, <3>1
  <2>7. PICK w \in Int : w = m * s
    BY <2>2
  <2>8. Len(burst.sats) <= w
    BY <1>3, <2>5, <2>7
  <2>9. numMessages * SatsPerGSV = w
    BY <1>2, <2>3, <2>7
  <2>10. numMessages \in Nat \ {0}
    BY <2>2, <2>3, <2>6
  <2> QED
    BY <2>8, <2>9, <2>10 DEF Told, AtMost
<1> QED
  BY <1>4, <1>5

\* A message adds its satellites to what was told.
LEMMA MessageTells ==
    ASSUME SvsTypeOK
    PROVE  Entries(Told((burst.next - 1) * SatsPerGSV)) \o Entries(Message)
             = Entries(Told(burst.next * SatsPerGSV))
<1>1. PICK p \in Nat : p = (burst.next - 1) * SatsPerGSV
  BY ViewTypes
<1>2. burst.next * SatsPerGSV = p + SatsPerGSV
  BY <1>1, ViewTypes, SvsAssumption
<1>3. Told(p) \o Message = Told(p + SatsPerGSV)
  BY <1>1, ViewTypes, AtMostNext, SvsAssumption DEF Told, Message
<1>4. Told(p) \in Seq(Numbers) /\ Message \in Seq(Numbers)
  BY ViewTypes, AtMostType DEF Told
<1>5. Entries(Told(p)) \o Entries(Message) = Entries(Told(p + SatsPerGSV))
  BY <1>3, <1>4, EntriesConcat
<1> QED
  BY <1>1, <1>2, <1>5

LEMMA BurstGSV ==
    ASSUME SvsInv, SvsInv', BurstInv, GSV
    PROVE  BurstInv'
<1> DEFINE p == (burst.next - 1) * SatsPerGSV
           new == Kept \o Entries(Message)
<1>0. SvsTypeOK /\ SvsTypeOK'
  BY DEF SvsInv
<1>1. /\ mSvs' = AtMost(new, kMaxSvs) /\ mUsedInFix' = mUsedInFix /\ ~BurstDone
      /\ burst'.talker = burst.talker /\ burst'.sats = burst.sats
      /\ burst'.next = burst.next + 1
      /\ intact' => burst.next = 1 \/ intact
      /\ reported' => burst.next = numMessages
  BY <1>0, GSVAppends DEF GSV, Deliver, SvsTypeOK
<1>2. Constellation' = Constellation /\ numMessages' = numMessages
  BY <1>1 DEF Constellation, numMessages
<1>4. burst.next \in Nat /\ burst.next > 0 /\ numMessages \in Nat
  BY <1>0, ViewTypes, MessagesSuffice
<1>5. /\ Kept \in Seq(GnssSvInfo) /\ Entries(Message) \in Seq(GnssSvInfo)
      /\ mSvs \in Seq(GnssSvInfo) /\ new \in Seq(GnssSvInfo)
      /\ Len(new) = Len(Kept) + Len(Entries(Message))
      /\ Len(Kept) \in Nat /\ Len(Entries(Message)) \in Nat
  BY <1>0, ViewTypes, KeptType, EntriesType, ConcatProperties, LenProperties
<1>6. ASSUME intact', Len(mSvs') < kMaxSvs
      PROVE  Of(mSvs', Constellation) = Entries(Told(burst.next * SatsPerGSV))
  <2>1. mSvs' = new
    BY <1>1, <1>5, <1>6, AtMostType, SvsAssumption DEF AtMost
  <2>2. Of(Kept, Constellation) = Entries(Told(p))
    <3>1. CASE burst.next = 1
      <4>1. Of(Kept, Constellation) = <<>>
        BY <1>0, <3>1, BurstClears
      <4>3. p = 0
        BY <3>1, SvsAssumption
      <4>4. Told(0) = <<>>
        <5>1. Told(0) \in Seq(Numbers) /\ Len(Told(0)) = 0
          BY <1>0, ViewTypes, AtMostType, LenProperties DEF Told
        <5> QED
          BY <5>1, EmptySeq
      <4> QED
        BY <4>1, <4>3, <4>4, EntriesEmpty
    <3>2. CASE burst.next # 1
      <4>1. intact /\ Kept = mSvs
        BY <1>1, <1>6, <3>2 DEF Kept
      <4>2. Len(mSvs) < kMaxSvs
        BY <1>5, <1>6, <2>1, <4>1, SvsAssumption
      <4> QED
        BY <1>1, <4>1, <4>2 DEF BurstInv
    <3> QED
      BY <3>1, <3>2
  <2>3. Of(Entries(Message), Constellation) = Entries(Message)
    BY <1>0, <1>5, ViewTypes, EntriesType, OfTheseAllOrNone DEF Of
  <2>4. Of(new, Constellation) = Of(Kept, Constellation) \o Of(Entries(Message), Constellation)
    BY <1>5, OfTheseConcat DEF Of
  <2> QED
    BY <1>0, <2>1, <2>2, <2>3, <2>4, MessageTells
<1>7. (burst.next - 1)' * SatsPerGSV = burst.next * SatsPerGSV
  BY <1>1, <1>4, SvsAssumption
<1>8. Told((burst.next - 1) * SatsPerGSV)' = Told(burst.next * SatsPerGSV)
  BY <1>1, <1>7 DEF Told
<1>9. Of(mSvs, Constellation)' = Of(mSvs', Constellation)
  BY <1>2 DEF Of
<1>10. Entries(Told((burst.next - 1) * SatsPerGSV))' = Entries(Told(burst.next * SatsPerGSV))
  BY <1>1, <1>2, <1>8 DEF Entries
<1>11. burst'.next # 1 /\ (reported' => burst'.next = numMessages' + 1)
  BY <1>1, <1>2, <1>4
<1> QED
  BY <1>6, <1>9, <1>10, <1>11 DEF BurstInv

\* A burst that arrived complete is reported as it is (NmeaParser.cpp:243-282):
\* for any views, message sizes, talkers and losses before it, unless the list
\* is full.
THEOREM CompleteBurstsReported == Spec => []CompleteBurstReported
<1>1. Init => BurstInv
  BY DEF Init, BurstInv
<1>2. SvsInv /\ SvsInv' /\ BurstInv /\ [Next]_svVars => BurstInv'
  <2> SUFFICES ASSUME SvsInv, SvsInv', BurstInv, [Next]_svVars PROVE BurstInv'
    OBVIOUS
  <2>0. SvsTypeOK
    BY DEF SvsInv
  <2>1. CASE GSV
    BY <2>1, BurstGSV
  <2>2. CASE LoseGSV
    <3>1. burst'.next = burst.next + 1 /\ intact' = FALSE /\ reported' = FALSE
      BY <2>0, <2>2 DEF LoseGSV, Deliver, SvsTypeOK
    <3> QED
      BY <3>1 DEF BurstInv
  <2>3. CASE GSA
    <3>1. BurstDone /\ reported' = FALSE /\ UNCHANGED <<burst, intact>>
      BY <2>3 DEF GSA
    <3>2. BurstDone'
      BY <3>1 DEF BurstDone, numMessages
    <3> QED
      BY <3>1, <3>2 DEF BurstInv
  <2>4. CASE NextBurst
    BY <2>4 DEF NextBurst, BurstInv
  <2>5. CASE UNCHANGED svVars
    <3>1. UNCHANGED <<mSvs, mUsedInFix, burst, intact, reported>>
      BY <2>5 DEF svVars
    <3>2. /\ Constellation' = Constellation /\ numMessages' = numMessages
          /\ BurstDone' = BurstDone
          /\ Told((burst.next - 1) * SatsPerGSV)' = Told((burst.next - 1) * SatsPerGSV)
      BY <3>1 DEF Constellation, numMessages, BurstDone, Told
    <3>3. /\ Of(mSvs, Constellation)' = Of(mSvs, Constellation)
          /\ Entries(Told((burst.next - 1) * SatsPerGSV))'
               = Entries(Told((burst.next - 1) * SatsPerGSV))
      BY <3>1, <3>2 DEF Of, Entries
    <3> QED
      BY <3>1, <3>2, <3>3 DEF BurstInv
  <2> QED
    BY <2>1, <2>2, <2>3, <2>4, <2>5 DEF Next
<1>3. SvsInv /\ BurstInv => CompleteBurstReported
  <2> SUFFICES ASSUME SvsInv, BurstInv, reported, intact, Len(mSvs) < kMaxSvs
               PROVE  Of(mSvs, Constellation) = Entries(burst.sats)
    BY DEF CompleteBurstReported
  <2>1. burst.next - 1 = numMessages
    BY MessagesSuffice DEF BurstInv, SvsInv
  <2> QED
    BY <2>1, MessagesSuffice DEF BurstInv, SvsInv
<1> QED
  BY <1>1, <1>2, <1>3, SvsInvariant, PTL DEF Spec

\* What BurstReplaces says, of a burst whose list was not reported yet or just now.
ReplaceInv ==
    /\ reported => BurstDone
    /\ BurstReplaces

\* Pushing the next message onto a list that holds a start of what was heard.
LEMMA HeardGrows ==
    ASSUME NEW svs \in Seq(GnssSvInfo), Len(svs) <= kMaxSvs,
           NEW old \in Seq(Numbers), NEW new \in Seq(Numbers), NEW n \in 0 .. Len(old),
           Of(svs, Constellation) = Entries(AtMost(old, n)),
           Len(svs) < kMaxSvs => n = Len(old),
           NEW svs2, svs2 = AtMost(svs \o Entries(new), kMaxSvs)
    PROVE  \E k \in 0 .. Len(old \o new) :
             /\ Of(svs2, Constellation) = Entries(AtMost(old \o new, k))
             /\ Len(svs2) < kMaxSvs => k = Len(old \o new)
<1> DEFINE es   == Entries(new)
           room == kMaxSvs - Len(svs)
           cut  == AtMost(new, room)
<1>1. /\ es \in Seq(GnssSvInfo) /\ Len(es) = Len(new)
      /\ Len(svs) \in Nat /\ Len(old) \in Nat /\ Len(new) \in Nat /\ kMaxSvs \in Nat
      /\ room \in Nat /\ old \o new \in Seq(Numbers) /\ Len(old \o new) = Len(old) + Len(new)
  BY EntriesType, LenProperties, ConcatProperties, SvsAssumption
<1>2. /\ cut \in Seq(Numbers) /\ Len(cut) = IF Len(new) <= room THEN Len(new) ELSE room
      /\ \A i \in 1 .. Len(cut) : cut[i] = new[i]
  BY <1>1, AtMostType
<1>3. Entries(cut) = AtMost(es, room)
  BY <1>1, CutEntries
<1>4. svs2 = svs \o Entries(cut)
  BY <1>1, <1>3, AtMostConcat, SMTT(30)
<1>5. /\ Entries(cut) \in Seq(GnssSvInfo) /\ Len(Entries(cut)) = Len(cut) /\ Len(cut) \in Nat
      /\ \A i \in 1 .. Len(cut) : Entries(cut)[i].constellation = Constellation
  BY <1>2, EntriesType, LenProperties
<1> HIDE DEF es, room, cut
<1>6. Of(svs2, Constellation) = Of(svs, Constellation) \o Of(Entries(cut), Constellation)
  BY <1>4, <1>5, OfTheseConcat DEF Of
<1>7. Of(Entries(cut), Constellation) = Entries(cut)
  BY <1>5, OfTheseAllOrNone DEF Of
<1>8. AtMost(old, n) \in Seq(Numbers)
  BY <1>1, AtMostType
<1>9. Of(svs2, Constellation) = Entries(AtMost(old, n) \o cut)
  BY <1>2, <1>6, <1>7, <1>8, EntriesConcat
<1>10. Len(svs2) = Len(svs) + Len(cut)
  <2>1. PICK ec \in Seq(GnssSvInfo) : ec = Entries(cut)
    BY <1>5
  <2>2. Len(svs \o ec) = Len(svs) + Len(ec)
    BY ConcatProperties
  <2> QED
    BY <1>4, <1>5, <2>1, <2>2
<1>11. CASE Len(svs) < kMaxSvs
  <2>1. AtMost(old, n) = old
    BY <1>1, <1>11 DEF AtMost
  <2>2. old \o cut = AtMost(old \o new, Len(old) + room)
    <3>1. PICK m \in Nat : m = Len(old) + room
      BY <1>1
    <3>2. Len(old) <= m /\ m - Len(old) = room
      BY <1>1, <3>1
    <3>3. AtMost(old \o new, m) = old \o AtMost(new, m - Len(old))
      BY <3>2, AtMostConcat
    <3> QED
      BY <3>1, <3>2, <3>3 DEF cut
  <2>3. AtMost(old \o new, Len(old) + room) = AtMost(old \o new, Len(old) + Len(cut))
    <3>1. CASE Len(new) <= room
      BY <1>1, <1>2, <3>1 DEF AtMost
    <3>2. CASE ~(Len(new) <= room)
      BY <1>2, <3>2
    <3> QED
      BY <3>1, <3>2
  <2>4. Len(old) + Len(cut) \in 0 .. Len(old \o new)
    BY <1>1, <1>2, <1>5
  <2>5. Len(svs2) < kMaxSvs => Len(old) + Len(cut) = Len(old \o new)
    BY <1>1, <1>2, <1>5, <1>10 DEF room
  <2> QED
    BY <1>9, <2>1, <2>2, <2>3, <2>4, <2>5
<1>12. CASE ~(Len(svs) < kMaxSvs)
  <2>1. room = 0 /\ Len(cut) = 0
    BY <1>1, <1>2, <1>12 DEF room
  <2>2. cut = <<>>
    BY <1>2, <2>1, EmptySeq
  <2>3. AtMost(old, n) \o cut = AtMost(old, n)
    BY <1>8, <2>2, ConcatEmptySeq
  <2>4. AtMost(old, n) = AtMost(old \o new, n)
    BY <1>1, AtMostOfLonger
  <2>5. n \in 0 .. Len(old \o new) /\ ~(Len(svs2) < kMaxSvs)
    BY <1>1, <1>5, <1>10, <1>12
  <2> QED
    BY <1>9, <2>3, <2>4, <2>5
<1> QED
  BY <1>11, <1>12

LEMMA ReplaceGSV == ASSUME SvsInv, ReplaceInv, GSV PROVE ReplaceInv'
<1>0. SvsTypeOK
  BY DEF SvsInv
<1>1. /\ ~BurstDone /\ mUsedInFix' = mUsedInFix
      /\ burst'.talker = burst.talker /\ burst'.sats = burst.sats
      /\ burst'.next = burst.next + 1
      /\ begun' = (IF burst.next = 1 THEN TRUE ELSE begun)
      /\ heard' = (IF burst.next = 1 THEN Message ELSE heard \o Message)
      /\ reported' => burst.next = numMessages
  BY <1>0 DEF GSV, Deliver, SvsTypeOK
<1>2. /\ Constellation' = Constellation /\ numMessages' = numMessages
      /\ burst.next \in Nat /\ numMessages \in Nat
  BY <1>0, <1>1, ViewTypes, MessagesSuffice DEF Constellation, numMessages
<1>3. reported' => BurstDone'
  BY <1>1, <1>2 DEF BurstDone
<1>4. /\ Kept \in Seq(GnssSvInfo) /\ Len(Kept) <= kMaxSvs
      /\ mSvs' = AtMost(Kept \o Entries(Message), kMaxSvs)
  BY GSVAppends
<1>5. Message \in Seq(Numbers) /\ heard \in Seq(Numbers)
  BY <1>0, ViewTypes DEF SvsTypeOK, Numbers
<1>6. ASSUME begun'
      PROVE  \E k \in 0 .. Len(heard') :
               /\ Of(mSvs', Constellation) = Entries(AtMost(heard', k))
               /\ Len(mSvs') < kMaxSvs => k = Len(heard')
  <2>1. CASE burst.next = 1
    <3>1. Of(Kept, Constellation) = <<>>
      BY <1>0, <2>1, BurstClears
    <3>2. PICK none \in Seq(Numbers) : none = <<>> /\ Len(none) = 0
      BY EmptySeq
    <3>3. PICK zero \in 0 .. Len(none) : zero = 0
      BY <3>2
    <3>4. AtMost(none, zero) = none
      BY <3>2, <3>3 DEF AtMost
    <3>5. Of(Kept, Constellation) = Entries(AtMost(none, zero))
      BY <3>1, <3>2, <3>4, EntriesEmpty
    <3>6. Len(Kept) < kMaxSvs => zero = Len(none)
      BY <3>2, <3>3
    <3>7. \E k \in 0 .. Len(none \o Message) :
            /\ Of(mSvs', Constellation) = Entries(AtMost(none \o Message, k))
            /\ Len(mSvs') < kMaxSvs => k = Len(none \o Message)
      BY <1>4, <1>5, <3>5, <3>6, HeardGrows
    <3>8. none \o Message = heard'
      BY <1>1, <1>5, <2>1, <3>2, ConcatEmptySeq
    <3> QED
      BY <3>7, <3>8
  <2>2. CASE burst.next # 1
    <3>1. begun /\ Kept = mSvs /\ heard' = heard \o Message
      BY <1>1, <1>6, <2>2 DEF Kept
    <3>2. PICK n \in 0 .. Len(heard) :
            /\ Of(mSvs, Constellation) = Entries(AtMost(heard, n))
            /\ Len(mSvs) < kMaxSvs => n = Len(heard)
      BY <1>1, <3>1 DEF ReplaceInv, BurstReplaces
    <3> QED
      BY <1>4, <1>5, <3>1, <3>2, HeardGrows
  <2> QED
    BY <2>1, <2>2
<1>7. /\ Of(mSvs, Constellation)' = Of(mSvs', Constellation)
      /\ \A k : Entries(AtMost(heard, k))' = Entries(AtMost(heard', k))
  BY <1>1, <1>2 DEF Of, Entries
<1> QED
  BY <1>3, <1>6, <1>7 DEF ReplaceInv, BurstReplaces

\* From message 1 of a burst until its list is reported, the list has of the
\* constellation just what the burst named (NmeaParser.cpp:243-277): for any views,
\* message sizes, talkers, capacities and losses.
THEOREM BurstsReplace == Spec => []BurstReplaces
<1>1. Init => ReplaceInv
  BY DEF Init, ReplaceInv, BurstReplaces
<1>2. SvsInv /\ ReplaceInv /\ [Next]_svVars => ReplaceInv'
  <2> SUFFICES ASSUME SvsInv, ReplaceInv, [Next]_svVars PROVE ReplaceInv'
    OBVIOUS
  <2>0. SvsTypeOK
    BY DEF SvsInv
  <2>1. CASE GSV
    BY <2>1, ReplaceGSV
  <2>2. CASE LoseGSV
    <3>1. /\ burst'.talker = burst.talker /\ burst'.sats = burst.sats
          /\ UNCHANGED <<mSvs, mUsedInFix, heard>> /\ reported' = FALSE /\ ~BurstDone
          /\ begun' => begun
      BY <2>0, <2>2 DEF LoseGSV, Deliver, SvsTypeOK
    <3>2. Constellation' = Constellation
      BY <3>1 DEF Constellation
    <3>3. /\ Of(mSvs, Constellation)' = Of(mSvs, Constellation)
          /\ \A k : Entries(AtMost(heard, k))' = Entries(AtMost(heard, k))
      BY <3>1, <3>2 DEF Of, Entries
    <3> QED
      BY <3>1, <3>3 DEF ReplaceInv, BurstReplaces
  <2>3. CASE GSA
    <3>1. BurstDone' /\ reported' = FALSE
      BY <2>3 DEF GSA, BurstDone, numMessages
    <3> QED
      BY <3>1 DEF ReplaceInv, BurstReplaces
  <2>4. CASE NextBurst
    BY <2>4 DEF NextBurst, ReplaceInv, BurstReplaces
  <2>5. CASE UNCHANGED svVars
    <3>1. UNCHANGED <<mSvs, mUsedInFix, burst, begun, heard, reported>>
      BY <2>5 DEF svVars
    <3>2. Constellation' = Constellation /\ BurstDone' = BurstDone
      BY <3>1 DEF Constellation, BurstDone, numMessages
    <3>3. /\ Of(mSvs, Constellation)' = Of(mSvs, Constellation)
          /\ \A k : Entries(AtMost(heard, k))' = Entries(AtMost(heard, k))
      BY <3>1, <3>2 DEF Of, Entries
    <3> QED
      BY <3>1, <3>2, <3>3 DEF ReplaceInv, BurstReplaces
  <2> QED
    BY <2>1, <2>2, <2>3, <2>4, <2>5 DEF Next
<1>3. ReplaceInv => BurstReplaces
  BY DEF ReplaceInv
<1> QED
  BY <1>1, <1>2, <1>3, SvsInvariant, PTL DEF Spec

\* No sentence touches the entries of another constellation
\* (NmeaParser.cpp:243-250): not the erasing at a burst's start, and not the
\* appending to a list that fills up.
THEOREM OthersAreKept == Spec => OthersKept
<1> DEFINE Kept1 == \A k \in Constellations \ {Constellation} : Of(mSvs', k) = Of(mSvs, k)
<1>1. SvsInv /\ [Next]_svVars => [Kept1]_svVars
  <2> SUFFICES ASSUME SvsInv, Next,
                      NEW k \in Constellations \ {Constellation}
               PROVE  Of(mSvs', k) = Of(mSvs, k)
    OBVIOUS
  <2>1. CASE GSV
    <3> DEFINE room == kMaxSvs - Len(Kept)
               cut  == AtMost(Entries(Message), room)
    <3>1. /\ Kept \in Seq(GnssSvInfo) /\ Entries(Message) \in Seq(GnssSvInfo)
          /\ mSvs \in Seq(GnssSvInfo) /\ Len(mSvs) \in Nat
          /\ Len(Kept) \in Nat /\ Len(Kept) <= kMaxSvs /\ room \in Nat
      BY <2>1, GSVAppends, LenProperties, SvsAssumption DEF SvsInv, SvsTypeOK
    <3>2. mSvs' = Kept \o cut
      BY <2>1, <3>1, GSVAppends, AtMostConcat, SvsAssumption
    <3>3. /\ cut \in Seq(GnssSvInfo)
          /\ \A i \in 1 .. Len(cut) : cut[i].constellation = Constellation
      <4>1. /\ cut \in Seq(GnssSvInfo)
            /\ Len(cut) = IF Len(Entries(Message)) <= room THEN Len(Entries(Message)) ELSE room
            /\ \A i \in 1 .. Len(cut) : cut[i] = Entries(Message)[i]
        BY <3>1, AtMostType
      <4>2. /\ Len(Entries(Message)) = Len(Message) /\ Len(Message) \in Nat
            /\ \A i \in 1 .. Len(Message) : Entries(Message)[i].constellation = Constellation
        BY ViewTypes, EntriesType, LenProperties DEF SvsInv
      <4> HIDE DEF cut
      <4>3. \A i \in 1 .. Len(cut) : i \in 1 .. Len(Message)
        BY <3>1, <4>1, <4>2
      <4> QED
        BY <4>1, <4>2, <4>3
    <3> HIDE DEF cut, room
    <3>4. Of(cut, k) = <<>>
      BY <3>3, OfTheseAllOrNone DEF Of
    <3>5. Of(Kept, k) = Of(mSvs, k)
      <4>1. CASE burst.next = 1
        <5>1. Of(Kept, k) = OfThese(mSvs, (Constellations \ {Constellation}) \intersect {k})
          BY <3>1, <4>1, OfTheseTwice DEF Kept, Except, Of
        <5>2. (Constellations \ {Constellation}) \intersect {k} = {k}
          OBVIOUS
        <5> QED
          BY <5>1, <5>2 DEF Of
      <4>2. CASE burst.next # 1
        BY <4>2 DEF Kept
      <4> QED
        BY <4>1, <4>2
    <3>6. Of(Kept \o cut, k) = Of(Kept, k) \o Of(cut, k)
      BY <3>1, <3>3, OfTheseConcat, ZenonT(30) DEF Of
    <3>7. Of(Kept, k) \in Seq(GnssSvInfo)
      BY <3>1, OfTheseType DEF Of
    <3>8. Of(Kept, k) \o <<>> = Of(Kept, k)
      BY <3>7, ConcatEmptySeq
    <3> QED
      BY <3>2, <3>4, <3>5, <3>6, <3>8
  <2>2. CASE LoseGSV \/ GSA \/ NextBurst
    BY <2>2 DEF LoseGSV, GSA, NextBurst
  <2> QED
    BY <2>1, <2>2 DEF Next
<1> QED
  BY <1>1, SvsInvariant, PTL DEF Spec, OthersKept
=============================================================================

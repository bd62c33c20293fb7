----------------------------- MODULE SeqLemmas ------------------------------
(***************************************************************************)
(* Lemmas that the proofs about the Beast reader need and the library does *)
(* not have: induction over the naturals for a set, since no prover here   *)
(* can instantiate the library's theorems over predicates; FlattenSeq; and *)
(* sequences made by replacing each element with a sequence, which is what *)
(* readsb's escaping does to bytes and its output to frames.               *)
(***************************************************************************)
EXTENDS Integers, Sequences, SequencesExt, TLAPS, SequenceTheorems, WellFoundedInduction

\* Induction over the naturals, as a fact about a set of them.
LEMMA NatSetInduction ==
    ASSUME NEW S, 0 \in S, \A n \in Nat : n \in S => n + 1 \in S
    PROVE  Nat \subseteq S
<1> DEFINE T == {n \in Nat : n \notin S}
<1> SUFFICES ASSUME T # {} PROVE FALSE
  OBVIOUS
<1>1. IsWellFoundedOn(OpToRel(<, Nat), Nat)
  BY NatLessThanWellFounded
<1>2. PICK x \in T : \A y \in T : ~(<<y, x>> \in OpToRel(<, Nat))
  BY <1>1, WFMin
<1>3. \A y \in T : ~(y < x)
  BY <1>2 DEF OpToRel
<1>4. x \in Nat /\ x \notin S
  OBVIOUS
<1>5. x # 0
  BY <1>4
<1>6. x - 1 \in Nat /\ (x - 1) + 1 = x
  BY <1>4, <1>5
<1>7. x - 1 \notin S
  BY <1>4, <1>6
<1> QED BY <1>3, <1>6, <1>7

\* The same up to m.
LEMMA IntervalInduction ==
    ASSUME NEW m \in Nat, NEW S, 0 \in S,
           \A n \in 0 .. m - 1 : n \in S => n + 1 \in S
    PROVE  0 .. m \subseteq S
<1> DEFINE T == {n \in Nat : n <= m => n \in S}
<1>1. 0 \in T
  OBVIOUS
<1>2. \A n \in Nat : n \in T => n + 1 \in T
  OBVIOUS
<1>3. Nat \subseteq T
  <2> HIDE DEF T
  <2> QED BY <1>1, <1>2, NatSetInduction
<1> QED BY <1>3

\* F is m functions, the steps of an iteration over X.
Steps(F, m, X) == F \in [1 .. m -> [X -> X]]

\* The iteration exists: from x0, each value follows from the one before by the
\* step of its number.
LEMMA Iterates ==
    ASSUME NEW X, NEW x0 \in X, NEW m \in Nat, NEW F, Steps(F, m, X)
    PROVE  \E g \in [0 .. m -> X] :
              g[0] = x0 /\ \A n \in 0 .. m - 1 : g[n + 1] = F[n + 1][g[n]]
<1> DEFINE Upto(n, g) ==
        g[0] = x0 /\ \A k \in 0 .. n - 1 : g[k + 1] = F[k + 1][g[k]]
           S == {n \in 0 .. m : \E g \in [0 .. n -> X] : Upto(n, g)}
<1>1. 0 \in S
  <2>1. [k \in 0 .. 0 |-> x0] \in [0 .. 0 -> X]
    OBVIOUS
  <2>2. Upto(0, [k \in 0 .. 0 |-> x0])
    OBVIOUS
  <2>3. 0 \in 0 .. m
    OBVIOUS
  <2> HIDE DEF Upto
  <2> QED BY <2>1, <2>2, <2>3
<1>2. ASSUME NEW n \in 0 .. m - 1, n \in S
      PROVE  n + 1 \in S
  <2>1. PICK g \in [0 .. n -> X] : Upto(n, g)
    BY <1>2
  <2> DEFINE h == [k \in 0 .. n + 1 |-> IF k <= n THEN g[k]
                                                  ELSE F[n + 1][g[n]]]
  <2>2. F[n + 1] \in [X -> X] /\ g[n] \in X
    BY DEF Steps
  <2>3. h \in [0 .. n + 1 -> X]
    BY <2>2
  <2>4. Upto(n + 1, h)
    BY <2>1
  <2>5. n + 1 \in 0 .. m
    OBVIOUS
  <2> HIDE DEF Upto, h
  <2> QED BY <2>3, <2>4, <2>5
<1>3. 0 .. m \subseteq S
  <2> HIDE DEF S
  <2> QED BY <1>1, <1>2, IntervalInduction
<1> QED BY <1>3

-----------------------------------------------------------------------------
\* FlattenSeq by its prefixes: g is the concatenations of the first n sequences.
LEMMA FlattenIs ==
    ASSUME NEW X, NEW seqs \in Seq(Seq(X)),
           NEW g \in [0 .. Len(seqs) -> Seq(X)], g[0] = <<>>,
           \A n \in 0 .. Len(seqs) - 1 : g[n + 1] = g[n] \o seqs[n + 1]
    PROVE  FlattenSeq(seqs) = g[Len(seqs)]
<1> DEFINE m == Len(seqs)
           Flat(f) == [i \in 1 .. m |-> IF i = 1 THEN seqs[i]
                                                  ELSE f[i - 1] \o seqs[i]]
           flatten == CHOOSE f : f = Flat(f)
           h == [i \in 1 .. m |-> g[i]]
<1>0. m \in Nat
  OBVIOUS
<1>1. CASE m = 0
  BY <1>1 DEF FlattenSeq
<1>2. CASE m # 0
  <2>1. FlattenSeq(seqs) = flatten[m]
    BY <1>2 DEF FlattenSeq
  <2>2. h = Flat(h)
    <3>1. ASSUME NEW i \in 1 .. m
          PROVE  h[i] = Flat(h)[i]
      <4>1. seqs[i] \in Seq(X) /\ <<>> \o seqs[i] = seqs[i]
        BY <1>0
      <4>2. g[(i - 1) + 1] = g[i - 1] \o seqs[(i - 1) + 1]
        <5>1. i - 1 \in 0 .. Len(seqs) - 1
          BY <1>0
        <5> QED BY <5>1
      <4>3. (i - 1) + 1 = i
        BY <1>0
      <4>4. g[i] = g[i - 1] \o seqs[i]
        BY <4>2, <4>3
      <4>5. CASE i = 1
        <5>1. g[i - 1] = <<>>
          BY <4>5
        <5> QED BY <4>1, <4>4, <4>5, <5>1
      <4>6. CASE i # 1
        <5>1. i - 1 \in 1 .. m
          BY <1>0, <4>6
        <5> QED BY <4>4, <4>6, <5>1
      <4> QED BY <4>5, <4>6
    <3> QED BY <3>1
  <2>3. flatten = Flat(flatten)
    <3> HIDE DEF h, Flat
    <3> QED BY <2>2
  <2> DEFINE S == {n \in 0 .. m : n = 0 \/ flatten[n] = g[n]}
  <2> HIDE DEF flatten
  <2>4. 0 \in S
    BY <1>0
  <2>5. ASSUME NEW n \in 0 .. m - 1, n \in S
        PROVE  n + 1 \in S
    <3>0. n + 1 \in 1 .. m /\ n + 1 \in 0 .. m /\ (n + 1) - 1 = n
          /\ (n + 1 = 1 <=> n = 0)
      BY <1>0
    <3>1. flatten[n + 1] = IF n + 1 = 1 THEN seqs[n + 1]
                                        ELSE flatten[(n + 1) - 1] \o seqs[n + 1]
      BY <2>3, <3>0
    <3>2. g[n + 1] = g[n] \o seqs[n + 1]
      OBVIOUS
    <3>3. seqs[n + 1] \in Seq(X) /\ <<>> \o seqs[n + 1] = seqs[n + 1]
      BY <3>0
    <3>4. flatten[n + 1] = g[n + 1]
      BY <2>5, <3>0, <3>1, <3>2, <3>3
    <3> QED BY <3>0, <3>4
  <2>6. 0 .. m \subseteq S
    <3> HIDE DEF S, m
    <3> QED BY <1>0, <2>4, <2>5, IntervalInduction
  <2> QED BY SMTT(30), <1>0, <1>2, <2>1, <2>6
<1> QED BY <1>1, <1>2

\* These prefixes exist.
LEMMA FlattenSteps ==
    \A X, seqs : seqs \in Seq(Seq(X)) =>
        \E g \in [0 .. Len(seqs) -> Seq(X)] :
              /\ g[0] = <<>>
              /\ \A n \in 0 .. Len(seqs) - 1 : g[n + 1] = g[n] \o seqs[n + 1]
<1>1. ASSUME NEW X, NEW seqs, seqs \in Seq(Seq(X))
      PROVE  \E g \in [0 .. Len(seqs) -> Seq(X)] :
              /\ g[0] = <<>>
              /\ \A n \in 0 .. Len(seqs) - 1 : g[n + 1] = g[n] \o seqs[n + 1]
  <2>1. /\ Len(seqs) \in Nat /\ <<>> \in Seq(X)
        /\ \A x \in Seq(X), n \in 1 .. Len(seqs) : x \o seqs[n] \in Seq(X)
    BY <1>1
  <2>2. ASSUME NEW Y, NEW k \in Nat, <<>> \in Y,
               \A x \in Y, n \in 1 .. k : x \o seqs[n] \in Y
        PROVE  \E g \in [0 .. k -> Y] :
                  /\ g[0] = <<>>
                  /\ \A n \in 0 .. k - 1 : g[n + 1] = g[n] \o seqs[n + 1]
    <3> DEFINE F == [n \in 1 .. k |-> [x \in Y |-> x \o seqs[n]]]
    <3>1. Steps(F, k, Y)
      BY <2>2 DEF Steps
    <3>2. PICK g \in [0 .. k -> Y] :
             g[0] = <<>> /\ \A n \in 0 .. k - 1 : g[n + 1] = F[n + 1][g[n]]
      <4> HIDE DEF F
      <4> QED BY <2>2, <3>1, Iterates
    <3>3. ASSUME NEW n \in 0 .. k - 1
          PROVE  g[n + 1] = g[n] \o seqs[n + 1]
      <4>1. n + 1 \in 1 .. k /\ g[n] \in Y
        OBVIOUS
      <4>2. F[n + 1][g[n]] = g[n] \o seqs[n + 1]
        BY <4>1
      <4> HIDE DEF F
      <4> QED BY <3>2, <4>2
    <3> QED BY <3>2, <3>3
  <2> QED BY <2>1, <2>2, Zenon
<1> QED BY <1>1

\* Nothing to concatenate.
LEMMA FlattenEmpty == FlattenSeq(<<>>) = <<>>
  BY DEF FlattenSeq

\* Sequences over X make a sequence over X.
LEMMA FlattenType ==
    ASSUME NEW X, NEW seqs \in Seq(Seq(X))
    PROVE  FlattenSeq(seqs) \in Seq(X)
<1>1. PICK g \in [0 .. Len(seqs) -> Seq(X)] :
         /\ g[0] = <<>>
         /\ \A n \in 0 .. Len(seqs) - 1 : g[n + 1] = g[n] \o seqs[n + 1]
  BY FlattenSteps
<1>2. FlattenSeq(seqs) = g[Len(seqs)]
  BY <1>1, FlattenIs
<1> QED BY <1>2

\* One more sequence is concatenated to the others.
LEMMA FlattenAppend ==
    ASSUME NEW X, NEW seqs \in Seq(Seq(X)), NEW x \in Seq(X)
    PROVE  FlattenSeq(Append(seqs, x)) = FlattenSeq(seqs) \o x
<1> DEFINE m == Len(seqs)
           all == Append(seqs, x)
<1>1. all \in Seq(Seq(X)) /\ Len(all) = m + 1 /\ all[m + 1] = x
      /\ (\A n \in 1 .. m : all[n] = seqs[n]) /\ m \in Nat
  OBVIOUS
<1> HIDE DEF all
<1>2. PICK g \in [0 .. Len(all) -> Seq(X)] :
         /\ g[0] = <<>>
         /\ \A n \in 0 .. Len(all) - 1 : g[n + 1] = g[n] \o all[n + 1]
  BY ZenonT(40), <1>1, FlattenSteps
<1>3. FlattenSeq(all) = g[m + 1]
  BY <1>1, <1>2, FlattenIs
<1> DEFINE h == [n \in 0 .. m |-> g[n]]
<1>4. h \in [0 .. m -> Seq(X)] /\ h[0] = <<>>
  BY <1>1, <1>2
<1>5. ASSUME NEW n \in 0 .. m - 1
      PROVE  h[n + 1] = h[n] \o seqs[n + 1]
  <2>1. n \in 0 .. m /\ n + 1 \in 0 .. m /\ n + 1 \in 1 .. m
        /\ n \in 0 .. Len(all) - 1
    BY <1>1
  <2>2. g[n + 1] = g[n] \o all[n + 1]
    BY <1>2, <2>1
  <2> QED BY <1>1, <2>1, <2>2
<1>6. FlattenSeq(seqs) = h[m]
  <2> HIDE DEF h
  <2> QED BY <1>4, <1>5, FlattenIs
<1>7. g[m + 1] = g[m] \o all[m + 1]
  <2>1. m \in 0 .. Len(all) - 1
    BY <1>1
  <2> QED BY <1>2, <2>1
<1>8. h[m] = g[m]
  BY <1>1
<1>9. FlattenSeq(all) = FlattenSeq(seqs) \o x
  <2> HIDE DEF h
  <2> QED BY <1>1, <1>3, <1>6, <1>7, <1>8
<1> QED BY <1>9 DEF all

-----------------------------------------------------------------------------
\* h makes a sequence over X of each element of A; FlatMapped is its use on all
\* elements of s, one after the other.
Spreads(h, A, X) == h \in [A -> Seq(X)]

FlatMapped(h, s) == FlattenSeq([k \in DOMAIN s |-> h[s[k]]])

\* A sequence, cut after element k.
LEMMA SeqSplit ==
    ASSUME NEW A, NEW s \in Seq(A), NEW k \in 0 .. Len(s)
    PROVE  s = SubSeq(s, 1, k) \o SubSeq(s, k + 1, Len(s))
<1>1. 1 \in 1 .. Len(s) + 1 /\ k \in 1 - 1 .. Len(s) /\ Len(s) \in k .. Len(s)
  OBVIOUS
<1> QED BY <1>1, SubSeqFull, ConcatAdjacentSubSeq

\* What is left of a sequence after its first k elements.
LEMMA SubSeqRest ==
    ASSUME NEW S, NEW s \in Seq(S), NEW k \in 0 .. Len(s)
    PROVE  /\ SubSeq(s, k + 1, Len(s)) \in Seq(S)
           /\ Len(SubSeq(s, k + 1, Len(s))) = Len(s) - k
<1>1. \A m \in k + 1 .. Len(s) : s[m] \in S
  OBVIOUS
<1> QED BY <1>1

\* FlatMapped and its type, at nothing, at one more element, at the next element
\* of a prefix, and at two sequences.
LEMMA FlatMappedType ==
    ASSUME NEW A, NEW X, NEW h, Spreads(h, A, X), NEW s \in Seq(A)
    PROVE  FlatMapped(h, s) \in Seq(X)
<1> DEFINE map == [k \in DOMAIN s |-> h[s[k]]]
<1>1. map \in Seq(Seq(X))
  <2>1. DOMAIN s = 1 .. Len(s) /\ Len(s) \in Nat
    OBVIOUS
  <2>2. \A k \in 1 .. Len(s) : h[s[k]] \in Seq(X)
    BY DEF Spreads
  <2> QED BY <2>1, <2>2
<1>2. FlattenSeq(map) \in Seq(X)
  <2> HIDE DEF map
  <2> QED BY <1>1, FlattenType
<1> QED BY <1>2 DEF FlatMapped

LEMMA FlatMappedEmpty ==
    ASSUME NEW h
    PROVE  FlatMapped(h, <<>>) = <<>>
<1>1. [k \in DOMAIN <<>> |-> h[<<>>[k]]] = <<>>
  OBVIOUS
<1> QED BY <1>1, FlattenEmpty DEF FlatMapped

LEMMA FlatMappedAppend ==
    ASSUME NEW A, NEW X, NEW h, Spreads(h, A, X), NEW s \in Seq(A), NEW x \in A
    PROVE  FlatMapped(h, Append(s, x)) = FlatMapped(h, s) \o h[x]
<1> DEFINE map == [k \in DOMAIN s |-> h[s[k]]]
           all == Append(s, x)
<1>1. map \in Seq(Seq(X)) /\ h[x] \in Seq(X)
  BY DEF Spreads
<1>2. [k \in DOMAIN all |-> h[all[k]]] = Append(map, h[x])
  OBVIOUS
<1>3. FlattenSeq(Append(map, h[x])) = FlattenSeq(map) \o h[x]
  <2> HIDE DEF map
  <2> QED BY <1>1, FlattenAppend
<1> QED BY <1>2, <1>3 DEF FlatMapped

LEMMA FlatMappedNext ==
    ASSUME NEW A, NEW X, NEW h, Spreads(h, A, X), NEW s \in Seq(A),
           NEW k \in 0 .. Len(s) - 1
    PROVE  FlatMapped(h, SubSeq(s, 1, k + 1))
             = FlatMapped(h, SubSeq(s, 1, k)) \o h[s[k + 1]]
<1>1. SubSeq(s, 1, k) \in Seq(A) /\ s[k + 1] \in A
      /\ SubSeq(s, 1, k + 1) = Append(SubSeq(s, 1, k), s[k + 1])
  OBVIOUS
<1> QED BY ZenonT(40), <1>1, FlatMappedAppend

LEMMA FlatMappedConcat ==
    ASSUME NEW A, NEW X, NEW h, Spreads(h, A, X), NEW s \in Seq(A),
           NEW t \in Seq(A)
    PROVE  FlatMapped(h, s \o t) = FlatMapped(h, s) \o FlatMapped(h, t)
<1> DEFINE P(k) == FlatMapped(h, s \o SubSeq(t, 1, k))
                     = FlatMapped(h, s) \o FlatMapped(h, SubSeq(t, 1, k))
           S == {k \in 0 .. Len(t) : P(k)}
<1>1. 0 \in S
  <2>1. SubSeq(t, 1, 0) = <<>> /\ s \o SubSeq(t, 1, 0) = s
    OBVIOUS
  <2>2. FlatMapped(h, s) \o <<>> = FlatMapped(h, s)
    BY FlatMappedType
  <2>3. P(0)
    BY <2>1, <2>2, FlatMappedEmpty
  <2> QED BY <2>3
<1>2. ASSUME NEW k \in 0 .. Len(t) - 1, k \in S
      PROVE  k + 1 \in S
  <2> DEFINE u == SubSeq(t, 1, k)
             x == t[k + 1]
  <2>1. u \in Seq(A) /\ x \in A /\ s \o u \in Seq(A)
    OBVIOUS
  <2>2. SubSeq(t, 1, k + 1) = Append(u, x)
    OBVIOUS
  <2>3. s \o SubSeq(t, 1, k + 1) = Append(s \o u, x)
    BY <2>2
  <2>4. FlatMapped(h, s) \in Seq(X) /\ FlatMapped(h, u) \in Seq(X)
        /\ h[x] \in Seq(X)
    BY <2>1, FlatMappedType DEF Spreads
  <2>5. FlatMapped(h, s \o u) = FlatMapped(h, s) \o FlatMapped(h, u)
    BY <1>2
  <2> HIDE DEF u, x
  <2>6. FlatMapped(h, Append(s \o u, x)) = FlatMapped(h, s \o u) \o h[x]
    BY ZenonT(40), <2>1, FlatMappedAppend
  <2>7. FlatMapped(h, Append(u, x)) = FlatMapped(h, u) \o h[x]
    BY <2>1, FlatMappedAppend
  <2>8. (FlatMapped(h, s) \o FlatMapped(h, u)) \o h[x]
          = FlatMapped(h, s) \o (FlatMapped(h, u) \o h[x])
    <3> DEFINE a == FlatMapped(h, s)
               b == FlatMapped(h, u)
               c == h[x]
    <3>1. a \in Seq(X) /\ b \in Seq(X) /\ c \in Seq(X)
      BY <2>4
    <3> HIDE DEF a, b, c
    <3>2. (a \o b) \o c = a \o (b \o c)
      BY SMTT(30), <3>1, ConcatAssociative
    <3> QED BY <3>2 DEF a, b, c
  <2>9. P(k + 1)
    BY <2>2, <2>3, <2>5, <2>6, <2>7, <2>8
  <2> QED BY <2>9
<1>3. 0 .. Len(t) \subseteq S
  <2>1. Len(t) \in Nat
    OBVIOUS
  <2> HIDE DEF S
  <2> QED BY <1>1, <1>2, <2>1, IntervalInduction
<1>4. Len(t) \in 0 .. Len(t) /\ SubSeq(t, 1, Len(t)) = t
  OBVIOUS
<1>5. P(Len(t))
  BY <1>3, <1>4
<1> QED BY <1>4, <1>5

\* Where, in what FlatMapped makes of s, the part of element k ends.
Reach(h, s, k) == Len(FlatMapped(h, SubSeq(s, 1, k)))

\* The part of element k + 1: where it is, and what it is.
LEMMA FlatMappedAt ==
    ASSUME NEW A, NEW X, NEW h, Spreads(h, A, X), NEW s \in Seq(A),
           NEW k \in 0 .. Len(s) - 1
    PROVE  /\ Reach(h, s, k) \in Nat
           /\ Reach(h, s, k + 1) = Reach(h, s, k) + Len(h[s[k + 1]])
           /\ Reach(h, s, k + 1) <= Len(FlatMapped(h, s))
           /\ \A j \in 1 .. Len(h[s[k + 1]]) :
                 FlatMapped(h, s)[Reach(h, s, k) + j] = h[s[k + 1]][j]
<1> DEFINE u == SubSeq(s, 1, k)
           v == SubSeq(s, 1, k + 1)
           w == SubSeq(s, k + 2, Len(s))
<1>0. k + 1 \in 1 .. Len(s) /\ Len(s) \in Nat /\ k \in Nat
  OBVIOUS
<1>1. u \in Seq(A) /\ v \in Seq(A) /\ w \in Seq(A) /\ s[k + 1] \in A
  BY <1>0
<1>1a. s = v \o w
  <2>1. k + 1 \in 0 .. Len(s) /\ (k + 1) + 1 = k + 2
    BY <1>0
  <2> QED BY <2>1, SeqSplit
<1>2. FlatMapped(h, v) = FlatMapped(h, u) \o h[s[k + 1]]
  <2>1. v = Append(u, s[k + 1])
    BY <1>0
  <2> HIDE DEF u, v
  <2> QED BY <1>1, <2>1, FlatMappedAppend
<1> HIDE DEF u, v, w
<1>3. FlatMapped(h, s) = FlatMapped(h, v) \o FlatMapped(h, w)
  <2>2. FlatMapped(h, v \o w) = FlatMapped(h, v) \o FlatMapped(h, w)
    BY <1>1, FlatMappedConcat
  <2> QED BY <1>1a, <2>2
<1>4. FlatMapped(h, u) \in Seq(X) /\ FlatMapped(h, v) \in Seq(X)
      /\ FlatMapped(h, w) \in Seq(X) /\ h[s[k + 1]] \in Seq(X)
  BY <1>1, FlatMappedType DEF Spreads
<1> DEFINE fu == FlatMapped(h, u)
           fv == FlatMapped(h, v)
           fw == FlatMapped(h, w)
           x == h[s[k + 1]]
           all == FlatMapped(h, s)
<1>5. all = fv \o fw /\ fv = fu \o x /\ fu \in Seq(X) /\ fw \in Seq(X)
      /\ x \in Seq(X)
  BY <1>2, <1>3, <1>4
<1> HIDE DEF fu, fv, fw, x, all
<1>6. /\ Len(fu) \in Nat /\ Len(fv) = Len(fu) + Len(x) /\ Len(fv) <= Len(all)
      /\ \A j \in 1 .. Len(x) : all[Len(fu) + j] = x[j]
  BY <1>5
<1> QED BY <1>6 DEF fu, fv, x, all, u, v, Reach

\* The first part starts at the start, and the last one ends at the end.
LEMMA ReachEnds ==
    ASSUME NEW A, NEW X, NEW h, Spreads(h, A, X), NEW s \in Seq(A)
    PROVE  Reach(h, s, 0) = 0 /\ Reach(h, s, Len(s)) = Len(FlatMapped(h, s))
<1>1. SubSeq(s, 1, 0) = <<>> /\ SubSeq(s, 1, Len(s)) = s
  OBVIOUS
<1>2. Len(FlatMapped(h, SubSeq(s, 1, 0))) = 0
  <2>1. FlatMapped(h, SubSeq(s, 1, 0)) = <<>>
    BY <1>1, FlatMappedEmpty
  <2> QED BY <2>1
<1> QED BY <1>1, <1>2 DEF Reach

\* A sequence cut in two ways: what remains without the shorter beginning.
StartsWith(b, w, a, z) == a \o z = b \o w /\ Len(a) <= Len(b)
Rest(b, a) == SubSeq(b, Len(a) + 1, Len(b))

LEMMA Remains ==
    ASSUME NEW X, NEW a \in Seq(X), NEW z \in Seq(X), NEW b \in Seq(X),
           NEW w \in Seq(X), StartsWith(b, w, a, z)
    PROVE  Rest(b, a) \o w = z
<1> DEFINE k == Len(a)
           r == SubSeq(b, k + 1, Len(b))
<1>0. k \in Nat /\ Len(z) \in Nat /\ Len(b) \in Nat /\ Len(w) \in Nat
  OBVIOUS
<1>a. a \o z = b \o w /\ k <= Len(b)
  BY DEF StartsWith
<1>1. Len(r) = Len(b) - k /\ r \in Seq(X)
  BY <1>0, <1>a
<1>2. k + Len(z) = Len(b) + Len(w)
  <2>1. Len(a \o z) = k + Len(z) /\ Len(b \o w) = Len(b) + Len(w)
    OBVIOUS
  <2> QED BY <1>a, <2>1
<1>3. Len(r \o w) = Len(z) /\ r \o w \in Seq(X)
  <2>1. Len(r \o w) = Len(r) + Len(w) /\ r \o w \in Seq(X)
    BY <1>1
  <2> QED BY <1>0, <1>1, <1>2, <2>1
<1>4. ASSUME NEW i \in 1 .. Len(z)
      PROVE  (r \o w)[i] = z[i]
  <2>0. i \in Nat \ {0}
    OBVIOUS
  <2>1. z[i] = (b \o w)[k + i]
    <3>1. (a \o z)[Len(a) + i] = z[i]
      <4>1. i \in 1 .. Len(z) /\ a \in Seq(X) /\ z \in Seq(X)
        OBVIOUS
      <4> QED BY ONLY <4>1
    <3> QED BY <1>a, <3>1
  <2>2. CASE k + i <= Len(b)
    <3>1. k + i \in 1 .. Len(b) /\ i \in 1 .. Len(r)
      BY <1>0, <1>1, <2>0, <2>2
    <3>2. (b \o w)[k + i] = b[k + i]
      BY <3>1
    <3>3. r[i] = b[(k + 1) + i - 1]
      BY <1>0, <1>1, <3>1
    <3>4. (r \o w)[i] = r[i]
      <4> HIDE DEF r
      <4> QED BY <1>1, <3>1
    <3>5. (k + 1) + i - 1 = k + i
      BY <1>0, <2>0
    <3> QED BY <2>1, <3>2, <3>3, <3>4, <3>5
  <2>3. CASE ~(k + i <= Len(b))
    <3> DEFINE j == (k + i) - Len(b)
    <3>0. Len(r) + j = i /\ Len(b) + j = k + i
      <4> HIDE DEF r, k
      <4> QED BY <1>0, <1>1, <2>0
    <3>1. j \in 1 .. Len(w) /\ Len(b) + j = k + i /\ Len(r) + j = i
      <4>1. j >= 1
        BY <1>0, <2>0, <2>3
      <4>2. i <= Len(z)
        OBVIOUS
      <4>3. j <= Len(w)
        BY <1>0, <1>2, <2>0, <4>2
      <4>4. j \in Int
        BY <1>0, <2>0
      <4> HIDE DEF j
      <4> QED BY <1>0, <3>0, <4>1, <4>3, <4>4
    <3> HIDE DEF j, r
    <3>2. (b \o w)[Len(b) + j] = w[j]
      BY <3>1
    <3>3. (r \o w)[Len(r) + j] = w[j]
      BY <1>1, <3>1
    <3> QED BY <2>1, <3>1, <3>2, <3>3
  <2> QED BY <2>2, <2>3
<1> HIDE DEF r
<1>5. r \o w = z
  BY <1>3, <1>4, SeqEqual
<1> QED BY <1>5 DEF r, Rest

=============================================================================

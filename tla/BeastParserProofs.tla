------------------------- MODULE BeastParserProofs --------------------------
(***************************************************************************)
(* The parser of Beast, for any data: its loops end where they should, and *)
(* of any beginning of what readsb writes it returns exactly the frames    *)
(* that are complete (ParseOf).                                            *)
(***************************************************************************)
EXTENDS Beast, SeqLemmas

-----------------------------------------------------------------------------
(* What readsb writes.                                                     *)

\* What readsb writes for one byte of a body.
Pair == [x \in Bytes |-> IF x = Esc THEN <<Esc, Esc>> ELSE <<x>>]

\* It is one byte, or two.
LEMMA PairSpreads == Spreads(Pair, Bytes, Bytes)
<1>1. ASSUME NEW x \in Bytes
      PROVE  Pair[x] \in Seq(Bytes)
  <2>1. Esc \in Bytes
    BY DEF Bytes
  <2>2. <<x>> \in Seq(Bytes) /\ <<Esc, Esc>> \in Seq(Bytes)
    BY <2>1
  <2>3. Pair[x] = <<Esc, Esc>> \/ Pair[x] = <<x>>
    BY DEF Pair
  <2> QED BY <2>2, <2>3
<1> QED BY <1>1 DEF Pair, Spreads

\* The escaped body is that of its bytes.
LEMMA EscapedIs ==
    ASSUME NEW body \in Seq(Bytes)
    PROVE  Escaped(body) = FlatMapped(Pair, body)
<1>1. \A k \in DOMAIN body : body[k] \in Bytes
  OBVIOUS
<1>2. [k \in DOMAIN body |-> IF body[k] = Esc THEN <<Esc, Esc>> ELSE <<body[k]>>]
        = [k \in DOMAIN body |-> Pair[body[k]]]
  BY <1>1 DEF Pair
<1> QED BY <1>2 DEF Escaped, FlatMapped

\* Where byte j of the body ends in its escaped form.
Off(body, j) == Reach(Pair, body, j)

\* The first byte is at the start, the last one ends it.
LEMMA Offsets ==
    ASSUME NEW body \in Seq(Bytes)
    PROVE  /\ Escaped(body) \in Seq(Bytes)
           /\ Off(body, 0) = 0
           /\ Off(body, Len(body)) = Len(Escaped(body))
  BY EscapedIs, PairSpreads, FlatMappedType, ReachEnds DEF Off

\* Where byte j + 1 of the body is in its escaped form, and that an escape is
\* followed by another one there.
LEMMA OffsetNext ==
    ASSUME NEW body \in Seq(Bytes), NEW j \in 0 .. Len(body) - 1
    PROVE  /\ Off(body, j) \in Nat
           /\ Off(body, j + 1) = Off(body, j) + (IF body[j + 1] = Esc THEN 2 ELSE 1)
           /\ Off(body, j + 1) <= Len(Escaped(body))
           /\ Escaped(body)[Off(body, j) + 1] = body[j + 1]
           /\ body[j + 1] = Esc => Escaped(body)[Off(body, j) + 2] = Esc
<1>1. body[j + 1] \in Bytes /\ Escaped(body) = FlatMapped(Pair, body)
  BY EscapedIs
<1>2. /\ Off(body, j) \in Nat
      /\ Off(body, j + 1) = Off(body, j) + Len(Pair[body[j + 1]])
      /\ Off(body, j + 1) <= Len(Escaped(body))
      /\ \A x \in 1 .. Len(Pair[body[j + 1]]) :
            Escaped(body)[Off(body, j) + x] = Pair[body[j + 1]][x]
  BY <1>1, PairSpreads, FlatMappedAt DEF Off
<1>3. Pair[body[j + 1]] = IF body[j + 1] = Esc THEN <<Esc, Esc>>
                                               ELSE <<body[j + 1]>>
  BY <1>1 DEF Pair
<1> QED BY <1>2, <1>3

\* A body can be escaped in two parts.
LEMMA EscapedSplit ==
    ASSUME NEW body \in Seq(Bytes), NEW j \in 0 .. Len(body)
    PROVE  Escaped(body) = Escaped(SubSeq(body, 1, j))
                             \o Escaped(SubSeq(body, j + 1, Len(body)))
<1> DEFINE u == SubSeq(body, 1, j)
           v == SubSeq(body, j + 1, Len(body))
<1>1. u \in Seq(Bytes) /\ v \in Seq(Bytes)
  OBVIOUS
<1>2. body = u \o v
  BY SeqSplit
<1> HIDE DEF u, v
<1>3. FlatMapped(Pair, u \o v) = FlatMapped(Pair, u) \o FlatMapped(Pair, v)
  BY <1>1, PairSpreads, FlatMappedConcat
<1>4. Escaped(body) = Escaped(u) \o Escaped(v)
  BY <1>1, <1>2, <1>3, EscapedIs
<1> QED BY <1>4 DEF u, v

-----------------------------------------------------------------------------
(* A body on the wire, unescaped by the parser.                            *)

\* The states of the inner loop.
TakeStates(b, start) == [out: Seq(Bytes), at: start .. Len(b) + 1]

\* A turn of the inner loop stays within the data.
LEMMA TakeType ==
    ASSUME NEW b \in Seq(Bytes), NEW start \in 1 .. Len(b) + 1,
           NEW s \in TakeStates(b, start)
    PROVE  Take(b, s) \in TakeStates(b, start)
<1>0. s.at \in start .. Len(b) + 1 /\ s.out \in Seq(Bytes)
      /\ Len(b) \in Nat /\ start \in Nat
  BY DEF TakeStates
<1>1. CASE Width(b, s.at) = 0
  BY <1>1 DEF Take
<1>2. CASE Width(b, s.at) # 0
  <2>1. s.at <= Len(b) /\ s.at + Width(b, s.at) <= Len(b) + 1
        /\ Width(b, s.at) \in 1 .. 2
    BY <1>0, <1>2 DEF Width
  <2>2. b[s.at] \in Bytes
    BY <1>0, <2>1
  <2>3. Append(s.out, b[s.at]) \in Seq(Bytes)
    BY <1>0, <2>2
  <2>4. s.at + Width(b, s.at) \in start .. Len(b) + 1
    BY <1>0, <2>1
  <2>5. Take(b, s) = [out |-> Append(s.out, b[s.at]),
                      at |-> s.at + Width(b, s.at)]
    BY <1>2 DEF Take
  <2> QED BY <2>3, <2>4, <2>5 DEF TakeStates
<1> QED BY <1>1, <1>2

\* g is the states of the inner loop, one after the other.
IsBodyRun(g, b, start, need) ==
    /\ g \in [0 .. need -> TakeStates(b, start)]
    /\ g[0] = [out |-> <<>>, at |-> start]
    /\ \A n \in 0 .. need - 1 : g[n + 1] = Take(b, g[n])
    /\ Body(b, start, need) = g[need]

\* The states of the loop exist: the function that defines Body is theirs.
LEMMA BodySteps ==
    ASSUME NEW b \in Seq(Bytes), NEW start \in 1 .. Len(b) + 1, NEW need \in Nat
    PROVE  \E g : IsBodyRun(g, b, start, need)
<1> DEFINE first == [out |-> <<>>, at |-> start]
           Def(f) == [n \in 0 .. need |-> IF n = 0 THEN first ELSE Take(b, f[n - 1])]
           take == CHOOSE f : f = Def(f)
<1>1. \A s \in TakeStates(b, start) : Take(b, s) \in TakeStates(b, start)
  BY TakeType
<1>2. first \in TakeStates(b, start)
  BY DEF TakeStates
<1>3. \E g \in [0 .. need -> TakeStates(b, start)] :
         g[0] = first /\ \A n \in 0 .. need - 1 : g[n + 1] = Take(b, g[n])
  <2>1. ASSUME NEW Y, NEW e \in Y, \A s \in Y : Take(b, s) \in Y
        PROVE  \E g \in [0 .. need -> Y] :
                  g[0] = e /\ \A n \in 0 .. need - 1 : g[n + 1] = Take(b, g[n])
    <3> DEFINE F == [n \in 1 .. need |-> [s \in Y |-> Take(b, s)]]
    <3>1. Steps(F, need, Y)
      BY <2>1 DEF Steps
    <3>2. PICK g \in [0 .. need -> Y] :
             g[0] = e /\ \A n \in 0 .. need - 1 : g[n + 1] = F[n + 1][g[n]]
      <4> HIDE DEF F
      <4> QED BY <2>1, <3>1, Iterates
    <3>3. ASSUME NEW n \in 0 .. need - 1
          PROVE  g[n + 1] = Take(b, g[n])
      BY <3>2
    <3> QED BY <3>2, <3>3
  <2> HIDE DEF first
  <2> QED BY <1>1, <1>2, <2>1
<1>4. PICK g \in [0 .. need -> TakeStates(b, start)] :
         g[0] = first /\ \A n \in 0 .. need - 1 : g[n + 1] = Take(b, g[n])
  BY <1>3
<1>5. g = Def(g)
  <2>1. ASSUME NEW n \in 0 .. need, n # 0
        PROVE  g[n] = Take(b, g[n - 1])
    <3>1. n - 1 \in 0 .. need - 1 /\ (n - 1) + 1 = n
      BY <2>1
    <3> QED BY <1>4, <3>1
  <2> HIDE DEF first
  <2> QED BY <1>4, <2>1
<1>6. take = Def(take)
  <2> HIDE DEF Def
  <2> QED BY <1>5
<1>7. Body(b, start, need) = take[need]
  BY DEF Body
<1> DEFINE S == {n \in 0 .. need : take[n] = g[n]}
<1> HIDE DEF take, first
<1>8. 0 \in S
  BY <1>4, <1>6
<1>9. ASSUME NEW n \in 0 .. need - 1, n \in S
      PROVE  n + 1 \in S
  <2>1. n + 1 \in 0 .. need /\ n + 1 # 0 /\ (n + 1) - 1 = n
    OBVIOUS
  <2>2. take[n + 1] = Take(b, take[n])
    BY <1>6, <2>1
  <2> QED BY <1>4, <1>9, <2>1, <2>2
<1>10. need \in S
  <2>1. 0 .. need \subseteq S
    <3> HIDE DEF S
    <3> QED BY <1>8, <1>9, IntervalInduction
  <2> QED BY <2>1
<1> QED BY <1>4, <1>7, <1>10 DEF first, IsBodyRun

\* After q bytes, `b` goes on with the escaped `body`, as far as `b` goes, and
\* then with an escape that is not escaped.
Holds(b, q, body) ==
    /\ \A x \in 1 .. Len(Escaped(body)) :
          q + x <= Len(b) => b[q + x] = Escaped(body)[x]
    /\ q + Len(Escaped(body)) + 1 <= Len(b)
          => b[q + Len(Escaped(body)) + 1] = Esc
    /\ q + Len(Escaped(body)) + 2 <= Len(b)
          => b[q + Len(Escaped(body)) + 2] # Esc

\* The loop's state after it took the first j bytes of `body`.
Taken(q, body, j) ==
    [out |-> SubSeq(body, 1, j), at |-> q + Off(body, j) + 1]

\* While the data holds the next byte of the body, a turn takes it; when the
\* data ends before, also between two escapes, a turn does nothing.
LEMMA TakeNext ==
    ASSUME NEW b \in Seq(Bytes), NEW body \in Seq(Bytes), NEW q \in Nat,
           Holds(b, q, body), NEW j \in 0 .. Len(body) - 1,
           q + Off(body, j) <= Len(b)
    PROVE  IF q + Off(body, j + 1) <= Len(b)
           THEN Take(b, Taken(q, body, j)) = Taken(q, body, j + 1)
           ELSE Width(b, q + Off(body, j) + 1) = 0
<1> DEFINE p == Off(body, j)
           r == Off(body, j + 1)
           x == body[j + 1]
           e == Escaped(body)
<1>1. /\ p \in Nat /\ r = p + (IF x = Esc THEN 2 ELSE 1) /\ r <= Len(e)
      /\ e[p + 1] = x /\ (x = Esc => e[p + 2] = Esc) /\ Len(e) \in Nat
  BY Offsets, OffsetNext
<1>2. /\ q + p + 1 <= Len(b) => b[q + p + 1] = x
      /\ x = Esc /\ q + p + 2 <= Len(b) => b[q + p + 2] = Esc
  <2>1. p + 1 \in 1 .. Len(e) /\ q + (p + 1) = q + p + 1
    BY SMTT(30), <1>1
  <2>2. q + (p + 1) <= Len(b) => b[q + (p + 1)] = e[p + 1]
    BY <2>1 DEF Holds
  <2>3. x = Esc => p + 2 \in 1 .. Len(e) /\ q + (p + 2) = q + p + 2
    BY SMTT(30), <1>1
  <2>4. x = Esc /\ q + (p + 2) <= Len(b) => b[q + (p + 2)] = e[p + 2]
    BY <2>3 DEF Holds
  <2> HIDE DEF p, e, x
  <2> QED BY <1>1, <2>1, <2>2, <2>3, <2>4
<1>3. Len(b) \in Nat /\ x \in Bytes
  OBVIOUS
<1>4. SubSeq(body, 1, j + 1) = Append(SubSeq(body, 1, j), x)
  OBVIOUS
<1> HIDE DEF p, r, e, x
<1>5. q + r <= Len(b) => Width(b, q + p + 1) = r - p /\ b[q + p + 1] = x
  <2>1. CASE x = Esc
    <3> HAVE q + r <= Len(b)
    <3>1. r = p + 2 /\ q + p + 2 <= Len(b)
      BY <1>1, <1>3, <2>1
    <3>2. q + p + 1 < Len(b) /\ (q + p + 1) + 1 = q + p + 2
      BY <1>1, <1>3, <3>1
    <3>3. b[q + p + 1] = Esc /\ b[q + p + 2] = Esc
      BY <1>1, <1>2, <1>3, <2>1, <3>1
    <3>4. Width(b, q + p + 1) = 2
      BY <3>2, <3>3 DEF Width
    <3> QED BY <1>1, <2>1, <3>1, <3>3, <3>4
  <2>2. CASE x # Esc
    BY <1>1, <1>2, <1>3, <2>2 DEF Width
  <2> QED BY <2>1, <2>2
<1>6. q + r > Len(b) => Width(b, q + p + 1) = 0
  <2>1. CASE x = Esc
    BY <1>1, <1>2, <1>3, <2>1 DEF Width
  <2>2. CASE x # Esc
    BY <1>1, <1>2, <1>3, <2>2 DEF Width
  <2> QED BY <2>1, <2>2
<1>7. ASSUME q + r <= Len(b)
      PROVE  Take(b, Taken(q, body, j)) = Taken(q, body, j + 1)
  <2>1. Width(b, q + p + 1) = r - p /\ r - p # 0 /\ (q + p + 1) + (r - p) = q + r + 1
        /\ b[q + p + 1] = x
    <3>1. r - p # 0 /\ (q + p + 1) + (r - p) = q + r + 1
      <4>1. r = p + 2 \/ r = p + 1
        BY <1>1
      <4> QED BY <1>1, <4>1
    <3>2. Width(b, q + p + 1) = r - p /\ b[q + p + 1] = x
      BY <1>5, <1>7
    <3> QED BY <3>1, <3>2
  <2>2. Taken(q, body, j) = [out |-> SubSeq(body, 1, j), at |-> q + p + 1]
        /\ Taken(q, body, j + 1) = [out |-> SubSeq(body, 1, j + 1), at |-> q + r + 1]
    BY DEF Taken, p, r
  <2>3. Taken(q, body, j).at = q + p + 1
        /\ Taken(q, body, j).out = SubSeq(body, 1, j)
    BY <2>2
  <2>4. Take(b, Taken(q, body, j))
          = [out |-> Append(SubSeq(body, 1, j), x), at |-> (q + p + 1) + (r - p)]
    BY <2>1, <2>3 DEF Take
  <2> QED BY <1>4, <2>1, <2>2, <2>4
<1>8. q + r \in Nat
  BY <1>1
<1> QED BY <1>3, <1>6, <1>7, <1>8 DEF p, r

\* At the end of the body there is nothing to take.
LEMMA TakeStuck ==
    ASSUME NEW b \in Seq(Bytes), NEW body \in Seq(Bytes), NEW q \in Nat,
           Holds(b, q, body)
    PROVE  Width(b, q + Off(body, Len(body)) + 1) = 0
<1>1. Off(body, Len(body)) = Len(Escaped(body)) /\ Len(Escaped(body)) \in Nat
  BY Offsets
<1> DEFINE e == Len(Escaped(body))
<1>2. /\ q + e + 1 <= Len(b) => b[q + e + 1] = Esc
      /\ q + e + 2 <= Len(b) => b[q + e + 2] # Esc
      /\ e \in Nat /\ Len(b) \in Nat
  BY <1>1 DEF Holds
<1> HIDE DEF e
<1>3. Width(b, q + e + 1) = 0
  BY <1>2 DEF Width
<1> QED BY <1>1, <1>3 DEF e

\* What the inner loop gathers where an escaped body is: the body up to some
\* byte j, and it stopped there because that was enough, because the body ended,
\* or because the data did.
LEMMA BodyOf ==
    ASSUME NEW b \in Seq(Bytes), NEW body \in Seq(Bytes), NEW q \in 0 .. Len(b),
           Holds(b, q, body), NEW need \in Nat
    PROVE  \E j \in 0 .. Len(body) :
              /\ j <= need /\ q + Off(body, j) <= Len(b)
              /\ Body(b, q + 1, need) = Taken(q, body, j)
              /\ \/ j = need \/ j = Len(body)
                 \/ j < Len(body) /\ q + Off(body, j + 1) > Len(b)
<1>0. Len(body) \in Nat /\ Len(b) \in Nat /\ q \in Nat
      /\ q + 1 \in 1 .. Len(b) + 1
  OBVIOUS
<1>1. PICK g : IsBodyRun(g, b, q + 1, need)
  BY <1>0, BodySteps
<1>1a. /\ g[0] = [out |-> <<>>, at |-> q + 1]
       /\ \A n \in 0 .. need - 1 : g[n + 1] = Take(b, g[n])
       /\ Body(b, q + 1, need) = g[need]
  BY <1>1 DEF IsBodyRun
<1> DEFINE Stuck(j) == \/ j = Len(body)
                       \/ j < Len(body) /\ q + Off(body, j + 1) > Len(b)
           At(n, j) == /\ j <= n /\ q + Off(body, j) <= Len(b)
                       /\ g[n] = Taken(q, body, j)
                       /\ j = n \/ Stuck(j)
           S == {n \in 0 .. need : \E j \in 0 .. Len(body) : At(n, j)}
<1>2. 0 \in S
  <2>1. Off(body, 0) = 0 /\ SubSeq(body, 1, 0) = <<>>
    BY Offsets
  <2>2. Taken(q, body, 0) = g[0]
    BY <1>1a, <2>1 DEF Taken
  <2>3. At(0, 0)
    BY <2>1, <2>2
  <2>4. 0 \in 0 .. Len(body) /\ 0 \in 0 .. need
    BY <1>0
  <2> HIDE DEF At
  <2> QED BY <2>3, <2>4
<1>3. ASSUME NEW n \in 0 .. need - 1, n \in S
      PROVE  n + 1 \in S
  <2>1. PICK j \in 0 .. Len(body) : At(n, j)
    BY <1>3
  <2>2. g[n + 1] = Take(b, g[n])
    BY <1>1a
  <2>3. CASE Stuck(j)
    <3>1. Width(b, q + Off(body, j) + 1) = 0
      <4>1. CASE j = Len(body)
        BY <1>0, <4>1, TakeStuck
      <4>2. CASE j < Len(body) /\ q + Off(body, j + 1) > Len(b)
        <5>1. j \in 0 .. Len(body) - 1 /\ ~(q + Off(body, j + 1) <= Len(b))
          <6>1. j \in 0 .. Len(body) - 1
            BY <1>0, <4>2
          <6>2. Off(body, j) \in Nat /\ Off(body, j + 1) \in Nat
            BY <6>1, OffsetNext
          <6> QED BY <1>0, <4>2, <6>1, <6>2
        <5> QED BY <1>0, <2>1, <5>1, TakeNext
      <4> QED BY <2>3, <4>1, <4>2
    <3>2. Take(b, g[n]) = g[n]
      BY <2>1, <3>1 DEF Take, Taken
    <3>3. At(n + 1, j)
      BY <2>1, <2>2, <2>3, <3>2
    <3>4. n + 1 \in 0 .. need
      OBVIOUS
    <3> HIDE DEF At
    <3> QED BY <3>3, <3>4
  <2>4. CASE ~Stuck(j)
    <3>0. j \in 0 .. Len(body) - 1
      BY <1>0, <2>4
    <3>1. j = n /\ j + 1 \in 0 .. Len(body)
      <4>1. j = n
        BY <2>1, <2>4
      <4> HIDE DEF At, Stuck
      <4> QED BY <1>0, <3>0, <4>1
    <3>2. Off(body, j) \in Nat /\ Off(body, j + 1) \in Nat
      BY <3>0, OffsetNext
    <3>3. q + Off(body, j + 1) <= Len(b)
      BY <1>0, <2>4, <3>0, <3>2
    <3>4. Take(b, Taken(q, body, j)) = Taken(q, body, j + 1)
      BY <1>0, <2>1, <3>0, <3>3, TakeNext
    <3>5. At(n + 1, j + 1)
      BY <2>1, <2>2, <3>1, <3>3, <3>4
    <3>6. n + 1 \in 0 .. need
      OBVIOUS
    <3> HIDE DEF At
    <3> QED BY <3>1, <3>5, <3>6
  <2> QED BY <2>3, <2>4
<1>4. need \in S
  <2>1. 0 .. need \subseteq S
    <3> HIDE DEF S
    <3> QED BY <1>2, <1>3, IntervalInduction
  <2> QED BY <2>1
<1>5. PICK j \in 0 .. Len(body) : At(need, j)
  BY <1>4
<1> QED BY <1>1a, <1>5

-----------------------------------------------------------------------------
(* The outer loop.                                                         *)

\* A frame needs more bytes than its header, and more than one.
LEMMA NeedNat ==
    ASSUME NEW t \in Types
    PROVE  Need(t) \in Nat /\ HeaderLen < Need(t) /\ Need(t) > 1
  BY BytesAssumption DEF Need

\* For any data, what Body returns is a state of the loop.
LEMMA BodyType ==
    ASSUME NEW b \in Seq(Bytes), NEW start \in 1 .. Len(b) + 1, NEW need \in Nat
    PROVE  Body(b, start, need) \in TakeStates(b, start)
<1>1. PICK g : IsBodyRun(g, b, start, need)
  BY BodySteps
<1>2. g[need] \in TakeStates(b, start)
  BY <1>1 DEF IsBodyRun
<1> QED BY <1>1, <1>2 DEF IsBodyRun

\* The states of the outer loop.
TurnStates(b) == [i: 1 .. Len(b) + 1, frames: Seq(Frames), used: 0 .. Len(b)]

\* A turn of the outer loop stays within the data.
LEMMA TurnType ==
    ASSUME NEW b \in Seq(Bytes), NEW s \in TurnStates(b)
    PROVE  Turn(b, s) \in TurnStates(b)
<1> DEFINE type == b[s.i + 1]
           body == Body(b, s.i + 2, Need(type))
<1>0. /\ s.i \in 1 .. Len(b) + 1 /\ s.frames \in Seq(Frames)
      /\ s.used \in 0 .. Len(b) /\ Len(b) \in Nat
      /\ s = [i |-> s.i, frames |-> s.frames, used |-> s.used]
  BY DEF TurnStates
<1>1. CASE s.i >= Len(b)
  BY <1>1 DEF Turn
<1>2. CASE s.i < Len(b) /\ (b[s.i] # Esc \/ type \notin Types)
  <2>1. Turn(b, s) = [s EXCEPT !.i = s.i + 1]
    <3>1. ~(s.i >= Len(b))
      BY <1>0, <1>2
    <3> QED BY <1>2, <3>1 DEF Turn
  <2>2. s.i + 1 \in 1 .. Len(b) + 1
    BY <1>0, <1>2
  <2> QED BY <2>1, <2>2 DEF TurnStates
<1>3. CASE s.i < Len(b) /\ ~(b[s.i] # Esc \/ type \notin Types)
  <2>0. ~(s.i >= Len(b)) /\ s.i + 2 \in 1 .. Len(b) + 1 /\ type \in Types
    BY <1>0, <1>3
  <2>1. Need(type) \in Nat /\ HeaderLen < Need(type) /\ Need(type) > 1
        /\ HeaderLen \in Nat
    BY <2>0, NeedNat, BytesAssumption
  <2>2. body \in TakeStates(b, s.i + 2)
    BY <2>0, <2>1, BodyType
  <2> HIDE DEF body, type
  <2>3. body.at \in s.i + 2 .. Len(b) + 1 /\ body.out \in Seq(Bytes)
    BY <2>2 DEF TakeStates
  <2>4. body.at \in 1 .. Len(b) + 1 /\ body.at - 1 \in 0 .. Len(b)
    BY <1>0, <2>3
  <2>5. CASE Len(body.out) < Need(type)
    <3>1. Turn(b, s) = [s EXCEPT !.i = body.at]
      BY <1>3, <2>0, <2>5 DEF Turn, body, type
    <3> QED BY <2>4, <3>1 DEF TurnStates
  <2>6. CASE ~(Len(body.out) < Need(type))
    <3>1. Turn(b, s) = [i |-> body.at, used |-> body.at - 1,
                        frames |-> Append(s.frames, FrameOf(type, body.out))]
      BY <1>3, <2>0, <2>6 DEF Turn, body, type
    <3>2. SubSeq(body.out, HeaderLen + 1, Need(type)) \in Seq(Bytes)
      BY <2>1, <2>3, <2>6
    <3>3. FrameOf(type, body.out) \in Frames
      BY <2>0, <3>2 DEF FrameOf, Frames
    <3>4. Append(s.frames, FrameOf(type, body.out)) \in Seq(Frames)
      BY <1>0, <3>3
    <3> QED BY <2>4, <3>1, <3>4 DEF TurnStates
  <2> QED BY <2>5, <2>6
<1>4. s.i >= Len(b) \/ s.i < Len(b)
  BY <1>0
<1> QED BY <1>1, <1>2, <1>3, <1>4

\* g is the states of the outer loop, one after the other.
IsParseRun(g, b) ==
    /\ g \in [0 .. Len(b) -> TurnStates(b)]
    /\ g[0] = [i |-> 1, frames |-> <<>>, used |-> 0]
    /\ \A n \in 0 .. Len(b) - 1 : g[n + 1] = Turn(b, g[n])
    /\ Parse(b) = g[Len(b)]

\* Y is a set of states that the loop does not leave, and g goes from `first`
\* through m turns.
Closes(Y, b) == \A s \in Y : Turn(b, s) \in Y

IsTurnRun(g, b, Y, first, m) ==
    /\ g \in [0 .. m -> Y]
    /\ g[0] = first
    /\ \A n \in 0 .. m - 1 : g[n + 1] = Turn(b, g[n])

\* Such states exist.
LEMMA TurnSteps ==
    ASSUME NEW b, NEW Y, NEW first \in Y, NEW m \in Nat, Closes(Y, b)
    PROVE  \E g : IsTurnRun(g, b, Y, first, m)
<1> DEFINE F == [n \in 1 .. m |-> [s \in Y |-> Turn(b, s)]]
<1>1. Steps(F, m, Y)
  BY DEF Steps, Closes
<1>2. PICK g \in [0 .. m -> Y] :
         g[0] = first /\ \A n \in 0 .. m - 1 : g[n + 1] = F[n + 1][g[n]]
  <2> HIDE DEF F
  <2> QED BY <1>1, Iterates
<1>3. ASSUME NEW n \in 0 .. m - 1
      PROVE  g[n + 1] = Turn(b, g[n])
  <2>1. n + 1 \in 1 .. m /\ n \in 0 .. m
    OBVIOUS
  <2>2. F[n + 1][g[n]] = Turn(b, g[n])
    BY <1>2, <2>1
  <2> HIDE DEF F
  <2> QED BY <1>2, <2>2
<1> QED BY <1>2, <1>3 DEF IsTurnRun

\* How Parse is defined.
IsTurnFunction(turn, b, first, m) ==
    turn = CHOOSE f : f = [n \in 0 .. m |-> IF n = 0 THEN first
                                                   ELSE Turn(b, f[n - 1])]

\* A function that satisfies the definition exists, so the one of Parse does.
LEMMA TurnFunction ==
    ASSUME NEW b, NEW Y, NEW first \in Y, NEW m \in Nat, Closes(Y, b),
           NEW turn, IsTurnFunction(turn, b, first, m)
    PROVE  IsTurnRun(turn, b, Y, first, m)
<1> DEFINE Def(f) == [n \in 0 .. m |-> IF n = 0 THEN first ELSE Turn(b, f[n - 1])]
<1>0. PICK g : IsTurnRun(g, b, Y, first, m)
  BY TurnSteps
<1>1. /\ g \in [0 .. m -> Y] /\ g[0] = first
      /\ \A n \in 0 .. m - 1 : g[n + 1] = Turn(b, g[n])
  BY <1>0 DEF IsTurnRun
<1>2. g = Def(g)
  <2>1. ASSUME NEW n \in 0 .. m, n # 0
        PROVE  g[n] = Turn(b, g[n - 1])
    <3>1. n - 1 \in 0 .. m - 1 /\ (n - 1) + 1 = n
      BY <2>1
    <3> QED BY <1>1, <3>1
  <2> QED BY <1>1, <2>1
<1>3. turn = Def(turn)
  <2>1. turn = CHOOSE f : f = Def(f)
    BY DEF IsTurnFunction
  <2> HIDE DEF Def
  <2> QED BY <1>2, <2>1
<1>4. DOMAIN turn = 0 .. m
  BY <1>3
<1>5. ASSUME NEW n \in 0 .. m
      PROVE  turn[n] = IF n = 0 THEN first ELSE Turn(b, turn[n - 1])
  BY <1>3
<1> DEFINE S == {n \in 0 .. m : turn[n] = g[n]}
<1>6. 0 \in S
  BY <1>1, <1>5
<1>7. ASSUME NEW n \in 0 .. m - 1, n \in S
      PROVE  n + 1 \in S
  <2>1. n + 1 \in 0 .. m /\ n + 1 # 0 /\ (n + 1) - 1 = n
    OBVIOUS
  <2>2. turn[n + 1] = Turn(b, turn[n])
    BY <1>5, <2>1
  <2> QED BY <1>1, <1>7, <2>1, <2>2
<1>8. 0 .. m \subseteq S
  <2> HIDE DEF S
  <2> QED BY <1>6, <1>7, IntervalInduction
<1>9. turn = g
  <2>1. \A n \in 0 .. m : turn[n] = g[n]
    BY <1>8
  <2>2. turn = [n \in 0 .. m |-> turn[n]] /\ g = [n \in 0 .. m |-> g[n]]
    BY <1>1, <1>3, <1>4
  <2> QED BY <2>1, <2>2
<1> QED BY <1>0, <1>9

\* So the states of the loop exist, and Parse is the last one.
LEMMA ParseSteps ==
    ASSUME NEW b \in Seq(Bytes)
    PROVE  \E g : IsParseRun(g, b)
<1> DEFINE first == [i |-> 1, frames |-> <<>>, used |-> 0]
           turn == CHOOSE f : f = [n \in 0 .. Len(b) |->
                        IF n = 0 THEN first ELSE Turn(b, f[n - 1])]
<1>0. Len(b) \in Nat
  OBVIOUS
<1>1. Closes(TurnStates(b), b)
  BY TurnType DEF Closes
<1>2. first \in TurnStates(b)
  <2>1. <<>> \in Seq(Frames) /\ 1 \in 1 .. Len(b) + 1 /\ 0 \in 0 .. Len(b)
    BY <1>0
  <2> QED BY <2>1 DEF TurnStates
<1>3. Parse(b) = turn[Len(b)]
  BY DEF Parse
<1>4. IsTurnFunction(turn, b, first, Len(b))
  BY DEF IsTurnFunction
<1>5. IsTurnRun(turn, b, TurnStates(b), first, Len(b))
  <2> HIDE DEF first, turn
  <2> QED BY <1>0, <1>1, <1>2, <1>4, TurnFunction
<1>6. IsParseRun(turn, b)
  <2> HIDE DEF turn
  <2> QED BY <1>3, <1>5 DEF IsParseRun, IsTurnRun
<1> QED BY <1>6

\* For any bytes: what the parser returns is frames, and a length of `b`.
LEMMA ParseType ==
    ASSUME NEW b \in Seq(Bytes)
    PROVE  Parse(b).frames \in Seq(Frames) /\ Parse(b).used \in 0 .. Len(b)
<1>1. PICK g : IsParseRun(g, b)
  BY ParseSteps
<1>2. Len(b) \in 0 .. Len(b)
  OBVIOUS
<1>3. Parse(b) \in TurnStates(b)
  BY <1>1, <1>2 DEF IsParseRun
<1> QED BY <1>3 DEF TurnStates

-----------------------------------------------------------------------------
(* The stream of the frames written.                                       *)

\* The type byte of a frame.
Mark(f) == IF f.type = "unknown" THEN CHOOSE o \in Others : TRUE ELSE f.type

\* The frames that readsb writes, and how long their bodies are.
LEMMA WritableIs ==
    ASSUME NEW f \in Writable
    PROVE  /\ f.body \in Seq(Bytes)
           /\ f.type = "unknown" =>
                 Mark(f) \in Others /\ Len(f.body) = UnknownLen /\ ~IsWhole(f)
           /\ f.type # "unknown" =>
                 /\ f.type \in Types /\ Mark(f) = f.type
                 /\ IsWhole(f) => Len(f.body) = Need(f.type)
                 /\ ~IsWhole(f) => Len(f.body) < Need(f.type)
<1>0. "unknown" \notin Types /\ Others # {}
  BY BytesAssumption
<1>1. ASSUME NEW n \in Nat, NEW w \in [1 .. n -> Bytes]
      PROVE  w \in Seq(Bytes) /\ Len(w) = n
  BY <1>1
<1>2. CASE f \in WholeFrames
  <2>1. PICK t \in Types : f \in [type: {t}, body: Bodies({Need(t)}), cut: {FALSE}]
    BY <1>2 DEF WholeFrames
  <2>2. f.type = t /\ f.cut = FALSE /\ f.body \in [1 .. Need(t) -> Bytes]
    BY <2>1 DEF Bodies
  <2>3. Need(t) \in Nat
    BY NeedNat
  <2>4. f.body \in Seq(Bytes) /\ Len(f.body) = Need(t)
    BY <1>1, <2>2, <2>3
  <2>5. IsWhole(f) /\ f.type # "unknown"
    BY <1>0, <2>2 DEF IsWhole
  <2> QED BY <2>2, <2>4, <2>5 DEF Mark
<1>3. CASE f \in CutFrames
  <2>0. PICK t \in Types :
            f \in [type: {t}, body: Bodies(0 .. Need(t) - 1), cut: {TRUE}]
    BY <1>3 DEF CutFrames
  <2>1. PICK n \in 0 .. Need(t) - 1 : f.body \in [1 .. n -> Bytes]
    BY <2>0 DEF Bodies
  <2>2. f.type = t /\ f.type \in Types /\ f.cut = TRUE
    BY <2>0
  <2>3. Need(f.type) \in Nat /\ n < Need(f.type) /\ n \in Nat
    BY <2>1, <2>2, NeedNat
  <2>4. f.body \in Seq(Bytes) /\ Len(f.body) = n
    BY <1>1, <2>1, <2>3
  <2>5. ~IsWhole(f) /\ f.type # "unknown"
    BY <1>0, <2>2 DEF IsWhole
  <2> QED BY <2>2, <2>3, <2>4, <2>5 DEF Mark
<1>4. CASE f \in UnknownFrames
  <2>1. f.type = "unknown" /\ f.body \in [1 .. UnknownLen -> Bytes]
    BY <1>4 DEF UnknownFrames
  <2>2. UnknownLen \in Nat
    BY UnknownAssumption
  <2>3. f.body \in Seq(Bytes) /\ Len(f.body) = UnknownLen
    BY <1>1, <2>1, <2>2
  <2>4. ~IsWhole(f)
    BY <1>0, <2>1 DEF IsWhole
  <2>5. Mark(f) \in Others
    BY <1>0, <2>1 DEF Mark
  <2> QED BY <2>1, <2>3, <2>4, <2>5
<1> QED BY <1>2, <1>3, <1>4 DEF Writable

\* OnWire as a function.
OnWireOf == [f \in Writable |-> OnWire(f)]

\* What a reader has to see of one frame.
Seen == [f \in Writable |-> IF IsWhole(f) THEN <<FrameOf(f.type, f.body)>> ELSE <<>>]

\* A frame on the wire: an escape, a byte that is none, and the escaped body.
LEMMA OnWireIs ==
    ASSUME NEW f \in Writable
    PROVE  /\ OnWire(f) = <<Esc, Mark(f)>> \o Escaped(f.body)
           /\ OnWire(f) \in Seq(Bytes)
           /\ Len(OnWire(f)) = 2 + Len(Escaped(f.body))
           /\ Escaped(f.body) \in Seq(Bytes)
           /\ Mark(f) # Esc /\ Mark(f) \in Bytes
<1>1. Escaped(f.body) \in Seq(Bytes)
  BY WritableIs, Offsets
<1>2. Mark(f) \in Types \cup Others
  BY WritableIs
<1>3. Esc \in Bytes /\ Mark(f) \in Bytes /\ Mark(f) # Esc
  BY <1>2, BytesAssumption DEF Bytes
<1>4. OnWire(f) = <<Esc, Mark(f)>> \o Escaped(f.body)
  BY DEF OnWire, Mark
<1>5. <<Esc, Mark(f)>> \in Seq(Bytes) /\ Len(<<Esc, Mark(f)>>) = 2
  BY <1>3
<1> QED BY <1>1, <1>3, <1>4, <1>5

\* It is a sequence of bytes.
LEMMA OnWireSpreads == Spreads(OnWireOf, Writable, Bytes)
<1>1. \A f \in Writable : OnWire(f) \in Seq(Bytes)
  BY OnWireIs
<1> QED BY <1>1 DEF OnWireOf, Spreads

\* It is frames: none, or one.
LEMMA SeenType ==
    ASSUME NEW f \in Writable
    PROVE  Seen[f] \in Seq(Frames)
<1>1. CASE ~IsWhole(f)
  BY <1>1 DEF Seen
<1>2. CASE IsWhole(f)
  <2>1. f.type \in Types
    BY <1>2 DEF IsWhole
  <2>2. f.type # "unknown"
    BY <2>1, BytesAssumption
  <2>3. Len(f.body) = Need(f.type) /\ f.body \in Seq(Bytes)
    BY <1>2, <2>2, WritableIs
  <2>4. SubSeq(f.body, HeaderLen + 1, Need(f.type)) \in Seq(Bytes)
    BY <2>1, <2>3, NeedNat, BytesAssumption
  <2>5. FrameOf(f.type, f.body) \in Frames
    BY <2>1, <2>4 DEF FrameOf, Frames
  <2> QED BY <1>2, <2>5 DEF Seen
<1> QED BY <1>1, <1>2

\* The same, of all frames.
LEMMA SeenSpreads == Spreads(Seen, Writable, Frames)
  BY SeenType DEF Seen, Spreads

\* Whole is that, of the frames one after the other.
LEMMA WholeIs ==
    ASSUME NEW s \in Seq(Writable)
    PROVE  Whole(s) = FlatMapped(Seen, s)
<1>1. \A k \in DOMAIN s : s[k] \in Writable
  OBVIOUS
<1>2. [k \in DOMAIN s |-> IF IsWhole(s[k]) THEN <<FrameOf(s[k].type, s[k].body)>>
                                           ELSE <<>>]
        = [k \in DOMAIN s |-> Seen[s[k]]]
  BY <1>1 DEF Seen
<1> QED BY <1>2 DEF Whole, FlatMapped

\* The bytes of the frames `s`, and where frame k of them ends.
Stream(s) == FlatMapped(OnWireOf, s)
Ends(s, k) == Reach(OnWireOf, s, k)

\* `b` is what the frames `s` look like on the wire, as far as it goes.
Received(b, s) ==
    /\ Len(b) <= Len(Stream(s))
    /\ \A x \in 1 .. Len(b) : b[x] = Stream(s)[x]

\* The stream is bytes, and its frames fill it.
LEMMA StreamType ==
    ASSUME NEW s \in Seq(Writable)
    PROVE  /\ Stream(s) \in Seq(Bytes)
           /\ Ends(s, 0) = 0 /\ Ends(s, Len(s)) = Len(Stream(s))
  BY OnWireSpreads, FlatMappedType, ReachEnds DEF Stream, Ends

\* The bytes of frame k + 1, and the two bytes after them.
LEMMA FrameAt ==
    ASSUME NEW s \in Seq(Writable), NEW k \in 0 .. Len(s) - 1
    PROVE  /\ Ends(s, k) \in Nat
           /\ Ends(s, k + 1) = Ends(s, k) + 2 + Len(Escaped(s[k + 1].body))
           /\ Ends(s, k + 1) <= Len(Stream(s))
           /\ Stream(s)[Ends(s, k) + 1] = Esc
           /\ Stream(s)[Ends(s, k) + 2] = Mark(s[k + 1])
           /\ \A x \in 1 .. Len(Escaped(s[k + 1].body)) :
                 Stream(s)[Ends(s, k) + 2 + x] = Escaped(s[k + 1].body)[x]
<1> DEFINE f == s[k + 1]
           e == Escaped(f.body)
           w == OnWireOf[f]
<1>1. f \in Writable
  OBVIOUS
<1>2. /\ Ends(s, k) \in Nat
      /\ Ends(s, k + 1) = Ends(s, k) + Len(w)
      /\ Ends(s, k + 1) <= Len(Stream(s))
      /\ \A x \in 1 .. Len(w) : Stream(s)[Ends(s, k) + x] = w[x]
  BY SMTT(30), OnWireSpreads, FlatMappedAt DEF Stream, Ends
<1> HIDE DEF f, w, e
<1>3. w = <<Esc, Mark(f)>> \o e /\ Len(w) = 2 + Len(e) /\ e \in Seq(Bytes)
      /\ Mark(f) \in Bytes /\ Esc \in Bytes
  BY <1>1, OnWireIs DEF OnWireOf, w, e, Bytes
<1>4. w[1] = Esc /\ w[2] = Mark(f) /\ \A x \in 1 .. Len(e) : w[2 + x] = e[x]
  BY <1>3
<1>5. 1 \in 1 .. Len(w) /\ 2 \in 1 .. Len(w) /\ Len(e) \in Nat
  BY <1>3
<1>6. ASSUME NEW x \in 1 .. Len(e)
      PROVE  Stream(s)[Ends(s, k) + 2 + x] = e[x]
  <2>1. 2 + x \in 1 .. Len(w) /\ Ends(s, k) + (2 + x) = Ends(s, k) + 2 + x
    BY <1>2, <1>3
  <2>2. Stream(s)[Ends(s, k) + (2 + x)] = w[2 + x]
    BY <1>2, <2>1
  <2> QED BY <1>4, <2>1, <2>2
<1>7. Ends(s, k + 1) = Ends(s, k) + 2 + Len(e)
  BY <1>2, <1>3, <1>5
<1>8. Stream(s)[Ends(s, k) + 1] = Esc /\ Stream(s)[Ends(s, k) + 2] = Mark(f)
  BY <1>2, <1>4, <1>5
<1> QED BY <1>2, <1>6, <1>7, <1>8 DEF f, e

\* The same in the data, as far as it goes, for the inner loop.
LEMMA FrameReceived ==
    ASSUME NEW s \in Seq(Writable), NEW k \in 0 .. Len(s) - 1,
           NEW b \in Seq(Bytes), Received(b, s)
    PROVE  /\ Ends(s, k) + 1 <= Len(b) => b[Ends(s, k) + 1] = Esc
           /\ Ends(s, k) + 2 <= Len(b) => b[Ends(s, k) + 2] = Mark(s[k + 1])
           /\ Holds(b, Ends(s, k) + 2, s[k + 1].body)
<1> DEFINE e == Escaped(s[k + 1].body)
           p == Ends(s, k)
<1>0. /\ p \in Nat /\ Len(b) \in Nat /\ Len(e) \in Nat
      /\ Ends(s, k + 1) = p + 2 + Len(e)
      /\ Stream(s)[p + 1] = Esc
      /\ Stream(s)[p + 2] = Mark(s[k + 1])
      /\ \A x \in 1 .. Len(e) : Stream(s)[p + 2 + x] = e[x]
  <2>1. s[k + 1] \in Writable
    OBVIOUS
  <2>2. e \in Seq(Bytes)
    BY <2>1, OnWireIs
  <2>3. Len(e) \in Nat /\ Len(b) \in Nat
    BY <2>2
  <2>4. /\ p \in Nat /\ Ends(s, k + 1) = p + 2 + Len(e)
        /\ Stream(s)[p + 1] = Esc
        /\ Stream(s)[p + 2] = Mark(s[k + 1])
        /\ \A x \in 1 .. Len(e) : Stream(s)[p + 2 + x] = e[x]
    BY FrameAt
  <2> HIDE DEF e, p
  <2> QED BY <2>3, <2>4
<1> HIDE DEF e, p
<1>1. ASSUME NEW x \in Nat \ {0}, x <= Len(b)
      PROVE  b[x] = Stream(s)[x]
  <2>1. x \in 1 .. Len(b)
    BY <1>0, <1>1
  <2> QED BY <2>1 DEF Received
<1>2. ASSUME p + 2 + Len(e) + 1 <= Len(b)
      PROVE  /\ b[p + 2 + Len(e) + 1] = Esc
             /\ p + 2 + Len(e) + 2 <= Len(b) => b[p + 2 + Len(e) + 2] # Esc
  <2>1. k + 1 # Len(s)
    <3>1. Len(b) <= Len(Stream(s)) /\ Len(Stream(s)) \in Nat
          /\ Ends(s, Len(s)) = Len(Stream(s))
      BY StreamType DEF Received
    <3> QED BY <1>0, <1>2, <3>1
  <2>2. k + 1 \in 0 .. Len(s) - 1
    BY <2>1
  <2>3. /\ Stream(s)[Ends(s, k + 1) + 1] = Esc
        /\ Stream(s)[Ends(s, k + 1) + 2] = Mark(s[(k + 1) + 1])
    BY <2>2, FrameAt
  <2>4. Mark(s[(k + 1) + 1]) # Esc
    <3>1. s[(k + 1) + 1] \in Writable
      BY <2>2
    <3> QED BY <3>1, OnWireIs
  <2>5. p + 2 + Len(e) + 1 \in Nat \ {0} /\ p + 2 + Len(e) + 2 \in Nat \ {0}
    BY <1>0
  <2> QED BY <1>0, <1>1, <1>2, <2>3, <2>4, <2>5
<1>3. ASSUME NEW x \in 1 .. Len(e), p + 2 + x <= Len(b)
      PROVE  b[p + 2 + x] = e[x]
  <2>1. p + 2 + x \in Nat \ {0}
    BY <1>0
  <2> QED BY <1>0, <1>1, <1>3, <2>1
<1>4. p + 1 <= Len(b) => b[p + 1] = Esc
  BY <1>0, <1>1
<1>5. p + 2 <= Len(b) => b[p + 2] = Mark(s[k + 1])
  BY <1>0, <1>1
<1>6. p + 2 + Len(e) + 2 <= Len(b) => p + 2 + Len(e) + 1 <= Len(b)
  BY <1>0
<1> QED BY <1>2, <1>3, <1>4, <1>5, <1>6 DEF e, p, Holds

\* Every byte of an escaped body is, or doubles, a byte of the body.
IsByteAt(body, x, j) ==
    \/ x = Off(body, j) + 1
    \/ x = Off(body, j) + 2 /\ body[j + 1] = Esc

LEMMA EscapedAt ==
    ASSUME NEW body \in Seq(Bytes), NEW x \in 1 .. Len(Escaped(body))
    PROVE  \E j \in 0 .. Len(body) - 1 : IsByteAt(body, x, j)
<1> DEFINE S == {m \in 0 .. Len(body) : x <= Off(body, m) =>
                    \E j \in 0 .. Len(body) - 1 : IsByteAt(body, x, j)}
<1>0. Len(body) \in Nat /\ x \in Nat \ {0}
  OBVIOUS
<1>1. 0 \in S
  BY <1>0, Offsets
<1>2. ASSUME NEW m \in 0 .. Len(body) - 1, m \in S
      PROVE  m + 1 \in S
  <2>1. /\ Off(body, m) \in Nat
        /\ Off(body, m + 1) = Off(body, m) + (IF body[m + 1] = Esc THEN 2 ELSE 1)
    BY OffsetNext
  <2>2. ASSUME x <= Off(body, m + 1), ~(x <= Off(body, m))
        PROVE  IsByteAt(body, x, m)
    <3>1. CASE body[m + 1] = Esc
      BY <1>0, <2>1, <2>2, <3>1 DEF IsByteAt
    <3>2. CASE body[m + 1] # Esc
      BY <1>0, <2>1, <2>2, <3>2 DEF IsByteAt
    <3> QED BY <3>1, <3>2
  <2>3. m + 1 \in 0 .. Len(body)
    BY <1>0
  <2> QED BY <1>2, <2>2, <2>3
<1>3. 0 .. Len(body) \subseteq S
  <2> HIDE DEF S
  <2> QED BY <1>0, <1>1, <1>2, IntervalInduction
<1>4. Len(body) \in S /\ x <= Off(body, Len(body))
  <2>1. x <= Off(body, Len(body))
    BY Offsets
  <2> QED BY <1>0, <1>3, <2>1
<1> QED BY <1>4

\* A type byte that comes after an escape in a body follows a whole pair.
LEMMA PairEnds ==
    ASSUME NEW body \in Seq(Bytes), NEW x \in 1 .. Len(Escaped(body)) - 1,
           Escaped(body)[x] = Esc, Escaped(body)[x + 1] # Esc
    PROVE  \E j \in 1 .. Len(body) - 1 : x = Off(body, j)
<1>0. Len(body) \in Nat /\ x \in Nat \ {0} /\ x \in 1 .. Len(Escaped(body))
      /\ Len(Escaped(body)) \in Nat
  BY Offsets
<1>1. PICK j \in 0 .. Len(body) - 1 : IsByteAt(body, x, j)
  BY <1>0, EscapedAt
<1>2. /\ Off(body, j) \in Nat
      /\ Off(body, j + 1) = Off(body, j) + (IF body[j + 1] = Esc THEN 2 ELSE 1)
      /\ Escaped(body)[Off(body, j) + 1] = body[j + 1]
      /\ body[j + 1] = Esc => Escaped(body)[Off(body, j) + 2] = Esc
  BY OffsetNext
<1>3. x # Off(body, j) + 1
  <2> SUFFICES ASSUME x = Off(body, j) + 1
               PROVE  FALSE
    OBVIOUS
  <2>1. body[j + 1] = Esc
    BY <1>2
  <2>2. Off(body, j) + 2 = x + 1
    BY <1>2
  <2> QED BY <1>2, <2>1, <2>2
<1>4. x = Off(body, j) + 2 /\ body[j + 1] = Esc
  BY <1>1, <1>3 DEF IsByteAt
<1>5. x = Off(body, j + 1)
  BY <1>2, <1>4
<1>6. j + 1 # Len(body)
  <2>1. Off(body, Len(body)) = Len(Escaped(body))
    BY Offsets
  <2> QED BY <1>0, <1>5, <2>1
<1>7. j + 1 \in 1 .. Len(body) - 1
  BY <1>0, <1>6
<1> QED BY <1>5, <1>7

\* Every turn moves on, until the data is at its end.
LEMMA TurnMoves ==
    ASSUME NEW b \in Seq(Bytes), NEW s \in TurnStates(b)
    PROVE  /\ s.i >= Len(b) => Turn(b, s) = s
           /\ s.i < Len(b) => Turn(b, s).i > s.i
<1> DEFINE type == b[s.i + 1]
           body == Body(b, s.i + 2, Need(type))
<1>0. s.i \in 1 .. Len(b) + 1 /\ Len(b) \in Nat
      /\ s = [i |-> s.i, frames |-> s.frames, used |-> s.used]
  BY DEF TurnStates
<1>1. s.i >= Len(b) => Turn(b, s) = s
  BY DEF Turn
<1>2. CASE s.i < Len(b) /\ (b[s.i] # Esc \/ type \notin Types)
  <2>1. ~(s.i >= Len(b))
    BY <1>0, <1>2
  <2>2. Turn(b, s) = [s EXCEPT !.i = s.i + 1]
    BY <1>2, <2>1 DEF Turn
  <2>3. Turn(b, s).i = s.i + 1
    BY <1>0, <2>2
  <2> QED BY <1>0, <1>1, <2>1, <2>3
<1>3. CASE s.i < Len(b) /\ ~(b[s.i] # Esc \/ type \notin Types)
  <2>0. ~(s.i >= Len(b)) /\ s.i + 2 \in 1 .. Len(b) + 1 /\ type \in Types
    BY <1>0, <1>3
  <2>1. body \in TakeStates(b, s.i + 2)
    BY <2>0, NeedNat, BodyType
  <2>2. Turn(b, s) = IF Len(body.out) < Need(type)
                     THEN [s EXCEPT !.i = body.at]
                     ELSE [i |-> body.at, used |-> body.at - 1,
                           frames |-> Append(s.frames, FrameOf(type, body.out))]
    BY <1>3, <2>0 DEF Turn
  <2> HIDE DEF body, type
  <2>3. body.at \in s.i + 2 .. Len(b) + 1
    BY <2>1 DEF TakeStates
  <2>4. Turn(b, s).i = body.at
    BY <1>0, <2>2
  <2>5. Turn(b, s).i > s.i
    BY <1>0, <2>3, <2>4
  <2> QED BY <2>0, <2>5
<1> QED BY <1>0, <1>1, <1>2, <1>3

\* One more frame: seen, or not.
LEMMA WholeNext ==
    ASSUME NEW s \in Seq(Writable), NEW k \in 0 .. Len(s) - 1
    PROVE  /\ Whole(SubSeq(s, 1, k)) \in Seq(Frames)
           /\ Whole(SubSeq(s, 1, k + 1)) =
                 IF IsWhole(s[k + 1])
                 THEN Append(Whole(SubSeq(s, 1, k)),
                             FrameOf(s[k + 1].type, s[k + 1].body))
                 ELSE Whole(SubSeq(s, 1, k))
<1> DEFINE u == SubSeq(s, 1, k)
           v == SubSeq(s, 1, k + 1)
           f == s[k + 1]
           x == FrameOf(f.type, f.body)
<1>1. u \in Seq(Writable) /\ v \in Seq(Writable) /\ f \in Writable
  OBVIOUS
<1>2. FlatMapped(Seen, v) = FlatMapped(Seen, u) \o Seen[f]
  BY SeenSpreads, FlatMappedNext
<1> HIDE DEF u, v, f, x
<1>3. Whole(u) = FlatMapped(Seen, u) /\ Whole(v) = FlatMapped(Seen, v)
  BY <1>1, WholeIs
<1>4. FlatMapped(Seen, u) \in Seq(Frames)
  BY <1>1, SeenSpreads, FlatMappedType
<1>5. Seen[f] \in Seq(Frames)
  BY <1>1, SeenType
<1>6. CASE ~IsWhole(f)
  <2>1. Seen[f] = <<>>
    BY <1>1, <1>6 DEF Seen
  <2>2. Whole(v) = Whole(u)
    BY <1>2, <1>3, <1>4, <2>1
  <2> QED BY <1>3, <1>4, <1>6, <2>2 DEF u, v, f
<1>7. CASE IsWhole(f)
  <2>1. Seen[f] = <<x>>
    BY <1>1, <1>7 DEF Seen, x
  <2>2. x \in Frames
    BY <1>5, <2>1
  <2>3. Whole(v) = Append(Whole(u), x)
    BY <1>2, <1>3, <1>4, <2>1, <2>2
  <2> QED BY <1>3, <1>4, <1>7, <2>3 DEF u, v, f, x
<1> QED BY <1>6, <1>7

\* The loop has dealt with k frames; it has consumed c of them, and since then
\* no frame that it should see has passed.
Done(s, st, k, c) ==
    /\ st.frames = Whole(SubSeq(s, 1, k))
    /\ st.frames = Whole(SubSeq(s, 1, c))
    /\ st.used = Ends(s, c)
    /\ \A x \in c + 1 .. k : ~IsWhole(s[x])

\* Where it is: at the start of frame k + 1, or at a byte of that frame, which
\* is of an unknown type, or at the end of `b`, which is inside that frame.
AtFrame(b, s, st, k) == st.i = Ends(s, k) + 1 /\ Ends(s, k) <= Len(b)

InUnknown(b, s, st, k) ==
    /\ k < Len(s) /\ s[k + 1].type = "unknown"
    /\ st.i >= Ends(s, k) + 2 /\ st.i <= Ends(s, k + 1) /\ st.i <= Len(b)

AtEnd(b, s, st, k) ==
    k < Len(s) /\ st.i >= Len(b) /\ Ends(s, k + 1) > Len(b)

Progress(b, s, st) ==
    \E k \in 0 .. Len(s) : \E c \in 0 .. k :
        /\ Done(s, st, k, c)
        /\ AtFrame(b, s, st, k) \/ InUnknown(b, s, st, k) \/ AtEnd(b, s, st, k)

\* A frame that is not to be seen is passed over, one that is has been gathered,
\* or the loop moves on within the frame.
LEMMA DoneSkips ==
    ASSUME NEW s \in Seq(Writable), NEW k \in 0 .. Len(s) - 1, NEW c \in 0 .. k,
           NEW st, NEW new, Done(s, st, k, c), ~IsWhole(s[k + 1]),
           new.frames = st.frames, new.used = st.used
    PROVE  Done(s, new, k + 1, c)
<1>1. Whole(SubSeq(s, 1, k + 1)) = Whole(SubSeq(s, 1, k))
  BY WholeNext
<1>2. \A x \in c + 1 .. k + 1 : x \in c + 1 .. k \/ x = k + 1
  OBVIOUS
<1> QED BY <1>1, <1>2 DEF Done

LEMMA DoneGathers ==
    ASSUME NEW s \in Seq(Writable), NEW k \in 0 .. Len(s) - 1, NEW c \in 0 .. k,
           NEW st, NEW new, Done(s, st, k, c), IsWhole(s[k + 1]),
           new.frames = Append(st.frames, FrameOf(s[k + 1].type, s[k + 1].body)),
           new.used = Ends(s, k + 1)
    PROVE  Done(s, new, k + 1, k + 1)
<1>1. Whole(SubSeq(s, 1, k + 1)) = new.frames
  BY WholeNext DEF Done
<1>2. \A x \in (k + 1) + 1 .. k + 1 : FALSE
  OBVIOUS
<1> QED BY <1>1, <1>2 DEF Done

LEMMA DoneStays ==
    ASSUME NEW s, NEW k, NEW c, NEW st, NEW new, Done(s, st, k, c),
           new.frames = st.frames, new.used = st.used
    PROVE  Done(s, new, k, c)
  BY DEF Done

\* A turn at the start of a frame passes it, gathers it, enters it if its type
\* is unknown, or meets the end of the data inside it.
LEMMA TurnAtFrame ==
    ASSUME NEW s \in Seq(Writable), NEW b \in Seq(Bytes), Received(b, s),
           NEW st \in TurnStates(b), NEW k \in 0 .. Len(s), NEW c \in 0 .. k,
           Done(s, st, k, c), AtFrame(b, s, st, k), st.i < Len(b)
    PROVE  Progress(b, s, Turn(b, st))
<1> DEFINE e == Ends(s, k)
           f == s[k + 1]
           new == Turn(b, st)
           n == Len(b)
<1>0. n \in Nat /\ Len(s) \in Nat /\ k \in Nat /\ c \in Nat
  OBVIOUS
<1>1. k # Len(s)
  <2>1. Ends(s, Len(s)) = Len(Stream(s)) /\ n <= Len(Stream(s))
        /\ Len(Stream(s)) \in Nat
    BY StreamType DEF Received
  <2>2. st.i = e + 1
    BY DEF AtFrame
  <2>3. st.i \in Nat
    BY DEF TurnStates
  <2> QED BY <1>0, <2>1, <2>2, <2>3
<1>2. k \in 0 .. Len(s) - 1 /\ k < Len(s) /\ k + 1 \in 0 .. Len(s)
      /\ c \in 0 .. k + 1 /\ k + 1 \in 0 .. k + 1
  BY <1>0, <1>1
<1>3. /\ e \in Nat /\ Ends(s, k + 1) = e + 2 + Len(Escaped(f.body))
      /\ Len(Escaped(f.body)) \in Nat
  <2>1. f \in Writable
    BY <1>2
  <2>2. Escaped(f.body) \in Seq(Bytes)
    BY <2>1, OnWireIs
  <2> QED BY <1>2, <2>2, FrameAt
<1>4. st.i = e + 1 /\ e + 2 <= n
  BY <1>0, <1>3 DEF AtFrame
<1>5. b[st.i] = Esc /\ b[st.i + 1] = Mark(f) /\ Holds(b, e + 2, f.body)
  BY <1>0, <1>2, <1>3, <1>4, FrameReceived
<1>6. /\ f.body \in Seq(Bytes)
      /\ f.type = "unknown" =>
            Mark(f) \in Others /\ Len(f.body) = UnknownLen /\ ~IsWhole(f)
      /\ f.type # "unknown" =>
            /\ f.type \in Types /\ Mark(f) = f.type
            /\ IsWhole(f) => Len(f.body) = Need(f.type)
            /\ ~IsWhole(f) => Len(f.body) < Need(f.type)
  <2>1. f \in Writable
    BY <1>2
  <2> QED BY <2>1, WritableIs
<1>7. CASE f.type = "unknown"
  <2>1. Mark(f) \notin Types
    BY <1>6, <1>7, BytesAssumption
  <2>2. ~(st.i >= n) /\ b[st.i + 1] \notin Types
    BY <1>0, <1>3, <1>4, <1>5, <2>1
  <2>3. new = [st EXCEPT !.i = st.i + 1]
    BY <2>2 DEF Turn
  <2>4. st = [i |-> st.i, frames |-> st.frames, used |-> st.used]
    BY DEF TurnStates
  <2>5. new.i = e + 2 /\ new.frames = st.frames /\ new.used = st.used
    BY <1>3, <1>4, <2>3, <2>4
  <2> HIDE DEF new
  <2>6. Done(s, new, k, c)
    BY <2>5, DoneStays
  <2>7. InUnknown(b, s, new, k)
    BY <1>2, <1>3, <1>4, <1>7, <2>5 DEF InUnknown
  <2> QED BY <2>6, <2>7 DEF Progress, new
<1>8. CASE f.type # "unknown"
  <2> DEFINE body == Body(b, e + 3, Need(f.type))
             q == e + 2
  <2>0. f.type \in Types /\ Mark(f) = f.type /\ Need(f.type) \in Nat
    BY <1>6, <1>8, NeedNat
  <2>1. q \in 0 .. Len(b) /\ q + 1 = e + 3 /\ q \in Nat
    BY <1>0, <1>3, <1>4
  <2>2. PICK j \in 0 .. Len(f.body) :
              /\ j <= Need(f.type) /\ q + Off(f.body, j) <= n
              /\ body = Taken(q, f.body, j)
              /\ \/ j = Need(f.type) \/ j = Len(f.body)
                 \/ j < Len(f.body) /\ q + Off(f.body, j + 1) > n
    BY <1>5, <1>6, <2>0, <2>1, BodyOf
  <2>3. body.out = SubSeq(f.body, 1, j) /\ body.at = q + Off(f.body, j) + 1
    BY <2>2 DEF Taken
  <2>4. Len(body.out) = j /\ Len(f.body) \in Nat
    BY <1>6, <2>3
  <2>5. new = IF j < Need(f.type) THEN [st EXCEPT !.i = body.at]
              ELSE [i |-> body.at, used |-> body.at - 1,
                    frames |-> Append(st.frames, FrameOf(f.type, body.out))]
    <3>1. st.i + 2 = e + 3 /\ ~(st.i >= n) /\ b[st.i + 1] = f.type
      BY SMTT(30), <1>0, <1>3, <1>4, <1>5, <2>0
    <3>2. Body(b, st.i + 2, Need(b[st.i + 1])) = body
      BY <3>1
    <3> HIDE DEF body
    <3> QED BY <1>5, <2>0, <2>4, <3>1, <3>2 DEF Turn
  <2>6. st = [i |-> st.i, frames |-> st.frames, used |-> st.used]
    BY DEF TurnStates
  <2> HIDE DEF body, new
  <2>7. Off(f.body, Len(f.body)) = Len(Escaped(f.body))
    BY <1>6, Offsets
  <2>8. CASE j = Len(f.body)
    <3>1. body.at = Ends(s, k + 1) + 1 /\ Ends(s, k + 1) <= n
          /\ body.at - 1 = Ends(s, k + 1)
      BY <1>3, <2>2, <2>3, <2>7, <2>8
    <3>2. CASE IsWhole(f)
      <4>1. ~(j < Need(f.type)) /\ SubSeq(f.body, 1, j) = f.body
        BY <1>6, <1>8, <2>0, <2>8, <3>2
      <4>2. /\ new.i = Ends(s, k + 1) + 1 /\ new.used = Ends(s, k + 1)
            /\ new.frames = Append(st.frames, FrameOf(f.type, f.body))
        BY <2>3, <2>5, <3>1, <4>1
      <4>3. Done(s, new, k + 1, k + 1)
        BY <1>2, <3>2, <4>2, DoneGathers
      <4>4. AtFrame(b, s, new, k + 1)
        BY <3>1, <4>2 DEF AtFrame
      <4> QED BY <1>2, <4>3, <4>4 DEF Progress, new
    <3>3. CASE ~IsWhole(f)
      <4>1. j < Need(f.type)
        BY <1>6, <1>8, <2>8, <3>3
      <4>2. /\ new.i = Ends(s, k + 1) + 1 /\ new.used = st.used
            /\ new.frames = st.frames
        BY <2>5, <2>6, <3>1, <4>1
      <4>3. Done(s, new, k + 1, c)
        BY <1>2, <3>3, <4>2, DoneSkips
      <4>4. AtFrame(b, s, new, k + 1)
        BY <3>1, <4>2 DEF AtFrame
      <4> QED BY <1>2, <4>3, <4>4 DEF Progress, new
    <3> QED BY <3>2, <3>3
  <2>9. CASE j # Len(f.body)
    <3>1. j < Len(f.body) /\ j \in 0 .. Len(f.body) - 1
      BY <2>4, <2>9
    <3>2. j < Need(f.type)
      BY <1>6, <1>8, <2>0, <2>4, <3>1
    <3>3. q + Off(f.body, j + 1) > n
      BY <2>2, <3>1, <3>2
    <3>4. /\ Off(f.body, j) \in Nat
          /\ Off(f.body, j + 1) = Off(f.body, j) + (IF f.body[j + 1] = Esc THEN 2 ELSE 1)
          /\ Off(f.body, j + 1) <= Len(Escaped(f.body))
      BY <1>6, <3>1, OffsetNext
    <3>5. body.at >= n /\ Ends(s, k + 1) > n
      <4>1. Off(f.body, j + 1) <= Off(f.body, j) + 2 /\ Off(f.body, j + 1) \in Nat
        BY <3>4
      <4>2. body.at >= n
        BY SMTT(30), <1>0, <2>1, <2>3, <3>3, <3>4, <4>1
      <4>3. Ends(s, k + 1) >= q + Off(f.body, j + 1)
        BY SMTT(30), <1>3, <2>1, <3>4, <4>1
      <4> QED BY SMTT(30), <1>0, <1>3, <2>1, <3>3, <4>1, <4>2, <4>3
    <3>6. new.i = body.at /\ new.used = st.used /\ new.frames = st.frames
      BY <2>5, <2>6, <3>2
    <3>7. Done(s, new, k, c)
      BY <3>6, DoneStays
    <3>8. AtEnd(b, s, new, k)
      BY <1>2, <3>5, <3>6 DEF AtEnd
    <3> QED BY <3>7, <3>8 DEF Progress, new
  <2> QED BY <2>8, <2>9
<1> QED BY <1>7, <1>8

\* Inside a frame of an unknown type, what looks like the start of a frame is
\* the second byte of an escape pair and the byte after it.  What is left of
\* the frame is then too short for the parser to gather a frame from.
LEMMA TurnInUnknown ==
    ASSUME NEW s \in Seq(Writable), NEW b \in Seq(Bytes), Received(b, s),
           NEW st \in TurnStates(b), NEW k \in 0 .. Len(s), NEW c \in 0 .. k,
           Done(s, st, k, c), InUnknown(b, s, st, k), st.i < Len(b)
    PROVE  Progress(b, s, Turn(b, st))
<1> DEFINE e == Ends(s, k)
           f == s[k + 1]
           new == Turn(b, st)
           n == Len(b)
           q == e + 2
           i == st.i
           type == b[i + 1]
<1>0. n \in Nat /\ Len(s) \in Nat /\ k \in Nat /\ c \in Nat
  OBVIOUS
<1>1. /\ k < Len(s) /\ f.type = "unknown"
      /\ i >= e + 2 /\ i <= Ends(s, k + 1) /\ i < n
  BY DEF InUnknown
<1>2. k \in 0 .. Len(s) - 1 /\ k + 1 \in 0 .. Len(s) /\ c \in 0 .. k + 1
      /\ f \in Writable
  BY <1>0, <1>1
<1>3. /\ e \in Nat /\ Ends(s, k + 1) = q + Len(Escaped(f.body))
      /\ Len(Escaped(f.body)) \in Nat
  <2>1. Escaped(f.body) \in Seq(Bytes)
    BY <1>2, OnWireIs
  <2> QED BY <1>2, <2>1, FrameAt
<1>4. Mark(f) \in Others /\ Len(f.body) = UnknownLen /\ ~IsWhole(f)
      /\ f.body \in Seq(Bytes) /\ UnknownLen \in Nat
  BY <1>1, <1>2, WritableIs, UnknownAssumption
<1>6. st = [i |-> i, frames |-> st.frames, used |-> st.used] /\ i \in Nat
  BY DEF TurnStates
<1>6a. q \in Nat /\ q <= n /\ q = e + 2 /\ i >= q
  <2> HIDE DEF e, i, n
  <2> QED BY <1>0, <1>1, <1>3, <1>6
<1>5. b[q] = Mark(f) /\ Holds(b, q, f.body)
  BY <1>2, <1>6a, FrameReceived
<1>7. CASE b[i] # Esc \/ type \notin Types
  <2>1. new = [st EXCEPT !.i = i + 1]
    <3>1. ~(i >= n)
      BY <1>0, <1>1, <1>6
    <3> QED BY <1>7, <3>1 DEF Turn
  <2>2. new.i = i + 1 /\ new.frames = st.frames /\ new.used = st.used
    BY <1>6, <2>1
  <2> HIDE DEF new
  <2>3. CASE i = Ends(s, k + 1)
    <3>1. Done(s, new, k + 1, c)
      BY <1>2, <1>4, <2>2, DoneSkips
    <3>2. AtFrame(b, s, new, k + 1)
      <4>1. new.i = Ends(s, k + 1) + 1 /\ Ends(s, k + 1) <= n
        BY <1>0, <1>1, <1>6, <2>2, <2>3
      <4> QED BY <4>1 DEF AtFrame
    <3> QED BY <1>2, <3>1, <3>2 DEF Progress, new
  <2>4. CASE i # Ends(s, k + 1)
    <3>1. Done(s, new, k, c)
      BY <2>2, DoneStays
    <3>2. InUnknown(b, s, new, k)
      BY <1>0, <1>1, <1>3, <1>6, <2>2, <2>4 DEF InUnknown
    <3> QED BY <3>1, <3>2 DEF Progress, new
  <2> QED BY <2>3, <2>4
<1>8. CASE b[i] = Esc /\ type \in Types
  <2> DEFINE x == i - q
             z == Len(Escaped(f.body))
  <2>1. i # q
    <3>1. Mark(f) # Esc
      BY <1>4, BytesAssumption
    <3> QED BY <1>5, <1>8, <3>1
  <2> HIDE DEF q, i
  <2>2. x \in 1 .. z /\ q + x = i /\ q \in Nat /\ z \in Nat
    <3> HIDE DEF z
    <3>1. Ends(s, k + 1) = q + z /\ z \in Nat
      BY <1>3 DEF z
    <3> QED BY <1>1, <1>6, <1>6a, <2>1, <3>1
  <2>3. Escaped(f.body)[x] = Esc
    <3>1. q + x <= n
      BY <1>0, <1>1, <1>6, <2>2
    <3>2. b[q + x] = Escaped(f.body)[x]
      BY <1>5, <2>2, <3>1 DEF Holds
    <3> QED BY <1>8, <2>2, <3>2
  <2>4. type # Esc
    BY <1>8, BytesAssumption
  <2>5. x # z
    <3> SUFFICES ASSUME x = z
                 PROVE  FALSE
      OBVIOUS
    <3>1. q + z + 1 = i + 1 /\ q + z + 1 <= n
      BY <1>0, <1>1, <1>6, <2>2
    <3>2. b[q + z + 1] = Esc
      BY <1>5, <3>1 DEF Holds
    <3> QED BY <2>4, <3>1, <3>2
  <2>6. x + 1 \in 1 .. z /\ q + (x + 1) = i + 1 /\ x \in 1 .. z - 1
    BY <2>2, <2>5
  <2>7. Escaped(f.body)[x + 1] = type
    <3>1. q + (x + 1) <= n
      BY <1>0, <1>1, <1>6, <2>6
    <3>2. b[q + (x + 1)] = Escaped(f.body)[x + 1]
      BY <1>5, <2>6, <3>1 DEF Holds
    <3> QED BY <2>6, <3>2
  <2> HIDE DEF x
  <2>8. PICK j \in 1 .. Len(f.body) - 1 : x = Off(f.body, j)
    BY <1>4, <2>3, <2>4, <2>6, <2>7, PairEnds
  <2> DEFINE v == SubSeq(f.body, j + 2, Len(f.body))
             p == i + 1
  <2>9. j \in 0 .. Len(f.body) - 1 /\ j + 1 \in 0 .. Len(f.body)
        /\ v \in Seq(Bytes) /\ Len(v) = UnknownLen - j - 1 /\ j \in Nat
    BY <1>4
  <2>10. f.body[j + 1] = type /\ Off(f.body, j + 1) = x + 1
    <3>1. Escaped(f.body)[Off(f.body, j) + 1] = f.body[j + 1]
      BY <1>4, <2>9, OffsetNext
    <3>2. f.body[j + 1] = type
      BY <2>7, <2>8, <3>1
    <3>3. Off(f.body, j + 1) = Off(f.body, j) + (IF f.body[j + 1] = Esc THEN 2 ELSE 1)
      BY <1>4, <2>9, OffsetNext
    <3> QED BY <2>4, <2>8, <3>2, <3>3
  <2>11. /\ Holds(b, p, v)
         /\ z = x + 1 + Len(Escaped(v)) /\ Len(Escaped(v)) \in Nat
    <3> DEFINE u == SubSeq(f.body, 1, j + 1)
    <3>1. Escaped(f.body) = Escaped(u) \o Escaped(v)
      <4>1. (j + 1) + 1 = j + 2
        BY <2>9
      <4> QED BY <1>4, <2>9, <4>1, EscapedSplit
    <3>2. u \in Seq(Bytes)
      BY <1>4, <2>9
    <3>3. Len(Escaped(u)) = x + 1
      <4>1. Off(f.body, j + 1) = Len(Escaped(u))
        BY <3>2, EscapedIs DEF Off, Reach
      <4> QED BY <2>10, <4>1
    <3>4. Escaped(u) \in Seq(Bytes) /\ Escaped(v) \in Seq(Bytes)
      BY <2>9, <3>2, Offsets
    <3> DEFINE eu == Escaped(u)
               ev == Escaped(v)
               ef == Escaped(f.body)
    <3>5. ef = eu \o ev /\ Len(eu) = x + 1 /\ eu \in Seq(Bytes) /\ ev \in Seq(Bytes)
      BY <3>1, <3>3, <3>4
    <3> HIDE DEF u, v, eu, ev, ef
    <3>6. /\ Len(ef) = x + 1 + Len(ev) /\ Len(ev) \in Nat
          /\ \A y \in 1 .. Len(ev) : ef[x + 1 + y] = ev[y]
      <4>1. x \in Nat
        BY <2>2
      <4>2. Len(eu \o ev) = Len(eu) + Len(ev) /\ Len(ev) \in Nat
        BY <3>5
      <4>3. ASSUME NEW y \in 1 .. Len(ev)
            PROVE  (eu \o ev)[Len(eu) + y] = ev[y]
        BY SMTT(30), <3>5
      <4> QED BY <3>5, <4>1, <4>2, <4>3
    <3>7. ASSUME NEW y \in 1 .. Len(ev), p + y <= n
          PROVE  b[p + y] = ev[y]
      <4>0. x \in Nat /\ p = q + x + 1 /\ q \in Nat
        BY <2>2
      <4> HIDE DEF p
      <4>1. x + 1 + y \in 1 .. Len(ef) /\ q + (x + 1 + y) = p + y
        BY SMTT(30), <3>6, <4>0
      <4>2. q + (x + 1 + y) <= n => b[q + (x + 1 + y)] = ef[x + 1 + y]
        BY <1>5, <4>1 DEF Holds, ef
      <4> QED BY <3>6, <3>7, <4>1, <4>2
    <3>8. q + Len(ef) = p + Len(ev)
      BY <2>2, <3>6
    <3>9. /\ p + Len(ev) + 1 <= n => b[p + Len(ev) + 1] = Esc
          /\ p + Len(ev) + 2 <= n => b[p + Len(ev) + 2] # Esc
      BY <1>5, <3>8 DEF Holds, ef
    <3> QED BY <3>6, <3>7, <3>9 DEF Holds, ef, ev
  <2>12. p \in 0 .. n /\ p \in Nat /\ q + z = p + Len(Escaped(v))
    <3> HIDE DEF z, v, p
    <3>1. p = i + 1
      BY DEF p
    <3>2. p \in 0 .. n /\ p \in Nat
      BY <1>0, <1>1, <1>6, <3>1
    <3>3. x \in Nat
      BY <2>2
    <3>4. z = x + 1 + Len(Escaped(v)) /\ Len(Escaped(v)) \in Nat
      BY <2>11
    <3>5. q + z = p + Len(Escaped(v))
      BY <2>2, <3>1, <3>3, <3>4
    <3> QED BY <3>2, <3>5
  <2>13. Need(type) \in Nat /\ Len(v) < Need(type)
    <3>1. Need(type) \in Nat /\ UnknownLen < Need(type) + 2
      BY <1>8, NeedNat, UnknownAssumption
    <3> QED BY <1>4, <2>8, <2>9, <3>1
  <2> HIDE DEF v, p
  <2> DEFINE body == Body(b, p + 1, Need(type))
  <2>14. PICK m \in 0 .. Len(v) :
              /\ m <= Need(type) /\ p + Off(v, m) <= n
              /\ body = Taken(p, v, m)
              /\ \/ m = Need(type) \/ m = Len(v)
                 \/ m < Len(v) /\ p + Off(v, m + 1) > n
    BY <2>9, <2>11, <2>12, <2>13, BodyOf
  <2>15. body.out = SubSeq(v, 1, m) /\ body.at = p + Off(v, m) + 1
    BY <2>14 DEF Taken
  <2>16. Len(body.out) = m /\ Len(v) \in Nat /\ m < Need(type)
    BY <2>9, <2>13, <2>15
  <2>17. new = [st EXCEPT !.i = body.at]
    <3>1. i + 2 = p + 1 /\ ~(i >= n)
      BY <1>0, <1>1, <1>6 DEF p
    <3>2. Body(b, i + 2, Need(b[i + 1])) = body
      BY <3>1
    <3> HIDE DEF body
    <3> QED BY <1>8, <2>16, <3>1, <3>2 DEF Turn, i
  <2> HIDE DEF body, new
  <2>18. new.i = body.at /\ new.used = st.used /\ new.frames = st.frames
    BY <1>6, <2>17
  <2>19. CASE m = Len(v)
    <3>1. Off(v, m) = Len(Escaped(v))
      BY <2>9, <2>19, Offsets
    <3>2. new.i = Ends(s, k + 1) + 1 /\ Ends(s, k + 1) <= n
      BY <1>3, <2>12, <2>14, <2>15, <2>18, <3>1
    <3>3. Done(s, new, k + 1, c)
      BY <1>2, <1>4, <2>18, DoneSkips
    <3>4. AtFrame(b, s, new, k + 1)
      BY <3>2 DEF AtFrame
    <3> QED BY <1>2, <3>3, <3>4 DEF Progress, new
  <2>20. CASE m # Len(v)
    <3>1. m \in 0 .. Len(v) - 1 /\ m < Len(v) /\ m # Need(type)
      BY <2>16, <2>20
    <3>2. p + Off(v, m + 1) > n
      BY <2>14, <3>1
    <3>3. /\ Off(v, m) \in Nat
          /\ Off(v, m + 1) = Off(v, m) + (IF v[m + 1] = Esc THEN 2 ELSE 1)
          /\ Off(v, m + 1) <= Len(Escaped(v))
      BY <2>9, <3>1, OffsetNext
    <3>4. Off(v, m + 1) <= Off(v, m) + 2 /\ Off(v, m + 1) \in Nat
      BY SMTT(30), <3>3
    <3>5. new.i >= n
      BY SMTT(30), <1>0, <2>12, <2>15, <2>18, <3>2, <3>3, <3>4
    <3>6. Ends(s, k + 1) >= p + Off(v, m + 1)
      BY <1>3, <2>11, <2>12, <3>3, <3>4
    <3>7. Ends(s, k + 1) > n
      BY <1>0, <1>3, <2>2, <2>12, <3>2, <3>4, <3>6
    <3>8. Done(s, new, k, c)
      BY <2>18, DoneStays
    <3>9. AtEnd(b, s, new, k)
      BY <1>1, <3>5, <3>7 DEF AtEnd
    <3> QED BY <3>8, <3>9 DEF Progress, new
  <2> QED BY <2>19, <2>20
<1> QED BY <1>7, <1>8

\* So every turn keeps its place in the frames.
LEMMA TurnProgresses ==
    ASSUME NEW s \in Seq(Writable), NEW b \in Seq(Bytes), Received(b, s),
           NEW st \in TurnStates(b), Progress(b, s, st)
    PROVE  Progress(b, s, Turn(b, st))
<1>0. st.i \in Nat /\ Len(b) \in Nat
  BY DEF TurnStates
<1>1. CASE st.i >= Len(b)
  <2>1. Turn(b, st) = st
    BY <1>1, TurnMoves
  <2> QED BY <2>1
<1>2. CASE st.i < Len(b)
  <2>1. PICK k \in 0 .. Len(s) : \E c \in 0 .. k :
            /\ Done(s, st, k, c)
            /\ AtFrame(b, s, st, k) \/ InUnknown(b, s, st, k) \/ AtEnd(b, s, st, k)
    BY DEF Progress
  <2>2. PICK c \in 0 .. k :
            /\ Done(s, st, k, c)
            /\ AtFrame(b, s, st, k) \/ InUnknown(b, s, st, k) \/ AtEnd(b, s, st, k)
    BY <2>1
  <2>3. ~AtEnd(b, s, st, k)
    BY <1>0, <1>2 DEF AtEnd
  <2>4. CASE AtFrame(b, s, st, k)
    BY <1>2, <2>2, <2>4, TurnAtFrame
  <2>5. CASE InUnknown(b, s, st, k)
    BY <1>2, <2>2, <2>5, TurnInUnknown
  <2> QED BY <2>2, <2>3, <2>4, <2>5
<1> QED BY <1>0, <1>1, <1>2

\* After as many turns as there are bytes, the loop is at the end of the data.
LEMMA ParseProgress ==
    ASSUME NEW s \in Seq(Writable), NEW b \in Seq(Bytes), Received(b, s)
    PROVE  \E st \in TurnStates(b) :
              /\ Progress(b, s, st) /\ st.i >= Len(b)
              /\ Parse(b) = st
<1>0. Len(b) \in Nat
  OBVIOUS
<1>1. PICK g : IsParseRun(g, b)
  BY ParseSteps
<1>2. /\ g \in [0 .. Len(b) -> TurnStates(b)]
      /\ g[0] = [i |-> 1, frames |-> <<>>, used |-> 0]
      /\ \A n \in 0 .. Len(b) - 1 : g[n + 1] = Turn(b, g[n])
      /\ Parse(b) = g[Len(b)]
  BY <1>1 DEF IsParseRun
<1> DEFINE S == {n \in 0 .. Len(b) : Progress(b, s, g[n])
                                     /\ (g[n].i > n \/ g[n].i >= Len(b))}
<1>3. 0 \in S
  <2>1. Ends(s, 0) = 0 /\ SubSeq(s, 1, 0) = <<>>
    BY StreamType
  <2>2. Whole(<<>>) = <<>>
    <3>1. <<>> \in Seq(Writable)
      OBVIOUS
    <3>2. ASSUME NEW t \in Seq(Writable), t = <<>>
          PROVE  Whole(t) = FlatMapped(Seen, <<>>)
      BY <3>2, WholeIs
    <3>3. Whole(<<>>) = FlatMapped(Seen, <<>>)
      BY <3>1, <3>2
    <3> QED BY <3>3, FlatMappedEmpty
  <2>3. Done(s, g[0], 0, 0)
    <3>1. g[0].frames = Whole(SubSeq(s, 1, 0)) /\ g[0].used = Ends(s, 0)
      <4>1. g[0].frames = <<>> /\ g[0].used = 0
        BY <1>2
      <4> QED BY <2>1, <2>2, <4>1, Zenon
    <3>2. \A x \in 0 + 1 .. 0 : FALSE
      OBVIOUS
    <3> QED BY <3>1, <3>2 DEF Done
  <2>4. AtFrame(b, s, g[0], 0)
    BY <1>0, <1>2, <2>1 DEF AtFrame
  <2>5. 0 \in 0 .. Len(s) /\ 0 \in 0 .. 0 /\ 0 \in 0 .. Len(b)
    BY <1>0
  <2>6. Progress(b, s, g[0])
    BY <2>3, <2>4, <2>5 DEF Progress
  <2> QED BY <1>2, <2>5, <2>6
<1>4. ASSUME NEW n \in 0 .. Len(b) - 1, n \in S
      PROVE  n + 1 \in S
  <2>1. n \in 0 .. Len(b) /\ n + 1 \in 0 .. Len(b) /\ n \in Nat
    BY <1>0
  <2>2. g[n] \in TurnStates(b) /\ g[n + 1] \in TurnStates(b)
        /\ g[n + 1] = Turn(b, g[n])
    BY <1>2, <2>1
  <2>3. Progress(b, s, g[n]) /\ (g[n].i > n \/ g[n].i >= Len(b))
    BY <1>4
  <2>4. Progress(b, s, g[n + 1])
    BY <2>2, <2>3, TurnProgresses
  <2>5. /\ g[n].i >= Len(b) => g[n + 1] = g[n]
        /\ g[n].i < Len(b) => g[n + 1].i > g[n].i
    BY <2>2, TurnMoves
  <2>6. g[n].i \in Nat /\ g[n + 1].i \in Nat
    BY <2>2 DEF TurnStates
  <2>7. g[n + 1].i > n + 1 \/ g[n + 1].i >= Len(b)
    BY <1>0, <2>1, <2>3, <2>5, <2>6
  <2> QED BY <2>1, <2>4, <2>7
<1>5. 0 .. Len(b) \subseteq S
  <2> HIDE DEF S
  <2> QED BY <1>0, <1>3, <1>4, IntervalInduction
<1>6. Len(b) \in S /\ g[Len(b)] \in TurnStates(b)
  BY <1>0, <1>2, <1>5
<1>7. g[Len(b)].i \in Nat
  BY <1>6 DEF TurnStates
<1> QED BY <1>0, <1>2, <1>6, <1>7

\* What the parser makes of the first bytes of a stream of frames: the frames
\* up to some frame c, consumed up to its end, and nothing is missing: the
\* next frame to be seen is incomplete.
ParsedTo(b, s, c) ==
    /\ Parse(b).frames = Whole(SubSeq(s, 1, c))
    /\ Parse(b).used = Ends(s, c)
    /\ \A x \in c + 1 .. Len(s) : IsWhole(s[x]) => Ends(s, x) > Len(b)

\* Frames end one after the other.
LEMMA EndsGrow ==
    ASSUME NEW s \in Seq(Writable), NEW k \in 0 .. Len(s), NEW x \in k .. Len(s)
    PROVE  Ends(s, k) \in Nat /\ Ends(s, x) \in Nat /\ Ends(s, k) <= Ends(s, x)
<1>0. Len(s) \in Nat /\ k \in Nat
  OBVIOUS
<1>1. ASSUME NEW y \in 0 .. Len(s)
      PROVE  Ends(s, y) \in Nat
  <2>1. CASE y = Len(s)
    <3>1. Len(Stream(s)) \in Nat
      BY StreamType
    <3> QED BY <2>1, <3>1, StreamType
  <2>2. CASE y # Len(s)
    <3>1. y \in 0 .. Len(s) - 1
      BY <1>0, <2>2
    <3> QED BY <3>1, FrameAt
  <2> QED BY <2>1, <2>2
<1> DEFINE S == {d \in 0 .. Len(s) - k : Ends(s, k) <= Ends(s, k + d)}
<1>2. 0 \in S
  BY <1>0, <1>1
<1>3. ASSUME NEW d \in 0 .. (Len(s) - k) - 1, d \in S
      PROVE  d + 1 \in S
  <2>1. k + d \in 0 .. Len(s) - 1 /\ k + d \in 0 .. Len(s)
        /\ k + (d + 1) = (k + d) + 1 /\ k + (d + 1) \in 0 .. Len(s)
        /\ d + 1 \in 0 .. Len(s) - k
    BY <1>0
  <2>2. Ends(s, (k + d) + 1) = Ends(s, k + d) + 2 + Len(Escaped(s[(k + d) + 1].body))
    BY <2>1, FrameAt
  <2>3. Len(Escaped(s[(k + d) + 1].body)) \in Nat
    <3>1. s[(k + d) + 1] \in Writable
      BY <2>1
    <3>2. Escaped(s[(k + d) + 1].body) \in Seq(Bytes)
      BY <3>1, OnWireIs
    <3> QED BY <3>2
  <2>4. Ends(s, k + d) \in Nat /\ Ends(s, k) \in Nat
    BY <1>1, <2>1
  <2>5. Ends(s, k) <= Ends(s, k + (d + 1))
    BY <1>3, <2>1, <2>2, <2>3, <2>4
  <2> QED BY <2>1, <2>5
<1>4. 0 .. Len(s) - k \subseteq S
  <2>1. Len(s) - k \in Nat
    BY <1>0
  <2> HIDE DEF S
  <2> QED BY <1>2, <1>3, <2>1, IntervalInduction
<1>5. x - k \in 0 .. Len(s) - k /\ k + (x - k) = x /\ x \in 0 .. Len(s)
  BY <1>0
<1>6. Ends(s, k) <= Ends(s, k + (x - k))
  BY <1>4, <1>5
<1> QED BY <1>1, <1>5, <1>6

\* parse_frames on any beginning of what readsb writes: the frames it returns are
\* the whole ones that are complete in the data, and it consumes no byte of
\* those that are not.
THEOREM ParseOf ==
    ASSUME NEW s \in Seq(Writable), NEW b \in Seq(Bytes), Received(b, s)
    PROVE  \E c \in 0 .. Len(s) : ParsedTo(b, s, c) /\ Ends(s, c) <= Len(b)
<1>0. Len(b) \in Nat /\ Len(s) \in Nat
  OBVIOUS
<1>1. PICK st \in TurnStates(b) :
         Progress(b, s, st) /\ st.i >= Len(b) /\ Parse(b) = st
  BY ParseProgress
<1>2. st.i \in Nat /\ st.used \in 0 .. Len(b)
  BY DEF TurnStates
<1>3. PICK k \in 0 .. Len(s) : \E c \in 0 .. k :
            /\ Done(s, st, k, c)
            /\ AtFrame(b, s, st, k) \/ InUnknown(b, s, st, k) \/ AtEnd(b, s, st, k)
  BY <1>1 DEF Progress
<1>4. PICK c \in 0 .. k :
            /\ Done(s, st, k, c)
            /\ AtFrame(b, s, st, k) \/ InUnknown(b, s, st, k) \/ AtEnd(b, s, st, k)
  BY <1>3
<1>5. c \in 0 .. Len(s) /\ k \in Nat /\ c \in Nat
  BY <1>0
<1>6. ASSUME NEW x \in c + 1 .. Len(s), IsWhole(s[x])
      PROVE  Ends(s, x) > Len(b)
  <2>0. x \in Nat /\ x <= Len(s)
    BY <1>0, <1>5
  <2>1. x > k
    <3>1. x \notin c + 1 .. k
      BY <1>4, <1>6 DEF Done
    <3> QED BY <1>5, <2>0, <3>1
  <2>2. k < Len(s) /\ k \in 0 .. Len(s) - 1 /\ k + 1 \in 0 .. Len(s)
        /\ x \in k + 1 .. Len(s)
    BY <1>0, <1>5, <2>0, <2>1
  <2>3. Ends(s, k + 1) \in Nat /\ Ends(s, x) \in Nat /\ Ends(s, k + 1) <= Ends(s, x)
    BY <2>2, EndsGrow
  <2>4. CASE AtFrame(b, s, st, k)
    <3>1. Ends(s, k + 1) = Ends(s, k) + 2 + Len(Escaped(s[k + 1].body))
          /\ Ends(s, k) \in Nat
      BY <2>2, FrameAt
    <3>2. Len(Escaped(s[k + 1].body)) \in Nat
      <4>1. s[k + 1] \in Writable
        BY <2>2
      <4>2. Escaped(s[k + 1].body) \in Seq(Bytes)
        BY <4>1, OnWireIs
      <4> QED BY <4>2
    <3>3. st.i = Ends(s, k) + 1
      BY <2>4 DEF AtFrame
    <3> QED BY <1>0, <1>1, <1>2, <2>3, <3>1, <3>2, <3>3
  <2>5. CASE AtEnd(b, s, st, k)
    BY <1>0, <2>3, <2>5 DEF AtEnd
  <2>6. CASE InUnknown(b, s, st, k)
    <3>1. s[k + 1].type = "unknown" /\ st.i <= Ends(s, k + 1)
      BY <2>6 DEF InUnknown
    <3>2. s[k + 1] \in Writable
      BY <2>2
    <3>3. x # k + 1
      BY <1>6, <3>1, <3>2, WritableIs
    <3>4. k + 1 \in 0 .. Len(s) - 1 /\ (k + 1) + 1 \in 0 .. Len(s)
          /\ x \in (k + 1) + 1 .. Len(s)
      BY <1>0, <2>0, <2>1, <2>2, <3>3
    <3>5. Ends(s, (k + 1) + 1) = Ends(s, k + 1) + 2 + Len(Escaped(s[(k + 1) + 1].body))
      BY <3>4, FrameAt
    <3>6. Len(Escaped(s[(k + 1) + 1].body)) \in Nat
      <4>1. s[(k + 1) + 1] \in Writable
        BY <3>4
      <4>2. Escaped(s[(k + 1) + 1].body) \in Seq(Bytes)
        BY <4>1, OnWireIs
      <4> QED BY <4>2
    <3>7. Ends(s, (k + 1) + 1) <= Ends(s, x)
      BY <3>4, EndsGrow
    <3> QED BY <1>0, <1>1, <1>2, <2>3, <3>1, <3>5, <3>6, <3>7
  <2> QED BY <1>4, <2>4, <2>5, <2>6
<1>7. ParsedTo(b, s, c)
  BY <1>1, <1>4, <1>6 DEF ParsedTo, Done
<1>8. Ends(s, c) <= Len(b)
  BY <1>0, <1>2, <1>4 DEF Done
<1> QED BY <1>5, <1>7, <1>8

=============================================================================

---------------------------- MODULE BeastProofs -----------------------------
(***************************************************************************)
(* What holds of the Beast reader for all frame types and lengths, any     *)
(* bytes, any size of its buffer and any cutting of the stream.            *)
(***************************************************************************)
EXTENDS BeastParserProofs, FiniteSetTheorems

\* Counts are numbers: of the frames, finitely many have a key.
LEMMA CountType ==
    ASSUME NEW a \in Seq(Frames)
    PROVE  /\ count_dfs(a) \in [Keys -> Nat]
           /\ \A k : IsFiniteSet({j \in DOMAIN a : Key(a[j]) = k})
<1>1. ASSUME NEW k
      PROVE  /\ IsFiniteSet({j \in DOMAIN a : Key(a[j]) = k})
             /\ Cardinality({j \in DOMAIN a : Key(a[j]) = k}) \in Nat
  <2>1. IsFiniteSet(1 .. Len(a)) /\ DOMAIN a = 1 .. Len(a)
    <3>1. Len(a) \in Int /\ 1 \in Int
      OBVIOUS
    <3> QED BY <3>1, FS_Interval
  <2>2. {j \in DOMAIN a : Key(a[j]) = k} \in SUBSET (1 .. Len(a))
    BY <2>1
  <2>3. IsFiniteSet({j \in DOMAIN a : Key(a[j]) = k})
    BY <2>1, <2>2, FS_Subset
  <2> QED BY <2>3, FS_CardinalityType
<1> QED BY <1>1 DEF count_dfs

\* Nothing counted.
LEMMA CountEmpty == count_dfs(<<>>) = NoFrames
<1>1. \A k \in Keys : {j \in DOMAIN <<>> : Key(<<>>[j]) = k} = {}
  OBVIOUS
<1>2. Cardinality({}) = 0
  BY FS_EmptySet
<1> QED BY <1>1, <1>2 DEF count_dfs, NoFrames

\* One more frame counts once, under its key.
LEMMA CountAppend ==
    ASSUME NEW a \in Seq(Frames), NEW x \in Frames, NEW k \in Keys
    PROVE  count_dfs(Append(a, x))[k] = count_dfs(a)[k] + (IF Key(x) = k THEN 1 ELSE 0)
<1> DEFINE A == {j \in DOMAIN a : Key(a[j]) = k}
           all == Append(a, x)
           B == {j \in DOMAIN all : Key(all[j]) = k}
           m == Len(a) + 1
<1>1. Len(a) \in Nat /\ DOMAIN a = 1 .. Len(a) /\ DOMAIN all = 1 .. m
      /\ (\A j \in 1 .. Len(a) : all[j] = a[j]) /\ all[m] = x
  OBVIOUS
<1>2. IsFiniteSet(A) /\ Cardinality(A) \in Nat
  <2>1. IsFiniteSet(A)
    BY CountType
  <2> HIDE DEF A
  <2> QED BY <2>1, FS_CardinalityType
<1>3. m \notin A
  BY <1>1
<1>4. B = IF Key(x) = k THEN A \cup {m} ELSE A
  <2>1. \A j : j \in 1 .. m <=> (j \in 1 .. Len(a) \/ j = m)
    BY <1>1
  <2> HIDE DEF m, all
  <2> QED BY <1>1, <2>1
<1>5. count_dfs(a)[k] = Cardinality(A) /\ count_dfs(all)[k] = Cardinality(B)
  BY DEF count_dfs
<1>6. Cardinality(A \cup {m}) = Cardinality(A) + 1
  <2> HIDE DEF A, m
  <2> QED BY <1>2, <1>3, FS_AddElement
<1> HIDE DEF A, B, m, all
<1>7. count_dfs(all)[k] = count_dfs(a)[k] + (IF Key(x) = k THEN 1 ELSE 0)
  BY <1>2, <1>4, <1>5, <1>6
<1> QED BY <1>7 DEF all

\* Counting chunk by chunk is counting the whole.
LEMMA CountConcat ==
    ASSUME NEW a \in Seq(Frames), NEW b \in Seq(Frames)
    PROVE  count_dfs(a \o b) = Plus(count_dfs(a), count_dfs(b))
<1> DEFINE Upto(n) == count_dfs(a \o SubSeq(b, 1, n))
                        = Plus(count_dfs(a), count_dfs(SubSeq(b, 1, n)))
           S == {n \in 0 .. Len(b) : Upto(n)}
<1>0. Len(b) \in Nat
  OBVIOUS
<1>1. 0 \in S
  <2>1. SubSeq(b, 1, 0) = <<>> /\ a \o SubSeq(b, 1, 0) = a
    OBVIOUS
  <2>2. count_dfs(SubSeq(b, 1, 0)) = NoFrames
    BY <2>1, CountEmpty
  <2>3. count_dfs(a) \in [Keys -> Nat]
    BY CountType
  <2>4. count_dfs(a) = Plus(count_dfs(a), NoFrames)
    BY <2>3 DEF Plus, NoFrames
  <2>5. Upto(0)
    BY <2>1, <2>2, <2>4
  <2> QED BY <1>0, <2>5
<1>2. ASSUME NEW n \in 0 .. Len(b) - 1, n \in S
      PROVE  n + 1 \in S
  <2> DEFINE u == SubSeq(b, 1, n)
             x == b[n + 1]
  <2>1. u \in Seq(Frames) /\ x \in Frames /\ a \o u \in Seq(Frames)
        /\ SubSeq(b, 1, n + 1) = Append(u, x)
        /\ a \o SubSeq(b, 1, n + 1) = Append(a \o u, x)
    OBVIOUS
  <2>2. Upto(n)
    BY <1>2
  <2>3. count_dfs(a) \in [Keys -> Nat] /\ count_dfs(u) \in [Keys -> Nat]
        /\ count_dfs(Append(u, x)) \in [Keys -> Nat]
        /\ count_dfs(Append(a \o u, x)) \in [Keys -> Nat]
    <3>1. Append(u, x) \in Seq(Frames) /\ Append(a \o u, x) \in Seq(Frames)
      BY <2>1
    <3> HIDE DEF u, x
    <3> QED BY <2>1, <3>1, CountType
  <2> HIDE DEF u, x
  <2>4. ASSUME NEW k \in Keys
        PROVE  count_dfs(Append(a \o u, x))[k] = count_dfs(a)[k] + count_dfs(Append(u, x))[k]
    <3>1. count_dfs(Append(a \o u, x))[k]
            = count_dfs(a \o u)[k] + (IF Key(x) = k THEN 1 ELSE 0)
      BY <2>1, CountAppend
    <3>2. count_dfs(Append(u, x))[k] = count_dfs(u)[k] + (IF Key(x) = k THEN 1 ELSE 0)
      BY <2>1, CountAppend
    <3>3. count_dfs(a \o u)[k] = count_dfs(a)[k] + count_dfs(u)[k]
      BY <2>2 DEF Plus, u
    <3>4. count_dfs(a)[k] \in Nat /\ count_dfs(u)[k] \in Nat
      BY <2>3
    <3> QED BY <3>1, <3>2, <3>3, <3>4
  <2>5. count_dfs(Append(a \o u, x)) = Plus(count_dfs(a), count_dfs(Append(u, x)))
    BY <2>3, <2>4 DEF Plus
  <2>6. Upto(n + 1)
    BY <2>1, <2>5
  <2>7. n + 1 \in 0 .. Len(b)
    BY <1>0
  <2> HIDE DEF Upto
  <2> QED BY <2>6, <2>7
<1>3. 0 .. Len(b) \subseteq S
  <2> HIDE DEF S
  <2> QED BY <1>0, <1>1, <1>2, IntervalInduction
<1>4. Upto(Len(b)) /\ SubSeq(b, 1, Len(b)) = b
  BY <1>0, <1>3
<1> QED BY <1>4

-----------------------------------------------------------------------------
(* Types.                                                                  *)

\* What stays in the buffer is bounded, and is the rest unless that is too long.
LEMMA KeptIs ==
    ASSUME NEW b \in Seq(Bytes), NEW used \in 0 .. Len(b)
    PROVE  /\ Kept(b, used) \in Seq(Bytes) /\ Len(Kept(b, used)) <= MaxBuffer
           /\ Len(b) - used <= MaxBuffer =>
                 Kept(b, used) = SubSeq(b, used + 1, Len(b))
<1> DEFINE rest == SubSeq(b, used + 1, Len(b))
<1>1. rest \in Seq(Bytes) /\ Len(rest) = Len(b) - used
  OBVIOUS
<1>2. MaxBuffer \in Nat /\ Len(rest) \in Nat
  BY <1>1, BytesAssumption
<1>3. Kept(b, used) = IF Len(rest) > MaxBuffer THEN <<>> ELSE rest
  BY DEF Kept
<1> HIDE DEF rest
<1>4. CASE Len(rest) > MaxBuffer
  <2>1. Kept(b, used) = <<>> /\ Len(<<>>) = 0 /\ <<>> \in Seq(Bytes)
    BY <1>3, <1>4
  <2> QED BY <1>1, <1>2, <1>4, <2>1
<1>5. CASE ~(Len(rest) > MaxBuffer)
  <2>1. Kept(b, used) = rest
    BY <1>3, <1>5
  <2> QED BY <1>1, <1>2, <1>5, <2>1 DEF rest
<1> QED BY <1>4, <1>5

\* Sums are numbers.
LEMMA PlusType ==
    ASSUME NEW a \in [Keys -> Nat], NEW b \in [Keys -> Nat]
    PROVE  Plus(a, b) \in [Keys -> Nat]
  BY DEF Plus

\* The types, and that what was sent is frames.
TypeInv == TypeOK /\ sent \in Seq(Writable)

\* The data of a read: the chunk, the rest, and what the parser makes of them.
LEMMA ReadIs ==
    ASSUME TypeInv, NEW n \in 1 .. Len(wire)
    PROVE  LET b      == buf \o SubSeq(wire, 1, n)
               parsed == Parse(b)
           IN  /\ b \in Seq(Bytes)
               /\ SubSeq(wire, n + 1, Len(wire)) \in Seq(Bytes)
               /\ b \o SubSeq(wire, n + 1, Len(wire)) = buf \o wire
               /\ parsed.frames \in Seq(Frames)
               /\ parsed.used \in 0 .. Len(b)
<1> DEFINE v == SubSeq(wire, 1, n)
           w == SubSeq(wire, n + 1, Len(wire))
<1>1. buf \in Seq(Bytes) /\ wire \in Seq(Bytes)
  BY DEF TypeInv, TypeOK
<1>2. v \in Seq(Bytes) /\ w \in Seq(Bytes) /\ n \in 0 .. Len(wire)
  BY <1>1
<1>3. wire = v \o w
  BY <1>1, <1>2, SeqSplit
<1> HIDE DEF v, w
<1>4. (buf \o v) \o w = buf \o (v \o w)
  BY SMTT(30), <1>1, <1>2, ConcatAssociative
<1>5. buf \o v \in Seq(Bytes)
  BY <1>1, <1>2
<1>6. Parse(buf \o v).frames \in Seq(Frames)
      /\ Parse(buf \o v).used \in 0 .. Len(buf \o v)
  BY <1>5, ParseType
<1>7. (buf \o v) \o w = buf \o wire
  BY <1>3, <1>4
<1> QED BY <1>2, <1>5, <1>6, <1>7 DEF v, w

\* It holds at the start, and every step keeps it.
LEMMA TypeInit == Init => TypeInv
<1> SUFFICES ASSUME Init
             PROVE  TypeInv
  OBVIOUS
<1>1. NoFrames \in [Keys -> Nat]
  BY DEF NoFrames
<1>2. <<>> \in Seq(Bytes) /\ <<>> \in Seq(Frames) /\ <<>> \in Seq(Writable)
      /\ Len(<<>>) = 0
  OBVIOUS
<1>3. MaxBuffer \in Nat
  BY BytesAssumption
<1>4. wire \in Seq(Bytes) /\ buf \in Seq(Bytes) /\ got \in Seq(Frames)
      /\ sent \in Seq(Writable) /\ Len(buf) <= MaxBuffer
  BY <1>2, <1>3 DEF Init
<1> QED BY <1>1, <1>4 DEF Init, TypeInv, TypeOK

LEMMA TypeStep == TypeInv /\ [Next]_vars => TypeInv'
<1> SUFFICES ASSUME TypeInv, [Next]_vars
             PROVE  TypeInv'
  OBVIOUS
<1> USE DEF TypeInv, TypeOK
<1>1. CASE Write
  <2>1. PICK f \in Writable : sent' = Append(sent, f) /\ wire' = wire \o OnWire(f)
    BY <1>1 DEF Write
  <2>2. OnWire(f) \in Seq(Bytes)
    BY OnWireIs
  <2>3. wire' \in Seq(Bytes) /\ sent' \in Seq(Writable)
    BY <2>1, <2>2
  <2> QED BY <1>1, <2>3 DEF Write, task, counting
<1>2. CASE Connect
  BY <1>2 DEF Connect, stream, counting
<1>3. CASE ConnectFails
  BY <1>3 DEF ConnectFails, stream, counting
<1>4. CASE Read
  <2>1. PICK n \in 1 .. Len(wire) :
           LET b      == buf \o SubSeq(wire, 1, n)
               parsed == Parse(b)
           IN  /\ wire' = SubSeq(wire, n + 1, Len(wire))
               /\ got' = got \o parsed.frames
               /\ buf' = Kept(b, parsed.used)
               /\ overran' = (overran \/ Len(b) - parsed.used > MaxBuffer)
               /\ tally' = Plus(tally, count_dfs(parsed.frames))
    BY <1>4 DEF Read
  <2> DEFINE b == buf \o SubSeq(wire, 1, n)
             frames == Parse(b).frames
             used == Parse(b).used
  <2>2. /\ b \in Seq(Bytes) /\ SubSeq(wire, n + 1, Len(wire)) \in Seq(Bytes)
        /\ frames \in Seq(Frames) /\ used \in 0 .. Len(b)
    BY ReadIs
  <2>3. /\ wire' = SubSeq(wire, n + 1, Len(wire))
        /\ got' = got \o frames
        /\ buf' = Kept(b, used)
        /\ overran' = (overran \/ Len(b) - used > MaxBuffer)
        /\ tally' = Plus(tally, count_dfs(frames))
    BY <2>1
  <2> HIDE DEF b, frames, used
  <2>4. wire' \in Seq(Bytes) /\ got' \in Seq(Frames)
    BY <2>2, <2>3
  <2>5. buf' \in Seq(Bytes) /\ Len(buf') <= MaxBuffer
    BY <2>2, <2>3, KeptIs
  <2>6. tally' \in [Keys -> Nat]
    <3>1. count_dfs(frames) \in [Keys -> Nat]
      BY <2>2, CountType
    <3> QED BY <2>3, <3>1, PlusType
  <2>7. overran' \in BOOLEAN
    BY <2>3
  <2> QED BY <1>4, <2>4, <2>5, <2>6, <2>7 DEF Read, task
<1>5. ASSUME Leave
      PROVE  TypeInv'
  <2>1. earlier' \in [Keys -> Nat]
    <3>1. count_dfs(got) \in [Keys -> Nat]
      BY CountType
    <3> QED BY <1>5, <3>1, PlusType DEF Leave
  <2>2. wire' \in Seq(Bytes) /\ buf' \in Seq(Bytes) /\ got' \in Seq(Frames)
        /\ sent' \in Seq(Writable)
    BY <1>5 DEF Leave
  <2>3. Len(buf') <= MaxBuffer
    <3>1. Len(buf') = 0
      BY <1>5 DEF Leave
    <3> QED BY <3>1, BytesAssumption
  <2> QED BY <1>5, <2>1, <2>2, <2>3 DEF Leave, counting
<1>6. CASE Disconnect
  BY <1>5, <1>6 DEF Disconnect
<1>7. CASE StopSeen
  BY <1>5, <1>7 DEF StopSeen
<1>8. CASE Closed
  BY <1>8 DEF Closed, stream, counting
<1>9. CASE Retry
  BY <1>9 DEF Retry, stream, counting
<1>10. CASE Stop
  BY <1>10 DEF Stop, stream, counting
<1>11. CASE Cancel
  BY <1>11 DEF Cancel, stream, counting
<1>12. CASE Snapshot
  <2>1. NoFrames \in [Keys -> Nat]
    BY DEF NoFrames
  <2>2. /\ Plus(reported, tally) \in [Keys -> Nat]
        /\ Plus(skipped, tally) \in [Keys -> Nat]
    BY PlusType
  <2>3. {tally', skipped', reported'} \subseteq [Keys -> Nat] /\ sampled' = TRUE
    <3>1. tally' = NoFrames /\ sampled' = TRUE
          /\ (reported' = Plus(reported, tally) \/ reported' = reported)
          /\ (skipped' = Plus(skipped, tally) \/ skipped' = skipped)
      BY <1>12 DEF Snapshot
    <3> QED BY <2>1, <2>2, <3>1
  <2> QED BY <1>12, <2>3 DEF Snapshot, task, stream
<1>13. CASE UNCHANGED vars
  BY <1>13 DEF vars, task, stream, counting
<1> QED BY <1>1, <1>2, <1>3, <1>4, <1>6, <1>7, <1>8, <1>9, <1>10, <1>11, <1>12,
           <1>13 DEF Next

\* So it always holds.
LEMMA TypeHolds == Spec => []TypeInv
  BY TypeInit, TypeStep, PTL DEF Spec

\* The types, and that the reader's memory is bounded: for any bytes, what the
\* parser leaves in the buffer is cut at _MAX_BUFFER_BYTES.
THEOREM BeastTyped == Spec => []TypeOK
<1>1. TypeInv => TypeOK
  BY DEF TypeInv
<1> QED BY <1>1, TypeHolds, PTL

-----------------------------------------------------------------------------
(* What is counted is reported once.                                       *)

CountInv == TypeInv /\ ReportedOnce

\* Sums of counts, key by key.
Counts == [Keys -> Nat]

\* The same counted more on both sides.
LEMMA PlusMore ==
    ASSUME NEW t \in Counts, NEW s \in Counts, NEW r \in Counts,
           NEW e \in Counts, NEW o \in Counts, NEW m \in Counts,
           Plus(t, Plus(s, r)) = Plus(e, o)
    PROVE  Plus(Plus(t, m), Plus(s, r)) = Plus(e, Plus(o, m))
<1>1. ASSUME NEW k \in Keys
      PROVE  Plus(Plus(t, m), Plus(s, r))[k] = Plus(e, Plus(o, m))[k]
  <2>1. t[k] + (s[k] + r[k]) = e[k] + o[k]
    <3>1. Plus(t, Plus(s, r))[k] = t[k] + (s[k] + r[k])
      BY DEF Plus
    <3>2. Plus(e, o)[k] = e[k] + o[k]
      BY DEF Plus
    <3> QED BY <3>1, <3>2
  <2>2. Plus(Plus(t, m), Plus(s, r))[k] = (t[k] + m[k]) + (s[k] + r[k])
    BY DEF Plus
  <2>3. Plus(e, Plus(o, m))[k] = e[k] + (o[k] + m[k])
    BY DEF Plus
  <2>4. t[k] \in Nat /\ m[k] \in Nat /\ s[k] \in Nat /\ r[k] \in Nat
        /\ e[k] \in Nat /\ o[k] \in Nat
    BY DEF Counts
  <2>5. (t[k] + m[k]) + (s[k] + r[k]) = e[k] + (o[k] + m[k])
    <3> DEFINE tk == t[k]
               mk == m[k]
               sk == s[k]
               rk == r[k]
               ek == e[k]
               ok == o[k]
    <3>1. /\ tk \in Int /\ mk \in Int /\ sk \in Int /\ rk \in Int
          /\ ek \in Int /\ ok \in Int /\ tk + (sk + rk) = ek + ok
      BY <2>1, <2>4
    <3> HIDE DEF tk, mk, sk, rk, ek, ok
    <3>2. (tk + mk) + (sk + rk) = ek + (ok + mk)
      BY <3>1
    <3> QED BY <3>2 DEF tk, mk, sk, rk, ek, ok
  <2> QED BY <2>2, <2>3, <2>5, Zenon
<1> QED BY <1>1 DEF Plus

\* Every step keeps it: a read counts into the tally what it adds to the frames
\* parsed, a disconnect moves these to the earlier ones, a snapshot moves the
\* tally.
LEMMA CountStep == CountInv /\ [Next]_vars => CountInv'
<1> SUFFICES ASSUME CountInv, [Next]_vars
             PROVE  CountInv'
  OBVIOUS
<1>0. TypeInv'
  BY TypeStep DEF CountInv
<1>t. /\ tally \in [Keys -> Nat] /\ earlier \in [Keys -> Nat]
      /\ skipped \in [Keys -> Nat] /\ reported \in [Keys -> Nat]
      /\ got \in Seq(Frames) /\ count_dfs(got) \in [Keys -> Nat]
  <2>1. got \in Seq(Frames)
    BY DEF CountInv, TypeInv, TypeOK
  <2> QED BY <2>1, CountType DEF CountInv, TypeInv, TypeOK
<1>a. Plus(tally, Plus(skipped, reported)) = Plus(earlier, count_dfs(got))
  BY DEF CountInv, ReportedOnce
<1>1. ASSUME UNCHANGED <<tally, skipped, reported, earlier, got>>
      PROVE  CountInv'
  BY <1>0, <1>1 DEF CountInv, ReportedOnce
<1>2. CASE Read
  <2>1. PICK n \in 1 .. Len(wire) :
           LET b      == buf \o SubSeq(wire, 1, n)
               parsed == Parse(b)
           IN  /\ got' = got \o parsed.frames
               /\ tally' = Plus(tally, count_dfs(parsed.frames))
    BY <1>2 DEF Read
  <2> DEFINE frames == Parse(buf \o SubSeq(wire, 1, n)).frames
  <2>2. frames \in Seq(Frames)
    BY ReadIs DEF CountInv
  <2>3. got' = got \o frames /\ tally' = Plus(tally, count_dfs(frames))
        /\ UNCHANGED <<skipped, reported, sampled, earlier>>
    BY <1>2, <2>1 DEF Read
  <2> HIDE DEF frames
  <2>4. count_dfs(frames) \in [Keys -> Nat]
        /\ count_dfs(got \o frames) = Plus(count_dfs(got), count_dfs(frames))
    BY <1>t, <2>2, CountConcat, CountType
  <2> DEFINE more == count_dfs(frames)
             old == count_dfs(got)
  <2>5. more \in [Keys -> Nat] /\ old \in [Keys -> Nat]
    BY <1>t, <2>4
  <2> HIDE DEF more, old
  <2>7. Plus(Plus(tally, more), Plus(skipped, reported)) = Plus(earlier, Plus(old, more))
    <3>1. Plus(tally, Plus(skipped, reported)) = Plus(earlier, old)
      BY <1>a DEF old
    <3>2. tally \in Counts /\ skipped \in Counts /\ reported \in Counts
          /\ earlier \in Counts /\ more \in Counts /\ old \in Counts
      BY <1>t, <2>5 DEF Counts
    <3> QED BY <3>1, <3>2, PlusMore
  <2>8. ReportedOnce'
    BY <2>3, <2>4, <2>7 DEF ReportedOnce, more, old
  <2> QED BY <1>0, <2>8 DEF CountInv
<1>3. ASSUME Leave
      PROVE  CountInv'
  <2>1. count_dfs(got') = NoFrames /\ earlier' = Plus(earlier, count_dfs(got))
        /\ UNCHANGED <<tally, skipped, reported, sampled>>
    BY <1>3, CountEmpty DEF Leave, counting
  <2>2. Plus(Plus(earlier, count_dfs(got)), NoFrames) = Plus(earlier, count_dfs(got))
    <3>1. Plus(earlier, count_dfs(got)) \in [Keys -> Nat]
      BY <1>t, PlusType
    <3> QED BY <3>1 DEF Plus, NoFrames
  <2>3. ReportedOnce'
    BY <1>a, <2>1, <2>2 DEF ReportedOnce
  <2> QED BY <1>0, <2>3 DEF CountInv
<1>4. CASE Snapshot
  <2>0. UNCHANGED <<earlier, got>> /\ tally' = NoFrames
    BY <1>4 DEF Snapshot, stream
  <2>1. CASE reported' = Plus(reported, tally) /\ skipped' = skipped
    <3>2. ASSUME NEW k \in Keys
          PROVE  Plus(NoFrames, Plus(skipped, Plus(reported, tally)))[k]
                   = Plus(tally, Plus(skipped, reported))[k]
      <4>1. tally[k] \in Nat /\ skipped[k] \in Nat /\ reported[k] \in Nat
        BY <1>t
      <4>2. Plus(NoFrames, Plus(skipped, Plus(reported, tally)))[k]
              = 0 + (skipped[k] + (reported[k] + tally[k]))
        BY DEF Plus, NoFrames
      <4>3. Plus(tally, Plus(skipped, reported))[k] = tally[k] + (skipped[k] + reported[k])
        BY DEF Plus
      <4> QED BY <4>1, <4>2, <4>3
    <3>3. Plus(NoFrames, Plus(skipped, Plus(reported, tally)))
            = Plus(tally, Plus(skipped, reported))
      BY <3>2 DEF Plus
    <3>4. ReportedOnce'
      BY <1>a, <2>0, <2>1, <3>3 DEF ReportedOnce
    <3> QED BY <1>0, <3>4 DEF CountInv
  <2>2. CASE skipped' = Plus(skipped, tally) /\ reported' = reported
    <3>2. ASSUME NEW k \in Keys
          PROVE  Plus(NoFrames, Plus(Plus(skipped, tally), reported))[k]
                   = Plus(tally, Plus(skipped, reported))[k]
      <4>1. tally[k] \in Nat /\ skipped[k] \in Nat /\ reported[k] \in Nat
        BY <1>t
      <4>2. Plus(NoFrames, Plus(Plus(skipped, tally), reported))[k]
              = 0 + ((skipped[k] + tally[k]) + reported[k])
        BY DEF Plus, NoFrames
      <4>3. Plus(tally, Plus(skipped, reported))[k] = tally[k] + (skipped[k] + reported[k])
        BY DEF Plus
      <4> QED BY <4>1, <4>2, <4>3
    <3>3. Plus(NoFrames, Plus(Plus(skipped, tally), reported))
            = Plus(tally, Plus(skipped, reported))
      BY <3>2 DEF Plus
    <3>4. ReportedOnce'
      BY <1>a, <2>0, <2>2, <3>3 DEF ReportedOnce
    <3> QED BY <1>0, <3>4 DEF CountInv
  <2> QED BY <1>4, <2>1, <2>2 DEF Snapshot
<1>5. CASE Write
  BY <1>1, <1>5 DEF Write, counting
<1>6. CASE Connect
  BY <1>1, <1>6 DEF Connect, stream, counting
<1>7. CASE ConnectFails
  BY <1>1, <1>7 DEF ConnectFails, stream, counting
<1>8. CASE Disconnect
  BY <1>3, <1>8 DEF Disconnect
<1>9. CASE StopSeen
  BY <1>3, <1>9 DEF StopSeen
<1>10. CASE Closed
  BY <1>1, <1>10 DEF Closed, stream, counting
<1>11. CASE Retry
  BY <1>1, <1>11 DEF Retry, stream, counting
<1>12. CASE Stop
  BY <1>1, <1>12 DEF Stop, stream, counting
<1>13. CASE Cancel
  BY <1>1, <1>13 DEF Cancel, stream, counting
<1>14. CASE UNCHANGED vars
  BY <1>1, <1>14 DEF vars, stream, counting
<1> QED BY <1>2, <1>4, <1>5, <1>6, <1>7, <1>8, <1>9, <1>10, <1>11, <1>12, <1>13,
           <1>14 DEF Next

\* Every frame parsed, on any connection, is in exactly one snapshot, or was
\* taken away by one without an interval, or waits in the tally.
THEOREM BeastReportedOnce == Spec => []ReportedOnce
<1>1. Init => CountInv
  <2> SUFFICES ASSUME Init
               PROVE  CountInv
    OBVIOUS
  <2>1. count_dfs(got) = NoFrames
    BY CountEmpty DEF Init
  <2>2. Plus(NoFrames, Plus(NoFrames, NoFrames)) = Plus(NoFrames, NoFrames)
    BY DEF Plus, NoFrames
  <2>3. ReportedOnce
    BY <2>1, <2>2 DEF Init, ReportedOnce
  <2> QED BY <2>3, TypeInit DEF CountInv
<1>2. CountInv => ReportedOnce
  BY DEF CountInv
<1> QED BY <1>1, <1>2, CountStep, PTL DEF Spec

-----------------------------------------------------------------------------
(* What is parsed is what was sent.                                        *)

\* Frames written one after the other.
LEMMA StreamConcat ==
    ASSUME NEW s \in Seq(Writable), NEW t \in Seq(Writable)
    PROVE  /\ s \o t \in Seq(Writable)
           /\ Stream(s \o t) = Stream(s) \o Stream(t)
           /\ Whole(s \o t) = Whole(s) \o Whole(t)
           /\ Whole(s) \in Seq(Frames)
<1>1. s \o t \in Seq(Writable)
  OBVIOUS
<1>2. FlatMapped(OnWireOf, s \o t) = FlatMapped(OnWireOf, s) \o FlatMapped(OnWireOf, t)
  BY OnWireSpreads, FlatMappedConcat
<1>3. FlatMapped(Seen, s \o t) = FlatMapped(Seen, s) \o FlatMapped(Seen, t)
  BY SeenSpreads, FlatMappedConcat
<1>4. Whole(s) = FlatMapped(Seen, s) /\ Whole(t) = FlatMapped(Seen, t)
  BY WholeIs
<1>5. Whole(s \o t) = FlatMapped(Seen, s \o t)
  BY <1>1, WholeIs
<1>6. FlatMapped(Seen, s) \in Seq(Frames)
  BY SeenSpreads, FlatMappedType
<1> QED BY <1>1, <1>2, <1>3, <1>4, <1>5, <1>6, Zenon DEF Stream

\* Where the frames of the second part end.
LEMMA EndsConcat ==
    ASSUME NEW s \in Seq(Writable), NEW t \in Seq(Writable), NEW x \in 0 .. Len(t)
    PROVE  Ends(s \o t, Len(s) + x) = Len(Stream(s)) + Ends(t, x)
<1> DEFINE u == SubSeq(t, 1, x)
<1>1. u \in Seq(Writable) /\ SubSeq(s \o t, 1, Len(s) + x) = s \o u
  OBVIOUS
<1> HIDE DEF u
<1>2. Stream(s \o u) = Stream(s) \o Stream(u)
  BY <1>1, StreamConcat
<1>3. Stream(s) \in Seq(Bytes) /\ Stream(u) \in Seq(Bytes)
  BY <1>1, StreamType
<1>4. Len(Stream(s \o u)) = Len(Stream(s)) + Len(Stream(u))
  BY <1>2, <1>3
<1>5. Ends(s \o t, Len(s) + x) = Len(Stream(s \o u))
  BY <1>1 DEF Ends, Reach, Stream
<1>6. Ends(t, x) = Len(Stream(u))
  BY DEF Ends, Reach, Stream, u
<1> QED BY <1>4, <1>5, <1>6

\* Of the frames `pending`, none that a reader should see is within n bytes.
NoneBy(pending, n) ==
    \A x \in 1 .. Len(pending) : IsWhole(pending[x]) => Ends(pending, x) > n

\* Frames that are not to be seen.
LEMMA WholeNone ==
    ASSUME NEW s \in Seq(Writable), \A x \in 1 .. Len(s) : ~IsWhole(s[x])
    PROVE  Len(Whole(s)) = 0
<1> DEFINE S == {n \in 0 .. Len(s) : Len(Whole(SubSeq(s, 1, n))) = 0}
<1>0. Len(s) \in Nat
  OBVIOUS
<1>1. 0 \in S
  <2>1. SubSeq(s, 1, 0) \in Seq(Writable) /\ SubSeq(s, 1, 0) = <<>>
    OBVIOUS
  <2>2. Whole(SubSeq(s, 1, 0)) = FlatMapped(Seen, SubSeq(s, 1, 0))
    BY <2>1, WholeIs
  <2>3. Len(FlatMapped(Seen, SubSeq(s, 1, 0))) = 0
    BY SeenSpreads, ReachEnds DEF Reach
  <2> QED BY <1>0, <2>2, <2>3
<1>2. ASSUME NEW n \in 0 .. Len(s) - 1, n \in S
      PROVE  n + 1 \in S
  <2>1. n + 1 \in 1 .. Len(s) /\ n + 1 \in 0 .. Len(s)
    BY <1>0
  <2>2. ~IsWhole(s[n + 1])
    BY <2>1
  <2>3. Whole(SubSeq(s, 1, n + 1)) = Whole(SubSeq(s, 1, n))
    BY <2>2, WholeNext
  <2> QED BY <1>2, <2>1, <2>3
<1>3. 0 .. Len(s) \subseteq S
  <2> HIDE DEF S
  <2> QED BY <1>0, <1>1, <1>2, IntervalInduction
<1>4. Len(s) \in 0 .. Len(s) /\ SubSeq(s, 1, Len(s)) = s
  BY <1>0
<1>5. Len(s) \in S
  BY <1>3, <1>4
<1> QED BY <1>4, <1>5

\* Until the buffer is discarded: the frames sent are those whose frames were
\* parsed, and those whose bytes are in the buffer and on their way; of these
\* none is complete in the buffer.
Split(seen, pending) ==
    /\ sent = seen \o pending
    /\ got = Whole(seen)
    /\ buf \o wire = Stream(pending)
    /\ NoneBy(pending, Len(buf))

StreamInv ==
    /\ TypeInv
    /\ ~overran => \E seen, pending \in Seq(Writable) : Split(seen, pending)

\* One read: the parser takes some of the pending frames, as far as they are
\* complete, and leaves the bytes of the others.
Takes(b, w, pending, p, r) ==
    /\ pending = p \o r
    /\ Parse(b).frames = Whole(p)
    /\ Parse(b).used \in 0 .. Len(b)
    /\ SubSeq(b, Parse(b).used + 1, Len(b)) \o w = Stream(r)
    /\ NoneBy(r, Len(b) - Parse(b).used)

LEMMA ParsePending ==
    ASSUME NEW pending \in Seq(Writable), NEW b \in Seq(Bytes), NEW w \in Seq(Bytes),
           b \o w = Stream(pending)
    PROVE  \E p, r \in Seq(Writable) : Takes(b, w, pending, p, r)
<1>0. Len(pending) \in Nat /\ Len(b) \in Nat /\ Len(w) \in Nat
  OBVIOUS
<1>1. Received(b, pending)
  <2>1. Len(b \o w) = Len(b) + Len(w) /\ \A x \in 1 .. Len(b) : (b \o w)[x] = b[x]
    OBVIOUS
  <2> QED BY <1>0, <2>1 DEF Received
<1>2. PICK d \in 0 .. Len(pending) :
         ParsedTo(b, pending, d) /\ Ends(pending, d) <= Len(b)
  BY <1>1, ParseOf
<1> DEFINE p == SubSeq(pending, 1, d)
           r == SubSeq(pending, d + 1, Len(pending))
           used == Parse(b).used
<1>3. p \in Seq(Writable) /\ r \in Seq(Writable) /\ d \in Nat
      /\ Len(p) = d /\ Len(r) = Len(pending) - d
  BY <1>0
<1>4. pending = p \o r
  BY SeqSplit
<1>5. Parse(b).frames = Whole(p) /\ used = Ends(pending, d)
      /\ \A x \in d + 1 .. Len(pending) : IsWhole(pending[x]) => Ends(pending, x) > Len(b)
  BY <1>2 DEF ParsedTo
<1>6. used = Len(Stream(p)) /\ used \in 0 .. Len(b)
  <2>1. Ends(pending, d) = Len(Stream(p))
    BY DEF Ends, Reach, Stream
  <2>2. Stream(p) \in Seq(Bytes)
    BY <1>3, StreamType
  <2>3. Len(Stream(p)) \in Nat
    BY <2>2
  <2> QED BY <1>0, <1>2, <1>5, <2>1, <2>3
<1> HIDE DEF p, r, used
<1>7. Stream(p) \in Seq(Bytes) /\ Stream(r) \in Seq(Bytes)
      /\ Stream(p \o r) = Stream(p) \o Stream(r)
  BY <1>3, StreamType, StreamConcat
<1>8. SubSeq(b, used + 1, Len(b)) \o w = Stream(r)
  <2>1. Stream(p) \o Stream(r) = b \o w /\ Len(Stream(p)) <= Len(b)
    BY <1>0, <1>4, <1>6, <1>7
  <2> DEFINE a == Stream(p)
             z == Stream(r)
  <2>2. a \in Seq(Bytes) /\ z \in Seq(Bytes) /\ a \o z = b \o w
        /\ Len(a) <= Len(b) /\ used = Len(a)
    BY <1>6, <1>7, <2>1
  <2> HIDE DEF a, z
  <2>3. StartsWith(b, w, a, z)
    BY <2>2 DEF StartsWith
  <2>4. Rest(b, a) \o w = z
    BY <2>2, <2>3, Remains
  <2> QED BY <2>2, <2>4 DEF z, Rest
<1>9. ASSUME NEW x \in 1 .. Len(r), IsWhole(r[x])
      PROVE  Ends(r, x) > Len(b) - used
  <2>1. d + x \in d + 1 .. Len(pending) /\ x \in 0 .. Len(r) /\ Len(p) + x = d + x
    BY <1>0, <1>3
  <2>2. (p \o r)[d + x] = r[x]
    BY <1>3
  <2>3. Ends(pending, d + x) > Len(b)
    BY <1>4, <1>5, <1>9, <2>1, <2>2
  <2>4. Ends(p \o r, Len(p) + x) = Len(Stream(p)) + Ends(r, x)
    BY <1>3, <2>1, EndsConcat
  <2>5. Ends(r, x) \in Nat
    <3>1. x \in 0 .. Len(r) /\ x \in x .. Len(r)
      BY <1>3
    <3> QED BY <1>3, <3>1, EndsGrow
  <2>6. used + Ends(r, x) > Len(b)
    BY <1>4, <1>6, <2>1, <2>3, <2>4
  <2> QED BY <1>0, <1>6, <2>5, <2>6
<1>10. NoneBy(r, Len(b) - used)
  BY <1>9 DEF NoneBy
<1>11. Takes(b, w, pending, p, r)
  BY <1>4, <1>5, <1>6, <1>8, <1>10 DEF used, Takes
<1> QED BY <1>3, <1>11

\* The new connection.
LEMMA NothingSent ==
    /\ <<>> \in Seq(Writable)
    /\ Whole(<<>>) = <<>> /\ Stream(<<>>) = <<>> /\ <<>> \o <<>> = <<>>
    /\ \A n : NoneBy(<<>>, n)
<1> DEFINE e == <<>>
<1>1. e \in Seq(Writable) /\ e \o e = e /\ Len(e) = 0
  OBVIOUS
<1>2. FlatMapped(Seen, e) = e /\ FlatMapped(OnWireOf, e) = e
  BY FlatMappedEmpty
<1> HIDE DEF e
<1>3. Whole(e) = e /\ Stream(e) = e
  BY <1>1, <1>2, WholeIs DEF Stream
<1>4. \A n : NoneBy(e, n)
  BY <1>1 DEF NoneBy
<1> QED BY <1>1, <1>3, <1>4 DEF e

\* Every step keeps it: a write adds to the pending frames, a read moves some of
\* them, and a disconnect forgets both.
LEMMA StreamStep == StreamInv /\ [Next]_vars => StreamInv'
<1> SUFFICES ASSUME StreamInv, [Next]_vars
             PROVE  StreamInv'
  OBVIOUS
<1>0. TypeInv'
  BY TypeStep DEF StreamInv
<1>t. /\ wire \in Seq(Bytes) /\ buf \in Seq(Bytes) /\ got \in Seq(Frames)
      /\ sent \in Seq(Writable) /\ overran \in BOOLEAN
  BY DEF StreamInv, TypeInv, TypeOK
<1>1. ASSUME UNCHANGED stream
      PROVE  StreamInv'
  BY <1>0, <1>1 DEF StreamInv, Split, stream
<1>2. ASSUME Leave
      PROVE  StreamInv'
  <2>1. sent' = <<>> /\ got' = <<>> /\ buf' = <<>> /\ wire' = <<>>
    BY <1>2 DEF Leave
  <2>2. Split(<<>>, <<>>)'
    BY <2>1, NothingSent DEF Split
  <2> QED BY <1>0, <2>2, NothingSent DEF StreamInv
<1>3. CASE Write
  <2>1. PICK f \in Writable : sent' = Append(sent, f) /\ wire' = wire \o OnWire(f)
    BY <1>3 DEF Write
  <2>2. UNCHANGED <<buf, got, overran>>
    BY <1>3 DEF Write
  <2>3. CASE overran
    BY <1>0, <2>2, <2>3 DEF StreamInv
  <2>4. CASE ~overran
    <3>1. PICK seen \in Seq(Writable), pending \in Seq(Writable) : Split(seen, pending)
      BY <2>4 DEF StreamInv
    <3> DEFINE more == Append(pending, f)
    <3>2. more = pending \o <<f>> /\ <<f>> \in Seq(Writable) /\ more \in Seq(Writable)
          /\ Len(more) = Len(pending) + 1
      OBVIOUS
    <3>3. Append(seen \o pending, f) = seen \o more
      OBVIOUS
    <3>4. Stream(more) = Stream(pending) \o OnWire(f) /\ OnWire(f) \in Seq(Bytes)
      <4>1. FlatMapped(OnWireOf, Append(pending, f))
              = FlatMapped(OnWireOf, pending) \o OnWireOf[f]
        BY OnWireSpreads, FlatMappedAppend
      <4>2. OnWireOf[f] = OnWire(f)
        BY DEF OnWireOf
      <4> QED BY <4>1, <4>2, OnWireIs DEF Stream
    <3>5. /\ sent = seen \o pending /\ got = Whole(seen)
          /\ buf \o wire = Stream(pending) /\ NoneBy(pending, Len(buf))
      BY <3>1 DEF Split
    <3>6. buf \o (wire \o OnWire(f)) = Stream(more)
      <4>1. (buf \o wire) \o OnWire(f) = buf \o (wire \o OnWire(f))
        BY SMTT(30), <1>t, <3>4, ConcatAssociative
      <4> HIDE DEF more
      <4> QED BY <3>4, <3>5, <4>1
    <3>7. ASSUME NEW x \in 1 .. Len(more), IsWhole(more[x])
          PROVE  Ends(more, x) > Len(buf)
      <4>1. CASE x \in 1 .. Len(pending)
        <5>1. more[x] = pending[x] /\ SubSeq(more, 1, x) = SubSeq(pending, 1, x)
          BY <4>1
        <5>2. Ends(more, x) = Ends(pending, x)
          BY <5>1 DEF Ends, Reach
        <5> HIDE DEF more
        <5> QED BY <3>5, <3>7, <4>1, <5>1, <5>2 DEF NoneBy
      <4>2. CASE x \notin 1 .. Len(pending)
        <5> HIDE DEF more
        <5>1. x = Len(more)
          BY <3>2, <4>2
        <5>2. Ends(more, x) = Len(Stream(more))
          BY <3>2, <5>1, StreamType
        <5>3. Len(Stream(more)) = Len(buf) + (Len(wire) + Len(OnWire(f)))
          BY <1>t, <3>4, <3>6
        <5>4. Len(OnWire(f)) = 2 + Len(Escaped(f.body)) /\ Escaped(f.body) \in Seq(Bytes)
          BY OnWireIs
        <5>5. Len(Escaped(f.body)) \in Nat /\ Len(buf) \in Nat /\ Len(wire) \in Nat
          BY <1>t, <5>4
        <5> QED BY <5>2, <5>3, <5>4, <5>5
      <4> QED BY <4>1, <4>2
    <3> HIDE DEF more
    <3>8. NoneBy(more, Len(buf))
      BY <3>7 DEF NoneBy
    <3>9. Split(seen, more)'
      BY <2>1, <2>2, <3>3, <3>5, <3>6, <3>8 DEF Split
    <3> QED BY <1>0, <3>2, <3>9 DEF StreamInv
  <2> QED BY <2>3, <2>4
<1>4. CASE Read
  <2>1. PICK n \in 1 .. Len(wire) :
           LET b      == buf \o SubSeq(wire, 1, n)
               parsed == Parse(b)
           IN  /\ wire' = SubSeq(wire, n + 1, Len(wire))
               /\ got' = got \o parsed.frames
               /\ buf' = Kept(b, parsed.used)
               /\ overran' = (overran \/ Len(b) - parsed.used > MaxBuffer)
               /\ tally' = Plus(tally, count_dfs(parsed.frames))
    BY <1>4 DEF Read
  <2> DEFINE b == buf \o SubSeq(wire, 1, n)
             w == SubSeq(wire, n + 1, Len(wire))
             used == Parse(b).used
             frames == Parse(b).frames
  <2>2. /\ b \in Seq(Bytes) /\ w \in Seq(Bytes) /\ b \o w = buf \o wire
        /\ frames \in Seq(Frames) /\ used \in 0 .. Len(b)
    BY ReadIs DEF StreamInv
  <2>3. wire' = w /\ got' = got \o frames /\ buf' = Kept(b, used)
        /\ overran' = (overran \/ Len(b) - used > MaxBuffer) /\ sent' = sent
    BY <1>4, <2>1 DEF Read
  <2> HIDE DEF b, w
  <2>4. CASE overran'
    BY <1>0, <2>4 DEF StreamInv
  <2>5. CASE ~overran'
    <3>1. ~overran /\ ~(Len(b) - used > MaxBuffer)
      BY <2>3, <2>5, Zenon
    <3>2. PICK seen \in Seq(Writable), pending \in Seq(Writable) : Split(seen, pending)
      BY <3>1 DEF StreamInv
    <3>3. /\ sent = seen \o pending /\ got = Whole(seen)
          /\ buf \o wire = Stream(pending)
      BY <3>2 DEF Split
    <3>3a. b \o w = Stream(pending) /\ b \in Seq(Bytes) /\ w \in Seq(Bytes)
      BY <2>2, <3>3
    <3>3b. PICK p \in Seq(Writable), r \in Seq(Writable) :
               Takes(b, w, pending, p, r)
      BY <3>3a, ParsePending
    <3>4. /\ pending = p \o r
          /\ frames = Whole(p)
          /\ used \in 0 .. Len(b)
          /\ SubSeq(b, used + 1, Len(b)) \o w = Stream(r)
          /\ NoneBy(r, Len(b) - used)
      BY <3>3b DEF Takes
    <3> HIDE DEF frames, used
    <3>5. buf' = SubSeq(b, used + 1, Len(b)) /\ Len(buf') = Len(b) - used
      <4>1. Len(b) - used <= MaxBuffer
        <5>1. Len(b) \in Nat /\ used \in Nat /\ MaxBuffer \in Nat
          BY <2>2, BytesAssumption
        <5> QED BY <3>1, <5>1
      <4>2. buf' = SubSeq(b, used + 1, Len(b))
        BY <2>2, <2>3, <4>1, KeptIs
      <4>3. Len(SubSeq(b, used + 1, Len(b))) = Len(b) - used
        BY <2>2
      <4> QED BY <4>2, <4>3
    <3>6. got' = Whole(seen \o p) /\ seen \o p \in Seq(Writable)
      BY <2>3, <3>3, <3>4, StreamConcat
    <3>7. sent' = (seen \o p) \o r
      <4>1. (seen \o p) \o r = seen \o (p \o r)
        BY SMTT(30), ConcatAssociative
      <4> QED BY <2>3, <3>3, <3>4, <4>1
    <3>8. Split(seen \o p, r)'
      BY <2>3, <3>4, <3>5, <3>6, <3>7 DEF Split
    <3> QED BY <1>0, <3>6, <3>8 DEF StreamInv
  <2> QED BY <2>4, <2>5
<1>5. CASE Connect
  BY <1>1, <1>5 DEF Connect
<1>6. CASE ConnectFails
  BY <1>1, <1>6 DEF ConnectFails
<1>7. CASE Disconnect
  BY <1>2, <1>7 DEF Disconnect
<1>8. CASE StopSeen
  BY <1>2, <1>8 DEF StopSeen
<1>9. CASE Closed
  BY <1>1, <1>9 DEF Closed
<1>10. CASE Retry
  BY <1>1, <1>10 DEF Retry
<1>11. CASE Stop
  BY <1>1, <1>11 DEF Stop
<1>12. CASE Cancel
  BY <1>1, <1>12 DEF Cancel
<1>13. CASE Snapshot
  BY <1>1, <1>13 DEF Snapshot
<1>14. CASE UNCHANGED vars
  BY <1>1, <1>14 DEF vars
<1> QED BY <1>3, <1>4, <1>5, <1>6, <1>7, <1>8, <1>9, <1>10, <1>11, <1>12, <1>13,
           <1>14 DEF Next

\* So it always holds.
LEMMA StreamHolds == Spec => []StreamInv
<1>1. Init => StreamInv
  <2> SUFFICES ASSUME Init
               PROVE  StreamInv
    OBVIOUS
  <2>1. Split(<<>>, <<>>)
    BY NothingSent DEF Init, Split
  <2> QED BY <2>1, NothingSent, TypeInit DEF StreamInv
<1> QED BY <1>1, StreamStep, PTL DEF Spec

\* Escaping at most doubles a body.
LEMMA EscapedLength ==
    ASSUME NEW body \in Seq(Bytes)
    PROVE  Len(Escaped(body)) <= 2 * Len(body)
<1> DEFINE S == {n \in 0 .. Len(body) : Off(body, n) \in Nat /\ Off(body, n) <= 2 * n}
<1>0. Len(body) \in Nat
  OBVIOUS
<1>1. 0 \in S
  BY <1>0, Offsets
<1>2. ASSUME NEW n \in 0 .. Len(body) - 1, n \in S
      PROVE  n + 1 \in S
  <2>1. n \in Nat /\ n + 1 \in 0 .. Len(body)
    BY <1>0
  <2>2. Off(body, n + 1) = Off(body, n) + 2 \/ Off(body, n + 1) = Off(body, n) + 1
    BY OffsetNext
  <2>3. Off(body, n) \in Nat /\ Off(body, n) <= 2 * n
    BY <1>2
  <2> QED BY <2>1, <2>2, <2>3
<1>3. 0 .. Len(body) \subseteq S
  <2> HIDE DEF S
  <2> QED BY <1>0, <1>1, <1>2, IntervalInduction
<1>4. Len(body) \in S
  <2> HIDE DEF S
  <2> QED BY <1>0, <1>3
<1> QED BY <1>4, Offsets

\* What is left of whole frames when none of them is complete.
LEMMA RestFits ==
    ASSUME NEW r \in Seq(Writable), \A x \in 1 .. Len(r) : IsWhole(r[x]),
           NEW rest \in Seq(Bytes), NEW w \in Seq(Bytes),
           rest \o w = Stream(r), NoneBy(r, Len(rest))
    PROVE  Len(rest) <= MaxBuffer
<1>0. Len(r) \in Nat /\ Len(rest) \in Nat /\ Len(w) \in Nat /\ MaxBuffer \in Nat
  BY BytesAssumption
<1>1. CASE Len(r) = 0
  <2>1. Len(Stream(r)) = 0
    BY <1>1, StreamType
  <2>2. Len(rest \o w) = Len(rest) + Len(w)
    OBVIOUS
  <2> QED BY <1>0, <2>1, <2>2
<1>2. CASE Len(r) # 0
  <2> DEFINE f == r[1]
             e == Escaped(f.body)
  <2>1. 0 \in 0 .. Len(r) - 1 /\ 1 \in 1 .. Len(r) /\ 0 + 1 = 1
    BY <1>0, <1>2
  <2>2. f \in Writable /\ IsWhole(f)
    BY <2>1
  <2>3. f.type \in Types /\ f.body \in Seq(Bytes) /\ Len(f.body) = Need(f.type)
    BY <2>2, WritableIs DEF IsWhole
  <2>4. Ends(r, 1) = 0 + 2 + Len(e)
    <3>1. Ends(r, 0 + 1) = Ends(r, 0) + 2 + Len(Escaped(r[0 + 1].body))
      BY <2>1, FrameAt
    <3> QED BY <2>1, <3>1, StreamType
  <2>5. Ends(r, 1) > Len(rest)
    BY <2>1, <2>2 DEF NoneBy
  <2>6. Len(e) <= 2 * Len(f.body) /\ e \in Seq(Bytes)
    BY <2>3, EscapedLength, Offsets
  <2>7. 2 * Need(f.type) + 1 <= MaxBuffer
    BY <2>3, BufferAssumption
  <2>8. Len(e) \in Nat /\ Need(f.type) \in Nat
    BY <2>3, <2>6
  <2> HIDE DEF f, e
  <2> QED BY <1>0, <2>3, <2>4, <2>5, <2>6, <2>7, <2>8
<1> QED BY <1>1, <1>2

\* Every step keeps it: only a read can discard.
LEMMA DiscardStep ==
    ASSUME StreamInv, NeverDiscards, [Next]_vars
    PROVE  NeverDiscards'
<1> SUFFICES ASSUME \A k \in DOMAIN sent' : IsWhole(sent'[k])
             PROVE  ~overran'
  BY DEF NeverDiscards
<1>t. /\ wire \in Seq(Bytes) /\ buf \in Seq(Bytes)
      /\ sent \in Seq(Writable) /\ overran \in BOOLEAN
  BY DEF StreamInv, TypeInv, TypeOK
<1>1. CASE UNCHANGED stream
  BY <1>1 DEF stream, NeverDiscards
<1>2. CASE Leave
  BY <1>2 DEF Leave
<1>3. CASE Write
  <2>1. PICK f \in Writable : sent' = Append(sent, f)
    BY <1>3 DEF Write
  <2>2. \A k \in DOMAIN sent : k \in DOMAIN sent' /\ sent'[k] = sent[k]
    BY <1>t, <2>1
  <2>3. \A k \in DOMAIN sent : IsWhole(sent[k])
    BY <2>2
  <2> QED BY <1>3, <2>3 DEF Write, NeverDiscards
<1>4. CASE Read
  <2>0. sent' = sent /\ ~overran
    BY <1>4 DEF Read, NeverDiscards
  <2>1. PICK n \in 1 .. Len(wire) :
           LET b      == buf \o SubSeq(wire, 1, n)
               parsed == Parse(b)
           IN  overran' = (overran \/ Len(b) - parsed.used > MaxBuffer)
    BY <1>4 DEF Read
  <2> DEFINE b == buf \o SubSeq(wire, 1, n)
             w == SubSeq(wire, n + 1, Len(wire))
             used == Parse(b).used
             rest == SubSeq(b, used + 1, Len(b))
  <2>2. /\ b \in Seq(Bytes) /\ w \in Seq(Bytes) /\ b \o w = buf \o wire
        /\ used \in 0 .. Len(b)
    BY ReadIs DEF StreamInv
  <2>3. overran' = (overran \/ Len(b) - used > MaxBuffer)
    BY <2>1
  <2> HIDE DEF b, w
  <2>4. PICK seen \in Seq(Writable), pending \in Seq(Writable) : Split(seen, pending)
    BY <2>0 DEF StreamInv
  <2>5. sent = seen \o pending /\ buf \o wire = Stream(pending)
    BY <2>4 DEF Split
  <2>6. b \o w = Stream(pending)
    BY <2>2, <2>5
  <2>7. PICK p \in Seq(Writable), r \in Seq(Writable) : Takes(b, w, pending, p, r)
    BY <2>2, <2>6, ParsePending
  <2>8. /\ pending = p \o r /\ rest \o w = Stream(r)
        /\ NoneBy(r, Len(b) - used)
    BY <2>7 DEF Takes
  <2>9. rest \in Seq(Bytes) /\ Len(rest) = Len(b) - used
    <3> HIDE DEF used
    <3> QED BY <2>2, SubSeqRest
  <2>10. ASSUME NEW x \in 1 .. Len(r)
         PROVE  IsWhole(r[x])
    <3> DEFINE k == Len(seen) + (Len(p) + x)
    <3>1. k \in DOMAIN sent /\ sent[k] = r[x]
      <4>1. Len(p) + x \in 1 .. Len(pending) /\ pending[Len(p) + x] = r[x]
        BY <2>8
      <4>2. k \in 1 .. Len(sent) /\ sent[k] = pending[Len(p) + x]
        BY <2>5, <4>1
      <4> QED BY <1>t, <4>1, <4>2
    <3> QED BY <2>0, <3>1
  <2> HIDE DEF rest, used
  <2>11. Len(rest) <= MaxBuffer
    BY <2>2, <2>8, <2>9, <2>10, RestFits
  <2>12. ~(Len(b) - used > MaxBuffer)
    <3>1. MaxBuffer \in Nat /\ Len(rest) \in Nat
      BY <2>9, BytesAssumption
    <3> QED BY <2>9, <2>11, <3>1
  <2> QED BY <2>0, <2>3, <2>12, Zenon
<1>5. CASE Connect \/ ConnectFails \/ Closed \/ Retry \/ Stop \/ Cancel \/ Snapshot
  BY <1>1, <1>5 DEF Connect, ConnectFails, Closed, Retry, Stop, Cancel, Snapshot
<1>6. CASE Disconnect \/ StopSeen
  BY <1>2, <1>6 DEF Disconnect, StopSeen
<1>7. CASE UNCHANGED vars
  BY <1>1, <1>7 DEF vars
<1> QED BY <1>3, <1>4, <1>5, <1>6, <1>7 DEF Next

\* For any types and lengths of frames that fit into the buffer: the guard on
\* its growth never discards anything of a stream of whole frames, so that what
\* BeastInOrder and BeastAllCounted say holds of such a stream without fail.
THEOREM BeastNeverDiscards == Spec => []NeverDiscards
<1>1. Init => NeverDiscards
  BY DEF Init, NeverDiscards
<1>2. StreamInv /\ NeverDiscards /\ [Next]_vars => NeverDiscards'
  BY DiscardStep
<1> QED BY <1>1, <1>2, StreamHolds, PTL DEF Spec

\* For any cutting of the stream into chunks, and any escaped bytes, truncated
\* frames and frames of an unknown type: the frames counted are the first of
\* those that readsb sent, in order.
THEOREM BeastInOrder == Spec => []InOrder
<1>1. StreamInv => InOrder
  <2> SUFFICES ASSUME StreamInv, ~overran
               PROVE  IsPrefix(got, Whole(sent))
    BY DEF InOrder
  <2>1. PICK seen \in Seq(Writable), pending \in Seq(Writable) : Split(seen, pending)
    BY DEF StreamInv
  <2> DEFINE a == Whole(seen)
             z == Whole(pending)
  <2>2. got = a /\ Whole(sent) = a \o z /\ a \in Seq(Frames) /\ z \in Seq(Frames)
    BY <2>1, StreamConcat DEF Split
  <2> HIDE DEF a, z
  <2>3. Len(a) <= Len(a \o z) /\ SubSeq(a \o z, 1, Len(a)) = a
        /\ SubSeq(a, 1, Len(a)) = a
    BY <2>2
  <2> QED BY <2>2, <2>3 DEF IsPrefix
<1> QED BY <1>1, StreamHolds, PTL

\* When all that was written has been read, every frame has been counted: none
\* is lost at a chunk's end, and none waits for bytes it does not need.
THEOREM BeastAllCounted == Spec => []AllCounted
<1>1. StreamInv => AllCounted
  <2> SUFFICES ASSUME StreamInv, wire = <<>>, ~overran
               PROVE  got = Whole(sent)
    BY DEF AllCounted
  <2>1. PICK seen \in Seq(Writable), pending \in Seq(Writable) : Split(seen, pending)
    BY DEF StreamInv
  <2>2. buf \in Seq(Bytes) /\ Len(buf) \in Nat /\ Len(pending) \in Nat
    BY DEF StreamInv, TypeInv, TypeOK
  <2>3. Len(Stream(pending)) = Len(buf)
    <3>1. buf \o wire = Stream(pending)
      BY <2>1 DEF Split
    <3>2. buf \o <<>> = buf
      BY <2>2
    <3> QED BY <3>1, <3>2
  <2>4. ASSUME NEW x \in 1 .. Len(pending)
        PROVE  ~IsWhole(pending[x])
    <3>1. x \in 0 .. Len(pending) /\ Len(pending) \in x .. Len(pending)
      BY <2>2
    <3>2. Ends(pending, x) \in Nat /\ Ends(pending, x) <= Ends(pending, Len(pending))
      BY <3>1, EndsGrow
    <3>3. Ends(pending, Len(pending)) = Len(buf)
      BY <2>3, StreamType
    <3>4. IsWhole(pending[x]) => Ends(pending, x) > Len(buf)
      BY <2>1 DEF Split, NoneBy
    <3> QED BY <2>2, <3>2, <3>3, <3>4
  <2>5. Len(Whole(pending)) = 0
    BY <2>4, WholeNone
  <2> DEFINE a == Whole(seen)
             z == Whole(pending)
  <2>6. got = a /\ Whole(sent) = a \o z /\ a \in Seq(Frames) /\ z \in Seq(Frames)
    BY <2>1, StreamConcat DEF Split
  <2>7. Len(z) = 0
    BY <2>5
  <2> HIDE DEF a, z
  <2>8. a \o z = a
    BY <2>6, <2>7
  <2> QED BY <2>6, <2>8
<1> QED BY <1>1, StreamHolds, PTL

=============================================================================

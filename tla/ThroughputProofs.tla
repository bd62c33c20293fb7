-------------------------- MODULE ThroughputProofs --------------------------
(***************************************************************************)
(* The accumulator's safety for every number of sockets, feeders and       *)
(* bytes: no byte of a live socket is folded twice, and none that a dump   *)
(* showed of an attributed socket is missed, provided the families' dumps  *)
(* fail together.  The argument is per socket: between two updates `_last` *)
(* holds at least what the totals already have of it, and a socket leaves  *)
(* `_last` only when the dump proves that it is gone.  Summed over the     *)
(* sockets of a feeder, the same argument makes the totals a ByteMeter; a  *)
(* restart falls back on the whole counters of the live sockets, which are *)
(* within what was carried as well.                                        *)
(***************************************************************************)
EXTENDS Throughput, SeqLemmas, FiniteSetTheorems

\* A dump is held only while an update runs.
ReaderIdle == phase = "idle" => DOMAIN dumped = {}

\* Sockets an update still speaks of, or will.
Concerned == alive \cup DOMAIN dumped

\* Per socket: what was folded is within what `_last` and the dump say.
FoldedKnown ==
    \A i \in Concerned :
        /\ i \in DOMAIN last => counted[i] <= last[i]
        /\ i \notin DOMAIN last => counted[i] = 0
FoldedDumped ==
    \A i \in DOMAIN dumped :
        counted[i] <= dumped[i] /\ dumped[i] <= sock[i].bytes
FoldedLater ==
    DOMAIN dumped # {} => \A i \in alive \ DOMAIN dumped : counted[i] = 0
FoldedCarried == \A i \in Concerned : counted[i] <= sock[i].bytes

\* A kernel without counters shows nothing, and nothing is folded.
NothingShown ==
    ~HasCounters =>
        /\ \A i \in DOMAIN dumped : dumped[i] = 0
        /\ \A i \in Inodes : counted[i] = 0

LagInv ==
    /\ TypeOK /\ ReaderIdle /\ NothingShown
    /\ FoldedKnown /\ FoldedDumped /\ FoldedLater /\ FoldedCarried
-----------------------------------------------------------------------------

\* Delta is a natural number.
LEMMA DeltaType ==
    ASSUME TypeOK, NEW i \in DOMAIN dumped
    PROVE  Delta(i) \in Nat
  BY DEF TypeOK, IsDict, Delta, Nonnegative

\* The initial state is well typed.
LEMMA TypeInit == Init => TypeOK
<1> SUFFICES ASSUME Init PROVE TypeOK
  OBVIOUS
<1>1. sock \in [Inodes -> Sockets]
  <2>1. [feeder: Feeders, family: Families, remote: {TRUE}, bytes: {0}]
           \subseteq Sockets
    <3>1. {TRUE} \subseteq BOOLEAN /\ {0} \subseteq Nat
      OBVIOUS
    <3>2. ASSUME NEW R \in SUBSET BOOLEAN, NEW B \in SUBSET Nat
          PROVE  [feeder: Feeders, family: Families, remote: R, bytes: B]
                   \subseteq [feeder: Feeders, family: Families,
                             remote: BOOLEAN, bytes: Nat]
      OBVIOUS
    <3> QED BY <3>1, <3>2 DEF Sockets
  <2> QED BY <2>1 DEF Init
<1>2. IsDict(NoEntries, Nat) /\ IsDict(NoEntries, Feeders)
  BY DEF IsDict, NoEntries
<1>3. DOMAIN NoEntries = {}
  BY DEF NoEntries
<1> QED BY <1>1, <1>2, <1>3 DEF Init, TypeOK

\* Every step keeps the types.
LEMMA TypeStep == TypeOK /\ [Next]_vars => TypeOK'
<1> SUFFICES ASSUME TypeOK, [Next]_vars PROVE TypeOK'
  OBVIOUS
<1>1. CASE Open
  BY <1>1 DEF TypeOK, IsDict, Open, Sockets, reader
<1>2. CASE Transfer
  BY <1>2 DEF TypeOK, IsDict, Transfer, Sockets, reader
<1>3. CASE Close
  BY <1>3 DEF TypeOK, IsDict, Close, reader
<1>4. CASE Dump
  BY <1>4 DEF TypeOK, IsDict, Dump, Sockets, kernel
<1>5. CASE Attribute
  BY <1>5 DEF TypeOK, IsDict, Attribute, Sockets, kernel
<1>6. CASE Fold
  <2> PICK i \in todo : Fold!2!(i)
    BY <1>6 DEF Fold
  <2>1. i \in DOMAIN dumped /\ Delta(i) \in Nat
    BY DeltaType DEF TypeOK
  <2>2. CASE i \in DOMAIN keys /\ sock[i].remote
    <3>1. totals' \in [Feeders -> Nat] /\ counted' \in [Inodes -> Nat]
      BY <2>1, <2>2 DEF TypeOK, IsDict
    <3>2. IsDict(last', Nat)
      BY <2>1, <2>2 DEF TypeOK, IsDict, Put
    <3> QED BY <1>6, <3>1, <3>2 DEF TypeOK, IsDict, Fold, kernel
  <2>3. CASE ~(i \in DOMAIN keys /\ sock[i].remote)
    BY <1>6, <2>3 DEF TypeOK, IsDict, Fold, kernel
  <2> QED BY <2>2, <2>3
<1>7. CASE Prune
  BY <1>7 DEF TypeOK, IsDict, Prune, Kept, NoEntries, kernel
<1>8. CASE UNCHANGED vars
  BY <1>8 DEF TypeOK, IsDict, vars, kernel, reader
<1>9. CASE Restart
  BY <1>9 DEF TypeOK, IsDict, Restart, NoEntries, kernel
<1> QED BY <1>1, <1>2, <1>3, <1>4, <1>5, <1>6, <1>7, <1>8, <1>9 DEF Next

\* Every variable keeps its type and no total is ever negative.
THEOREM TypeInvariant == Spec => []TypeOK
  BY TypeInit, TypeStep, PTL DEF Spec

\* No step but a restart lowers a feeder's total, also when one family's dump
\* fails while another answers: what Home Assistant would take for a reset never
\* happens without one.
THEOREM TotalsNeverDrop ==
    Spec => [][Restart \/ \A f \in Feeders : totals[f] <= totals'[f]]_totals
<1>1. ASSUME TypeOK, [Next]_vars
      PROVE  [Restart \/ \A f \in Feeders : totals[f] <= totals'[f]]_totals
  <2>1. CASE Fold
    <3>1. PICK i \in todo : Fold!2!(i)
      BY <2>1 DEF Fold
    <3>2. Delta(i) \in Nat
      <4>1. i \in DOMAIN dumped
        BY <1>1 DEF TypeOK
      <4> QED BY <1>1, <4>1, DeltaType
    <3>3. CASE totals' = [totals EXCEPT ![keys[i]] = @ + Delta(i)]
      <4>1. ASSUME NEW f \in Feeders
            PROVE  totals[f] <= totals'[f]
        <5>1. totals[f] \in Nat
          BY <1>1 DEF TypeOK
        <5>2. totals'[f] = totals[f] \/ totals'[f] = totals[f] + Delta(i)
          BY <1>1, <3>3 DEF TypeOK
        <5> QED BY <3>2, <5>1, <5>2
      <4> QED BY <4>1
    <3>4. CASE UNCHANGED totals
      BY <3>4
    <3> QED BY <3>1, <3>3, <3>4
  <2>2. CASE Open \/ Transfer \/ Close \/ Dump \/ Attribute \/ Prune \/ UNCHANGED vars
    BY <2>2 DEF Open, Transfer, Close, Dump, Attribute, Prune, vars
  <2>3. CASE Restart
    BY <2>3
  <2> QED BY <1>1, <2>1, <2>2, <2>3 DEF Next
<1> QED BY <1>1, TypeInvariant, PTL DEF Spec

-----------------------------------------------------------------------------

LEMMA LagInit == Init => LagInv
  BY TypeInit DEF Init, LagInv, ReaderIdle, NothingShown, FoldedKnown,
     FoldedDumped, FoldedLater, FoldedCarried, Concerned, NoEntries

\* Without partial dumps, a dump shows every live socket or nothing at all.
LEMMA WholeDump ==
    ASSUME ~PartialDumps, TypeOK, Dump
    PROVE  DOMAIN dumped' = alive \/ DOMAIN dumped' = {}
  BY DEF Dump, Failures, TypeOK, Sockets

\* Without counters nothing is ever folded.
LEMMA ShownStep ==
    ASSUME TypeOK, NothingShown, [Next]_vars
    PROVE  NothingShown'
<1> SUFFICES ASSUME ~HasCounters PROVE NothingShown'
  BY DEF NothingShown
<1>0. /\ \A i \in DOMAIN dumped : dumped[i] = 0
      /\ \A i \in Inodes : counted[i] = 0
  BY DEF NothingShown
<1>1. CASE Open
  BY <1>0, <1>1 DEF Open, reader, TypeOK, NothingShown
<1>2. CASE Transfer \/ Close \/ Attribute \/ UNCHANGED vars
  BY <1>0, <1>2 DEF Transfer, Close, Attribute, vars, reader, NothingShown
<1>3. CASE Dump
  BY <1>0, <1>3 DEF Dump, NothingShown
<1>4. CASE Fold
  <2>1. PICK i \in todo : Fold!2!(i)
    BY <1>4 DEF Fold
  <2>2. i \in DOMAIN dumped /\ UNCHANGED dumped
    BY <2>1 DEF TypeOK
  <2>3. Delta(i) = 0
    BY <1>0, <2>2 DEF Delta, Nonnegative, TypeOK, IsDict
  <2>4. \A j \in Inodes : counted'[j] = counted[j] \/ counted'[j] = counted[j] + Delta(i)
    BY <2>1 DEF TypeOK
  <2>5. \A j \in Inodes : counted'[j] = 0
    BY <1>0, <2>3, <2>4
  <2> QED BY <1>0, <2>2, <2>5 DEF NothingShown
<1>5. CASE Prune \/ Restart
  BY <1>0, <1>5 DEF Prune, Restart, NoEntries, NothingShown
<1> QED BY <1>1, <1>2, <1>3, <1>4, <1>5 DEF Next

\* Every step keeps the per-socket lag invariant.
LEMMA LagStep ==
    ASSUME ~PartialDumps, LagInv, [Next]_vars
    PROVE  LagInv'
<1> USE DEF LagInv
<1>0. TypeOK' /\ NothingShown'
  BY TypeStep, ShownStep
<1>1. CASE Open
  BY <1>0, <1>1, SMTT(30) DEF Open, TypeOK, IsDict, Sockets, reader, ReaderIdle,
     FoldedKnown, FoldedDumped, FoldedLater, FoldedCarried, Concerned
<1>2. CASE Transfer
  BY <1>0, <1>2, SMTT(30) DEF Transfer, TypeOK, IsDict, Sockets, reader, ReaderIdle,
     FoldedKnown, FoldedDumped, FoldedLater, FoldedCarried, Concerned
<1>3. CASE Close
  BY <1>0, <1>3 DEF Close, TypeOK, IsDict, reader, ReaderIdle,
     FoldedKnown, FoldedDumped, FoldedLater, FoldedCarried, Concerned
<1>4. CASE Dump
  <2>1. /\ UNCHANGED <<alive, sock, last, counted>> /\ DOMAIN dumped = {}
        /\ phase' = "dumped" /\ DOMAIN dumped' \subseteq alive
        /\ \A i \in DOMAIN dumped' :
              dumped'[i] = IF HasCounters THEN sock[i].bytes ELSE 0
    BY <1>4 DEF Dump, kernel, ReaderIdle
  <2>2. \A i \in alive : counted[i] <= sock[i].bytes /\ sock[i].bytes \in Nat
    BY DEF FoldedCarried, Concerned, TypeOK, Sockets
  <2>3. Concerned' = alive /\ Concerned = alive
    BY <2>1 DEF Concerned
  <2>4. ReaderIdle' /\ FoldedKnown' /\ FoldedCarried'
    BY <2>1, <2>3 DEF ReaderIdle, FoldedKnown, FoldedCarried
  <2>5. FoldedDumped'
    <3>1. ASSUME NEW i \in DOMAIN dumped'
          PROVE  counted[i] <= dumped'[i] /\ dumped'[i] <= sock[i].bytes
      <4>1. i \in alive /\ i \in Inodes
        BY <2>1 DEF TypeOK
      <4>2. CASE HasCounters
        BY <2>1, <2>2, <4>1, <4>2
      <4>3. CASE ~HasCounters
        <5>1. dumped'[i] = 0 /\ counted[i] = 0
          BY <2>1, <4>1, <4>3 DEF NothingShown
        <5> QED BY <2>2, <4>1, <5>1
      <4> QED BY <4>2, <4>3
    <3> QED BY <2>1, <3>1 DEF FoldedDumped
  <2>6. FoldedLater'
    BY <1>4, <2>1, WholeDump DEF FoldedLater
  <2> QED BY <1>0, <2>4, <2>5, <2>6
<1>5. CASE Attribute
  BY <1>0, <1>5 DEF Attribute, TypeOK, IsDict, kernel, ReaderIdle,
     FoldedKnown, FoldedDumped, FoldedLater, FoldedCarried, Concerned
<1>6. CASE Fold
  <2> PICK i \in todo : Fold!2!(i)
    BY <1>6 DEF Fold
  <2>1. i \in DOMAIN dumped /\ i \in Inodes
    BY DEF TypeOK, IsDict
  <2>2. CASE i \in DOMAIN keys /\ sock[i].remote
    <3>1. last' = Put(last, i, dumped[i])
          /\ counted' = [counted EXCEPT ![i] = @ + Delta(i)]
      BY <2>2
    <3>2. counted'[i] <= dumped[i]
      BY <2>1, <3>1 DEF TypeOK, IsDict, Delta, Nonnegative, FoldedKnown,
         FoldedDumped, Concerned
    <3>3. \A j \in Inodes \ {i} : counted'[j] = counted[j]
      BY <3>1 DEF TypeOK
    <3>4. /\ DOMAIN last' = DOMAIN last \cup {i} /\ last'[i] = dumped[i]
          /\ \A j \in DOMAIN last \ {i} : last'[j] = last[j]
      BY <3>1 DEF Put
    <3>5. UNCHANGED <<alive, sock, phase, dumped, keys>>
      BY <1>6 DEF Fold, kernel
    <3>6. Concerned \subseteq Inodes
      BY DEF Concerned, TypeOK, IsDict
    <3>7. ReaderIdle'
      BY <3>5 DEF ReaderIdle
    <3>8. FoldedKnown'
      BY <2>1, <3>2, <3>3, <3>4, <3>5, <3>6 DEF FoldedKnown, Concerned
    <3>9. FoldedDumped'
      BY <2>1, <3>2, <3>3, <3>5, <3>6 DEF FoldedDumped, Concerned
    <3>10. FoldedLater'
      BY <2>1, <3>3, <3>5, <3>6 DEF FoldedLater, Concerned
    <3>11. counted'[i] <= sock[i].bytes
      BY <1>0, <2>1, <3>5, <3>9 DEF FoldedDumped, TypeOK, IsDict, Sockets
    <3>12. FoldedCarried'
      BY <3>3, <3>5, <3>6, <3>11 DEF FoldedCarried, Concerned
    <3> QED BY <1>0, <3>7, <3>8, <3>9, <3>10, <3>12
  <2>3. CASE ~(i \in DOMAIN keys /\ sock[i].remote)
    BY <1>0, <1>6, <2>3 DEF Fold, kernel, ReaderIdle, FoldedKnown,
       FoldedDumped, FoldedLater, FoldedCarried, Concerned
  <2> QED BY <2>2, <2>3
<1>7. CASE Prune
  BY <1>0, <1>7 DEF Prune, Kept, NoEntries, TypeOK, kernel, ReaderIdle,
     FoldedKnown, FoldedDumped, FoldedLater, FoldedCarried, Concerned
<1>8. CASE UNCHANGED vars
  BY <1>0, <1>8 DEF vars, kernel, reader, ReaderIdle, FoldedKnown,
     FoldedDumped, FoldedLater, FoldedCarried, Concerned
<1>9. CASE Restart
  BY <1>0, <1>9 DEF Restart, NoEntries, TypeOK, Sockets, kernel, ReaderIdle,
     FoldedKnown, FoldedDumped, FoldedLater, FoldedCarried, Concerned
<1> QED BY <1>1, <1>2, <1>3, <1>4, <1>5, <1>6, <1>7, <1>8, <1>9 DEF Next

\* No byte of a live socket is ever folded twice, as long as one family's dump
\* cannot fail while another answers (the case netdiag.py lets through).
THEOREM NoDoubleCount == ~PartialDumps => (Spec => []NoByteTwice)
<1> SUFFICES ASSUME ~PartialDumps PROVE Spec => []NoByteTwice
  OBVIOUS
<1>1. Init => LagInv
  BY LagInit
<1>2. LagInv /\ [Next]_vars => LagInv'
  BY LagStep
<1>3. LagInv => NoByteTwice
  BY DEF LagInv, FoldedCarried, Concerned, NoByteTwice
<1> QED BY <1>1, <1>2, <1>3, PTL DEF Spec

-----------------------------------------------------------------------------

\* The loop starts with every socket of the dump.
LoopStarts == phase = "dumped" => todo = DOMAIN dumped

\* `_last` holds exactly what was folded of a socket that did not inherit it.
FoldedExactly ==
    \A i \in (Concerned \ inherited) \cap DOMAIN last : counted[i] = last[i]

ExactInv == LoopStarts /\ FoldedExactly /\ NoByteMissed

\* Every step keeps the bookkeeping exact.
LEMMA ExactStep ==
    ASSUME LagInv, ExactInv, [Next]_vars
    PROVE  ExactInv'
<1> USE DEF ExactInv
<1>0. TypeOK /\ FoldedKnown /\ FoldedDumped /\ ReaderIdle
  BY DEF LagInv
<1>1. CASE Open
  BY <1>0, <1>1 DEF Open, TypeOK, IsDict, reader, LoopStarts, FoldedExactly,
     NoByteMissed, Concerned
<1>2. CASE Transfer
  BY <1>0, <1>2 DEF Transfer, TypeOK, IsDict, Sockets, reader, LoopStarts,
     FoldedExactly, NoByteMissed, Concerned
<1>3. CASE Close
  BY <1>0, <1>3 DEF Close, reader, LoopStarts, FoldedExactly, NoByteMissed,
     Concerned
<1>4. CASE Dump
  BY <1>0, <1>4 DEF Dump, TypeOK, kernel, ReaderIdle, LoopStarts,
     FoldedExactly, NoByteMissed, Concerned
<1>5. CASE Attribute
  BY <1>0, <1>5 DEF Attribute, kernel, LoopStarts, FoldedExactly,
     NoByteMissed, Concerned
<1>6. CASE Fold
  <2> PICK i \in todo : Fold!2!(i)
    BY <1>6 DEF Fold
  <2>1. i \in DOMAIN dumped /\ i \in Inodes
    BY <1>0 DEF TypeOK, IsDict
  <2>2. CASE i \in DOMAIN keys /\ sock[i].remote
    <3>1. last' = Put(last, i, dumped[i])
          /\ counted' = [counted EXCEPT ![i] = @ + Delta(i)]
      BY <2>2
    <3>2. i \notin inherited => counted'[i] = dumped[i]
      BY <1>0, <2>1, <3>1 DEF TypeOK, IsDict, Delta, Nonnegative, FoldedKnown,
         FoldedDumped, FoldedExactly, Concerned
    <3>3. \A j \in Inodes \ {i} : counted'[j] = counted[j]
      BY <1>0, <3>1 DEF TypeOK
    <3>4. /\ DOMAIN last' = DOMAIN last \cup {i} /\ last'[i] = dumped[i]
          /\ \A j \in DOMAIN last \ {i} : last'[j] = last[j]
      BY <3>1 DEF Put
    <3>5. UNCHANGED <<alive, sock, phase, dumped, keys, inherited>>
      BY <1>6 DEF Fold, kernel
    <3>6. Concerned \subseteq Inodes
      BY <1>0 DEF Concerned, TypeOK, IsDict
    <3>7. LoopStarts'
      BY <1>6, <3>5 DEF Fold, LoopStarts
    <3>8. FoldedExactly'
      BY <3>2, <3>3, <3>4, <3>5, <3>6 DEF FoldedExactly, Concerned
    <3>9. NoByteMissed'
      BY <3>2, <3>3, <3>5, <3>6 DEF NoByteMissed, Concerned
    <3> QED BY <3>7, <3>8, <3>9
  <2>3. CASE ~(i \in DOMAIN keys /\ sock[i].remote)
    BY <1>6, <2>3 DEF Fold, kernel, LoopStarts, FoldedExactly, NoByteMissed,
       Concerned
  <2> QED BY <2>2, <2>3
<1>7. CASE Prune
  BY <1>0, <1>7 DEF Prune, Kept, NoEntries, kernel, ReaderIdle, LoopStarts,
     FoldedExactly, NoByteMissed, Concerned
<1>8. CASE UNCHANGED vars
  BY <1>8 DEF vars, kernel, reader, LoopStarts, FoldedExactly, NoByteMissed,
     Concerned
<1>9. CASE Restart
  BY <1>9 DEF Restart, NoEntries, kernel, LoopStarts, FoldedExactly, NoByteMissed,
     Concerned
<1> QED BY <1>1, <1>2, <1>3, <1>4, <1>5, <1>6, <1>7, <1>8, <1>9 DEF Next

\* An update misses no byte that its dump showed of a socket it attributed,
\* also when earlier updates could not attribute the socket; again as long as
\* the families' dumps fail together.
THEOREM NothingMissed == ~PartialDumps => (Spec => []NoByteMissed)
<1> SUFFICES ASSUME ~PartialDumps PROVE Spec => []NoByteMissed
  OBVIOUS
<1>1. Init => LagInv /\ ExactInv
  BY LagInit DEF Init, ExactInv, LoopStarts, FoldedExactly, NoByteMissed,
     NoEntries
<1>2. (LagInv /\ ExactInv) /\ [Next]_vars => (LagInv /\ ExactInv)'
  BY LagStep, ExactStep
<1>3. LagInv /\ ExactInv => NoByteMissed
  BY DEF ExactInv
<1> QED BY <1>1, <1>2, <1>3, PTL DEF Spec

-----------------------------------------------------------------------------
(* The totals as a meter.  The bytes that the dumped and live sockets of a *)
(* feeder have carried and that are not folded yet, summed over the        *)
(* sockets, are within what the feeder carried beyond its total.           *)

\* The inodes in some order.
IsOrder(e, n) ==
    /\ \A i \in Inodes : \E k \in 1 .. n : e[k] = i
    /\ \A k, m \in 1 .. n : e[k] = e[m] => k = m

\* In that order, s[k] is no less than the sum of the first k, and s[n] at most x.
IsSum(e, n, s, p, x) ==
    /\ s[0] = 0 /\ s[n] <= x
    /\ \A k \in 0 .. n - 1 : s[k] + p[e[k + 1]] <= s[k + 1]

\* The sum of p[i] over the inodes is at most x.
SumWithin(p, x) ==
    \E n \in Nat : \E e \in [1 .. n -> Inodes], s \in [0 .. n -> Int] :
        IsOrder(e, n) /\ IsSum(e, n, s, p, x)

\* Nothing is pending anywhere.
LEMMA SumOfNone ==
    ASSUME NEW x \in Nat
    PROVE  SumWithin([i \in Inodes |-> 0], x)
<1>1. PICK n \in Nat : ExistsBijection(1 .. n, Inodes)
  BY InodesAssumption, FS_NatBijection
<1>2. PICK e \in [1 .. n -> Inodes] :
         IsOrder(e, n)
  BY <1>1 DEF IsOrder, IsInjective, ExistsBijection, Bijection, Injection, Surjection
<1> DEFINE s == [k \in 0 .. n |-> 0]
<1>3. /\ s \in [0 .. n -> Int] /\ s[0] = 0 /\ s[n] <= x
      /\ \A k \in 0 .. n - 1 : s[k] + 0 <= s[k + 1]
  OBVIOUS
<1> HIDE DEF s
<1>4. \A k \in 0 .. n - 1 : [i \in Inodes |-> 0][e[k + 1]] = 0
  OBVIOUS
<1>5. IsSum(e, n, s, [i \in Inodes |-> 0], x)
  BY <1>3, <1>4 DEF IsSum
<1> QED BY <1>2, <1>3, <1>5 DEF SumWithin

\* Less is pending of each.
LEMMA SumOfLess ==
    ASSUME NEW p \in [Inodes -> Int], NEW q \in [Inodes -> Int], NEW x \in Int,
           \A i \in Inodes : q[i] <= p[i], SumWithin(p, x)
    PROVE  SumWithin(q, x)
<1>1. PICK n \in Nat : \E e \in [1 .. n -> Inodes], s \in [0 .. n -> Int] :
                           IsOrder(e, n) /\ IsSum(e, n, s, p, x)
  BY DEF SumWithin
<1>2. PICK e \in [1 .. n -> Inodes], s \in [0 .. n -> Int] :
          IsOrder(e, n) /\ IsSum(e, n, s, p, x)
  BY <1>1
<1>2a. s[0] = 0 /\ s[n] <= x /\ \A k \in 0 .. n - 1 : s[k] + p[e[k + 1]] <= s[k + 1]
  BY <1>2 DEF IsSum
<1>2b. /\ \A j \in Inodes : \E k \in 1 .. n : e[k] = j
       /\ \A k, m \in 1 .. n : e[k] = e[m] => k = m
  BY <1>2 DEF IsOrder
<1>3. ASSUME NEW k \in 0 .. n - 1
      PROVE  s[k] + q[e[k + 1]] <= s[k + 1]
  <2>1. k + 1 \in 1 .. n /\ k \in 0 .. n /\ k + 1 \in 0 .. n
    OBVIOUS
  <2>2. e[k + 1] \in Inodes
    BY <2>1
  <2> DEFINE a == s[k]
             b == s[k + 1]
             c == p[e[k + 1]]
             d == q[e[k + 1]]
  <2>3. a \in Int /\ b \in Int /\ c \in Int /\ d \in Int /\ d <= c /\ a + c <= b
    BY <1>2a, <2>1, <2>2
  <2> HIDE DEF a, b, c, d
  <2>4. a + d <= b
    BY <2>3
  <2> QED BY <2>4 DEF a, b, d
<1>4. IsSum(e, n, s, q, x)
  BY <1>2a, <1>3 DEF IsSum
<1> QED BY <1>2, <1>4 DEF SumWithin

\* The pending bytes of one socket change by d, and so does the bound.
LEMMA SumOfMore ==
    ASSUME NEW p \in [Inodes -> Int], NEW q \in [Inodes -> Int],
           NEW x \in Int, NEW i \in Inodes, NEW d \in Int,
           q[i] = p[i] + d, \A j \in Inodes \ {i} : q[j] = p[j],
           SumWithin(p, x)
    PROVE  SumWithin(q, x + d)
<1>1. PICK n \in Nat : \E e \in [1 .. n -> Inodes], s \in [0 .. n -> Int] :
                           IsOrder(e, n) /\ IsSum(e, n, s, p, x)
  BY DEF SumWithin
<1>2. PICK e \in [1 .. n -> Inodes], s \in [0 .. n -> Int] :
          IsOrder(e, n) /\ IsSum(e, n, s, p, x)
  BY <1>1
<1>2a. s[0] = 0 /\ s[n] <= x /\ \A k \in 0 .. n - 1 : s[k] + p[e[k + 1]] <= s[k + 1]
  BY <1>2 DEF IsSum
<1>2b. /\ \A j \in Inodes : \E k \in 1 .. n : e[k] = j
       /\ \A k, m \in 1 .. n : e[k] = e[m] => k = m
  BY <1>2 DEF IsOrder
<1>3. PICK h \in 1 .. n : e[h] = i
  BY <1>2b
<1> DEFINE t == [k \in 0 .. n |-> IF k < h THEN s[k] ELSE s[k] + d]
<1>4. t \in [0 .. n -> Int] /\ t[0] = 0 /\ t[n] <= x + d
  <2>1. \A k \in 0 .. n : s[k] \in Int
    OBVIOUS
  <2>2. t \in [0 .. n -> Int]
    BY <2>1
  <2>3. t[0] = s[0] /\ t[n] = s[n] + d
    OBVIOUS
  <2> DEFINE z == s[n]
  <2>4. z \in Int /\ z <= x
    BY <1>2a
  <2> HIDE DEF z, t
  <2>5. z + d <= x + d
    BY <2>4
  <2> QED BY <1>2a, <2>2, <2>3, <2>5 DEF z
<1>5. ASSUME NEW k \in 0 .. n - 1
      PROVE  t[k] + q[e[k + 1]] <= t[k + 1]
  <2>1. k + 1 \in 1 .. n /\ k \in 0 .. n /\ k + 1 \in 0 .. n
    OBVIOUS
  <2>2. e[k + 1] \in Inodes
    BY <2>1
  <2> DEFINE a == s[k]
             b == s[k + 1]
             c == p[e[k + 1]]
  <2>3. a \in Int /\ b \in Int /\ c \in Int /\ a + c <= b
    BY <1>2a, <2>1, <2>2
  <2>4. CASE k + 1 < h
    <3>1. t[k] = a /\ t[k + 1] = b
      BY <2>1, <2>4
    <3>2. e[k + 1] # i
      BY <1>2b, <1>3, <2>1, <2>4
    <3>3. q[e[k + 1]] = c
      BY <2>2, <3>2
    <3> QED BY <2>3, <3>1, <3>3
  <2>5. CASE k + 1 = h
    <3>1. t[k] = a /\ t[k + 1] = b + d
      BY <2>1, <2>5
    <3>2. q[e[k + 1]] = c + d
      BY <1>3, <2>5
    <3> HIDE DEF a, b, c, t
    <3>3. a + (c + d) <= b + d
      BY <2>3
    <3> QED BY <3>1, <3>2, <3>3
  <2>6. CASE k + 1 > h
    <3>1. t[k] = a + d /\ t[k + 1] = b + d
      BY <2>1, <2>6
    <3>2. e[k + 1] # i
      BY <1>2b, <1>3, <2>1, <2>6
    <3>3. q[e[k + 1]] = c
      BY <2>2, <3>2
    <3> HIDE DEF a, b, c, t
    <3>4. (a + d) + c <= b + d
      BY <2>3
    <3> QED BY <3>1, <3>3, <3>4
  <2> QED BY <2>4, <2>5, <2>6
<1> HIDE DEF t
<1>6. IsSum(e, n, t, q, x + d)
  BY <1>4, <1>5 DEF IsSum
<1> QED BY <1>2, <1>4, <1>6 DEF SumWithin

\* Where no socket has a negative number pending, the sum is not negative.
LEMMA SumOfNaturals ==
    ASSUME NEW p \in [Inodes -> Nat], NEW x \in Int, SumWithin(p, x)
    PROVE  0 <= x
<1>1. PICK n \in Nat : \E e \in [1 .. n -> Inodes], s \in [0 .. n -> Int] :
                           IsSum(e, n, s, p, x)
  BY DEF SumWithin
<1>2. PICK e \in [1 .. n -> Inodes], s \in [0 .. n -> Int] : IsSum(e, n, s, p, x)
  BY <1>1
<1>2a. s[0] = 0 /\ s[n] <= x /\ \A k \in 0 .. n - 1 : s[k] + p[e[k + 1]] <= s[k + 1]
  BY <1>2 DEF IsSum
<1> DEFINE S == {k \in 0 .. n : 0 <= s[k]}
<1>3. 0 \in S
  BY <1>2a
<1>4. ASSUME NEW k \in 0 .. n - 1, k \in S
      PROVE  k + 1 \in S
  <2>1. k + 1 \in 1 .. n /\ k \in 0 .. n /\ k + 1 \in 0 .. n
    OBVIOUS
  <2> DEFINE a == s[k]
             b == s[k + 1]
             c == p[e[k + 1]]
  <2>2. a \in Int /\ b \in Int /\ c \in Nat /\ a + c <= b /\ 0 <= a
    BY <1>2a, <1>4, <2>1
  <2> HIDE DEF a, b, c
  <2>3. 0 <= b
    BY <2>2
  <2> QED BY <2>1, <2>3 DEF b
<1>5. n \in S
  <2> HIDE DEF S
  <2>1. 0 .. n \subseteq S
    BY <1>3, <1>4, IntervalInduction
  <2> QED BY <2>1
<1> DEFINE z == s[n]
<1>6. z \in Int /\ z <= x /\ 0 <= z
  BY <1>2a, <1>5
<1> HIDE DEF z
<1> QED BY <1>6

\* What is still to be folded of a feeder's sockets.
Pending(f) ==
    [i \in Inodes |->
        IF i \in Concerned /\ sock[i].remote /\ sock[i].feeder = f
        THEN sock[i].bytes - counted[i] ELSE 0]

Covered(f) == SumWithin(Pending(f), carried[f] - totals[f])

\* What /proc said of a dumped socket is right, and forgotten with the dump.
KeysRight ==
    /\ phase # "fold" => DOMAIN keys = {}
    /\ \A i \in DOMAIN dumped \cap DOMAIN keys : keys[i] = sock[i].feeder

\* All that the live sockets of a feeder have carried: what a publisher that
\* starts now would find.
Whole(f) ==
    [i \in Inodes |->
        IF i \in alive /\ sock[i].remote /\ sock[i].feeder = f
        THEN sock[i].bytes ELSE 0]

CoveredWhole(f) == SumWithin(Whole(f), carried[f])

MeterInv == KeysRight /\ \A f \in Feeders : Covered(f) /\ CoveredWhole(f)

\* Nothing pending is negative.
LEMMA PendingType ==
    ASSUME LagInv, NEW f \in Feeders
    PROVE  /\ Pending(f) \in [Inodes -> Nat]
           /\ carried[f] - totals[f] \in Int /\ carried[f] \in Nat /\ totals[f] \in Nat
<1>1. ASSUME NEW i \in Inodes
      PROVE  Pending(f)[i] \in Nat
  <2>1. sock[i].bytes \in Nat /\ counted[i] \in Nat
    BY DEF LagInv, TypeOK, Sockets
  <2>2. i \in Concerned => counted[i] <= sock[i].bytes
    BY DEF LagInv, FoldedCarried
  <2>3. i \in Concerned => sock[i].bytes - counted[i] \in Nat
    BY <2>1, <2>2
  <2> QED BY <2>3 DEF Pending
<1>2. Pending(f) \in [Inodes -> Nat]
  BY <1>1 DEF Pending
<1>3. carried[f] \in Nat /\ totals[f] \in Nat
  BY DEF LagInv, TypeOK
<1> QED BY <1>2, <1>3

\* The same, as integers.
LEMMA PendingInt == LagInv => \A g \in Feeders : Pending(g) \in [Inodes -> Int]
<1> SUFFICES ASSUME LagInv, NEW g \in Feeders
             PROVE  Pending(g) \in [Inodes -> Int]
  OBVIOUS
<1>1. Pending(g) \in [Inodes -> Nat]
  BY PendingType
<1> HIDE DEF Pending
<1> QED BY <1>1

\* So a total is within what its feeder carried.
LEMMA CoveredBounds ==
    ASSUME LagInv, NEW f \in Feeders, Covered(f)
    PROVE  totals[f] <= carried[f]
<1>1. 0 <= carried[f] - totals[f]
  BY PendingType, SumOfNaturals DEF Covered
<1> QED BY <1>1, PendingType

\* It holds at the start: there is no socket yet.
LEMMA MeterInit == Init => MeterInv
<1> SUFFICES ASSUME Init PROVE MeterInv
  OBVIOUS
<1>1. KeysRight
  BY DEF Init, KeysRight, NoEntries
<1>2. ASSUME NEW f \in Feeders
      PROVE  Covered(f) /\ CoveredWhole(f)
  <2>1. Concerned = {}
    BY DEF Init, Concerned, NoEntries
  <2>2. Pending(f) = [i \in Inodes |-> 0]
    BY <2>1 DEF Pending
  <2>3. carried[f] - totals[f] = 0 /\ carried[f] = 0
    BY DEF Init
  <2>4. Whole(f) = [i \in Inodes |-> 0]
    BY DEF Init, Whole
  <2> QED BY <2>2, <2>3, <2>4, SumOfNone DEF Covered, CoveredWhole
<1> QED BY <1>1, <1>2 DEF MeterInv

\* Every step keeps the attribution right: no inode of the dump is handed out.
LEMMA KeysStep ==
    ASSUME LagInv, KeysRight, [Next]_vars
    PROVE  KeysRight'
<1>0. TypeOK /\ ReaderIdle
  BY DEF LagInv
<1>1. CASE Open
  BY <1>0, <1>1 DEF Open, KeysRight, TypeOK, IsDict, reader
<1>2. CASE Transfer
  BY <1>0, <1>2 DEF Transfer, KeysRight, TypeOK, IsDict, Sockets, reader
<1>3. CASE Close
  BY <1>3 DEF Close, KeysRight, reader
<1>4. CASE Dump
  BY <1>4 DEF Dump, KeysRight, kernel
<1>5. CASE Attribute
  BY <1>5 DEF Attribute, KeysRight, kernel
<1>6. CASE Fold
  BY <1>6 DEF Fold, KeysRight, kernel
<1>7. CASE Prune
  BY <1>7 DEF Prune, KeysRight, NoEntries, kernel
<1>8. CASE UNCHANGED vars
  BY <1>8 DEF vars, kernel, reader, KeysRight
<1>9. CASE Restart
  BY <1>9 DEF Restart, KeysRight, NoEntries, kernel
<1> QED BY <1>1, <1>2, <1>3, <1>4, <1>5, <1>6, <1>7, <1>8, <1>9 DEF Next

\* A step that makes no more pending, and changes no total.
LEMMA CoveredLess ==
    ASSUME LagInv, LagInv', NEW f \in Feeders, Covered(f),
           \A i \in Inodes : Pending(f)'[i] <= Pending(f)[i],
           carried'[f] = carried[f], totals'[f] = totals[f]
    PROVE  Covered(f)'
<1> DEFINE p == Pending(f)
           q == Pending(f)'
           x == carried[f] - totals[f]
<1>1. p \in [Inodes -> Int] /\ x \in Int
  BY PendingInt, PendingType
<1>2. q \in [Inodes -> Int]
  <2>1. (LagInv => \A g \in Feeders : Pending(g) \in [Inodes -> Int])'
    BY PendingInt, PTL
  <2> QED BY <2>1
<1>3. SumWithin(p, x) /\ carried'[f] - totals'[f] = x
  BY DEF Covered
<1>4. \A i \in Inodes : q[i] <= p[i]
  OBVIOUS
<1> HIDE DEF p, q, x
<1>5. SumWithin(q, x)
  BY <1>1, <1>2, <1>3, <1>4, SumOfLess
<1> QED BY <1>3, <1>5 DEF Covered, q

\* A step that changes what is pending of one socket by d, and the total or
\* what was carried accordingly.
LEMMA CoveredMore ==
    ASSUME LagInv, LagInv', NEW f \in Feeders, Covered(f),
           NEW j \in Inodes, NEW d \in Int,
           Pending(f)'[j] = Pending(f)[j] + d,
           \A i \in Inodes \ {j} : Pending(f)'[i] = Pending(f)[i],
           carried'[f] - totals'[f] = (carried[f] - totals[f]) + d
    PROVE  Covered(f)'
<1> DEFINE p == Pending(f)
           q == Pending(f)'
           x == carried[f] - totals[f]
<1>1. p \in [Inodes -> Int] /\ x \in Int
  BY PendingInt, PendingType
<1>2. q \in [Inodes -> Int]
  <2>1. (LagInv => \A g \in Feeders : Pending(g) \in [Inodes -> Int])'
    BY PendingInt, PTL
  <2> QED BY <2>1
<1>3. SumWithin(p, x) /\ carried'[f] - totals'[f] = x + d
  BY DEF Covered
<1>4. q[j] = p[j] + d /\ \A i \in Inodes \ {j} : q[i] = p[i]
  OBVIOUS
<1> HIDE DEF p, q, x
<1>5. SumWithin(q, x + d)
  BY <1>1, <1>2, <1>3, <1>4, SumOfMore
<1> QED BY <1>3, <1>5 DEF Covered, q

\* Fewer sockets are spoken of, and nothing else changes.
LEMMA CoveredKept ==
    ASSUME LagInv, LagInv', NEW f \in Feeders, Covered(f),
           UNCHANGED <<sock, counted, carried, totals>>, Concerned' \subseteq Concerned
    PROVE  Covered(f)'
<1>1. Pending(f) \in [Inodes -> Nat]
  BY PendingType
<1>2. ASSUME NEW i \in Inodes
      PROVE  Pending(f)'[i] <= Pending(f)[i]
  <2>1. Pending(f)'[i] = Pending(f)[i] \/ Pending(f)'[i] = 0
    BY DEF Pending
  <2>2. Pending(f)[i] \in Nat
    BY <1>1
  <2> HIDE DEF Pending
  <2> QED BY <2>1, <2>2
<1> QED BY <1>2, CoveredLess

\* A new socket has nothing pending.
LEMMA CoveredOpen ==
    ASSUME LagInv, LagInv', Open, NEW f \in Feeders, Covered(f)
    PROVE  Covered(f)'
<1>0. TypeOK
  BY DEF LagInv
<1>1. PICK j \in Inodes \ (alive \cup DOMAIN dumped) :
         /\ alive' = alive \cup {j}
         /\ \E g \in Feeders, a \in Families, r \in BOOLEAN :
              sock' = [sock EXCEPT ![j] = [feeder |-> g, family |-> a,
                                           remote |-> r, bytes |-> 0]]
         /\ counted' = [counted EXCEPT ![j] = 0]
  BY DEF Open
<1>2. UNCHANGED <<carried, dumped, totals>>
  BY DEF Open, reader
<1>3. ASSUME NEW i \in Inodes
      PROVE  Pending(f)'[i] = Pending(f)[i]
  <2>1. CASE i = j
    <3>1. sock'[j].bytes = 0 /\ counted'[j] = 0
      BY <1>0, <1>1 DEF TypeOK
    <3>2. Pending(f)'[j] = 0
      BY <3>1 DEF Pending
    <3>3. Pending(f)[j] = 0
      BY <1>1 DEF Pending, Concerned
    <3> QED BY <2>1, <3>2, <3>3
  <2>2. CASE i # j
    <3>1. sock'[i] = sock[i] /\ counted'[i] = counted[i]
      BY <1>0, <1>1, <2>2 DEF TypeOK
    <3>2. i \in Concerned' <=> i \in Concerned
      BY <1>1, <1>2, <2>2 DEF Concerned
    <3> QED BY <3>1, <3>2 DEF Pending
  <2> QED BY <2>1, <2>2
<1>4. ASSUME NEW i \in Inodes
      PROVE  Pending(f)'[i] <= Pending(f)[i]
  <2>1. Pending(f)[i] \in Nat
    BY PendingType
  <2> QED BY <1>3, <2>1
<1> QED BY <1>2, <1>4, CoveredLess

\* A byte of a remote socket is pending, and carried; others are neither.
LEMMA CoveredTransfer ==
    ASSUME LagInv, LagInv', Transfer, NEW f \in Feeders, Covered(f)
    PROVE  Covered(f)'
<1>0. TypeOK
  BY DEF LagInv
<1>1. PICK j \in alive :
         /\ sock' = [sock EXCEPT ![j].bytes = @ + 1]
         /\ carried' = IF sock[j].remote
                       THEN [carried EXCEPT ![sock[j].feeder] = @ + 1]
                       ELSE carried
  BY DEF Transfer
<1>2. UNCHANGED <<alive, dumped, totals, counted>>
  BY DEF Transfer, reader
<1>3. Concerned' = Concerned /\ j \in Concerned /\ j \in Inodes
  BY <1>0, <1>2 DEF Concerned, TypeOK
<1>4. /\ sock'[j].bytes = sock[j].bytes + 1
      /\ sock'[j].remote = sock[j].remote /\ sock'[j].feeder = sock[j].feeder
      /\ \A i \in Inodes \ {j} : sock'[i] = sock[i]
  BY <1>0, <1>1, <1>3 DEF TypeOK, Sockets
<1>5. ASSUME NEW i \in Inodes \ {j}
      PROVE  Pending(f)'[i] = Pending(f)[i]
  BY <1>2, <1>3, <1>4 DEF Pending
<1>6. CASE sock[j].remote /\ sock[j].feeder = f
  <2>1. Pending(f)'[j] = Pending(f)[j] + 1
    <3>1. Pending(f)'[j] = (sock[j].bytes + 1) - counted[j]
      BY <1>2, <1>3, <1>4, <1>6 DEF Pending
    <3>2. Pending(f)[j] = sock[j].bytes - counted[j]
      BY <1>3, <1>6 DEF Pending
    <3>3. sock[j].bytes \in Nat /\ counted[j] \in Nat
      BY <1>0, <1>3 DEF TypeOK, Sockets
    <3> QED BY <3>1, <3>2, <3>3
  <2>2. carried'[f] - totals'[f] = (carried[f] - totals[f]) + 1
    <3>1. carried'[f] = carried[f] + 1
      BY <1>0, <1>1, <1>6 DEF TypeOK
    <3>2. carried[f] \in Nat /\ totals[f] \in Nat
      BY PendingType
    <3> QED BY <1>2, <3>1, <3>2
  <2>3. 1 \in Int
    OBVIOUS
  <2> HIDE DEF Pending
  <2> QED BY <1>3, <1>5, <2>1, <2>2, <2>3, CoveredMore
<1>7. CASE ~(sock[j].remote /\ sock[j].feeder = f)
  <2>1. Pending(f)'[j] = Pending(f)[j]
    BY <1>3, <1>4, <1>7 DEF Pending
  <2>2. carried'[f] = carried[f]
    BY <1>0, <1>1, <1>7 DEF TypeOK
  <2>3. ASSUME NEW i \in Inodes
        PROVE  Pending(f)'[i] <= Pending(f)[i]
    <3>1. Pending(f)[i] \in Nat /\ Pending(f)'[i] = Pending(f)[i]
      BY <1>5, <2>1, PendingType
    <3> QED BY <3>1
  <2> QED BY <1>2, <2>2, <2>3, CoveredLess
<1> QED BY <1>6, <1>7

\* What a turn of the loop adds to a total is no longer pending.
LEMMA CoveredFold ==
    ASSUME LagInv, LagInv', KeysRight, Fold, NEW f \in Feeders, Covered(f)
    PROVE  Covered(f)' /\ totals[f] <= totals'[f]
<1>0. TypeOK
  BY DEF LagInv
<1>1. PICK j \in todo : Fold!2!(j)
  BY DEF Fold
<1>2. UNCHANGED <<alive, sock, carried, dumped>> /\ Concerned' = Concerned
  BY <1>1 DEF kernel, Concerned
<1>3. j \in DOMAIN dumped /\ j \in Inodes /\ j \in Concerned /\ Delta(j) \in Nat
  BY <1>0, DeltaType DEF TypeOK, IsDict, Concerned
<1>4. carried[f] \in Nat /\ totals[f] \in Nat
  BY PendingType
<1>5. CASE j \in DOMAIN keys /\ sock[j].remote
  <2>1. /\ totals' = [totals EXCEPT ![keys[j]] = @ + Delta(j)]
        /\ counted' = [counted EXCEPT ![j] = @ + Delta(j)]
    BY <1>1, <1>5
  <2>2. keys[j] = sock[j].feeder
    BY <1>3, <1>5 DEF KeysRight
  <2>3. counted'[j] = counted[j] + Delta(j)
        /\ \A i \in Inodes \ {j} : counted'[i] = counted[i]
    BY <1>0, <1>3, <2>1 DEF TypeOK
  <2>4. ASSUME NEW i \in Inodes \ {j}
        PROVE  Pending(f)'[i] = Pending(f)[i]
    BY <1>2, <2>3 DEF Pending
  <2>5. CASE sock[j].feeder = f
    <3> DEFINE d == 0 - Delta(j)
    <3>1. totals'[f] = totals[f] + Delta(j)
      BY <1>0, <2>1, <2>2, <2>5 DEF TypeOK
    <3>2. Pending(f)'[j] = Pending(f)[j] + d
      <4>1. Pending(f)'[j] = sock[j].bytes - (counted[j] + Delta(j))
        BY <1>2, <1>3, <1>5, <2>3, <2>5 DEF Pending
      <4>2. Pending(f)[j] = sock[j].bytes - counted[j]
        BY <1>3, <1>5, <2>5 DEF Pending
      <4>3. sock[j].bytes \in Nat /\ counted[j] \in Nat
        BY <1>0, <1>3 DEF TypeOK, Sockets
      <4> HIDE DEF Pending
      <4> QED BY <1>3, <4>1, <4>2, <4>3
    <3>3. carried'[f] - totals'[f] = (carried[f] - totals[f]) + d
      BY <1>2, <1>3, <1>4, <3>1
    <3>4. d \in Int
      BY <1>3
    <3> HIDE DEF Pending, d
    <3>5. Covered(f)'
      BY <1>3, <2>4, <3>2, <3>3, <3>4, CoveredMore
    <3> QED BY <1>3, <1>4, <3>1, <3>5
  <2>6. CASE sock[j].feeder # f
    <3>1. totals'[f] = totals[f]
      BY <1>0, <2>1, <2>2, <2>6 DEF TypeOK
    <3>2. ASSUME NEW i \in Inodes
          PROVE  Pending(f)'[i] <= Pending(f)[i]
      <4>1. Pending(f)'[i] = Pending(f)[i]
        BY <1>2, <2>4, <2>6 DEF Pending
      <4>2. Pending(f)[i] \in Nat
        BY PendingType
      <4> QED BY <4>1, <4>2
    <3>3. Covered(f)'
      BY <1>2, <3>1, <3>2, CoveredLess
    <3> QED BY <1>4, <3>1, <3>3
  <2> QED BY <2>5, <2>6
<1>6. CASE ~(j \in DOMAIN keys /\ sock[j].remote)
  <2>1. UNCHANGED <<totals, counted>>
    BY <1>1, <1>6
  <2>2. Covered(f)'
    BY <1>2, <2>1, CoveredKept
  <2> QED BY <1>4, <2>1, <2>2
<1> QED BY <1>5, <1>6

\* The steps that neither carry nor fold.
LEMMA CoveredOther ==
    ASSUME LagInv, LagInv', Close \/ Dump \/ Attribute \/ Prune \/ UNCHANGED vars,
           NEW f \in Feeders, Covered(f)
    PROVE  Covered(f)'
<1>1. UNCHANGED <<sock, counted, carried, totals>>
  BY DEF Close, Dump, Attribute, Prune, vars, kernel
<1>2. Concerned' \subseteq Concerned
  <2>1. CASE Close
    BY <2>1 DEF Close, reader, Concerned
  <2>2. CASE Dump
    BY <2>2 DEF Dump, kernel, Concerned
  <2>3. CASE Attribute
    BY <2>3 DEF Attribute, kernel, Concerned
  <2>4. CASE Prune
    BY <2>4 DEF Prune, NoEntries, kernel, Concerned
  <2>5. CASE UNCHANGED vars
    BY <2>5 DEF vars, kernel, reader, Concerned
  <2> QED BY <2>1, <2>2, <2>3, <2>4, <2>5
<1> QED BY <1>1, <1>2, CoveredKept

\* A new publisher has folded nothing: all of the live sockets is pending again,
\* and within what was carried.
LEMMA CoveredRestart ==
    ASSUME LagInv, Restart, NEW f \in Feeders, CoveredWhole(f)
    PROVE  Covered(f)'
<1>1. /\ UNCHANGED <<alive, sock, carried>> /\ Concerned' = alive
      /\ totals'[f] = 0 /\ \A i \in Inodes : counted'[i] = 0
  BY DEF Restart, kernel, NoEntries, Concerned
<1>2. ASSUME NEW i \in Inodes
      PROVE  Pending(f)'[i] = Whole(f)[i]
  <2>1. sock[i].bytes \in Nat
    BY DEF LagInv, TypeOK, Sockets
  <2>2. Pending(f)'[i] = IF i \in alive /\ sock[i].remote /\ sock[i].feeder = f
                         THEN sock[i].bytes - 0 ELSE 0
    BY <1>1 DEF Pending
  <2>3. sock[i].bytes - 0 = sock[i].bytes
    BY <2>1
  <2> QED BY <2>2, <2>3 DEF Whole
<1>3. Pending(f)' = Whole(f)
  BY <1>2 DEF Pending, Whole
<1>4. carried'[f] - totals'[f] = carried[f]
  BY <1>1 DEF LagInv, TypeOK
<1> QED BY <1>3, <1>4 DEF Covered, CoveredWhole

LEMMA WholeType ==
    TypeOK => \A g \in Feeders : Whole(g) \in [Inodes -> Int] /\ carried[g] \in Int
  BY DEF TypeOK, Sockets, Whole

\* Opening a socket adds nothing to the whole, closing one takes it away, and a
\* byte that is carried is added to both sides.
LEMMA WholeStep ==
    ASSUME TypeOK, TypeOK', [Next]_vars, NEW f \in Feeders, CoveredWhole(f)
    PROVE  CoveredWhole(f)'
<1> DEFINE p == Whole(f)
           q == Whole(f)'
           x == carried[f]
<1>0. p \in [Inodes -> Int] /\ x \in Int /\ SumWithin(p, x)
  BY WholeType DEF CoveredWhole
<1>0a. q \in [Inodes -> Int]
  <2>1. (TypeOK => \A g \in Feeders : Whole(g) \in [Inodes -> Int] /\ carried[g] \in Int)'
    BY WholeType, PTL
  <2> QED BY <2>1
<1>1. CASE Open
  <2>1. PICK j \in Inodes \ (alive \cup DOMAIN dumped) :
           /\ alive' = alive \cup {j}
           /\ \E g \in Feeders, a \in Families, r \in BOOLEAN :
                sock' = [sock EXCEPT ![j] = [feeder |-> g, family |-> a,
                                             remote |-> r, bytes |-> 0]]
    BY <1>1 DEF Open
  <2>2. ASSUME NEW i \in Inodes
        PROVE  q[i] = p[i]
    <3>1. CASE i = j
      <4>1. sock'[j].bytes = 0
        BY <2>1 DEF TypeOK
      <4> QED BY <2>1, <3>1, <4>1 DEF Whole
    <3>2. CASE i # j
      <4>1. sock'[i] = sock[i] /\ (i \in alive' <=> i \in alive)
        BY <2>1, <3>2 DEF TypeOK
      <4> QED BY <4>1 DEF Whole
    <3> QED BY <3>1, <3>2
  <2>3. carried'[f] = x
    BY <1>1 DEF Open
  <2>4. \A i \in Inodes : q[i] <= p[i]
    <3> HIDE DEF p, q
    <3> QED BY <1>0, <2>2
  <2> HIDE DEF p, q, x
  <2>5. SumWithin(q, x)
    BY <1>0, <1>0a, <2>4, SumOfLess
  <2> QED BY <2>3, <2>5 DEF q, CoveredWhole
<1>2. CASE Transfer
  <2>1. PICK j \in alive :
           /\ sock' = [sock EXCEPT ![j].bytes = @ + 1]
           /\ carried' = IF sock[j].remote
                         THEN [carried EXCEPT ![sock[j].feeder] = @ + 1]
                         ELSE carried
    BY <1>2 DEF Transfer
  <2>2. UNCHANGED alive /\ j \in Inodes
    BY <1>2 DEF Transfer, TypeOK
  <2>3. /\ sock'[j].bytes = sock[j].bytes + 1
        /\ sock'[j].remote = sock[j].remote /\ sock'[j].feeder = sock[j].feeder
        /\ \A i \in Inodes \ {j} : sock'[i] = sock[i]
    BY <2>1, <2>2 DEF TypeOK, Sockets
  <2>4. \A i \in Inodes \ {j} : q[i] = p[i]
    BY <2>2, <2>3 DEF Whole
  <2>5. CASE sock[j].remote /\ sock[j].feeder = f
    <3>1. q[j] = p[j] + 1
      BY <2>1, <2>2, <2>3, <2>5 DEF Whole
    <3>2. carried'[f] = x + 1
      BY <2>1, <2>5 DEF TypeOK
    <3>3. 1 \in Int
      OBVIOUS
    <3> HIDE DEF p, q, x
    <3>4. SumWithin(q, x + 1)
      BY <1>0, <1>0a, <2>2, <2>4, <3>1, <3>3, SumOfMore
    <3> QED BY <3>2, <3>4 DEF q, CoveredWhole
  <2>6. CASE ~(sock[j].remote /\ sock[j].feeder = f)
    <3>1. q[j] = p[j]
      BY <2>2, <2>3, <2>6 DEF Whole
    <3>2. carried'[f] = x
      BY <2>1, <2>6 DEF TypeOK
    <3> HIDE DEF p, q, x
    <3>3. \A i \in Inodes : q[i] <= p[i]
      BY <1>0, <2>4, <3>1
    <3>4. SumWithin(q, x)
      BY <1>0, <1>0a, <3>3, SumOfLess
    <3> QED BY <3>2, <3>4 DEF q, CoveredWhole
  <2> QED BY <2>5, <2>6
<1>3. CASE Close
  <2>1. alive' \subseteq alive /\ UNCHANGED <<sock, carried>>
    BY <1>3 DEF Close
  <2>2. ASSUME NEW i \in Inodes
        PROVE  q[i] <= p[i]
    <3>1. sock[i].bytes \in Nat
      BY DEF TypeOK, Sockets
    <3> QED BY <2>1, <3>1 DEF Whole
  <2>3. carried'[f] = x
    BY <2>1
  <2> HIDE DEF p, q, x
  <2>4. SumWithin(q, x)
    BY <1>0, <1>0a, <2>2, SumOfLess
  <2> QED BY <2>3, <2>4 DEF q, CoveredWhole
<1>4. CASE Dump \/ Attribute \/ Fold \/ Prune \/ Restart \/ UNCHANGED vars
  <2>1. UNCHANGED kernel
    BY <1>4 DEF Dump, Attribute, Fold, Prune, Restart, vars
  <2>2. Whole(f)' = Whole(f) /\ carried'[f] = carried[f]
    BY <2>1 DEF kernel, Whole
  <2> QED BY <2>2 DEF CoveredWhole
<1> QED BY <1>1, <1>2, <1>3, <1>4 DEF Next

\* Every step keeps what is pending within the bound.
LEMMA MeterStep ==
    ASSUME LagInv, LagInv', MeterInv, [Next]_vars
    PROVE  MeterInv'
<1>1. KeysRight'
  BY KeysStep DEF MeterInv
<1>2. ASSUME NEW f \in Feeders
      PROVE  Covered(f)' /\ CoveredWhole(f)'
  <2>0. Covered(f) /\ CoveredWhole(f) /\ KeysRight
    BY DEF MeterInv
  <2>1. ASSUME Open PROVE Covered(f)'
    BY <2>0, <2>1, CoveredOpen
  <2>2. ASSUME Transfer PROVE Covered(f)'
    BY <2>0, <2>2, CoveredTransfer
  <2>3. ASSUME Fold PROVE Covered(f)'
    BY <2>0, <2>3, CoveredFold
  <2>4. ASSUME Close \/ Dump \/ Attribute \/ Prune \/ UNCHANGED vars PROVE Covered(f)'
    BY <2>0, <2>4, CoveredOther
  <2>5. ASSUME Restart PROVE Covered(f)'
    BY <2>0, <2>5, CoveredRestart
  <2>6. CoveredWhole(f)'
    BY <2>0, WholeStep DEF LagInv
  <2> QED BY <2>1, <2>2, <2>3, <2>4, <2>5, <2>6 DEF Next
<1> QED BY <1>1, <1>2 DEF MeterInv

\* The meter starts at nothing.
LEMMA MeterStarts == Init => Meter!Init
  BY DEF Init, Meter!Init

\* No total exceeds what its feeder carried.
LEMMA MeterBound == LagInv /\ MeterInv => \A f \in Feeders : totals[f] <= carried[f]
  BY CoveredBounds DEF MeterInv

\* Traffic of a remote socket is a Carry of the meter, a turn of the loop that
\* adds to a total is a Report, a restart is a Reset, and every other step leaves
\* the meter alone.
LEMMA MeterSimulates ==
    ASSUME LagInv, LagInv', MeterInv, MeterInv', [Next]_vars
    PROVE  [Meter!Carry \/ Meter!Report \/ Meter!Reset]_<<carried, totals>>
<1>0. TypeOK /\ KeysRight
  BY DEF LagInv, MeterInv
<1>0a. carried' \in [Feeders -> Nat] /\ totals' \in [Feeders -> Nat]
       /\ carried \in [Feeders -> Nat] /\ totals \in [Feeders -> Nat]
  BY DEF LagInv, TypeOK
<1>1. CASE Transfer
  <2>1. ASSUME NEW f \in Feeders
        PROVE  carried[f] <= carried'[f]
    BY <1>0, <1>0a, <1>1 DEF Transfer, TypeOK
  <2>2. UNCHANGED totals
    BY <1>1 DEF Transfer
  <2> QED BY <1>0a, <2>1, <2>2 DEF Meter!Carry
<1>2. CASE Fold
  <2>1. ASSUME NEW f \in Feeders
        PROVE  totals[f] <= totals'[f]
    <3>1. Covered(f)
      BY DEF MeterInv
    <3> QED BY <1>0, <1>2, <3>1, CoveredFold
  <2>2. UNCHANGED carried
    BY <1>2 DEF Fold, kernel
  <2>3. (LagInv /\ MeterInv => \A f \in Feeders : totals[f] <= carried[f])'
    BY MeterBound, PTL
  <2>4. \A f \in Feeders : totals'[f] <= carried[f]
    BY <2>2, <2>3
  <2> QED BY <1>0a, <2>1, <2>2, <2>4 DEF Meter!Report
<1>3. CASE Open \/ Close \/ Dump \/ Attribute \/ Prune \/ UNCHANGED vars
  <2>1. UNCHANGED <<carried, totals>>
    BY <1>3 DEF Open, Close, Dump, Attribute, Prune, vars, kernel
  <2> QED BY <2>1
<1>4. CASE Restart
  BY <1>4 DEF Restart, kernel, Meter!Reset
<1> QED BY <1>1, <1>2, <1>3, <1>4 DEF Next

\* The accumulator implements ByteMeter, as long as the families' dumps fail
\* together: what it reports for a feeder goes down only with a restart, and
\* never exceeds what the feeder's remote sockets have really carried, whatever
\* sockets open, close and carry during an update, and whatever /proc does not
\* show.
THEOREM MeterRefined == ~PartialDumps => (Spec => MeterSpec)
<1> SUFFICES ASSUME ~PartialDumps PROVE Spec => MeterSpec
  OBVIOUS
<1>1. Init => LagInv /\ MeterInv
  BY LagInit, MeterInit
<1>2. (LagInv /\ MeterInv) /\ [Next]_vars => (LagInv /\ MeterInv)'
  <2>1. LagInv /\ [Next]_vars => LagInv'
    BY LagStep
  <2> QED BY <2>1, MeterStep
<1>3. Init => Meter!Init
  BY MeterStarts
<1>4. (LagInv /\ MeterInv) /\ (LagInv /\ MeterInv)' /\ [Next]_vars
        => [Meter!Carry \/ Meter!Report \/ Meter!Reset]_<<carried, totals>>
  BY MeterSimulates
<1> QED BY <1>1, <1>2, <1>3, <1>4, PTL DEF Spec, MeterSpec, Meter!Spec

=============================================================================

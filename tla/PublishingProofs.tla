-------------------------- MODULE PublishingProofs --------------------------
(***************************************************************************)
(* What holds of Discovery and Publishing for any feeders, any options and *)
(* whatever the sources answer.                                            *)
(***************************************************************************)
EXTENDS Publishing, FiniteSetTheorems, SequenceTheorems, TLAPS

-----------------------------------------------------------------------------
(* The plan of a run: every publish is what the options want of its topic, *)
(* and no topic that it has to reach is missing.                           *)

\* A publish of a run, and of one that is as the options want it.
Publishes == Topics \X Payloads
Right(o) == {p \in Publishes : p[2] = Wanted(o, p[1])}

Reaches(plan, t) == \E k \in 1 .. Len(plan) : plan[k][1] = t

\* SetToSeq enumerates every element of a finite set.
LEMMA Enumerates ==
    ASSUME NEW S, IsFiniteSet(S)
    PROVE  /\ SetToSeq(S) \in Seq(S)
           /\ \A x \in S : \E k \in 1 .. Len(SetToSeq(S)) : SetToSeq(S)[k] = x
<1>. DEFINE n == Cardinality(S)
            f == SetToSeq(S)
<1>1. n \in Nat /\ ExistsBijection(1 .. n, S)
  BY FS_CardinalityType
<1>2. \E g \in [1 .. n -> S] : IsInjective(g)
  BY <1>1 DEF ExistsBijection, Bijection, Injection
<1>3. f \in [1 .. n -> S] /\ IsInjective(f)
  BY <1>2 DEF SetToSeq
<1>4. f \in Injection(1 .. n, S)
  BY <1>3 DEF Injection
<1>5. IsFiniteSet(1 .. n) /\ Cardinality(1 .. n) = n
  BY <1>1, FS_Interval
<1>6. f \in Surjection(1 .. n, S)
  BY <1>4, <1>5, FS_Injection
<1>7. f \in Seq(S) /\ Len(f) = n
  BY <1>1, <1>3
<1>. QED
  BY <1>6, <1>7 DEF Surjection

LEMMA ConcatReaches ==
    ASSUME NEW S, NEW p \in Seq(S), NEW q \in Seq(S), NEW t,
           Reaches(p, t) \/ Reaches(q, t)
    PROVE  Reaches(p \o q, t)
<1>1. CASE Reaches(p, t)
  <2>1. PICK k \in 1 .. Len(p) : p[k][1] = t
    BY <1>1 DEF Reaches
  <2>2. k \in 1 .. Len(p \o q) /\ (p \o q)[k] = p[k]
    BY <2>1, ConcatProperties, LenProperties
  <2>. QED
    BY <2>1, <2>2 DEF Reaches
<1>2. CASE Reaches(q, t)
  <2>1. PICK k \in 1 .. Len(q) : q[k][1] = t
    BY <1>2 DEF Reaches
  <2>2. /\ Len(p) + k \in 1 .. Len(p \o q)
        /\ (p \o q)[Len(p) + k] = q[k]
    BY <2>1, ConcatProperties, LenProperties
  <2>. QED
    BY <2>1, <2>2 DEF Reaches
<1>. QED
  BY <1>1, <1>2

\* A feeder's config is what is wanted of it.
LEMMA FeederConfigRight ==
    ASSUME NEW o \in OptionRecords, NEW f \in o.enabled
    PROVE  FeederConfig(o, f) \in Right(o)
<1>1. f \in Feeders /\ f \notin MainTopics
  BY FeedersAssumption DEF OptionRecords
<1>2. Wanted(o, f) = IF o.health THEN "nested" ELSE "alone"
  BY <1>1 DEF Wanted
<1>. QED
  BY <1>1, <1>2 DEF FeederConfig, Right, Publishes, Topics, Payloads

\* Nothing is wanted of a feeder that is switched off.
LEMMA RetractionRight ==
    ASSUME NEW o \in OptionRecords, NEW f \in Stale(o)
    PROVE  <<f, "none">> \in Right(o)
<1>1. f \in Feeders /\ f \notin MainTopics /\ f \notin o.enabled
  BY FeedersAssumption DEF Stale
<1>2. Wanted(o, f) = "none"
  BY <1>1 DEF Wanted
<1>. QED
  BY <1>1, <1>2 DEF Right, Publishes, Topics, Payloads

LEMMA FeederPlanRight ==
    ASSUME NEW o \in OptionRecords
    PROVE  /\ FeederPlan(o) \in Seq(Right(o))
           /\ \A f \in Feeders : Reaches(FeederPlan(o), f)
<1>. DEFINE here == SetToSeq(o.enabled)
            gone == SetToSeq(Stale(o))
            configs == [k \in 1 .. Len(here) |-> FeederConfig(o, here[k])]
            retractions == [k \in 1 .. Len(gone) |-> <<gone[k], "none">>]
<1>1. o.enabled \subseteq Feeders
  BY DEF OptionRecords
<1>2. IsFiniteSet(o.enabled) /\ IsFiniteSet(Stale(o))
  BY <1>1, FeedersAssumption, FS_Subset DEF Stale
<1>3. /\ here \in Seq(o.enabled)
      /\ \A x \in o.enabled : \E k \in 1 .. Len(here) : here[k] = x
  BY <1>2, Enumerates
<1>4. /\ gone \in Seq(Stale(o))
      /\ \A x \in Stale(o) : \E k \in 1 .. Len(gone) : gone[k] = x
  BY <1>2, Enumerates
<1>5. /\ configs \in Seq(Right(o)) /\ Len(configs) = Len(here)
      /\ \A k \in 1 .. Len(here) : configs[k] = FeederConfig(o, here[k])
  <2>1. Len(here) \in Nat /\ \A k \in 1 .. Len(here) : here[k] \in o.enabled
    BY <1>3, LenProperties, ElementOfSeq
  <2>2. \A k \in 1 .. Len(here) : FeederConfig(o, here[k]) \in Right(o)
    BY <2>1, FeederConfigRight
  <2>. HIDE DEF here
  <2>. QED
    BY <2>1, <2>2
<1>6. /\ retractions \in Seq(Right(o)) /\ Len(retractions) = Len(gone)
      /\ \A k \in 1 .. Len(gone) : retractions[k] = <<gone[k], "none">>
  <2>1. Len(gone) \in Nat /\ \A k \in 1 .. Len(gone) : gone[k] \in Stale(o)
    BY <1>4, LenProperties, ElementOfSeq
  <2>2. \A k \in 1 .. Len(gone) : <<gone[k], "none">> \in Right(o)
    BY <2>1, RetractionRight
  <2>. HIDE DEF gone
  <2>. QED
    BY <2>1, <2>2
<1>7. FeederPlan(o) = configs \o retractions
  BY DEF FeederPlan
<1>8. ASSUME NEW f \in Feeders PROVE Reaches(configs, f) \/ Reaches(retractions, f)
  <2>1. CASE f \in o.enabled
    <3>1. PICK k \in 1 .. Len(here) : here[k] = f
      BY <1>3, <2>1
    <3>2. configs[k][1] = f
      BY <1>5, <3>1 DEF FeederConfig
    <3>. QED
      BY <1>5, <3>1, <3>2 DEF Reaches
  <2>2. CASE f \notin o.enabled
    <3>1. PICK k \in 1 .. Len(gone) : gone[k] = f
      BY <1>4, <2>2 DEF Stale
    <3>2. retractions[k][1] = f
      BY <1>6, <3>1
    <3>. QED
      BY <1>6, <3>1, <3>2 DEF Reaches
  <2>. QED
    BY <2>1, <2>2
<1>. HIDE DEF configs, retractions
<1>. QED
  BY <1>5, <1>6, <1>7, <1>8, ConcatProperties, ConcatReaches

\* A main topic's publish, real config or empty, is what is wanted of it.
LEMMA MainRight ==
    ASSUME NEW o \in OptionRecords
    PROVE  /\ Toggled("health", o.health) \in Right(o)
           /\ Toggled("nearby", o.nearby) \in Right(o)
           /\ Toggled("sdr", SdrOn(o)) \in Right(o)
           /\ Toggled("unique", o.unique) \in Right(o)
           /\ Toggled("emergency", o.emergency) \in Right(o)
           /\ Toggled("uat", UatOn(o)) \in Right(o)
           /\ Toggled("messages", o.messages) \in Right(o)
           /\ Toggled("broker", o.health) \in Right(o)
<1>1. \A t \in MainTopics : Toggled(t, Asked(o, t)) \in Right(o)
  <2>. TAKE t \in MainTopics
  <2>1. Wanted(o, t) = IF Asked(o, t) THEN "live" ELSE "none"
    BY FeedersAssumption DEF Wanted
  <2>2. Wanted(o, t) \in Payloads /\ t \in Topics
    BY <2>1 DEF Payloads, Topics
  <2>. QED
    BY <2>1, <2>2 DEF Toggled, Right, Publishes
<1>2. /\ Asked(o, "health") = o.health /\ Asked(o, "broker") = o.health
      /\ Asked(o, "nearby") = o.nearby /\ Asked(o, "unique") = o.unique
      /\ Asked(o, "emergency") = o.emergency /\ Asked(o, "messages") = o.messages
  BY DEF Asked, OptionRecords
<1>3. Asked(o, "sdr") = SdrOn(o) /\ Asked(o, "uat") = UatOn(o)
  BY DEF Asked, SdrOn, UatOn, OptionRecords
<1>4. /\ Toggled("health", Asked(o, "health")) \in Right(o)
      /\ Toggled("nearby", Asked(o, "nearby")) \in Right(o)
      /\ Toggled("sdr", Asked(o, "sdr")) \in Right(o)
      /\ Toggled("unique", Asked(o, "unique")) \in Right(o)
      /\ Toggled("emergency", Asked(o, "emergency")) \in Right(o)
      /\ Toggled("uat", Asked(o, "uat")) \in Right(o)
      /\ Toggled("messages", Asked(o, "messages")) \in Right(o)
      /\ Toggled("broker", Asked(o, "broker")) \in Right(o)
  BY <1>1 DEF MainTopics
<1>. QED
  BY <1>2, <1>3, <1>4, Zenon

LEMMA PlanRight ==
    ASSUME NEW o \in Options
    PROVE  /\ Plan[o] \in Seq(Right(o))
           /\ \A t \in MainTopics : Reaches(Plan[o], t)
           /\ o.status => \A f \in Feeders : Reaches(Plan[o], f)
<1>. DEFINE first == <<Toggled("health", o.health), Toggled("nearby", o.nearby)>>
            middle == IF o.status THEN FeederPlan(o) ELSE <<>>
            last == <<Toggled("sdr", SdrOn(o)), Toggled("unique", o.unique),
                      Toggled("emergency", o.emergency), Toggled("uat", UatOn(o)),
                      Toggled("messages", o.messages), Toggled("broker", o.health)>>
<1>1. o \in OptionRecords
  BY OptionsAssumption
<1>2. Plan[o] = (first \o middle) \o last
  BY DEF Plan
<1>3. /\ first \in Seq(Right(o))
      /\ Reaches(first, "health") /\ Reaches(first, "nearby")
  <2>1. first \in Seq(Right(o)) /\ Len(first) = 2
    BY <1>1, MainRight
  <2>2. first[1][1] = "health" /\ first[2][1] = "nearby"
    BY DEF Toggled
  <2>. QED
    BY <2>1, <2>2 DEF Reaches
<1>4. /\ middle \in Seq(Right(o))
      /\ o.status => \A f \in Feeders : Reaches(middle, f)
  BY <1>1, FeederPlanRight, EmptySeq
<1>5. /\ last \in Seq(Right(o))
      /\ \A t \in {"sdr", "unique", "emergency", "uat", "messages", "broker"} :
            Reaches(last, t)
  <2>1. last \in Seq(Right(o)) /\ Len(last) = 6
    BY <1>1, MainRight
  <2>2. /\ last[1][1] = "sdr" /\ last[2][1] = "unique"
        /\ last[3][1] = "emergency" /\ last[4][1] = "uat"
        /\ last[5][1] = "messages" /\ last[6][1] = "broker"
    BY DEF Toggled
  <2>. HIDE DEF last
  <2>. QED
    BY <2>1, <2>2 DEF Reaches
<1>. HIDE DEF first, middle, last
<1>6. first \o middle \in Seq(Right(o))
  BY <1>3, <1>4, ConcatProperties
<1>7. \A t : Reaches(first, t) \/ Reaches(middle, t) \/ Reaches(last, t)
                => Reaches(Plan[o], t)
  BY <1>2, <1>3, <1>4, <1>5, <1>6, ConcatReaches
<1>. QED
  BY <1>2, <1>3, <1>4, <1>5, <1>6, <1>7, ConcatProperties DEF MainTopics

\* The same, publish by publish.
LEMMA EachPublish ==
    ASSUME NEW o \in Options
    PROVE  /\ Len(Plan[o]) \in Nat
           /\ \A k \in 1 .. Len(Plan[o]) :
                /\ Plan[o][k][1] \in Topics
                /\ Plan[o][k][2] = Wanted(o, Plan[o][k][1])
                /\ Plan[o][k][2] \in Payloads
<1>1. Plan[o] \in Seq(Right(o))
  BY PlanRight
<1>2. \A k \in 1 .. Len(Plan[o]) : Plan[o][k] \in Right(o)
  BY <1>1, ElementOfSeq
<1>3. Len(Plan[o]) \in Nat
  BY <1>1, LenProperties
<1>4. ASSUME NEW k \in 1 .. Len(Plan[o])
      PROVE  /\ Plan[o][k][1] \in Topics
             /\ Plan[o][k][2] = Wanted(o, Plan[o][k][1])
             /\ Plan[o][k][2] \in Payloads
  <2>1. Plan[o][k] \in Right(o)
    BY <1>2
  <2>. QED
    BY <2>1 DEF Right, Publishes
<1>. QED
  BY <1>3, <1>4

-----------------------------------------------------------------------------
(* The retained configs: a run writes what is wanted, topic by topic, so   *)
(* that all it has passed is mended, whoever interrupts it.                *)

\* The topics of the plan's first `n` publishes hold what is wanted.
Mended(n) ==
    \A k \in 1 .. n :
        retained[Plan[opts][k][1]] = Wanted(opts, Plan[opts][k][1])

\* A run is only under way while one is owed; what it has published is
\* mended, and so is everything once nothing is owed.
RunsMend ==
    /\ next > 0 => need /\ Mended(next - 1)
    /\ Settled => Mended(Len(Plan[opts]))

DiscoveryInv == TypeOK /\ RunsMend

LEMMA DiscoveryInit == Init => DiscoveryInv
<1>. SUFFICES ASSUME Init PROVE DiscoveryInv
  OBVIOUS
<1>1. Len(Plan[opts]) \in Nat
  BY EachPublish DEF Init
<1>2. 0 \in 0 .. Len(Plan[opts]) + 1 /\ ~(0 > 0)
  BY <1>1
<1>3. retained \in [Topics -> Payloads]
  BY DEF Init, Payloads
<1>4. TypeOK
  BY <1>2, <1>3, Zenon DEF Init, TypeOK
<1>. QED
  BY <1>2, <1>4, Zenon DEF DiscoveryInv, RunsMend, Init, Settled

\* What a step can leave of a topic: its value, nothing, or what is wanted.
LEMMA PublishWrites ==
    ASSUME DiscoveryInv, NEW k \in 1 .. Len(Plan[opts])
    PROVE  LET p == Plan[opts][k]
           IN  /\ With(p) \in [Topics -> Payloads]
               /\ With(p)[p[1]] = Wanted(opts, p[1])
               /\ \A t \in Topics : With(p)[t] \in {retained[t], Wanted(opts, t)}
<1>. DEFINE p == Plan[opts][k]
<1>1. opts \in Options /\ retained \in [Topics -> Payloads]
  BY DEF DiscoveryInv, TypeOK
<1>2. p[1] \in Topics /\ p[2] = Wanted(opts, p[1]) /\ p[2] \in Payloads
  BY <1>1, EachPublish
<1>. HIDE DEF p
<1>3. /\ With(p) \in [Topics -> Payloads]
      /\ With(p)[p[1]] = Wanted(opts, p[1])
      /\ \A t \in Topics : With(p)[t] \in {retained[t], Wanted(opts, t)}
  BY <1>1, <1>2 DEF With
<1>. QED
  BY <1>3 DEF p

LEMMA InFlightWrites ==
    ASSUME DiscoveryInv, NEW r \in InFlight
    PROVE  /\ r \in [Topics -> Payloads]
           /\ \A t \in Topics : r[t] \in {retained[t], Wanted(opts, t)}
<1>1. retained \in [Topics -> Payloads]
  BY DEF DiscoveryInv, TypeOK
<1>2. CASE r = retained
  BY <1>1, <1>2
<1>3. CASE next \in 1 .. Len(Plan[opts]) /\ r = With(Plan[opts][next])
  BY <1>3, PublishWrites
<1>. QED
  BY <1>2, <1>3 DEF InFlight

LEMMA DiscoveryStepTyped ==
    ASSUME DiscoveryInv, [Next]_vars
    PROVE  TypeOK'
<1>. USE DEF TypeOK
<1>1. /\ opts \in Options /\ next \in 0 .. Len(Plan[opts]) + 1
      /\ session \in {"none", "down", "up"} /\ need \in BOOLEAN
      /\ retained \in [Topics -> Payloads]
      /\ next > 0 => session = "up"
  BY DEF DiscoveryInv
<1>2. /\ \A o \in Options : Len(Plan[o]) \in Nat
      /\ \A o \in Options : 0 \in 0 .. Len(Plan[o]) + 1
      /\ ~(0 > 0)
  BY EachPublish
<1>3. CASE Start
  BY <1>1, <1>2, <1>3 DEF Start
<1>4. CASE Connect
  BY <1>1, <1>2, <1>4 DEF Connect
<1>5. CASE Begin
  BY <1>1, <1>2, <1>5 DEF Begin
<1>6. CASE Publish
  <2>1. next \in 1 .. Len(Plan[opts]) /\ retained' = With(Plan[opts][next])
    BY <1>6 DEF Publish
  <2>2. retained' \in [Topics -> Payloads]
    BY <2>1, PublishWrites
  <2>. QED
    BY <1>1, <1>2, <1>6, <2>1, <2>2 DEF Publish
<1>7. CASE Done
  BY <1>1, <1>2, <1>7, Zenon DEF Done
<1>8. CASE SessionLost
  <2>1. retained' \in [Topics -> Payloads]
    BY <1>8, InFlightWrites DEF SessionLost
  <2>. QED
    BY <1>1, <1>2, <1>8, <2>1, Zenon DEF SessionLost
<1>9. CASE Stop
  <2>1. retained' \in [Topics -> Payloads]
    BY <1>9, InFlightWrites DEF Stop
  <2>. QED
    BY <1>1, <1>2, <1>9, <2>1, Zenon DEF Stop
<1>10. CASE Birth
  BY <1>1, <1>2, <1>10 DEF Birth
<1>11. CASE BrokerRestarts
  BY <1>1, <1>2, <1>11 DEF BrokerRestarts, Payloads
<1>12. CASE UNCHANGED vars
  BY <1>1, <1>12 DEF vars
<1>. QED
  BY <1>3, <1>4, <1>5, <1>6, <1>7, <1>8, <1>9, <1>10, <1>11, <1>12 DEF Next

LEMMA DiscoveryStepMends ==
    ASSUME DiscoveryInv, [Next]_vars
    PROVE  RunsMend'
<1>. USE DEF RunsMend, Settled
<1>1. /\ opts \in Options /\ next \in 0 .. Len(Plan[opts]) + 1
      /\ Len(Plan[opts]) \in Nat
      /\ next > 0 => session = "up"
      /\ next > 0 => need /\ Mended(next - 1)
      /\ Settled => Mended(Len(Plan[opts]))
  BY EachPublish DEF DiscoveryInv, TypeOK
<1>2. CASE Start
  BY <1>1, <1>2 DEF Start
<1>3. CASE Connect
  BY <1>1, <1>3 DEF Connect, Mended
<1>4. CASE Begin
  BY <1>1, <1>4 DEF Begin, Mended
<1>5. CASE Publish
  <2>1. /\ next \in 1 .. Len(Plan[opts]) /\ next' = next + 1 /\ opts' = opts
        /\ retained' = With(Plan[opts][next]) /\ need' = need /\ need
    BY <1>1, <1>5 DEF Publish
  <2>2. ASSUME NEW k \in 1 .. next
        PROVE  retained'[Plan[opts][k][1]] = Wanted(opts, Plan[opts][k][1])
    <3>1. k \in 1 .. Len(Plan[opts])
      BY <1>1, <2>1
    <3>2. Plan[opts][k][1] \in Topics
      BY <1>1, <3>1, EachPublish
    <3>3. CASE k = next
      BY <2>1, <3>3, PublishWrites
    <3>4. CASE k \in 1 .. next - 1
      <4>1. retained[Plan[opts][k][1]] = Wanted(opts, Plan[opts][k][1])
        BY <1>1, <2>1, <3>4 DEF Mended
      <4>. QED
        BY <2>1, <3>2, <4>1, PublishWrites
    <3>. QED
      BY <2>1, <3>3, <3>4
  <2>3. Mended(next - 1)'
    <3>1. next \in Int /\ (next + 1) - 1 = next
      BY <1>1, <2>1
    <3>. QED
      BY <2>1, <2>2, <3>1, Zenon DEF Mended
  <2>. QED
    BY <2>1, <2>3 DEF Mended
<1>6. CASE Done
  <2>1. /\ next = Len(Plan[opts]) + 1 /\ next' = 0
        /\ UNCHANGED <<opts, session, retained>>
    BY <1>6 DEF Done
  <2>2. Mended(Len(Plan[opts]))
    BY <1>1, <2>1
  <2>. QED
    BY <2>1, <2>2 DEF Mended
<1>7. CASE SessionLost
  BY <1>7 DEF SessionLost
<1>8. CASE Stop
  BY <1>8 DEF Stop
<1>9. CASE Birth
  BY <1>1, <1>9 DEF Birth, Mended
<1>10. CASE BrokerRestarts
  BY <1>10 DEF BrokerRestarts
<1>11. CASE UNCHANGED vars
  BY <1>1, <1>11 DEF vars, Mended
<1>. QED
  BY <1>2, <1>3, <1>4, <1>5, <1>6, <1>7, <1>8, <1>9, <1>10, <1>11 DEF Next

LEMMA DiscoveryInductive == Spec => []DiscoveryInv
<1>1. DiscoveryInv /\ [Next]_vars => DiscoveryInv'
  BY DiscoveryStepTyped, DiscoveryStepMends DEF DiscoveryInv
<1>. QED
  BY DiscoveryInit, <1>1, PTL DEF Spec

-----------------------------------------------------------------------------
(* The states of a cycle.                                                  *)

ConfigOf(g) == IF g = "nearest" THEN "nearby" ELSE g

\* A main state is published only where the options ask for its entity, and
\* always where they do and its sources answer.
LEMMA MainStatesMatch ==
    ASSUME NEW o \in OptionRecords, NEW a, NEW g \in MainGroups
    PROVE  /\ g \in MainStates(o, a) => Asked(o, ConfigOf(g))
           /\ /\ Asked(o, ConfigOf(g))
              /\ \A s \in Needs[g] : <<"main", s>> \in a
              /\ g = "sdr" => HasSdr(o)
              => g \in MainStates(o, a)
<1>. USE DEF MainStates, Asked, ConfigOf, Needs, SdrOn, UatOn, OptionRecords
<1>1. CASE g = "health"
  BY <1>1
<1>2. CASE g = "sdr"
  BY <1>2
<1>3. CASE g = "uat"
  BY <1>3
<1>4. CASE g = "messages"
  BY <1>4
<1>5. CASE g = "broker"
  BY <1>5
<1>6. CASE g = "nearby"
  BY <1>6
<1>7. CASE g = "nearest"
  BY <1>7
<1>8. CASE g = "emergency"
  BY <1>8
<1>9. CASE g = "unique"
  BY <1>9
<1>. QED
  BY <1>1, <1>2, <1>3, <1>4, <1>5, <1>6, <1>7, <1>8, <1>9 DEF MainGroups, MainTopics

\* The same for a feeder's states and the groups that apply to it.
LEMMA FeederStatesMatch ==
    ASSUME NEW f \in Feeders, NEW a, NEW g \in FeederGroups
    PROVE  /\ g \in FeederStates(f, a) => Applies(g, f)
           /\ /\ Applies(g, f)
              /\ \A s \in FeederNeeds[g] : <<f, s>> \in a
              /\ g \in {"bytes_rate", "messages_rate"} => f \in counted
              => g \in FeederStates(f, a)
<1>. USE DEF FeederStates, Applies, FeederNeeds, MlatSynced
<1>1. CASE g = "connection"
  BY <1>1
<1>10. CASE g = "uptime"
  BY <1>10
<1>2. CASE g = "bytes"
  BY <1>2
<1>3. CASE g = "bytes_rate"
  BY <1>3
<1>4. CASE g = "messages"
  BY <1>4
<1>5. CASE g = "messages_rate"
  BY <1>5
<1>6. CASE g = "portal_aircraft"
  BY <1>6
<1>7. CASE g = "portal_rate"
  BY <1>7
<1>8. CASE g \in {"mlat_sync", "mlat_result"}
  BY <1>8
<1>9. CASE g = "report_binary"
  BY <1>9
<1>. QED
  BY <1>1, <1>2, <1>3, <1>4, <1>5, <1>6, <1>7, <1>8, <1>9, <1>10 DEF FeederGroups

\* Once nothing is owed, the broker holds what the options want.
LEMMA SettledIsWanted ==
    ASSUME DiscoveryInv, Settled
    PROVE  /\ opts \in OptionRecords
           /\ \A t \in MainTopics : retained[t] = Wanted(opts, t)
           /\ opts.status => \A f \in Feeders : retained[f] = Wanted(opts, f)
<1>1. opts \in Options /\ Mended(Len(Plan[opts]))
  BY DEF DiscoveryInv, TypeOK, RunsMend
<1>2. \A t : Reaches(Plan[opts], t) => retained[t] = Wanted(opts, t)
  BY <1>1 DEF Mended, Reaches
<1>. QED
  BY <1>1, <1>2, PlanRight, OptionsAssumption

LEMMA MainAdvertised ==
    ASSUME DiscoveryInv, Settled, NEW g \in MainGroups
    PROVE  <<"main", g>> \in Advertised <=> Asked(opts, ConfigOf(g))
<1>1. ConfigOf(g) \in MainTopics
  BY DEF ConfigOf, MainGroups, MainTopics
<1>2. retained[ConfigOf(g)] = IF Asked(opts, ConfigOf(g)) THEN "live" ELSE "none"
  BY <1>1, SettledIsWanted, FeedersAssumption DEF Wanted
<1>3. <<"main", g>> \in Advertised <=> retained[ConfigOf(g)] = "live"
  BY ClassesAssumption DEF Advertised, ConfigOf
<1>. QED
  BY <1>2, <1>3

LEMMA FeederAdvertised ==
    ASSUME DiscoveryInv, Settled, opts.status,
           NEW f \in Feeders, NEW g \in FeederGroups
    PROVE  <<f, g>> \in Advertised <=> f \in opts.enabled /\ Applies(g, f)
<1>1. retained[f] = Wanted(opts, f)
  BY SettledIsWanted
<1>2. retained[f] # "none" <=> f \in opts.enabled
  BY <1>1 DEF Wanted
<1>3. <<f, g>> \in Advertised <=> retained[f] # "none" /\ Applies(g, f)
  BY ClassesAssumption DEF Advertised
<1>. QED
  BY <1>2, <1>3

\* What a cycle publishes, and what it must.
LEMMA CycleAdvertised ==
    ASSUME DiscoveryInv, Cycle
    PROVE  published' \subseteq Advertised
<1>1. Settled /\ published' = States(opts, answered')
  BY DEF Cycle, Settled
<1>2. ASSUME NEW x \in States(opts, answered') PROVE x \in Advertised
  <2>1. CASE x \in {"main"} \X MainStates(opts, answered')
    <3>1. PICK g \in MainStates(opts, answered') : x = <<"main", g>>
      BY <2>1
    <3>2. g \in MainGroups
      BY <3>1 DEF MainStates
    <3>. QED
      BY <1>1, <3>1, <3>2, SettledIsWanted, MainStatesMatch, MainAdvertised
  <2>2. CASE opts.status /\ \E f \in opts.enabled : x \in {f} \X FeederStates(f, answered')
    <3>1. PICK f \in opts.enabled :
            \E g \in FeederStates(f, answered') : x = <<f, g>>
      BY <2>2
    <3>2. PICK g \in FeederStates(f, answered') : x = <<f, g>>
      BY <3>1
    <3>3. f \in Feeders
      BY <1>1, SettledIsWanted DEF OptionRecords
    <3>4. g \in FeederGroups
      BY <3>2 DEF FeederStates
    <3>5. Applies(g, f)
      BY <3>3, <3>4, FeederStatesMatch
    <3>. QED
      BY <1>1, <2>2, <3>2, <3>3, <3>4, <3>5, FeederAdvertised
  <2>. QED
    BY <1>2, <2>1, <2>2 DEF States
<1>. QED
  BY <1>1, <1>2

LEMMA CycleFeeds ==
    ASSUME DiscoveryInv, Cycle
    PROVE  /\ \A g \in MainGroups :
                /\ <<"main", g>> \in Advertised
                /\ \A s \in Needs[g] : <<"main", s>> \in answered'
                /\ g = "sdr" => HasSdr(opts)
                => <<"main", g>> \in published'
           /\ \A f \in Feeders, g \in FeederGroups :
                /\ opts.status /\ <<f, g>> \in Advertised
                /\ \A s \in FeederNeeds[g] : <<f, s>> \in answered'
                /\ g \in {"bytes_rate", "messages_rate"} => f \in counted
                => <<f, g>> \in published'
<1>1. Settled /\ published' = States(opts, answered')
  BY DEF Cycle, Settled
<1>2. ASSUME NEW g \in MainGroups, <<"main", g>> \in Advertised,
             \A s \in Needs[g] : <<"main", s>> \in answered',
             g = "sdr" => HasSdr(opts)
      PROVE  <<"main", g>> \in published'
  <2>1. Asked(opts, ConfigOf(g))
    BY <1>1, <1>2, MainAdvertised
  <2>2. g \in MainStates(opts, answered')
    BY <1>1, <1>2, <2>1, SettledIsWanted, MainStatesMatch
  <2>3. AnyGroup(opts)
    BY <2>1 DEF Asked, AnyGroup
  <2>. QED
    BY <1>1, <2>2, <2>3 DEF States
<1>3. ASSUME NEW f \in Feeders, NEW g \in FeederGroups,
             opts.status, <<f, g>> \in Advertised,
             \A s \in FeederNeeds[g] : <<f, s>> \in answered',
             g \in {"bytes_rate", "messages_rate"} => f \in counted
      PROVE  <<f, g>> \in published'
  <2>1. f \in opts.enabled /\ Applies(g, f)
    BY <1>1, <1>3, FeederAdvertised
  <2>2. g \in FeederStates(f, answered')
    BY <1>3, <2>1, FeederStatesMatch
  <2>3. <<f, g>> \in {f} \X FeederStates(f, answered')
    BY <2>2
  <2>. QED
    BY <1>1, <1>3, <2>1, <2>3 DEF States, AnyGroup
<1>. QED
  BY <1>2, <1>3, Zenon

\* The inductive invariant of the composition.
PublishingInv == DiscoveryInv /\ PublishedIsAdvertised

LEMMA CyclesStep ==
    ASSUME DiscoveryInv, PublishedIsAdvertised,
           [PublishingNext]_publishingVars
    PROVE  PublishedIsAdvertised'
<1>1. CASE DiscoveryStep
  BY <1>1 DEF DiscoveryStep, PublishedIsAdvertised
<1>2. CASE Cycle
  <2>1. published' \subseteq Advertised
    BY <1>2, CycleAdvertised
  <2>2. Advertised' = Advertised
    BY <1>2 DEF Cycle, vars, Advertised
  <2>. QED
    BY <2>1, <2>2 DEF PublishedIsAdvertised
<1>3. CASE UNCHANGED publishingVars
  <2>1. Advertised' = Advertised
    BY <1>3 DEF publishingVars, vars, Advertised
  <2>. QED
    BY <1>3, <2>1 DEF publishingVars, cycleVars, PublishedIsAdvertised
<1>. QED
  BY <1>1, <1>2, <1>3 DEF PublishingNext

LEMMA PublishingInductive == PublishingSpec => []PublishingInv
<1>1. PublishingInit => PublishingInv
  BY DiscoveryInit DEF PublishingInit, PublishingInv, PublishedIsAdvertised
<1>2. [PublishingNext]_publishingVars => [Next]_vars
  BY DEF PublishingNext, DiscoveryStep, Cycle, publishingVars
<1>3. PublishingInv /\ [PublishingNext]_publishingVars => PublishingInv'
  BY <1>2, DiscoveryStepTyped, DiscoveryStepMends, CyclesStep
  DEF PublishingInv, DiscoveryInv
<1>. QED
  BY <1>1, <1>3, PTL DEF PublishingSpec

-----------------------------------------------------------------------------
(* The theorems: what the runs of MCDiscovery show for five feeders and    *)
(* nine option sets, for all of them.                                      *)

\* Types of a run and of the broker's retained configs: no run, aborted and
\* started over anywhere, writes what is not a config or tears its plan.
THEOREM DiscoveryTyped == PublishingSpec => []TypeOK
<1>1. PublishingInv => TypeOK
  BY DEF PublishingInv, DiscoveryInv
<1>. QED
  BY PublishingInductive, <1>1, PTL

\* A completed run leaves the main device with exactly the entities that the
\* options ask for, whatever it found in the broker.
THEOREM MainAlwaysSettles == PublishingSpec => []MainSettles
<1>1. PublishingInv => MainSettles
  BY SettledIsWanted DEF PublishingInv, MainSettles
<1>. QED
  BY PublishingInductive, <1>1, PTL

\* The same for the feeder devices, retractions included.
THEOREM FeedersAlwaysSettle == PublishingSpec => []FeedersSettle
<1>1. PublishingInv => FeedersSettle
  BY SettledIsWanted DEF PublishingInv, FeedersSettle
<1>. QED
  BY PublishingInductive, <1>1, PTL

\* No step of a run disturbs an entity that is as the options want it.
THEOREM RunsNeverBlip == PublishingSpec => NoBlip
<1>. DEFINE A == \A t \in Topics :
                    opts' = opts /\ retained[t] = Wanted(opts, t)
                        => retained'[t] = retained[t] \/ BrokerRestarts
<1>1. ASSUME DiscoveryInv, [Next]_vars PROVE [A]_vars
  <2>1. CASE Publish
    <3>1. next \in 1 .. Len(Plan[opts]) /\ retained' = With(Plan[opts][next])
      BY <2>1 DEF Publish
    <3>. QED
      BY <1>1, <3>1, PublishWrites
  <2>2. CASE retained' \in InFlight
    BY <1>1, <2>2, InFlightWrites
  <2>3. CASE retained' = retained
    BY <2>3
  <2>4. CASE BrokerRestarts
    BY <2>4
  <2>. QED
    BY <1>1, <2>1, <2>2, <2>3, <2>4
    DEF Next, vars, Start, Connect, Begin, Done, SessionLost, Stop, Birth
<1>2. [PublishingNext]_publishingVars => [Next]_vars
  BY DEF PublishingNext, DiscoveryStep, Cycle, publishingVars
<1>3. PublishingInv => DiscoveryInv
  BY DEF PublishingInv
<1>4. PublishingInv /\ [PublishingNext]_publishingVars => [A]_vars
  BY <1>1, <1>2, <1>3
<1>. QED
  BY PublishingInductive, <1>4, PTL DEF PublishingSpec, NoBlip

\* Every state published has an entity to go to.
THEOREM PublishedAlwaysAdvertised == PublishingSpec => []PublishedIsAdvertised
<1>1. PublishingInv => PublishedIsAdvertised
  BY DEF PublishingInv
<1>. QED
  BY PublishingInductive, <1>1, PTL

\* Every entity gets its state, in each cycle in which its sources answer.
THEOREM AdvertisedAlwaysFed == PublishingSpec => AdvertisedIsFed
<1>1. PublishingInv => DiscoveryInv
  BY DEF PublishingInv
<1>. QED
  BY PublishingInductive, CycleFeeds, <1>1, PTL DEF PublishingSpec, AdvertisedIsFed

=============================================================================

--------------------------- MODULE SessionProofs ---------------------------
(***************************************************************************)
(* What holds of Session for every value of its timeouts, delays and       *)
(* counts.                                                                 *)
(***************************************************************************)
EXTENDS Session, TLAPS

\* The prover for facts about Boolean-valued variables is Zenon, for arithmetic
\* and sequences it is SMT; hence FlagsOK apart from the rest of TypeOK.
LEMMA FlagsStep == FlagsOK /\ [Next]_vars => FlagsOK'
<1>. SUFFICES ASSUME FlagsOK, [Next]_vars PROVE FlagsOK'
  OBVIOUS
<1>. USE DEF FlagsOK, control, watchdogs, discovery, broker, request
<1>1. CASE LoopTop
  BY <1>1, Zenon DEF LoopTop, Finish, AwaitAt, Proceed
<1>2. CASE ConnectOk
  BY <1>2, Zenon DEF ConnectOk, AwaitAt, OwedOnConnect
<1>3. CASE ConnectFail
  BY <1>3, Zenon DEF ConnectFail, CloseSocket, Proceed
<1>4. CASE Subscribe
  BY <1>4, Zenon DEF Subscribe, Send, AwaitAt, Acked
<1>5. CASE AnnounceOk
  BY <1>5, Zenon DEF AnnounceOk, Proceed
<1>6. CASE AnnounceFail
  BY <1>6, Zenon DEF AnnounceFail, AwaitAt, Send
<1>7. CASE CycleTop
  BY <1>7, Zenon DEF CycleTop, LeaveLoop, Proceed, AwaitAt, Greatest
<1>8. CASE ConfigAcked
  BY <1>8, Zenon DEF ConfigAcked, Send, AwaitAt, Greatest
<1>9. CASE DiscoveryDone
  BY <1>9, Zenon DEF DiscoveryDone, AwaitAt
<1>10. CASE Gathered
  BY <1>10, Zenon DEF Gathered, StateCounts, AwaitAt, Greatest
<1>11. CASE Unexpected
  BY <1>11, Zenon DEF Unexpected, LeaveLoop, Proceed, Greatest
<1>12. CASE StatePublished
  BY <1>12, Zenon DEF StatePublished, AwaitAt, Greatest
<1>13. CASE Heartbeat
  BY <1>13, Zenon DEF Heartbeat, LeaveLoop, Proceed, AwaitAt, Greatest
<1>14. CASE PublishFail
  BY <1>14, Zenon DEF PublishFail, LeaveLoop, Proceed, Greatest
<1>15. CASE IntervalOver
  BY <1>15, Zenon DEF IntervalOver, Proceed
<1>16. CASE Reap
  BY <1>16, Zenon DEF Reap, AwaitAt, Send, FarewellLeash
<1>17. CASE Farewell
  BY <1>17, Zenon DEF Farewell, AwaitAt, Send
<1>18. CASE Leave
  BY <1>18, Zenon DEF Leave, CloseSocket, Proceed, Finish, AwaitAt
<1>19. CASE Handler
  BY <1>19, Zenon DEF Handler, OutageAge, Finish, AwaitAt
<1>20. CASE BackoffOver
  BY <1>20, Zenon DEF BackoffOver, NextDelay, Least, Proceed
<1>21. CASE Exit
  BY <1>21, Zenon DEF Exit, Proceed
<1>22. CASE Tick
  BY <1>22, Zenon DEF Tick, Older, Never
<1>23. CASE Signal
  BY <1>23, Zenon DEF Signal
<1>24. CASE BirthHeard
  BY <1>24, Zenon DEF BirthHeard
<1>25. CASE BirthFails
  BY <1>25, Zenon DEF BirthFails
<1>26. CASE BrokerAccepts
  BY <1>26, Zenon DEF BrokerAccepts
<1>27. CASE BrokerReads
  BY <1>27, Zenon DEF BrokerReads
<1>28. CASE BrokerReaps
  BY <1>28, Zenon DEF BrokerReaps
<1>29. CASE ConnectionLost
  BY <1>29, Zenon DEF ConnectionLost
<1>30. CASE BrokerRestarts
  BY <1>30, Zenon DEF BrokerRestarts
<1>31. CASE LinkChanges
  BY <1>31, Zenon DEF LinkChanges
<1>32. CASE UNCHANGED vars
  BY <1>32, Zenon DEF vars
<1>. QED
  BY <1>1, <1>2, <1>3, <1>4, <1>5, <1>6, <1>7, <1>8, <1>9, <1>10, <1>11, <1>12, <1>13, <1>14, <1>15, <1>16, <1>17, <1>18, <1>19, <1>20, <1>21, <1>22, <1>23, <1>24, <1>25, <1>26, <1>27, <1>28, <1>29, <1>30, <1>31, <1>32
     DEF Next, Client, Environment

LEMMA TypeInit == Init => TypeOK
<1>1. Init => FlagsOK
  BY Zenon DEF Init, FlagsOK
<1>. QED
  BY <1>1, TimeoutAssumption, DelayAssumption, CountAssumption
     DEF TimeoutAssumption, DelayAssumption, CountAssumption,
         Init, TypeOK, Leashed, Interruptible, Instants, Greatest, Never

LEMMA TypeStep == TypeOK /\ [Next]_vars => TypeOK'
<1>. SUFFICES ASSUME TypeOK, [Next]_vars PROVE TypeOK'
  OBVIOUS
<1>0. FlagsOK'
  BY FlagsStep DEF TypeOK
<1>. USE <1>0, TimeoutAssumption, DelayAssumption, CountAssumption
     DEF TimeoutAssumption, DelayAssumption, CountAssumption, TypeOK, Never,
         control, watchdogs, discovery, broker, request,
         Leashed, Interruptible, Instants
<1>1. CASE LoopTop
  BY <1>1 DEF LoopTop, Finish, AwaitAt, Proceed
<1>2. CASE ConnectOk
  BY <1>2 DEF ConnectOk, AwaitAt, OwedOnConnect
<1>3. CASE ConnectFail
  BY <1>3 DEF ConnectFail, CloseSocket, Proceed
<1>4. CASE Subscribe
  BY <1>4 DEF Subscribe, Send, AwaitAt, Acked
<1>5. CASE AnnounceOk
  BY <1>5 DEF AnnounceOk, Proceed
<1>6. CASE AnnounceFail
  BY <1>6 DEF AnnounceFail, AwaitAt, Send
<1>7. CASE CycleTop
  BY <1>7 DEF CycleTop, LeaveLoop, Proceed, AwaitAt, Greatest
<1>8. CASE ConfigAcked
  BY <1>8 DEF ConfigAcked, Send, AwaitAt, Greatest
<1>9. CASE DiscoveryDone
  BY <1>9 DEF DiscoveryDone, AwaitAt
<1>10. CASE Gathered
  BY <1>10 DEF Gathered, StateCounts, AwaitAt, Greatest
<1>11. CASE Unexpected
  BY <1>11 DEF Unexpected, LeaveLoop, Proceed, Greatest
<1>12. CASE StatePublished
  BY <1>12 DEF StatePublished, AwaitAt, Greatest
<1>13. CASE Heartbeat
  BY <1>13 DEF Heartbeat, LeaveLoop, Proceed, AwaitAt, Greatest
<1>14. CASE PublishFail
  BY <1>14 DEF PublishFail, LeaveLoop, Proceed, Greatest
<1>15. CASE IntervalOver
  BY <1>15 DEF IntervalOver, Proceed
<1>16. CASE Reap
  BY <1>16, SMTT(30) DEF Reap, AwaitAt, Send, FarewellLeash
<1>17. CASE Farewell
  BY <1>17 DEF Farewell, AwaitAt, Send
<1>18. CASE Leave
  BY <1>18 DEF Leave, CloseSocket, Proceed, Finish, AwaitAt
<1>19. CASE Handler
  BY <1>19 DEF Handler, OutageAge, Finish, AwaitAt
<1>20. CASE BackoffOver
  BY <1>20 DEF BackoffOver, NextDelay, Least, Proceed
<1>21. CASE Exit
  BY <1>21 DEF Exit, Proceed
<1>22. CASE Tick
  BY <1>22 DEF Tick, Older, Never
<1>23. CASE Signal
  BY <1>23 DEF Signal
<1>24. CASE BirthHeard
  BY <1>24 DEF BirthHeard
<1>25. CASE BirthFails
  BY <1>25 DEF BirthFails
<1>26. CASE BrokerAccepts
  BY <1>26 DEF BrokerAccepts
<1>27. CASE BrokerReads
  BY <1>27 DEF BrokerReads
<1>28. CASE BrokerReaps
  BY <1>28 DEF BrokerReaps
<1>29. CASE ConnectionLost
  BY <1>29 DEF ConnectionLost
<1>30. CASE BrokerRestarts
  BY <1>30 DEF BrokerRestarts
<1>31. CASE LinkChanges
  BY <1>31 DEF LinkChanges
<1>32. CASE UNCHANGED vars
  BY <1>32 DEF vars
<1>. QED
  BY <1>1, <1>2, <1>3, <1>4, <1>5, <1>6, <1>7, <1>8, <1>9, <1>10, <1>11, <1>12, <1>13, <1>14, <1>15, <1>16, <1>17, <1>18, <1>19, <1>20, <1>21, <1>22, <1>23, <1>24, <1>25, <1>26, <1>27, <1>28, <1>29, <1>30, <1>31, <1>32
     DEF Next, Client, Environment

-----------------------------------------------------------------------------
\* Every reachable state is well typed.
THEOREM TypeInvariant == Spec => []TypeOK
<1>1. Init => TypeOK
  BY TypeInit
<1>2. TypeOK /\ [Next]_vars => TypeOK'
  BY TypeStep
<1>. QED
  BY <1>1, <1>2, PTL DEF Spec

-----------------------------------------------------------------------------
(* Exit 12 and ha_feeder_health.                                           *)

\* The inductive form: when the cycle's states are all out and ha_feeder_health
\* is on, one of them has been stamped since the cycle began.
StampedBeforeWatchdog ==
    /\ FeederHealthNeverStalls
    /\ feeder_health /\ pc = "states" /\ todo = 0 => ~stale

LEMMA StallStep ==
    TypeOK /\ StampedBeforeWatchdog /\ [Next]_vars => StampedBeforeWatchdog'
<1>. SUFFICES ASSUME TypeOK, StampedBeforeWatchdog, [Next]_vars
              PROVE  StampedBeforeWatchdog'
  OBVIOUS
<1>. USE CountAssumption
     DEF CountAssumption, TypeOK, FlagsOK, StampedBeforeWatchdog,
         FeederHealthNeverStalls, control, watchdogs, discovery, broker,
         request
<1>1. CASE LoopTop
  BY <1>1 DEF LoopTop, Finish, AwaitAt, Proceed
<1>2. CASE ConnectOk
  BY <1>2 DEF ConnectOk, AwaitAt, OwedOnConnect
<1>3. CASE ConnectFail
  BY <1>3 DEF ConnectFail, CloseSocket, Proceed
<1>4. CASE Subscribe
  BY <1>4 DEF Subscribe, Send, AwaitAt, Acked
<1>5. CASE AnnounceOk
  BY <1>5 DEF AnnounceOk, Proceed
<1>6. CASE AnnounceFail
  BY <1>6 DEF AnnounceFail, AwaitAt, Send
<1>7. CASE CycleTop
  BY <1>7 DEF CycleTop, LeaveLoop, Proceed, AwaitAt, Greatest
<1>8. CASE ConfigAcked
  BY <1>8 DEF ConfigAcked, Send, AwaitAt, Greatest
<1>9. CASE DiscoveryDone
  BY <1>9 DEF DiscoveryDone, AwaitAt
<1>10. CASE Gathered
  BY <1>10 DEF Gathered, StateCounts, AwaitAt, Greatest
<1>11. CASE Unexpected
  BY <1>11 DEF Unexpected, LeaveLoop, Proceed, Greatest
<1>12. CASE StatePublished
  BY <1>12 DEF StatePublished, AwaitAt, Greatest
<1>13. CASE Heartbeat
  BY <1>13 DEF Heartbeat, LeaveLoop, Proceed, AwaitAt, Greatest
<1>14. CASE PublishFail
  BY <1>14 DEF PublishFail, LeaveLoop, Proceed, Greatest
<1>15. CASE IntervalOver
  BY <1>15 DEF IntervalOver, Proceed
<1>16. CASE Reap
  BY <1>16 DEF Reap, AwaitAt, Send, FarewellLeash
<1>17. CASE Farewell
  BY <1>17 DEF Farewell, AwaitAt, Send
<1>18. CASE Leave
  BY <1>18 DEF Leave, CloseSocket, Proceed, Finish, AwaitAt
<1>19. CASE Handler
  BY <1>19 DEF Handler, OutageAge, Finish, AwaitAt
<1>20. CASE BackoffOver
  BY <1>20 DEF BackoffOver, NextDelay, Least, Proceed
<1>21. CASE Exit
  BY <1>21 DEF Exit, Proceed
<1>22. CASE Tick
  BY <1>22 DEF Tick, Older, Never
<1>23. CASE Environment
  BY <1>23 DEF Environment, Signal, BirthHeard, BirthFails, BrokerAccepts, BrokerReads,
     BrokerReaps, ConnectionLost, BrokerRestarts, LinkChanges
<1>24. CASE UNCHANGED vars
  BY <1>24 DEF vars
<1>. QED
  BY <1>1, <1>2, <1>3, <1>4, <1>5, <1>6, <1>7, <1>8, <1>9, <1>10, <1>11, <1>12, <1>13, <1>14, <1>15, <1>16, <1>17, <1>18, <1>19, <1>20, <1>21, <1>22, <1>23, <1>24
     DEF Next, Client

\* With ha_feeder_health on the publish-stall watchdog (exit 12) never fires:
\* mqtt_uptime is stamped in every cycle before the watchdog is evaluated.
THEOREM NeverStalls == Spec => []FeederHealthNeverStalls
<1>1. Init => StampedBeforeWatchdog
  BY DEF Init, StampedBeforeWatchdog, FeederHealthNeverStalls
<1>2. StampedBeforeWatchdog => FeederHealthNeverStalls
  BY DEF StampedBeforeWatchdog
<1>. QED
  BY <1>1, <1>2, StallStep, TypeInvariant, PTL DEF Spec

-----------------------------------------------------------------------------
(* Exit 11 and the outage clock.                                           *)

\* The inductive form: between sessions the stamped outage is no older than
\* the time really spent without a connection.
OutageNotOverstated ==
    /\ result = "disconnected" =>
            pc \in {"aclose", "exited"} /\ idle > DisconnectTimeout
    /\ pc \in {"loop", "handler", "backoff", "aclose", "exited"} =>
            sock = "none"
    /\ sock = "open" => made
    /\ discAge # Never /\ (~made \/ pc \in {"loop", "backoff"}) =>
            discAge <= idle

LEMMA OutageStep ==
    TypeOK /\ OutageNotOverstated /\ [Next]_vars => OutageNotOverstated'
<1>. SUFFICES ASSUME TypeOK, OutageNotOverstated, [Next]_vars
              PROVE  OutageNotOverstated'
  OBVIOUS
<1>. USE TimeoutAssumption
     DEF TimeoutAssumption, TypeOK, FlagsOK, Never, OutageNotOverstated,
         control, watchdogs, discovery, broker, request,
         Leashed, Interruptible, Instants
<1>1. CASE LoopTop
  BY <1>1 DEF LoopTop, Finish, AwaitAt, Proceed
<1>2. CASE ConnectOk
  BY <1>2 DEF ConnectOk, AwaitAt, OwedOnConnect
<1>3. CASE ConnectFail
  BY <1>3 DEF ConnectFail, CloseSocket, Proceed
<1>4. CASE Subscribe
  BY <1>4 DEF Subscribe, Send, AwaitAt, Acked
<1>5. CASE AnnounceOk
  BY <1>5 DEF AnnounceOk, Proceed
<1>6. CASE AnnounceFail
  BY <1>6 DEF AnnounceFail, AwaitAt, Send
<1>7. CASE CycleTop
  BY <1>7 DEF CycleTop, LeaveLoop, Proceed, AwaitAt, Greatest
<1>8. CASE ConfigAcked
  BY <1>8 DEF ConfigAcked, Send, AwaitAt, Greatest
<1>9. CASE DiscoveryDone
  BY <1>9 DEF DiscoveryDone, AwaitAt
<1>10. CASE Gathered
  BY <1>10 DEF Gathered, StateCounts, AwaitAt, Greatest
<1>11. CASE Unexpected
  BY <1>11 DEF Unexpected, LeaveLoop, Proceed, Greatest
<1>12. CASE StatePublished
  BY <1>12 DEF StatePublished, AwaitAt, Greatest
<1>13. CASE Heartbeat
  BY <1>13 DEF Heartbeat, LeaveLoop, Proceed, AwaitAt, Greatest
<1>14. CASE PublishFail
  BY <1>14 DEF PublishFail, LeaveLoop, Proceed, Greatest
<1>15. CASE IntervalOver
  BY <1>15 DEF IntervalOver, Proceed
<1>16. CASE Reap
  BY <1>16 DEF Reap, AwaitAt, Send, FarewellLeash
<1>17. CASE Farewell
  BY <1>17 DEF Farewell, AwaitAt, Send
<1>18. CASE Leave
  BY <1>18 DEF Leave, CloseSocket, Proceed, Finish, AwaitAt
<1>19. CASE Handler
  BY <1>19 DEF Handler, OutageAge, Finish, AwaitAt
<1>20. CASE BackoffOver
  BY <1>20 DEF BackoffOver, NextDelay, Least, Proceed
<1>21. CASE Exit
  BY <1>21 DEF Exit, Proceed
<1>22. CASE Tick
  BY <1>22 DEF Tick, Older, Never
<1>23. CASE Environment
  BY <1>23 DEF Environment, Signal, BirthHeard, BirthFails, BrokerAccepts, BrokerReads,
     BrokerReaps, ConnectionLost, BrokerRestarts, LinkChanges
<1>24. CASE UNCHANGED vars
  BY <1>24 DEF vars
<1>. QED
  BY <1>1, <1>2, <1>3, <1>4, <1>5, <1>6, <1>7, <1>8, <1>9, <1>10, <1>11, <1>12, <1>13, <1>14, <1>15, <1>16, <1>17, <1>18, <1>19, <1>20, <1>21, <1>22, <1>23, <1>24
     DEF Next, Client

\* The process exits 11 only after more than DISCONNECT_TIMEOUT_S without a
\* connection, for every choice of timeouts and backoff delays.
THEOREM DisconnectJustified == Spec => []DisconnectExitJustified
<1>1. Init => OutageNotOverstated
  BY DEF Init, OutageNotOverstated
<1>2. OutageNotOverstated => DisconnectExitJustified
  BY DEF OutageNotOverstated, DisconnectExitJustified
<1>. QED
  BY <1>1, <1>2, OutageStep, TypeInvariant, PTL DEF Spec

-----------------------------------------------------------------------------
(* The time a shutdown takes.                                              *)

\* The longest n publishes can take.
PublishTime(n) == n * MqttTimeout

LEMMA PublishTimeStep ==
    ASSUME NEW n \in Nat, n > 0
    PROVE  PublishTime(n) = PublishTime(n - 1) + MqttTimeout
  BY TimeoutAssumption DEF TimeoutAssumption, PublishTime

LEMMA PublishTimeMonotone ==
    ASSUME NEW a \in Nat, NEW b \in Nat, a <= b
    PROVE  PublishTime(a) <= PublishTime(b)
<1>1. PICK d \in Nat : b = a + d
  BY b - a \in Nat, b = a + (b - a)
<1>2. (a + d) * MqttTimeout = a * MqttTimeout + d * MqttTimeout
  BY TimeoutAssumption DEF TimeoutAssumption
<1>3. d * MqttTimeout \in Nat /\ a * MqttTimeout \in Nat
  BY TimeoutAssumption DEF TimeoutAssumption
<1>. QED
  BY <1>1, <1>2, <1>3 DEF PublishTime

LEMMA PublishTimeType ==
    ASSUME NEW n \in Nat
    PROVE  PublishTime(n) \in Nat
  BY TimeoutAssumption DEF TimeoutAssumption, PublishTime

\* What the inner `finally`, __aexit__ and the outer `finally` take.
Teardown == FarewellTimeout + MqttTimeout + CloseTimeout

LEMMA StopBoundCovers ==
    /\ StopBound \in Nat
    /\ StopBound >= MqttTimeout + SubscribeTimeout + MqttTimeout + Teardown
    /\ StopBound >= PublishTime(Configs) + MqttTimeout + GatherTimeout
                        + PublishTime(StatePublishes) + MqttTimeout + Teardown
<1>1. /\ PublishTime(Configs + 1) = PublishTime(Configs) + MqttTimeout
      /\ PublishTime(StatePublishes + 1)
            = PublishTime(StatePublishes) + MqttTimeout
  BY CountAssumption, TimeoutAssumption
     DEF CountAssumption, TimeoutAssumption, PublishTime
<1>2. /\ PublishTime(Configs) \in Nat
      /\ PublishTime(StatePublishes) \in Nat
  BY CountAssumption, PublishTimeType DEF CountAssumption
<1>3. StopBound = Greatest(MqttTimeout + SubscribeTimeout + MqttTimeout,
                           PublishTime(Configs + 1) + GatherTimeout
                                + PublishTime(StatePublishes + 1)) + Teardown
  BY <1>1, <1>2, TimeoutAssumption
     DEF StopBound, PublishTime, Teardown, TimeoutAssumption, Greatest
<1>. QED
  BY <1>1, <1>2, <1>3, TimeoutAssumption
     DEF Greatest, TimeoutAssumption, Teardown

\* The inductive form: at each place the time gone since the request and the
\* longest the rest can take stay within the bound together.
Fits(rest) == stopAge + rest <= StopBound

StopInTime ==
    /\ ~stop => stopAge = 0
    /\ Fits(0)
    /\ pc = "connect" =>
            Fits(left + SubscribeTimeout + MqttTimeout + Teardown)
    /\ pc = "subscribe" => Fits(left + MqttTimeout + Teardown)
    /\ pc = "announce"  => Fits(left + Teardown)
    /\ pc = "discover"  => Fits(left + PublishTime(todo) + GatherTimeout
                                + PublishTime(StatePublishes) + MqttTimeout
                                + Teardown)
    /\ pc = "gather"    => Fits(left + PublishTime(StatePublishes)
                                + MqttTimeout + Teardown)
    /\ pc = "states"    => Fits(left + PublishTime(todo) + Teardown)
    /\ pc \in {"interval", "cycle", "reap"} => Fits(Teardown)
    /\ pc = "farewell"  => Fits(left + MqttTimeout + CloseTimeout)
    /\ pc = "leave"     => Fits(left + CloseTimeout)
    /\ pc \in {"handler", "backoff", "loop"} => Fits(CloseTimeout)
    /\ pc = "aclose"    => Fits(left)

LEMMA StopStep == TypeOK /\ StopInTime /\ [Next]_vars => StopInTime'
<1>. SUFFICES ASSUME TypeOK, StopInTime, [Next]_vars
              PROVE  StopInTime'
  OBVIOUS
<1>a. /\ PublishTime(Configs) \in Nat
      /\ PublishTime(StatePublishes) \in Nat
  BY CountAssumption, PublishTimeType DEF CountAssumption
<1>b. todo \in Nat /\ PublishTime(todo) \in Nat
  <2>1. todo \in Nat
    BY CountAssumption DEF CountAssumption, TypeOK, Greatest
  <2>. QED
    BY <2>1, PublishTimeType
<1>c. todo > 0 => /\ PublishTime(todo) = PublishTime(todo - 1) + MqttTimeout
                  /\ PublishTime(todo - 1) \in Nat
  BY <1>b, PublishTimeStep, PublishTimeType
<1>d. \A n \in 0 .. StatePublishes :
          PublishTime(n) \in Nat /\ PublishTime(n) <= PublishTime(StatePublishes)
  BY CountAssumption, PublishTimeMonotone, PublishTimeType DEF CountAssumption
<1>e. left \in Nat /\ stopAge \in Nat
  BY DEF TypeOK
<1>f. /\ MqttTimeout \in Nat /\ SubscribeTimeout \in Nat
      /\ FarewellTimeout \in Nat /\ CloseTimeout \in Nat
      /\ GatherTimeout \in Nat
  BY TimeoutAssumption DEF TimeoutAssumption
<1>. USE <1>a, <1>b, <1>c, <1>e, <1>f, StopBoundCovers
     DEF StopInTime, Fits, Teardown, control, watchdogs, discovery,
         broker, request
<1>1. CASE LoopTop
  BY <1>1 DEF LoopTop, Finish, AwaitAt, Proceed
<1>2. CASE ConnectOk
  BY <1>2 DEF ConnectOk, AwaitAt, OwedOnConnect
<1>3. CASE ConnectFail
  BY <1>3 DEF ConnectFail, CloseSocket, Proceed
<1>4. CASE Subscribe
  BY <1>4 DEF Subscribe, Send, AwaitAt, Acked
<1>5. CASE AnnounceOk
  BY <1>5 DEF AnnounceOk, Proceed
<1>6. CASE AnnounceFail
  BY <1>6 DEF AnnounceFail, AwaitAt, Send
<1>7. CASE CycleTop
  BY <1>7 DEF CycleTop, LeaveLoop, Proceed, AwaitAt, Greatest
<1>8. CASE ConfigAcked
  <2>1. /\ pc = "discover" /\ pc' = "discover" /\ left' = MqttTimeout
        /\ todo > 0 /\ todo' = todo - 1
        /\ UNCHANGED <<stop, stopAge>>
    BY <1>8 DEF ConfigAcked, AwaitAt
  <2>2. PublishTime(todo) = PublishTime(todo') + MqttTimeout
    BY <2>1, <1>c
  <2>3. Fits(PublishTime(todo) + GatherTimeout + PublishTime(StatePublishes)
                + MqttTimeout + Teardown)
    BY <2>1
  <2>. QED
    BY <2>1, <2>2, <2>3 DEF PublishTime
<1>9. CASE DiscoveryDone
  BY <1>9 DEF DiscoveryDone, AwaitAt
<1>10. CASE Gathered
  <2>1. todo' \in 0 .. StatePublishes
    BY <1>10 DEF Gathered, StateCounts
  <2>2. /\ PublishTime(todo') \in Nat
        /\ PublishTime(todo') <= PublishTime(StatePublishes)
    BY <2>1, <1>d
  <2>3. /\ pc = "gather" /\ pc' = "states" /\ left' = MqttTimeout
        /\ UNCHANGED <<stop, stopAge>>
    BY <1>10 DEF Gathered, AwaitAt
  <2>. QED
    BY <2>2, <2>3 DEF PublishTime
<1>11. CASE Unexpected
  BY <1>11 DEF Unexpected, LeaveLoop, Proceed, Greatest
<1>12. CASE StatePublished
  BY <1>12 DEF StatePublished, AwaitAt, Greatest
<1>13. CASE Heartbeat
  BY <1>13 DEF Heartbeat, LeaveLoop, Proceed, AwaitAt, Greatest
<1>14. CASE PublishFail
  BY <1>14 DEF PublishFail, LeaveLoop, Proceed, Greatest
<1>15. CASE IntervalOver
  BY <1>15 DEF IntervalOver, Proceed
<1>16. CASE Reap
  <2>1. /\ pc = "reap"
        /\ UNCHANGED <<stop, stopAge>>
        /\ \/ pc' = "leave" /\ left' = MqttTimeout
           \/ pc' = "farewell" /\ left' = FarewellTimeout
    BY <1>16 DEF Reap, AwaitAt, FarewellLeash
  <2>. QED
    BY <2>1
<1>17. CASE Farewell
  BY <1>17 DEF Farewell, AwaitAt, Send
<1>18. CASE Leave
  BY <1>18 DEF Leave, CloseSocket, Proceed, Finish, AwaitAt
<1>19. CASE Handler
  BY <1>19 DEF Handler, OutageAge, Finish, AwaitAt
<1>20. CASE BackoffOver
  BY <1>20 DEF BackoffOver, NextDelay, Least, Proceed
<1>21. CASE Exit
  BY <1>21 DEF Exit, Proceed
<1>22. CASE Tick
  <2>1. CASE stop
    BY <1>22, <2>1 DEF Tick, Leashed, Interruptible
  <2>2. CASE ~stop
    BY <1>22, <2>2 DEF Tick
  <2>. QED
    BY <2>1, <2>2
<1>23. CASE Environment
  <2>. USE DEF Environment, Signal, BirthHeard, BirthFails, BrokerAccepts,
               BrokerReads, BrokerReaps, ConnectionLost, BrokerRestarts,
               LinkChanges
  <2>1. UNCHANGED <<pc, left, todo, stopAge>>
    BY <1>23
  <2>2. stop => stop'
    BY <1>23
  <2>3. ~stop' => stopAge' = 0
    BY <2>1, <2>2
  <2>. QED
    BY <2>1, <2>3
<1>24. CASE UNCHANGED vars
  BY <1>24 DEF vars
<1>. QED
  BY <1>1, <1>2, <1>3, <1>4, <1>5, <1>6, <1>7, <1>8, <1>9, <1>10, <1>11, <1>12, <1>13, <1>14, <1>15, <1>16, <1>17, <1>18, <1>19, <1>20, <1>21, <1>22, <1>23, <1>24
     DEF Next, Client

\* However the broker behaves, a shutdown request ends the process within
\* StopBound; the bound is explicit in the timeouts and the publish counts.
THEOREM StopWithinBound == Spec => []StopBounded
<1>1. Init => StopInTime
  BY StopBoundCovers, TimeoutAssumption
     DEF Init, StopInTime, Fits, Teardown, TimeoutAssumption
<1>2. TypeOK /\ StopInTime => StopBounded
  BY StopBoundCovers DEF StopInTime, Fits, StopBounded, TypeOK
<1>. QED
  BY <1>1, <1>2, StopStep, TypeInvariant, PTL DEF Spec

-----------------------------------------------------------------------------
(* The broker's configs.                                                   *)

\* The awaits and instants of a session that has its CONNACK.
InSession == {"subscribe", "announce", "cycle", "discover", "gather",
              "states", "interval"}

\* The inductive form: a connection without a debt has paid it since CONNACK,
\* and a broker that forgets its configs takes the connection with it.
DebtPaid ==
    /\ pc \in InSession => connected
    /\ pc \in InSession /\ sock = "open" /\ ~need => configs
    /\ SessionRediscovers

LEMMA DebtStep == TypeOK /\ DebtPaid /\ [Next]_vars => DebtPaid'
<1>. SUFFICES ASSUME TypeOK, DebtPaid, [Next]_vars PROVE DebtPaid'
  OBVIOUS
<1>. USE DEF DebtPaid, SessionRediscovers, InSession, TypeOK, FlagsOK,
             control, watchdogs, discovery, broker, request
<1>1. CASE LoopTop
  BY <1>1 DEF LoopTop, Finish, AwaitAt, Proceed
<1>2. CASE ConnectOk
  BY <1>2 DEF ConnectOk, AwaitAt, OwedOnConnect
<1>3. CASE ConnectFail
  BY <1>3 DEF ConnectFail, CloseSocket, Proceed
<1>4. CASE Subscribe
  BY <1>4 DEF Subscribe, Send, AwaitAt, Acked
<1>5. CASE AnnounceOk
  BY <1>5 DEF AnnounceOk, Acked, Proceed
<1>6. CASE AnnounceFail
  BY <1>6 DEF AnnounceFail, AwaitAt, Send
<1>7. CASE CycleTop
  BY <1>7 DEF CycleTop, LeaveLoop, Proceed, AwaitAt
<1>8. CASE ConfigAcked
  BY <1>8 DEF ConfigAcked, Acked, Send, AwaitAt
<1>9. CASE DiscoveryDone
  BY <1>9 DEF DiscoveryDone, Acked, AwaitAt
<1>10. CASE Gathered
  BY <1>10 DEF Gathered, AwaitAt
<1>11. CASE Unexpected
  BY <1>11 DEF Unexpected, LeaveLoop, Proceed
<1>12. CASE StatePublished
  BY <1>12 DEF StatePublished, AwaitAt
<1>13. CASE Heartbeat
  BY <1>13 DEF Heartbeat, LeaveLoop, Proceed, AwaitAt
<1>14. CASE PublishFail
  BY <1>14 DEF PublishFail, LeaveLoop, Proceed
<1>15. CASE IntervalOver
  BY <1>15 DEF IntervalOver, Proceed
<1>16. CASE Reap
  BY <1>16 DEF Reap, AwaitAt, Send, FarewellLeash
<1>17. CASE Farewell
  BY <1>17 DEF Farewell, AwaitAt, Send
<1>18. CASE Leave
  BY <1>18 DEF Leave, CloseSocket, Proceed, Finish, AwaitAt
<1>19. CASE Handler
  BY <1>19 DEF Handler, OutageAge, Finish, AwaitAt
<1>20. CASE BackoffOver
  BY <1>20 DEF BackoffOver, NextDelay, Least, Proceed
<1>21. CASE Exit
  BY <1>21 DEF Exit, Proceed
<1>22. CASE Tick
  BY <1>22 DEF Tick, Older, Never
<1>23. CASE Environment
  BY <1>23 DEF Environment, Signal, BirthHeard, BirthFails, BrokerAccepts,
     BrokerReads, BrokerReaps, ConnectionLost, BrokerRestarts, LinkChanges
<1>24. CASE UNCHANGED vars
  BY <1>24 DEF vars
<1>. QED
  BY <1>1, <1>2, <1>3, <1>4, <1>5, <1>6, <1>7, <1>8, <1>9, <1>10, <1>11,
     <1>12, <1>13, <1>14, <1>15, <1>16, <1>17, <1>18, <1>19, <1>20, <1>21, <1>22,
     <1>23, <1>24
     DEF Next, Client

\* Past the discovery of its first cycle, a live session's configs are on the
\* broker, for any number of configs and whenever it restarts.
THEOREM AlwaysRediscovers == Spec => []SessionRediscovers
<1>1. Init => DebtPaid
  BY DEF Init, DebtPaid, SessionRediscovers, InSession
<1>2. DebtPaid => SessionRediscovers
  BY DEF DebtPaid
<1>. QED
  BY <1>1, <1>2, DebtStep, TypeInvariant, PTL DEF Spec

-----------------------------------------------------------------------------
(* The time an outage takes.                                               *)

\* The time from the loss of a connection to the handler.
Teardowns ==
    Greatest(Interval + GatherTimeout + MqttTimeout + FarewellTimeout,
             SubscribeTimeout + MqttTimeout) + MqttTimeout

\* The inductive form: how old the outage can be at each place.  The clock of
\* the handler is behind it by Teardowns at most, until it saturates.
OutageAged ==
    /\ OutageNotOverstated
    /\ sock = "open" => idle = 0
    /\ pc = "subscribe" => idle + left <= SubscribeTimeout
    /\ pc = "announce"  => idle + left <= SubscribeTimeout + MqttTimeout
    /\ pc = "interval"  => idle + left <= Interval
    /\ pc = "cycle"     => idle <= Interval
    /\ pc = "discover"  => idle + left <= Interval + MqttTimeout
    /\ pc = "gather"    => idle + left <= Interval + GatherTimeout
    /\ pc = "states"    => idle + left <= Interval + GatherTimeout + MqttTimeout
    /\ pc = "reap"      => idle <= Interval + GatherTimeout + MqttTimeout
    /\ pc = "farewell"  => idle + left <= Interval + GatherTimeout + MqttTimeout
                                             + FarewellTimeout
    /\ pc = "leave"     => idle + left <= Teardowns
    /\ pc = "handler" /\ made => idle <= Teardowns
    /\ pc \in {"loop", "backoff"} \/ (pc \in {"connect", "handler"} /\ ~made) =>
            IF discAge = Never
            THEN idle + (IF pc = "loop" THEN MqttTimeout ELSE left) <= MqttTimeout
            ELSE discAge <= DisconnectTimeout => idle <= Teardowns + discAge
    /\ pc \in InSession \cup {"reap", "farewell", "leave"} => made
    /\ pc = "connect" => ~made /\ sock # "open"
    /\ pc = "backoff" => discAge # Never
    /\ pc \in {"loop", "backoff"} =>
            idle + left <= Teardowns + DisconnectTimeout + MaxDelay
    /\ pc \in {"connect", "handler"} =>
            idle + left <= Teardowns + DisconnectTimeout + MaxDelay + MqttTimeout
    /\ pc \in {"aclose", "exited"} => idle + left <= OutageBound

LEMMA OutageBoundCovers ==
    /\ Teardowns \in Nat
    /\ Teardowns >= Interval + GatherTimeout + MqttTimeout + FarewellTimeout
                        + MqttTimeout
    /\ Teardowns >= SubscribeTimeout + MqttTimeout + MqttTimeout
    /\ OutageBound = Teardowns + DisconnectTimeout + MaxDelay + MqttTimeout
                        + CloseTimeout
  BY TimeoutAssumption, DelayAssumption
     DEF TimeoutAssumption, DelayAssumption, Teardowns, OutageBound, Greatest

LEMMA AgedStep == TypeOK /\ OutageAged /\ [Next]_vars => OutageAged'
<1>. SUFFICES ASSUME TypeOK, OutageAged, [Next]_vars PROVE OutageAged'
  OBVIOUS
<1>a. /\ left \in Nat /\ idle \in Nat
      /\ delay \in MinDelay .. MaxDelay
      /\ discAge \in Never .. DisconnectTimeout + 1
  BY DEF TypeOK
<1>b. OutageNotOverstated'
  BY OutageStep DEF OutageAged
<1>. USE <1>a, <1>b, OutageBoundCovers, TimeoutAssumption, DelayAssumption
     DEF TimeoutAssumption, DelayAssumption, Never, OutageAged, InSession,
         control, watchdogs, discovery, broker, request
<1>1. CASE LoopTop
  BY <1>1 DEF LoopTop, Finish, AwaitAt, Proceed
<1>2. CASE ConnectOk
  BY <1>2 DEF ConnectOk, AwaitAt, OwedOnConnect
<1>3. CASE ConnectFail
  BY <1>3 DEF ConnectFail, CloseSocket, Proceed
<1>4. CASE Subscribe
  BY <1>4 DEF Subscribe, Send, AwaitAt, Acked
<1>5. CASE AnnounceOk
  BY <1>5 DEF AnnounceOk, Acked, Proceed
<1>6. CASE AnnounceFail
  BY <1>6 DEF AnnounceFail, AwaitAt, Send
<1>7. CASE CycleTop
  BY <1>7 DEF CycleTop, LeaveLoop, Proceed, AwaitAt
<1>8. CASE ConfigAcked
  BY <1>8 DEF ConfigAcked, Acked, Send, AwaitAt
<1>9. CASE DiscoveryDone
  BY <1>9 DEF DiscoveryDone, Acked, AwaitAt
<1>10. CASE Gathered
  BY <1>10 DEF Gathered, AwaitAt
<1>11. CASE Unexpected
  BY <1>11 DEF Unexpected, LeaveLoop, Proceed
<1>12. CASE StatePublished
  BY <1>12 DEF StatePublished, AwaitAt
<1>13. CASE Heartbeat
  BY <1>13 DEF Heartbeat, LeaveLoop, Proceed, AwaitAt
<1>14. CASE PublishFail
  BY <1>14 DEF PublishFail, LeaveLoop, Proceed
<1>15. CASE IntervalOver
  BY <1>15 DEF IntervalOver, Proceed
<1>16. CASE Reap
  BY <1>16 DEF Reap, AwaitAt, Send, FarewellLeash
<1>17. CASE Farewell
  BY <1>17 DEF Farewell, AwaitAt, Send
<1>18. CASE Leave
  BY <1>18 DEF Leave, CloseSocket, Proceed, Finish, AwaitAt
<1>19. CASE Handler
  BY <1>19 DEF Handler, OutageAge, Finish, AwaitAt
<1>20. CASE BackoffOver
  BY <1>20 DEF BackoffOver, NextDelay, Least, Proceed
<1>21. CASE Exit
  BY <1>21 DEF Exit, Proceed
<1>22. CASE Tick
  BY <1>22 DEF Tick, Older, Leashed, Interruptible, OutageNotOverstated
<1>23. CASE Environment
  BY <1>23 DEF Environment, Signal, BirthHeard, BirthFails, BrokerAccepts,
     BrokerReads, BrokerReaps, ConnectionLost, BrokerRestarts, LinkChanges
<1>24. CASE UNCHANGED vars
  BY <1>24 DEF vars
<1>. QED
  BY <1>1, <1>2, <1>3, <1>4, <1>5, <1>6, <1>7, <1>8, <1>9, <1>10, <1>11,
     <1>12, <1>13, <1>14, <1>15, <1>16, <1>17, <1>18, <1>19, <1>20, <1>21, <1>22,
     <1>23, <1>24
     DEF Next, Client

\* No outage outlasts OutageBound, whatever the timeouts and the delays, and
\* however reconnections, failures and retries alternate.
THEOREM OutageWithinBound == Spec => []OutageBounded
<1>1. Init => OutageAged
  BY TimeoutAssumption, DelayAssumption, OutageBoundCovers
     DEF Init, OutageAged, OutageNotOverstated, Never, InSession, TimeoutAssumption,
         DelayAssumption
<1>2. TypeOK /\ OutageAged => OutageBounded
  BY OutageBoundCovers, TimeoutAssumption, DelayAssumption, SMTT(30)
     DEF OutageAged, OutageBounded, TypeOK, TimeoutAssumption, DelayAssumption,
         Leashed, Interruptible, Instants
<1>. QED
  BY <1>1, <1>2, AgedStep, TypeInvariant, PTL DEF Spec

-----------------------------------------------------------------------------
(* The availability topic.                                                 *)

\* publish_loop.
Publishing == {"cycle", "discover", "gather", "states", "interval"}

\* The client's socket, the broker's session and the place of the task agree.
EndsAgree ==
    /\ sock = "opening" => pc = "connect"
    /\ sock = "open" => bsess # "old" /\ pc # "connect"
    /\ sock = "none" => bsess # "cur"
    /\ pc \in {"loop", "handler", "backoff", "aclose", "exited"} => sock = "none"
    /\ birth = "failed" => sock = "broken"
    /\ pc \notin Publishing \cup {"reap"} => birth = "none"

\* What is on its way to a broker that holds the session of an open socket.
WireHolds ==
    /\ pc = "connect" /\ bsess = "cur" => wire = <<>>
    /\ sock = "open" /\ bsess = "cur" =>
        /\ pc = "subscribe" => wire = <<>>
        /\ pc = "announce" =>
                \/ wire = <<"online">>
                \/ wire = <<>> /\ retained = "online"
        /\ pc \in Publishing \cup {"reap"} =>
                wire \in Seq({"online"}) /\ retained = "online"

OnlineInv == EndsAgree /\ WireHolds

LEMMA EndsStep == EndsAgree /\ [Next]_vars => EndsAgree'
<1>. SUFFICES ASSUME EndsAgree, [Next]_vars PROVE EndsAgree'
  OBVIOUS
<1>. USE DEF EndsAgree, Publishing, control, watchdogs, discovery, broker, request
<1>1. CASE LoopTop
  BY <1>1 DEF LoopTop, Finish, AwaitAt, Proceed
<1>2. CASE ConnectOk
  BY <1>2 DEF ConnectOk, AwaitAt, OwedOnConnect
<1>3. CASE ConnectFail
  BY <1>3 DEF ConnectFail, CloseSocket, Proceed
<1>4. CASE Subscribe
  BY <1>4 DEF Subscribe, Send, AwaitAt, Acked
<1>5. CASE AnnounceOk
  BY <1>5 DEF AnnounceOk, Acked, Proceed
<1>6. CASE AnnounceFail
  BY <1>6 DEF AnnounceFail, AwaitAt, Send
<1>7. CASE CycleTop
  BY <1>7 DEF CycleTop, LeaveLoop, Proceed, AwaitAt
<1>8. CASE ConfigAcked
  BY <1>8 DEF ConfigAcked, Acked, Send, AwaitAt
<1>9. CASE DiscoveryDone
  BY <1>9 DEF DiscoveryDone, Acked, AwaitAt
<1>10. CASE Gathered
  BY <1>10 DEF Gathered, AwaitAt
<1>11. CASE Unexpected
  BY <1>11 DEF Unexpected, LeaveLoop, Proceed
<1>12. CASE StatePublished
  BY <1>12 DEF StatePublished, AwaitAt
<1>13. CASE Heartbeat
  BY <1>13 DEF Heartbeat, LeaveLoop, Proceed, AwaitAt
<1>14. CASE PublishFail
  BY <1>14 DEF PublishFail, LeaveLoop, Proceed
<1>15. CASE IntervalOver
  BY <1>15 DEF IntervalOver, Proceed
<1>16. CASE Reap
  BY <1>16 DEF Reap, AwaitAt, Send, FarewellLeash
<1>17. CASE Farewell
  BY <1>17 DEF Farewell, AwaitAt, Send
<1>18. CASE Leave
  BY <1>18 DEF Leave, CloseSocket, Proceed, Finish, AwaitAt
<1>19. CASE Handler
  BY <1>19 DEF Handler, OutageAge, Finish, AwaitAt
<1>20. CASE BackoffOver
  BY <1>20 DEF BackoffOver, NextDelay, Least, Proceed
<1>21. CASE Exit
  BY <1>21 DEF Exit, Proceed
<1>22. CASE Tick
  BY <1>22 DEF Tick, Older, Never
<1>23. CASE Signal
  BY <1>23 DEF Signal
<1>24. CASE BirthHeard
  BY <1>24 DEF BirthHeard
<1>25. CASE BirthFails
  BY <1>25 DEF BirthFails
<1>26. CASE BrokerAccepts
  BY <1>26 DEF BrokerAccepts
<1>27. CASE BrokerReads
  BY <1>27 DEF BrokerReads
<1>28. CASE BrokerReaps
  BY <1>28 DEF BrokerReaps
<1>29. CASE ConnectionLost
  BY <1>29 DEF ConnectionLost
<1>30. CASE BrokerRestarts
  BY <1>30 DEF BrokerRestarts
<1>31. CASE LinkChanges
  BY <1>31 DEF LinkChanges
<1>32. CASE UNCHANGED vars
  BY <1>32 DEF vars
<1>. QED
  BY <1>1, <1>2, <1>3, <1>4, <1>5, <1>6, <1>7, <1>8, <1>9, <1>10, <1>11,
     <1>12, <1>13, <1>14, <1>15, <1>16, <1>17, <1>18, <1>19, <1>20, <1>21, <1>22,
     <1>23, <1>24, <1>25, <1>26, <1>27, <1>28, <1>29, <1>30, <1>31, <1>32
     DEF Next, Client, Environment

LEMMA WireStep == TypeOK /\ OnlineInv /\ [Next]_vars => WireHolds'
<1>. SUFFICES ASSUME TypeOK, OnlineInv, [Next]_vars PROVE WireHolds'
  OBVIOUS
<1>a. /\ Append(<<>>, "online") = <<"online">>
      /\ <<"online">> \in Seq({"online"})
  OBVIOUS
<1>. USE DEF OnlineInv, EndsAgree, WireHolds, Publishing,
             control, watchdogs, discovery, broker, request
<1>1. CASE LoopTop
  BY <1>1 DEF LoopTop, Finish, AwaitAt, Proceed
<1>2. CASE ConnectOk
  BY <1>2 DEF ConnectOk, AwaitAt, OwedOnConnect
<1>3. CASE ConnectFail
  BY <1>3 DEF ConnectFail, CloseSocket, Proceed
<1>4. CASE Subscribe
  BY <1>4, <1>a DEF Subscribe, Send, AwaitAt, Acked
<1>5. CASE AnnounceOk
  BY <1>5 DEF AnnounceOk, Acked, Proceed
<1>6. CASE AnnounceFail
  BY <1>6 DEF AnnounceFail, AwaitAt, Send
<1>7. CASE CycleTop
  BY <1>7 DEF CycleTop, LeaveLoop, Proceed, AwaitAt
<1>8. CASE ConfigAcked
  BY <1>8, <1>a DEF ConfigAcked, Acked, Send, AwaitAt
<1>9. CASE DiscoveryDone
  BY <1>9 DEF DiscoveryDone, Acked, AwaitAt
<1>10. CASE Gathered
  BY <1>10 DEF Gathered, AwaitAt
<1>11. CASE Unexpected
  BY <1>11 DEF Unexpected, LeaveLoop, Proceed
<1>12. CASE StatePublished
  BY <1>12 DEF StatePublished, AwaitAt
<1>13. CASE Heartbeat
  BY <1>13 DEF Heartbeat, LeaveLoop, Proceed, AwaitAt
<1>14. CASE PublishFail
  BY <1>14 DEF PublishFail, LeaveLoop, Proceed
<1>15. CASE IntervalOver
  BY <1>15 DEF IntervalOver, Proceed
<1>16. CASE Reap
  BY <1>16 DEF Reap, AwaitAt, Send, FarewellLeash
<1>17. CASE Farewell
  BY <1>17 DEF Farewell, AwaitAt, Send
<1>18. CASE Leave
  BY <1>18 DEF Leave, CloseSocket, Proceed, Finish, AwaitAt
<1>19. CASE Handler
  BY <1>19 DEF Handler, OutageAge, Finish, AwaitAt
<1>20. CASE BackoffOver
  BY <1>20 DEF BackoffOver, NextDelay, Least, Proceed
<1>21. CASE Exit
  BY <1>21 DEF Exit, Proceed
<1>22. CASE Tick
  BY <1>22 DEF Tick, Older, Never
<1>23. CASE Signal
  BY <1>23 DEF Signal
<1>24. CASE BirthHeard
  BY <1>24 DEF BirthHeard
<1>25. CASE BirthFails
  BY <1>25 DEF BirthFails
<1>26. CASE BrokerAccepts
  BY <1>26 DEF BrokerAccepts
<1>27. CASE BrokerReads
  <2>1. /\ wire # <<>> /\ wire' = Tail(wire)
        /\ Head(wire) # "DISCONNECT" => retained' = Head(wire) /\ bsess' = bsess
        /\ Head(wire) = "DISCONNECT" => bsess' = "none"
        /\ UNCHANGED <<pc, sock>>
    BY <1>27 DEF BrokerReads
  <2>2. wire = <<"online">> => Head(wire) = "online" /\ Tail(wire) = <<>>
    OBVIOUS
  <2>3. wire \in Seq({"online"}) =>
            Head(wire) = "online" /\ Tail(wire) \in Seq({"online"})
    BY <2>1
  <2>. QED
    BY <2>1, <2>2, <2>3
<1>28. CASE BrokerReaps
  BY <1>28 DEF BrokerReaps
<1>29. CASE ConnectionLost
  BY <1>29 DEF ConnectionLost
<1>30. CASE BrokerRestarts
  BY <1>30 DEF BrokerRestarts
<1>31. CASE LinkChanges
  BY <1>31 DEF LinkChanges
<1>32. CASE UNCHANGED vars
  BY <1>32 DEF vars
<1>. QED
  BY <1>1, <1>2, <1>3, <1>4, <1>5, <1>6, <1>7, <1>8, <1>9, <1>10, <1>11,
     <1>12, <1>13, <1>14, <1>15, <1>16, <1>17, <1>18, <1>19, <1>20, <1>21, <1>22,
     <1>23, <1>24, <1>25, <1>26, <1>27, <1>28, <1>29, <1>30, <1>31, <1>32
     DEF Next, Client, Environment

LEMMA OnlineInductive == Spec => []OnlineInv
<1>1. Init => OnlineInv
  BY DEF Init, OnlineInv, EndsAgree, WireHolds, Publishing
<1>2. TypeOK /\ OnlineInv /\ [Next]_vars => OnlineInv'
  BY EndsStep, WireStep DEF OnlineInv
<1>. QED
  BY <1>1, <1>2, TypeInvariant, PTL DEF Spec

\* While the client publishes on a session the broker holds, Home Assistant
\* sees "online", whatever earlier sessions, wills and farewells left there.
THEOREM AlwaysOnline == Spec => []PublishingIsOnline
<1>1. OnlineInv => PublishingIsOnline
  BY DEF OnlineInv, WireHolds, Publishing, PublishingIsOnline
<1>. QED
  BY <1>1, OnlineInductive, PTL

\* DISCONNECT, which discards the will, comes right after an "offline".
Closing(w, r) ==
    \A i \in 1 .. Len(w) :
        w[i] = "DISCONNECT" => IF i = 1 THEN r # "online" ELSE w[i - 1] = "offline"

\* The last word that the broker has, or will have, is "offline".
SaidOffline(w, r) == IF Len(w) = 0 THEN r = "offline" ELSE w[Len(w)] = "offline"

\* The inductive form: a session that reached publish_loop is only discarded
\* after its farewell.
FarewellFirst ==
    /\ pc \in {"connect", "subscribe", "announce"} /\ bsess = "cur" => ~entered
    /\ entered /\ bsess # "none" => Closing(wire, retained)
    /\ pc = "farewell" /\ sock = "open" /\ bsess = "cur" =>
            SaidOffline(wire, retained)
    /\ SessionEndsOffline

Packets == {"online", "offline", "DISCONNECT"}
Availability == {"none", "online", "offline"}

LEMMA ClosingSend ==
    ASSUME NEW w \in Seq(Packets), NEW r, NEW p \in Packets, Closing(w, r),
           p = "DISCONNECT" => SaidOffline(w, r)
    PROVE  Closing(Append(w, p), r)
<1>1. /\ Len(Append(w, p)) = Len(w) + 1 /\ Len(w) \in Nat
      /\ \A i \in 1 .. Len(w) : Append(w, p)[i] = w[i]
      /\ Append(w, p)[Len(w) + 1] = p
  OBVIOUS
<1>2. ASSUME NEW i \in 1 .. Len(w) + 1, Append(w, p)[i] = "DISCONNECT"
      PROVE  IF i = 1 THEN r # "online" ELSE Append(w, p)[i - 1] = "offline"
  <2>1. CASE i <= Len(w)
    BY <1>1, <1>2, <2>1 DEF Closing
  <2>2. CASE i = Len(w) + 1 /\ Len(w) = 0
    BY <1>1, <1>2, <2>2 DEF SaidOffline
  <2>3. CASE i = Len(w) + 1 /\ Len(w) # 0
    <3>1. Len(w) \in 1 .. Len(w) /\ i # 1 /\ i - 1 = Len(w)
      BY <1>1, <2>3
    <3>2. w[Len(w)] = "offline"
      BY <1>1, <1>2, <2>3 DEF SaidOffline
    <3>. QED
      BY <1>1, <3>1, <3>2
  <2>. QED
    BY <1>1, <1>2, <2>1, <2>2, <2>3
<1>. QED
  BY <1>1, <1>2 DEF Closing

LEMMA ClosingRead ==
    ASSUME NEW w \in Seq(Packets), w # <<>>, NEW r
    PROVE  /\ Closing(w, r) => /\ Head(w) = "DISCONNECT" => r # "online"
                               /\ Closing(Tail(w), Head(w))
           /\ SaidOffline(w, r) => SaidOffline(Tail(w), Head(w))
<1>1. /\ Len(w) \in Nat \ {0} /\ Head(w) = w[1]
      /\ Len(Tail(w)) = Len(w) - 1
      /\ \A i \in 1 .. Len(w) - 1 : Tail(w)[i] = w[i + 1]
  OBVIOUS
<1>2. Closing(w, r) /\ Head(w) = "DISCONNECT" => r # "online"
  BY <1>1 DEF Closing
<1>3. ASSUME Closing(w, r), NEW i \in 1 .. Len(w) - 1, Tail(w)[i] = "DISCONNECT"
      PROVE  IF i = 1 THEN Head(w) # "online" ELSE Tail(w)[i - 1] = "offline"
  <2>1. i + 1 \in 1 .. Len(w) /\ w[i + 1] = "DISCONNECT" /\ i + 1 # 1
    BY <1>1, <1>3
  <2>2. w[(i + 1) - 1] = "offline"
    BY <1>3, <2>1 DEF Closing
  <2>. QED
    BY <1>1, <1>3, <2>2
<1>4. Closing(w, r) => Closing(Tail(w), Head(w))
  BY <1>1, <1>3 DEF Closing
<1>5. SaidOffline(w, r) => SaidOffline(Tail(w), Head(w))
  <2>1. CASE Len(w) = 1
    BY <1>1, <2>1 DEF SaidOffline
  <2>2. CASE Len(w) > 1
    <3>1. Len(w) - 1 \in 1 .. Len(w) - 1 /\ (Len(w) - 1) + 1 = Len(w)
      BY <1>1, <2>2
    <3>2. Tail(w)[Len(Tail(w))] = w[Len(w)]
      BY <1>1, <3>1
    <3>. QED
      BY <1>1, <2>2, <3>2 DEF SaidOffline
  <2>. QED
    BY <1>1, <2>1, <2>2
<1>. QED
  BY <1>2, <1>4, <1>5

\* A farewell is the last word whatever was on the wire.
LEMMA SaidBySending ==
    ASSUME NEW w \in Seq(Packets), NEW r
    PROVE  SaidOffline(Append(w, "offline"), r)
<1>1. /\ Append(w, "offline") # <<>>
      /\ Len(Append(w, "offline")) = Len(w) + 1
      /\ Append(w, "offline")[Len(w) + 1] = "offline"
  OBVIOUS
<1>. QED
  BY <1>1 DEF SaidOffline

LEMMA NothingCloses == \A r : Closing(<<>>, r)
  BY DEF Closing

LEMMA FarewellStep ==
    TypeOK /\ EndsAgree /\ FarewellFirst /\ [Next]_vars => FarewellFirst'
<1>. SUFFICES ASSUME TypeOK, EndsAgree, FarewellFirst, [Next]_vars
              PROVE  FarewellFirst'
  OBVIOUS
<1>a. wire \in Seq(Packets)
  BY DEF TypeOK, Packets
<1>b. \A p \in {"online", "offline"} :
         Closing(wire, retained) => Closing(Append(wire, p), retained)
  BY <1>a, ClosingSend DEF Packets
<1>c. Closing(wire, retained) /\ SaidOffline(wire, retained)
         => Closing(Append(wire, "DISCONNECT"), retained)
  BY <1>a, ClosingSend DEF Packets
<1>d. SaidOffline(Append(wire, "offline"), retained)
  BY <1>a, SaidBySending
<1>e. wire # <<>> =>
         /\ Closing(wire, retained) =>
                /\ Head(wire) = "DISCONNECT" => retained # "online"
                /\ Closing(Tail(wire), Head(wire))
         /\ SaidOffline(wire, retained) => SaidOffline(Tail(wire), Head(wire))
  BY <1>a, ClosingRead
<1>f. Closing(<<>>, retained)
  BY NothingCloses
<1>. USE <1>b, <1>c, <1>d, <1>e, <1>f
     DEF EndsAgree, FarewellFirst, SessionEndsOffline, Publishing,
         control, watchdogs, discovery, broker, request
<1>1. CASE LoopTop
  BY <1>1 DEF LoopTop, Finish, AwaitAt, Proceed
<1>2. CASE ConnectOk
  BY <1>2 DEF ConnectOk, AwaitAt, OwedOnConnect
<1>3. CASE ConnectFail
  BY <1>3 DEF ConnectFail, CloseSocket, Proceed
<1>4. CASE Subscribe
  BY <1>4 DEF Subscribe, Send, AwaitAt, Acked
<1>5. CASE AnnounceOk
  BY <1>5 DEF AnnounceOk, Acked, Proceed
<1>6. CASE AnnounceFail
  <2>1. /\ pc = "announce" /\ pc' = "leave"
        /\ sock # "open" => wire' = wire
        /\ UNCHANGED <<sock, bsess, retained, entered>>
    BY <1>6 DEF AnnounceFail, AwaitAt, Send
  <2>2. sock = "open" => bsess = "none" \/ ~entered
    BY <2>1 DEF TypeOK
  <2>. QED
    BY <2>1, <2>2
<1>7. CASE CycleTop
  BY <1>7 DEF CycleTop, LeaveLoop, Proceed, AwaitAt
<1>8. CASE ConfigAcked
  BY <1>8 DEF ConfigAcked, Acked, Send, AwaitAt
<1>9. CASE DiscoveryDone
  BY <1>9 DEF DiscoveryDone, Acked, AwaitAt
<1>10. CASE Gathered
  BY <1>10 DEF Gathered, AwaitAt
<1>11. CASE Unexpected
  BY <1>11 DEF Unexpected, LeaveLoop, Proceed
<1>12. CASE StatePublished
  BY <1>12 DEF StatePublished, AwaitAt
<1>13. CASE Heartbeat
  BY <1>13 DEF Heartbeat, LeaveLoop, Proceed, AwaitAt
<1>14. CASE PublishFail
  BY <1>14 DEF PublishFail, LeaveLoop, Proceed
<1>15. CASE IntervalOver
  BY <1>15 DEF IntervalOver, Proceed
<1>16. CASE Reap
  BY <1>16 DEF Reap, AwaitAt, Send, FarewellLeash
<1>17. CASE Farewell
  <2>1. /\ pc = "farewell" /\ pc' = "leave"
        /\ wire' = IF sock = "open" THEN Append(wire, "DISCONNECT") ELSE wire
        /\ UNCHANGED <<sock, bsess, retained, entered>>
    BY <1>17 DEF Farewell, AwaitAt, Send
  <2>2. sock = "open" => bsess = "none" \/ SaidOffline(wire, retained)
    BY <2>1 DEF TypeOK
  <2>. QED
    BY <2>1, <2>2
<1>18. CASE Leave
  BY <1>18 DEF Leave, CloseSocket, Proceed, Finish, AwaitAt
<1>19. CASE Handler
  BY <1>19 DEF Handler, OutageAge, Finish, AwaitAt
<1>20. CASE BackoffOver
  BY <1>20 DEF BackoffOver, NextDelay, Least, Proceed
<1>21. CASE Exit
  BY <1>21 DEF Exit, Proceed
<1>22. CASE Tick
  BY <1>22 DEF Tick, Older, Never
<1>23. CASE Signal
  BY <1>23 DEF Signal
<1>24. CASE BirthHeard
  BY <1>24 DEF BirthHeard
<1>25. CASE BirthFails
  BY <1>25 DEF BirthFails
<1>26. CASE BrokerAccepts
  BY <1>26 DEF BrokerAccepts
<1>27. CASE BrokerReads
  <2>1. /\ wire # <<>> /\ wire' = Tail(wire) /\ bsess # "none"
        /\ Head(wire) # "DISCONNECT" => retained' = Head(wire) /\ bsess' = bsess
        /\ Head(wire) = "DISCONNECT" => bsess' = "none" /\ retained' = retained
        /\ UNCHANGED <<pc, sock, entered>>
    BY <1>27 DEF BrokerReads
  <2>2. CASE Head(wire) = "DISCONNECT"
    BY <2>1, <2>2
  <2>3. CASE Head(wire) # "DISCONNECT"
    BY <2>1, <2>3
  <2>. QED
    BY <2>2, <2>3
<1>28. CASE BrokerReaps
  BY <1>28 DEF BrokerReaps
<1>29. CASE ConnectionLost
  BY <1>29 DEF ConnectionLost
<1>30. CASE BrokerRestarts
  BY <1>30 DEF BrokerRestarts
<1>31. CASE LinkChanges
  BY <1>31 DEF LinkChanges
<1>32. CASE UNCHANGED vars
  BY <1>32 DEF vars
<1>. QED
  BY <1>1, <1>2, <1>3, <1>4, <1>5, <1>6, <1>7, <1>8, <1>9, <1>10, <1>11,
     <1>12, <1>13, <1>14, <1>15, <1>16, <1>17, <1>18, <1>19, <1>20, <1>21, <1>22,
     <1>23, <1>24, <1>25, <1>26, <1>27, <1>28, <1>29, <1>30, <1>31, <1>32
     DEF Next, Client, Environment

\* A session that reached publish_loop leaves "offline" behind, farewell or
\* will, however it ends and whatever of it the broker still reads.
THEOREM AlwaysEndsOffline == Spec => []SessionEndsOffline
<1>1. Init => FarewellFirst
  BY NothingCloses DEF Init, FarewellFirst, SessionEndsOffline
<1>2. FarewellFirst => SessionEndsOffline
  BY DEF FarewellFirst
<1>3. OnlineInv => EndsAgree
  BY DEF OnlineInv
<1>. QED
  BY <1>1, <1>2, <1>3, OnlineInductive, FarewellStep, TypeInvariant, PTL DEF Spec

=============================================================================

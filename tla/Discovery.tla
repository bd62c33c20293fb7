----------------------------- MODULE Discovery -----------------------------
(***************************************************************************)
(* The discovery run of publish_loop (aviation_feeder_mqtt/app.py): the    *)
(* retained config topics that tell Home Assistant which entities exist.   *)
(* They live in the broker and outlive the add-on, so a run has to mend    *)
(* whatever earlier runs left there: under other options, cut short by a   *)
(* lost session, a crash or a restart, or forgotten by the broker.         *)
(*                                                                         *)
(* The configs of one category (one builder of mqtt.py), and those of one  *)
(* feeder, are published together and are one topic here.                  *)
(***************************************************************************)
EXTENDS Integers, Sequences, SequencesExt

CONSTANTS
    Feeders,    \* ALL_FEEDER_KEYS
    Options     \* the options a user may start the add-on with

OptionRecords ==
    [health: BOOLEAN,       \* ha_feeder_health
     nearby: BOOLEAN,       \* ha_planes_near_me, and the station is located
     status: BOOLEAN,       \* ha_feeder_status
     unique: BOOLEAN,       \* ha_unique_today
     emergency: BOOLEAN,    \* ha_emergency_squawk
     messages: BOOLEAN,     \* ha_message_types
     receiver: {"rtlsdr", "remote", "uat"},     \* receiver_mode
     enable_uat: BOOLEAN,
     enabled: SUBSET Feeders]                   \* feeders switched on

ASSUME OptionsAssumption == Options \subseteq OptionRecords

MainTopics == {"health", "nearby", "sdr", "unique", "emergency", "uat",
               "messages", "broker"}

ASSUME FeedersAssumption == IsFiniteSet(Feeders) /\ Feeders \cap MainTopics = {}

VARIABLES
    opts,       \* options of the running add-on, of the last one when it is down
    session,    \* none: no add-on; down: no broker; up: in publish_loop
    need,       \* need_discovery["v"]
    next,       \* publish of the plan that is awaited; 0: not in a run
    retained    \* config topic -> what the broker retains

vars == <<opts, session, need, next, retained>>

-----------------------------------------------------------------------------

Topics == MainTopics \cup Feeders

\* A config payload; feeder devices hang under the main one or stand alone.
Payloads == {"none", "live", "nested", "alone"}

\* The real config, or the empty payload that removes the entity.
Toggled(topic, on) == <<topic, IF on THEN "live" ELSE "none">>

\* sdr_on and uat_on: hardware-gated, under ha_feeder_health.
SdrOn(o) == o.health /\ o.receiver # "remote"
UatOn(o) == o.health /\ (o.receiver = "uat"
                            \/ (o.receiver = "rtlsdr" /\ o.enable_uat))

\* One feeder's configs; via_parent is ha_feeder_health.
FeederConfig(o, f) == <<f, IF o.health THEN "nested" ELSE "alone">>

\* Mutant: a disabled feeder is not enumerated, so not retracted either.
StaleAmongEnabled(o) == {}

\* stale_feeder_topics: feeders this run does not publish.
Stale(o) == Feeders \ o.enabled

\* Mutant: the retractions are sent ahead of the configs.
FeederPlanOldFirst(o) ==
    LET gone == SetToSeq(Feeders)
        here == SetToSeq(o.enabled)
    IN  [k \in 1 .. Len(gone) |-> <<gone[k], "none">>]
        \o [k \in 1 .. Len(here) |-> FeederConfig(o, here[k])]

\* The per-feeder part of a run: configs, then retractions.
FeederPlan(o) ==
    LET here == SetToSeq(o.enabled)
        gone == SetToSeq(Stale(o))
    IN  [k \in 1 .. Len(here) |-> FeederConfig(o, here[k])]
        \o [k \in 1 .. Len(gone) |-> <<gone[k], "none">>]

\* The publishes of one run in the code's order, up to the closing "online".
Plan == [o \in Options |->
    <<Toggled("health", o.health), Toggled("nearby", o.nearby)>>
    \o (IF o.status THEN FeederPlan(o) ELSE <<>>)
    \o <<Toggled("sdr", SdrOn(o)), Toggled("unique", o.unique),
         Toggled("emergency", o.emergency), Toggled("uat", UatOn(o)),
         Toggled("messages", o.messages), Toggled("broker", o.health)>>]

\* The broker's retained configs after it read one of them.
With(publish) == [retained EXCEPT ![publish[1]] = publish[2]]

-----------------------------------------------------------------------------

Init ==
    /\ opts \in Options
    /\ session = "none" /\ need = FALSE /\ next = 0
    /\ retained = [t \in Topics |-> "none"]

\* The add-on starts, with whatever options it is given.
Start ==
    /\ session = "none"
    /\ opts' \in Options
    /\ session' = "down" /\ need' = TRUE
    /\ UNCHANGED <<next, retained>>

\* Mutant: a reconnection owes no run of its own.
ConnectOwingNothing ==
    /\ session = "down"
    /\ session' = "up"
    /\ UNCHANGED <<opts, need, next, retained>>

\* CONNACK and the first "online": the session owes a run.
Connect ==
    /\ session = "down"
    /\ session' = "up" /\ need' = TRUE
    /\ UNCHANGED <<opts, next, retained>>

\* Top of a cycle with a run owed.
Begin ==
    /\ session = "up" /\ need /\ next = 0
    /\ next' = 1
    /\ UNCHANGED <<opts, session, need, retained>>

\* PUBACK of the config awaited.
Publish ==
    /\ session = "up" /\ next \in 1 .. Len(Plan[opts])
    /\ retained' = With(Plan[opts][next])
    /\ next' = next + 1
    /\ UNCHANGED <<opts, session, need>>

\* PUBACK of the closing "online".
Done ==
    /\ session = "up" /\ next = Len(Plan[opts]) + 1
    /\ next' = 0 /\ need' = FALSE
    /\ UNCHANGED <<opts, session, retained>>

\* What the broker may have taken of the publish that was in flight.
InFlight ==
    {retained} \cup
        (IF session = "up" /\ next \in 1 .. Len(Plan[opts])
         THEN {With(Plan[opts][next])} ELSE {})

\* Mutant: an abandoned run is left marked as under way.
SessionLostMidRun ==
    /\ session = "up"
    /\ session' = "down"
    /\ retained' \in InFlight
    /\ UNCHANGED <<opts, need, next>>

\* Any publish raises MqttError: the run is abandoned with the session.
SessionLost ==
    /\ session = "up"
    /\ session' = "down" /\ next' = 0
    /\ retained' \in InFlight
    /\ UNCHANGED <<opts, need>>

\* The add-on is stopped, killed or crashes, at any point.
Stop ==
    /\ session # "none"
    /\ session' = "none" /\ next' = 0 /\ need' = FALSE
    /\ retained' \in InFlight
    /\ UNCHANGED opts

\* Home Assistant announces a restart.
Birth ==
    /\ session = "up"
    /\ need' = TRUE
    /\ UNCHANGED <<opts, session, next, retained>>

\* The broker restarts without its retained messages.
BrokerRestarts ==
    /\ retained' = [t \in Topics |-> "none"]
    /\ next' = 0
    /\ session' = IF session = "none" THEN "none" ELSE "down"
    /\ UNCHANGED <<opts, need>>

Next ==
    \/ Start \/ Connect \/ Begin \/ Publish \/ Done
    \/ SessionLost \/ Stop \/ Birth \/ BrokerRestarts

Spec == Init /\ [][Next]_vars

-----------------------------------------------------------------------------
(* Properties.                                                             *)

\* The main entities that options `o` ask for, stated from the option table of
\* DOCS.md rather than from the order of the publishes.
Asked(o, t) ==
    \/ t \in {"health", "broker"} /\ o.health
    \/ t = "sdr" /\ o.health /\ o.receiver \in {"rtlsdr", "uat"}
    \/ t = "uat" /\ o.health /\ o.receiver # "remote"
                 /\ (o.enable_uat \/ o.receiver = "uat")
    \/ t = "nearby" /\ o.nearby
    \/ t = "unique" /\ o.unique
    \/ t = "emergency" /\ o.emergency
    \/ t = "messages" /\ o.messages

\* What the broker should retain under them.
Wanted(o, t) ==
    IF t \in Feeders
    THEN IF t \notin o.enabled THEN "none"
         ELSE IF o.health THEN "nested" ELSE "alone"
    ELSE IF Asked(o, t) THEN "live" ELSE "none"

\* No discovery run is owed or under way, and the broker is there.
Settled == session = "up" /\ ~need

\* Types; a run is only under way in a session that owes one.
TypeOK ==
    /\ opts \in Options
    /\ session \in {"none", "down", "up"}
    /\ need \in BOOLEAN
    /\ next \in 0 .. Len(Plan[opts]) + 1
    /\ retained \in [Topics -> Payloads]
    /\ next > 0 => session = "up"

\* Once a run is complete the main device has exactly the entities the current
\* options ask for, whatever earlier options, aborted runs, crashes and broker
\* restarts had left in the broker.
MainSettles == Settled => \A t \in MainTopics : retained[t] = Wanted(opts, t)

\* The same for the feeder devices, those of switched-off feeders included,
\* while ha_feeder_status is on.
FeedersSettle ==
    Settled /\ opts.status => \A f \in Feeders : retained[f] = Wanted(opts, f)

\* A repeated run (birth, reconnection) never takes away or alters, even for
\* a moment, an entity that is already as the options want it.
NoBlip ==
    [][\A t \in Topics :
        opts' = opts /\ retained[t] = Wanted(opts, t)
            => retained'[t] = retained[t] \/ BrokerRestarts]_vars

\* DEVELOPING.md:763: of the three toggles, ha_feeder_status among them,
\* "toggling a category off publishes retained-empty configs".
StatusOffRetracts ==
    Settled /\ ~opts.status => \A f \in Feeders : retained[f] = "none"

=============================================================================

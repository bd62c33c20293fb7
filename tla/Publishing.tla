----------------------------- MODULE Publishing -----------------------------
(***************************************************************************)
(* The other half of publish_loop: what a cycle publishes as states, next  *)
(* to the entities that Discovery tells Home Assistant of.  Configs and    *)
(* states are decided by two pieces of code that have to agree, over every *)
(* combination of options and whatever the sources of the values answer.   *)
(*                                                                         *)
(* A group is the states that share a source and are published together;   *)
(* it belongs to the main devices or to a feeder.  A cycle is one action:  *)
(* configs change only between cycles, or with the end of the session, so  *)
(* a cycle that is cut short publishes a part of what a whole one does.    *)
(***************************************************************************)
EXTENDS Discovery

CONSTANTS
    Kernel,             \* THROUGHPUT_KERNEL
    ByteReport,         \* _BYTE_FEEDERS outside the kernel's: pfclient
    MessageReport,      \* _MESSAGE_FEEDERS
    PortalAircraft,     \* _PORTAL_AIRCRAFT_FEEDERS
    PortalRate,         \* _PORTAL_RATE_FEEDERS
    SyncCapable,        \* MLAT_SYNC_CAPABLE
    MlatCapable,        \* MLAT_CAPABLE
    BinaryReport,       \* owners of REPORT_BINARY_SENSORS
    Answers             \* the sets of sources that may answer in a cycle

MainSources == {"stats", "uat", "beast", "aircraft", "traffic"}

\* A feeder's process (or connector), its counters, and its own report.
FeederSources == {"process", "counters", "report"}

Sources == ({"main"} \X MainSources) \cup (Feeders \X FeederSources)

ASSUME ClassesAssumption ==
    /\ "main" \notin Feeders
    /\ UNION {Kernel, ByteReport, MessageReport, PortalAircraft, PortalRate,
              MlatCapable, BinaryReport} \subseteq Feeders
    /\ SyncCapable \subseteq MlatCapable
    /\ Answers \subseteq SUBSET Sources

VARIABLES
    published,  \* the groups the latest cycle published, when nothing followed
    answered,   \* the sources that answered in it
    counted     \* feeders whose counters were sampled, by this process

cycleVars == <<published, answered, counted>>
publishingVars == <<vars, cycleVars>>

-----------------------------------------------------------------------------

MainGroups == MainTopics \cup {"nearest"}

\* The groups of one feeder, and the feeders a group applies to.
FeederGroups == {"connection", "uptime", "bytes", "bytes_rate", "messages",
                 "messages_rate", "portal_aircraft", "portal_rate",
                 "mlat_sync", "mlat_result", "report_binary"}

Applies(g, f) ==
    CASE g \in {"connection", "uptime"}       -> TRUE
      [] g \in {"bytes", "bytes_rate"}        -> f \in Kernel \cup ByteReport
      [] g \in {"messages", "messages_rate"}  -> f \in MessageReport
      [] g = "portal_aircraft"                -> f \in PortalAircraft
      [] g = "portal_rate"                    -> f \in PortalRate
      [] g = "mlat_sync"                      -> f \in SyncCapable
      [] g = "mlat_result"                    -> f \in MlatCapable
      [] g = "report_binary"                  -> f \in BinaryReport

\* What Home Assistant knows of: the retained configs.
Advertised ==
    {x \in {"main"} \X MainGroups :
        retained[IF x[2] = "nearest" THEN "nearby" ELSE x[2]] = "live"}
    \cup {x \in Feeders \X FeederGroups :
            retained[x[1]] # "none" /\ Applies(x[2], x[1])}

\* Mutant: ha_message_types is left out of the gate, as it once was.
AnyGroupButMessages(o) ==
    o.health \/ o.nearby \/ o.status \/ o.emergency \/ o.unique

\* The gate in front of all state publishes.
AnyGroup(o) ==
    o.health \/ o.nearby \/ o.status \/ o.emergency \/ o.unique \/ o.messages

\* 00-haos-options gives readsb a dongle in this mode only; without one its
\* stats.json has no receiver values.
HasSdr(o) == o.receiver = "rtlsdr"

\* The main devices' states, by what answered.
MainStates(o, a) ==
    LET On(s) == <<"main", s>> \in a
    IN  {g \in MainGroups :
            CASE g = "health"  -> o.health /\ On("stats")
              [] g = "sdr"     -> SdrOn(o) /\ On("stats") /\ HasSdr(o)
              [] g = "uat"     -> UatOn(o) /\ On("uat")
              [] g = "messages" -> o.messages /\ On("beast")
              [] g = "broker"  -> o.health
              [] g = "nearby"  -> o.nearby /\ On("aircraft")
              [] g = "nearest" -> o.nearby /\ On("aircraft") /\ On("traffic")
              [] g \in {"emergency", "unique"} -> o[g] /\ On("aircraft")}

\* Mutant: every MLAT feeder is taken to send sync statistics.
MlatSyncedAll == MlatCapable

\* mlat_states: peers and sync only where the server pushes them.
MlatSynced == SyncCapable

\* One enabled feeder's states.  Kernel totals are published from the first
\* socket on, whether or not there is one now; rates from the second sample
\* on; MLAT values always, 0 by default (mlat_states).
FeederStates(f, a) ==
    LET On(s) == <<f, s>> \in a
        bytes == \/ f \in Kernel /\ (On("counters") \/ f \in counted)
                 \/ f \in ByteReport /\ On("counters")
        messages == f \in MessageReport /\ On("counters")
    IN  {g \in FeederGroups :
            CASE g = "connection"      -> TRUE
              [] g = "uptime"          -> On("process")
              [] g = "bytes"           -> bytes
              [] g = "bytes_rate"      -> bytes /\ f \in counted
              [] g = "messages"        -> messages
              [] g = "messages_rate"   -> messages /\ f \in counted
              [] g = "portal_aircraft" -> f \in PortalAircraft /\ On("report")
              [] g = "portal_rate"     -> f \in PortalRate /\ On("report")
              [] g = "mlat_sync"       -> f \in MlatSynced
              [] g = "mlat_result"     -> f \in MlatCapable
              [] g = "report_binary"   -> f \in BinaryReport /\ On("report")}

\* All states of one cycle.
States(o, a) ==
    IF ~AnyGroup(o) THEN {}
    ELSE ({"main"} \X MainStates(o, a))
         \cup (IF o.status THEN UNION {{f} \X FeederStates(f, a) : f \in o.enabled}
               ELSE {})

-----------------------------------------------------------------------------

PublishingInit ==
    /\ Init
    /\ published = {} /\ answered = {} /\ counted = {}

\* RateTracker and ThroughputAccumulator live as long as the process, across
\* sessions.
Remembered == IF session' = "none" THEN {} ELSE counted

\* A step of the discovery side.
DiscoveryStep ==
    /\ Next
    /\ published' = {} /\ answered' = {}
    /\ counted' = Remembered

\* One cycle in which no run is owed, down to its heartbeat.
Cycle ==
    /\ session = "up" /\ next = 0 /\ ~need
    /\ answered' \in Answers
    /\ published' = States(opts, answered')
    /\ counted' = counted \cup
           {f \in opts.enabled \cap (Kernel \cup ByteReport \cup MessageReport) :
                opts.status /\ <<f, "counters">> \in answered'}
    /\ UNCHANGED vars

PublishingNext == DiscoveryStep \/ Cycle

PublishingSpec == PublishingInit /\ [][PublishingNext]_publishingVars

-----------------------------------------------------------------------------
(* Properties.                                                             *)

\* A state is only ever published for an entity whose config the broker holds
\* at that moment: Home Assistant never receives what it cannot place, and no
\* retracted entity goes on being fed.
PublishedIsAdvertised == published \subseteq Advertised

\* The sources each group is computed from.
Needs == [health |-> {"stats"}, sdr |-> {"stats"}, uat |-> {"uat"},
          messages |-> {"beast"}, broker |-> {}, nearby |-> {"aircraft"},
          nearest |-> {"aircraft", "traffic"}, emergency |-> {"aircraft"},
          unique |-> {"aircraft"}]

FeederNeeds == [connection |-> {}, uptime |-> {"process"},
                bytes |-> {"counters"}, bytes_rate |-> {"counters"},
                messages |-> {"counters"}, messages_rate |-> {"counters"},
                portal_aircraft |-> {"report"}, portal_rate |-> {"report"},
                mlat_sync |-> {}, mlat_result |-> {},
                report_binary |-> {"report"}]

\* An entity that Home Assistant was told of gets its state in every cycle in
\* which its sources answer (a rate, from the second sample on): none expires
\* to "unavailable" because the publisher forgot it.  Left out are the feeder
\* entities that ha_feeder_status leaves behind when it is switched off, and
\* the dongle's of a receiver without one.
AdvertisedIsFed ==
    [][Cycle =>
        /\ \A g \in MainGroups :
              /\ <<"main", g>> \in Advertised
              /\ \A s \in Needs[g] : <<"main", s>> \in answered'
              /\ g = "sdr" => HasSdr(opts)
              => <<"main", g>> \in published'
        /\ \A f \in Feeders, g \in FeederGroups :
              /\ opts.status /\ <<f, g>> \in Advertised
              /\ \A s \in FeederNeeds[g] : <<f, s>> \in answered'
              /\ g \in {"bytes_rate", "messages_rate"} => f \in counted
              => <<f, g>> \in published']_publishingVars

\* app.py:462: "in remote/net-only mode readsb owns no SDR, so skip the SDR
\* device entirely".
NetOnlySkipsSdr == Settled /\ ~HasSdr(opts) => retained["sdr"] = "none"

=============================================================================

------------------------------ MODULE Feeders ------------------------------
(***************************************************************************)
(* What one publish cycle says of the feeders (feeders.py, app_reports.py  *)
(* and the feeder_status block of publish_loop in app.py): their states,   *)
(* the traffic rates of PlaneFinder and the uptimes.                       *)
(*                                                                         *)
(* Nothing is observed at one instant.  A cycle asks the status endpoints, *)
(* then lists the processes, reads readsb's stats.prom, the socket table,  *)
(* and the fds of the processes it had listed, while those start, connect, *)
(* disconnect and die.  The cycle's locals are emptied when last used.     *)
(*                                                                         *)
(* The feeders are the enabled ones.  Process ids and socket inodes are    *)
(* not reused within a cycle.                                              *)
(***************************************************************************)
EXTENDS Integers

CONSTANTS
    Community,  \* readsb net-connectors (COMMUNITY_FEEDERS)
    Conn,       \* clients of mode "conn": judged by their sockets
    Proc,       \* clients of mode "proc": judged by their processes
    MaxBytes    \* bound: bytes pfclient sends in a behaviour

Reporting == {"fr24", "planefinder"}    \* mode "report"
Clients == Conn \cup Proc \cup Reporting

ASSUME FeederAssumption ==
    /\ MaxBytes \in Nat
    /\ Community \cap Clients = {} /\ Conn \cap Proc = {}
    /\ (Conn \cup Proc) \cap Reporting = {}

VARIABLES
    running,    \* clients whose process runs
    remote,     \* of Conn, those with an ESTABLISHED connection to a remote
    fed,        \* fr24feed's UDP feed is up: its feed_status
    prom,       \* connectors that are up in the stats.prom last written
    counter,    \* pfclient's master_server_bytes_out, since it started
    sent,       \* history: bytes pfclient has sent, over all its starts
    phase,      \* where the cycle is
    report,     \* reporting client -> its `connected`, if it reported
    sample,     \* bytes_sent in this cycle's report
    pids,       \* clients with a pid in cmd_by_pid; of Conn, those whose
                \* process has not ended since, taking its fds along
    connectors, \* connectors up in the stats.prom read
    est,        \* clients' sockets in the socket table read, and still open
    shown,      \* feeder -> the state published this cycle
    rate,       \* bytes of the rate published this cycle
    uptime,     \* connectors whose uptime was published this cycle
    prev,       \* PlanefinderFeedState._prev
    rated,      \* RateTracker's baseline for PlaneFinder
    held,       \* history: feeding at some time since the cycle began
    steady,     \* history: feeding all the time since the cycle began
    mark,       \* history: `sent` at the last sample, if no restart since
    grew,       \* history: what `sent` did between the last two samples: "yes",
                \* "no", or "idle": no, and an answer without counter between
    billed      \* history: bytes of all rates published

world == <<running, remote, fed, prom, counter, sent>>
locals == <<report, sample, pids, connectors, est, shown, rate, uptime>>
trackers == <<prev, rated>>
history == <<held, steady, mark, grew, billed>>
vars == <<world, phase, locals, trackers, history>>

-----------------------------------------------------------------------------

None == -1      \* Python's None, where a byte count may stand

NoStates == [f \in {} |-> FALSE]

\* Clients, PlaneFinder's apart, that really feed in a given world.
Feeding(procs, conns, fr24) ==
    conns \cup (procs \cap Proc) \cup (IF fr24 THEN {"fr24"} ELSE {})

\* From the start of a cycle until its states are out.
Looking == phase \in {"reports", "scan", "prom", "sockets", "status", "shown"}

\* Keeps the observations of a cycle and the history up with the world.
Observe ==
    LET up == Feeding(running', remote', fed')
    IN  /\ held' = IF Looking THEN held \cup up ELSE {}
        /\ steady' = steady \cap up
        /\ pids' = pids \ (Conn \ running')
        /\ est' = est \cap remote'
        /\ UNCHANGED <<phase, report, sample, connectors, shown, rate, uptime,
                       trackers, grew, billed>>

Init ==
    /\ running = {} /\ remote = {} /\ fed = FALSE
    /\ prom = {} /\ counter = 0 /\ sent = 0
    /\ phase = "idle"
    /\ report = NoStates /\ sample = None
    /\ pids = {} /\ connectors = {} /\ est = {}
    /\ shown = NoStates /\ rate = 0 /\ uptime = {}
    /\ prev = None /\ rated = None
    /\ held = {} /\ steady = {}
    /\ mark = None /\ grew = "unknown" /\ billed = 0

-----------------------------------------------------------------------------
(* The feeders and readsb.                                                 *)

Starts ==
    /\ \E f \in Clients \ running : running' = running \cup {f}
    /\ UNCHANGED <<remote, fed, prom, counter, sent, mark>>
    /\ Observe

\* A process ends: its sockets close and its counters are lost.
Ends ==
    /\ \E f \in running :
        /\ running' = running \ {f}
        /\ remote' = remote \ {f}
        /\ fed' = (fed /\ f # "fr24")
        /\ IF f = "planefinder"
           THEN counter' = 0 /\ mark' = None
           ELSE UNCHANGED <<counter, mark>>
    /\ UNCHANGED <<prom, sent>>
    /\ Observe

\* A client's connection, or fr24feed's feed, comes up or goes down.
Reconnects ==
    /\ \/ /\ \E f \in Conn \cap running :
              remote' = IF f \in remote THEN remote \ {f} ELSE remote \cup {f}
          /\ UNCHANGED fed
       \/ "fr24" \in running /\ fed' = ~fed /\ UNCHANGED remote
    /\ UNCHANGED <<running, prom, counter, sent, mark>>
    /\ Observe

\* pfclient sends to its server.
Sends ==
    /\ "planefinder" \in running /\ sent < MaxBytes
    /\ counter' = counter + 1 /\ sent' = sent + 1
    /\ UNCHANGED <<running, remote, fed, prom, mark>>
    /\ Observe

\* readsb rewrites stats.prom (none, or an unreadable one, shows nothing up).
Readsb ==
    /\ prom' \in SUBSET Community /\ prom' # prom
    /\ UNCHANGED <<running, remote, fed, counter, sent, mark>>
    /\ Observe

-----------------------------------------------------------------------------
(* A cycle.                                                                *)

Begin ==
    /\ phase \in {"idle", "wait"}
    /\ phase' = "reports"
    /\ shown' = NoStates /\ rate' = 0 /\ uptime' = {}
    /\ held' = Feeding(running, remote, fed) /\ steady' = held'
    /\ UNCHANGED <<world, report, sample, pids, connectors, est,
                   trackers, mark, grew, billed>>

\* Mutant: any byte ever sent is taken for a live feed.
PfConnectedOnce(bytes) == bytes > 0

\* PlanefinderFeedState.connected: more bytes than at the last sample; with no
\* sample to compare with, optimistic.
PfConnected(bytes) == IF prev = None THEN bytes > 0 ELSE bytes > prev

\* gather_reports: each endpoint answers, if its client runs, or does not;
\* pfclient may answer without its byte counter.
GatherReports ==
    /\ phase = "reports" /\ phase' = "scan"
    /\ \E answered \in SUBSET (Reporting \cap running), counts \in BOOLEAN :
        LET bytes == IF counts THEN counter ELSE None
        IN  /\ report' = [f \in answered |->
                            IF f = "fr24" THEN fed ELSE PfConnected(bytes)]
            /\ IF "planefinder" \in answered
               THEN /\ sample' = bytes /\ prev' = bytes
                    /\ mark' = IF counts THEN sent ELSE mark
                    /\ grew' = IF mark = None \/ ~counts THEN "unknown"
                               ELSE IF sent > mark THEN "yes"
                               ELSE IF prev = None THEN "idle" ELSE "no"
               ELSE grew' = "unknown" /\ UNCHANGED <<sample, prev, mark>>
    /\ UNCHANGED <<world, pids, connectors, est, shown, rate, uptime,
                   rated, held, steady, billed>>

\* running_cmdlines_by_pid.  Some command lines may be unreadable this once.
ScanProcesses ==
    /\ phase = "scan" /\ phase' = "prom"
    /\ \E hidden \in SUBSET running :
        /\ pids' = running \ hidden
        /\ steady' = steady \ (hidden \ DOMAIN report)
    /\ UNCHANGED <<world, report, sample, connectors, est, shown, rate, uptime,
                   trackers, held, mark, grew, billed>>

\* read_connector_status.
ReadProm ==
    /\ phase = "prom" /\ phase' = "sockets"
    /\ connectors' = prom
    /\ UNCHANGED <<world, report, sample, pids, est, shown, rate, uptime,
                   trackers, history>>

\* Mutant: loopback connections, which every client has to readsb, count too.
EstablishedAnywhere == Conn \cap running

\* parse_established: ESTABLISHED, and not to a loopback address.
Established == remote

\* read_established_inodes.  A table that cannot be opened is passed over, and
\* the connections in it are missed.
ReadSockets ==
    /\ phase = "sockets" /\ phase' = "status"
    /\ \E missed \in SUBSET Conn :
        /\ est' = Established \ missed
        /\ steady' = steady \ missed
    /\ UNCHANGED <<world, report, sample, pids, connectors, shown, rate,
                   uptime, trackers, held, mark, grew, billed>>

\* Mutant: an endpoint that does not answer is taken for a feed that is down.
ReportedOnly(f) == f \in DOMAIN report /\ report[f]

\* mode "report": the endpoint's word, or else that the process runs.
Reported(f) == IF f \in DOMAIN report THEN report[f] ELSE f \in pids

\* compute_feeder_status, and the states it leads to.  The fds of some
\* processes may be unreadable this once.
Status ==
    /\ phase = "status" /\ phase' = "shown"
    /\ \E readable \in SUBSET Conn :
        /\ shown' = [f \in Community \cup Clients |->
                        CASE f \in Community -> f \in connectors
                          [] f \in Reporting -> Reported(f)
                          [] f \in Proc      -> f \in pids
                          [] OTHER -> f \in pids \cap est \cap readable]
        /\ steady' = steady \ (Conn \ readable)
    /\ UNCHANGED <<world, report, sample, pids, connectors, est, rate,
                   uptime, trackers, held, mark, grew, billed>>

\* Mutants: the first sample is a rate already; a counter that went down gives
\* a negative one.
RateFromZero(bytes, late) ==
    IF ~late THEN 0 ELSE IF rated = None THEN bytes
    ELSE IF bytes < rated THEN 0 ELSE bytes - rated
RateUnclamped(bytes, late) == IF rated = None \/ ~late THEN 0 ELSE bytes - rated

\* RateTracker.rate times the time since its baseline: nothing without one, or
\* if the clock has not advanced; 0 for a counter that went down.
Rate(bytes, late) ==
    IF rated = None \/ ~late \/ bytes < rated THEN 0 ELSE bytes - rated

\* _bytes of PlaneFinder, if its report had the counter.
Rates ==
    /\ phase = "shown" /\ phase' = "rated"
    /\ IF sample = None THEN UNCHANGED <<rate, rated, billed>>
       ELSE \E late \in BOOLEAN :
                /\ rate' = Rate(sample, late)
                /\ billed' = billed + rate'
                /\ rated' = sample
    /\ report' = NoStates /\ sample' = None /\ pids' = {} /\ est' = {}
    /\ shown' = [f \in Community |-> shown[f]]
    /\ held' = {} /\ steady' = {} /\ grew' = "unknown"
    /\ UNCHANGED <<world, connectors, uptime, prev, mark>>

\* Mutant: stats.prom is read again for the uptimes.
UptimesReread == prom

\* compute_feeder_uptime: connect-seconds from the stats.prom already read.  (The
\* uptime of a client is the age of its process, and left out.)
Uptimes == connectors

PublishUptimes ==
    /\ phase = "rated" /\ phase' = "wait"
    /\ uptime' = Uptimes
    /\ connectors' = {} /\ rate' = 0
    /\ UNCHANGED <<world, report, sample, pids, est, shown, trackers, history>>

NoCycle ==
    /\ phase' = "idle"
    /\ report' = NoStates /\ sample' = None
    /\ pids' = {} /\ connectors' = {} /\ est' = {}
    /\ shown' = NoStates /\ rate' = 0 /\ uptime' = {}
    /\ held' = {} /\ steady' = {} /\ grew' = "unknown"

\* A publish raises, before the block or among its own: the cycle ends there,
\* and the trackers stay as they are.
Abandon ==
    /\ phase \in {"reports", "shown", "rated"} /\ NoCycle
    /\ UNCHANGED <<world, trackers, mark, billed>>

\* The publisher exits and s6 starts it again.
Restart ==
    /\ NoCycle
    /\ prev' = None /\ rated' = None /\ mark' = None
    /\ UNCHANGED <<world, billed>>

Next ==
    \/ Starts \/ Ends \/ Reconnects \/ Sends \/ Readsb
    \/ Begin \/ GatherReports \/ ScanProcesses \/ ReadProm \/ ReadSockets
    \/ Status \/ Rates \/ PublishUptimes \/ Abandon \/ Restart

Spec == Init /\ [][Next]_vars

-----------------------------------------------------------------------------
(* Properties.                                                             *)

\* The byte counts; no rate is negative.
BytesOK ==
    /\ counter \in Nat /\ sent \in Nat /\ billed \in Nat /\ rate \in Nat
    /\ sample \in Nat \cup {None} /\ mark \in Nat \cup {None}
    /\ prev \in Nat \cup {None} /\ rated \in Nat \cup {None}

\* What the phases have published.
ShownOK ==
    /\ \A f \in DOMAIN shown : shown[f] \in BOOLEAN
    /\ DOMAIN shown =
            IF phase = "shown" THEN Community \cup Clients
            ELSE IF phase \in {"rated", "wait"} THEN Community ELSE {}

\* Every variable stays in its type.
TypeOK ==
    /\ BytesOK /\ ShownOK
    /\ running \subseteq Clients /\ remote \subseteq Conn \cap running
    /\ fed \in BOOLEAN /\ prom \subseteq Community
    /\ phase \in {"idle", "reports", "scan", "prom", "sockets", "status",
                  "shown", "rated", "wait"}
    /\ DOMAIN report \subseteq Reporting
    /\ \A f \in DOMAIN report : report[f] \in BOOLEAN
    /\ pids \subseteq Clients /\ est \subseteq Conn
    /\ connectors \subseteq Community /\ uptime \subseteq Community
    /\ held \subseteq Clients /\ steady \subseteq Clients
    /\ grew \in {"unknown", "yes", "no", "idle"}

\* A client shown as connected has really fed at some time since the cycle
\* began: no mixture of the cycle's readings, taken at different times around
\* restarts and reconnections, adds up to a feed that was not there.  fr24
\* without an endpoint is shown by its process.
NoFalseUp ==
    phase = "shown" =>
        /\ \A f \in Conn \cup Proc : shown[f] => f \in held
        /\ shown["fr24"] => "fr24" \in held \cup (pids \ DOMAIN report)

\* A client that fed throughout the cycle is shown as connected, also when its
\* endpoint did not answer; unless its command line, its fds or the table of its
\* sockets could not be read.
NoFalseDown ==
    phase = "shown" => \A f \in steady : shown[f]

\* PlaneFinder is shown as connected if bytes went out between the last two
\* samples of the same pfclient, however many cycles without an answer, cut short
\* or with an answer without the counter lie between them; and only then, if no
\* such answer does.
PlanefinderFollowsTraffic ==
    phase = "shown" =>
        /\ grew = "yes" => shown["planefinder"]
        /\ grew = "no"  => ~shown["planefinder"]

\* A community feeder has an uptime in a cycle just when it is shown as
\* connected, though readsb rewrites stats.prom in between.
UptimeMatchesStatus ==
    phase = "wait" =>
        \A f \in Community : shown[f] <=> f \in uptime

\* All the rates published add up to no more than pfclient has sent, through
\* its restarts, the publisher's, lost samples and clock steps.
RatesNeverOvercount == billed <= sent

=============================================================================

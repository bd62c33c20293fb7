--------------------------- MODULE FeedersProofs ---------------------------
(***************************************************************************)
(* What holds of Feeders for every set of feeders of each kind and every   *)
(* number of bytes.                                                        *)
(***************************************************************************)
EXTENDS Feeders, TLAPS

-----------------------------------------------------------------------------
(* Rates.                                                                  *)

\* The bytes counted but not yet billed are covered by what was sent: from the
\* baseline up to the counter, and, while a sample is pending, from the sample
\* up to the counter and from the baseline up to the sample.
RatesCovered ==
    /\ billed <= sent
    /\ rated # None => billed + counter <= sent + rated
    /\ sample # None => billed + counter <= sent + sample
    /\ sample # None /\ rated # None => billed + sample <= sent + rated

\* The variables that hold byte counts.
bytes == <<counter, sent, billed, rate, sample, mark, prev, rated>>

LEMMA RatesStep ==
  BytesOK /\ RatesCovered /\ [Next]_vars => BytesOK' /\ RatesCovered'
<1>. SUFFICES ASSUME BytesOK, RatesCovered, [Next]_vars
              PROVE  BytesOK' /\ RatesCovered'
  OBVIOUS
<1>q. UNCHANGED bytes => BytesOK' /\ RatesCovered'
  BY DEF bytes, BytesOK, RatesCovered
<1>1. CASE Starts \/ Reconnects \/ Readsb
  <2>1. UNCHANGED bytes
    BY <1>1, Zenon DEF Starts, Reconnects, Readsb, Observe, trackers, bytes
  <2>. QED
    BY <2>1, <1>q
<1>2. CASE Ends
  <2>1. /\ (counter' = 0 /\ mark' = None) \/ UNCHANGED <<counter, mark>>
        /\ UNCHANGED <<sent, billed, rate, sample, prev, rated>>
    BY <1>2, Zenon DEF Ends, Observe, trackers
  <2>. QED
    BY <2>1 DEF BytesOK, RatesCovered, None
<1>3. CASE Sends
  <2>1. /\ counter' = counter + 1 /\ sent' = sent + 1
        /\ UNCHANGED <<billed, rate, sample, mark, prev, rated>>
    BY <1>3, Zenon DEF Sends, Observe, trackers
  <2>. QED
    BY <2>1 DEF BytesOK, RatesCovered, None
<1>4. CASE Begin \/ PublishUptimes
  <2>1. /\ rate' = 0
        /\ UNCHANGED <<counter, sent, billed, sample, mark, prev, rated>>
    BY <1>4, Zenon DEF Begin, PublishUptimes, world, trackers, history
  <2>. QED
    BY <2>1 DEF BytesOK, RatesCovered
<1>5. CASE GatherReports
  <2>1. UNCHANGED <<counter, sent, billed, rate, rated>>
    BY <1>5, Zenon DEF GatherReports, world
  <2>2. PICK answered \in SUBSET (Reporting \cap running), counts \in BOOLEAN :
           GatherReports!2!(answered, counts)
    BY <1>5, Zenon DEF GatherReports
  <2>3. /\ \/ sample' = counter /\ prev' = counter
           \/ sample' = None /\ prev' = None
           \/ UNCHANGED <<sample, prev>>
        /\ mark' = sent \/ mark' = None \/ mark' = mark
    BY <2>2, Zenon
  <2>. QED
    BY <2>1, <2>3 DEF BytesOK, RatesCovered, None
<1>6. CASE ScanProcesses \/ ReadProm \/ ReadSockets \/ Status
  <2>1. UNCHANGED bytes
    BY <1>6, Zenon DEF ScanProcesses, ReadProm, ReadSockets, Status, world,
       trackers, history, bytes
  <2>. QED
    BY <2>1, <1>q
<1>7. CASE Rates
  <2>1. sample' = None /\ UNCHANGED <<counter, sent, mark, prev>>
    BY <1>7, Zenon DEF Rates, world
  <2>2. CASE sample = None
    <3>1. UNCHANGED <<billed, rate, rated>>
      BY <1>7, <2>2, Zenon DEF Rates
    <3>. QED
      BY <2>1, <3>1 DEF BytesOK, RatesCovered
  <2>3. CASE sample # None
    <3>1. PICK late \in BOOLEAN : /\ rate' = Rate(sample, late)
                                  /\ billed' = billed + rate'
                                  /\ rated' = sample
      BY <1>7, <2>3, Zenon DEF Rates
    <3>2. CASE rated = None \/ ~late \/ sample < rated
      <4>1. rate' = 0
        BY <3>1, <3>2, Zenon DEF Rate
      <4>. QED
        BY <2>1, <2>3, <3>1, <4>1 DEF BytesOK, RatesCovered, None
    <3>3. CASE rated # None /\ ~(sample < rated) /\ late
      <4>1. /\ rate' = sample - rated /\ billed' = billed + rate'
            /\ rated' = sample
        BY <3>1, <3>3, Zenon DEF Rate
      <4>2. /\ sample \in Nat /\ rated \in Nat /\ rated <= sample
            /\ billed + sample <= sent + rated
        BY <2>3, <3>3 DEF BytesOK, RatesCovered
      <4>3. rate' \in Nat /\ billed' \in Nat /\ billed' <= sent
        BY <4>1, <4>2 DEF BytesOK
      <4>4. billed' + counter <= sent + sample
        BY <2>3, <3>3, <4>1, <4>2 DEF BytesOK, RatesCovered
      <4>. QED
        BY <2>1, <4>1, <4>2, <4>3, <4>4 DEF BytesOK, RatesCovered, None
    <3>. QED
      BY <3>2, <3>3
  <2>. QED
    BY <2>2, <2>3
<1>8. CASE Abandon \/ Restart
  <2>1. /\ sample' = None /\ rate' = 0 /\ UNCHANGED <<counter, sent, billed>>
        /\ mark' \in {mark, None} /\ prev' \in {prev, None}
        /\ rated' \in {rated, None}
    BY <1>8 DEF Abandon, Restart, NoCycle, world, trackers
  <2>. QED
    BY <2>1 DEF BytesOK, RatesCovered, None
<1>9. CASE UNCHANGED vars
  <2>1. UNCHANGED bytes
    BY <1>9, Zenon DEF vars, world, locals, trackers, history, bytes
  <2>. QED
    BY <2>1, <1>q
<1>. QED
  BY <1>1, <1>2, <1>3, <1>4, <1>5, <1>6, <1>7, <1>8, <1>9, Zenon DEF Next

\* The rates published never add up to more bytes than pfclient sent: a sample
\* is billed from the baseline on, and the baseline has been billed before.
THEOREM NeverOvercharged == Spec => []RatesNeverOvercount
<1>1. Init => BytesOK /\ RatesCovered
  BY DEF Init, BytesOK, RatesCovered, None
<1>2. BytesOK /\ RatesCovered => RatesNeverOvercount
  BY DEF RatesCovered, RatesNeverOvercount
<1>. QED
  BY <1>1, <1>2, RatesStep, PTL DEF Spec

-----------------------------------------------------------------------------
(* States.                                                                 *)

\* The clients, PlaneFinder apart, that feed now.
Up == Feeding(running, remote, fed)

\* Only a running process is connected or feeds.
ProcessesFeed ==
    /\ running \subseteq Clients /\ remote \subseteq Conn \cap running
    /\ fed => "fr24" \in running

\* The history of the cycle brackets the present.
Bracketed == IF Looking THEN Up \subseteq held /\ steady \subseteq Up
             ELSE steady = {}

\* What fr24feed reported lies within that bracket; a report is kept from the
\* gathering up to the status.
Asked ==
    /\ \/ phase \in {"scan", "prom", "sockets", "status", "shown"}
       \/ DOMAIN report = {}
    /\ DOMAIN report \subseteq Reporting
    /\ "fr24" \in DOMAIN report =>
        /\ report["fr24"] => "fr24" \in held
        /\ "fr24" \in steady => report["fr24"]

\* So does the list of processes, where no report stands for one,
Listed ==
    phase \in {"prom", "sockets", "status"} =>
        pids \cap Proc \subseteq held /\ steady \ DOMAIN report \subseteq pids

\* and the table of sockets.
Connected ==
    phase = "status" => est \subseteq held /\ steady \cap Conn \subseteq est

Sighted ==
    /\ ProcessesFeed /\ Bracketed /\ Asked /\ Listed /\ Connected
    /\ NoFalseUp /\ NoFalseDown

\* The kinds of client are apart, so that a client feeds by its own kind of
\* evidence, and only while its process runs.
LEMMA KindsOfClient ==
  /\ "fr24" \notin Conn \cup Proc \cup Community
  /\ Conn \cap Proc = {}
  /\ Community \cap (Conn \cup Proc) = {}
  /\ \A f \in Community : f \notin Reporting /\ f \notin Proc
  /\ \A f \in Conn \cup Proc : f \notin Reporting
BY FeederAssumption, Zenon DEF FeederAssumption, Clients, Reporting

LEMMA FeedingKinds ==
  ASSUME NEW procs, NEW conns, NEW fr24, conns \subseteq Conn \cap procs,
         fr24 => "fr24" \in procs
  PROVE  /\ conns \subseteq Feeding(procs, conns, fr24)
         /\ procs \cap Proc \subseteq Feeding(procs, conns, fr24)
         /\ Feeding(procs, conns, fr24) \subseteq procs
         /\ Feeding(procs, conns, fr24) \subseteq Conn \cup Proc \cup {"fr24"}
         /\ Feeding(procs, conns, fr24) \cap Conn \subseteq conns
         /\ "fr24" \in Feeding(procs, conns, fr24) <=> fr24
BY KindsOfClient, Zenon DEF Feeding

\* A step of the world is observed, and leaves the bracket and all that was
\* read in place.
LEMMA WorldStep ==
  ASSUME Sighted, ProcessesFeed', Observe
  PROVE  Sighted'
<1>. USE DEF Sighted
<1>0. /\ UNCHANGED <<phase, report, shown>>
      /\ held' = IF Looking THEN held \cup Up' ELSE {}
      /\ steady' = steady \cap Up'
      /\ pids' = pids \ (Conn \ running') /\ est' = est \cap remote'
  BY Zenon DEF Observe, Up
<1>1. Up' \subseteq running' /\ Up' \cap Conn \subseteq remote'
  BY FeedingKinds, Zenon DEF ProcessesFeed, Up
<1>2. Looking' <=> Looking
  BY <1>0, Zenon DEF Looking
<1>3. steady' \subseteq steady /\ (Looking => held \subseteq held')
  BY <1>0, Zenon
<1>4. Bracketed'
  BY <1>0, <1>2, Zenon DEF Bracketed
<1>5. Asked'
  <2>1. CASE Looking
    BY <1>0, <1>3, <2>1, Zenon DEF Asked
  <2>2. CASE ~Looking
    BY <1>0, <1>3, <2>2, Zenon DEF Asked, Looking
  <2>. QED
    BY <2>1, <2>2
<1>6. Listed'
  <2>. SUFFICES ASSUME phase \in {"prom", "sockets", "status"}
                PROVE  /\ pids' \cap Proc \subseteq held'
                       /\ steady' \ DOMAIN report \subseteq pids'
    BY <1>0, Zenon DEF Listed
  <2>1. Looking
    BY Zenon DEF Looking
  <2>. QED
    BY <1>0, <1>1, <1>3, <2>1, Zenon DEF Listed
<1>7. Connected'
  <2>. SUFFICES ASSUME phase = "status"
                PROVE  /\ est' \subseteq held'
                       /\ steady' \cap Conn \subseteq est'
    BY <1>0, Zenon DEF Connected
  <2>1. Looking
    BY Zenon DEF Looking
  <2>. QED
    BY <1>0, <1>1, <1>3, <2>1, Zenon DEF Connected
<1>8. NoFalseUp'
  <2>. SUFFICES ASSUME phase = "shown" PROVE NoFalseUp'
    BY <1>0, Zenon DEF NoFalseUp
  <2>1. Looking
    BY Zenon DEF Looking
  <2>2. "fr24" \in pids => "fr24" \in pids'
    BY <1>0, KindsOfClient, Zenon
  <2>. QED
    BY <1>0, <1>3, <2>1, <2>2, Zenon DEF NoFalseUp
<1>9. NoFalseDown'
  BY <1>0, <1>3, Zenon DEF NoFalseDown
<1>. QED
  BY <1>4, <1>5, <1>6, <1>7, <1>8, <1>9, Zenon

\* The world's actions keep what WorldStep asks of them.
LEMMA WorldActs ==
  ASSUME Sighted, Starts \/ Ends \/ Reconnects \/ Sends \/ Readsb
  PROVE  Sighted'
<1>1. Observe
  BY Zenon DEF Starts, Ends, Reconnects, Sends, Readsb
<1>2. ProcessesFeed'
  <2>. USE DEF Sighted, ProcessesFeed
  <2>1. CASE Starts
    BY <2>1, Zenon DEF Starts
  <2>2. CASE Ends
    BY <2>2, Zenon DEF Ends
  <2>3. CASE Reconnects
    BY <2>3 DEF Reconnects
  <2>4. CASE Sends \/ Readsb
    BY <2>4 DEF Sends, Readsb
  <2>. QED
    BY <2>1, <2>2, <2>3, <2>4
<1>. QED
  BY <1>1, <1>2, WorldStep

LEMMA SightedStep == Sighted /\ [Next]_vars => Sighted'
<1>. SUFFICES ASSUME Sighted, [Next]_vars PROVE Sighted'
  OBVIOUS
<1>. DEFINE Same == UNCHANGED <<running, remote, fed>>
<1>s. Same => Up' = Up /\ (ProcessesFeed => ProcessesFeed')
  BY DEF Up, Feeding, ProcessesFeed
<1>f. /\ Up \subseteq running /\ Up \subseteq Conn \cup Proc \cup {"fr24"}
      /\ remote \subseteq Up /\ running \cap Proc \subseteq Up
      /\ Up \cap Conn \subseteq remote /\ ("fr24" \in Up <=> fed)
  BY FeedingKinds, Zenon DEF Sighted, ProcessesFeed, Up
<1>1. CASE Starts \/ Ends \/ Reconnects \/ Sends \/ Readsb
  BY <1>1, WorldActs
<1>2. CASE Begin
  <2>1. /\ phase \in {"idle", "wait"} /\ phase' = "reports" /\ Same
        /\ held' = Up /\ steady' = Up /\ report' = report
    BY <1>2, Zenon DEF Begin, world, Up
  <2>2. DOMAIN report' = {}
    BY <2>1 DEF Sighted, Asked
  <2>. QED
    BY <2>1, <2>2, <1>s DEF Sighted, Bracketed, Looking, Asked, Listed,
       Connected, NoFalseUp, NoFalseDown
<1>3. CASE GatherReports
  <2>1. /\ phase = "reports" /\ phase' = "scan" /\ Same
        /\ UNCHANGED <<held, steady>>
    BY <1>3, Zenon DEF GatherReports, world
  <2>2. PICK answered \in SUBSET (Reporting \cap running), counts \in BOOLEAN :
           GatherReports!2!(answered, counts)
    BY <1>3, Zenon DEF GatherReports
  <2>3. /\ DOMAIN report' = answered
        /\ "fr24" \in answered => report'["fr24"] = fed
    BY <2>2, Zenon
  <2>4. Up \subseteq held /\ steady \subseteq Up
    BY <2>1 DEF Sighted, Bracketed, Looking
  <2>5. Asked'
    <3>. SUFFICES ASSUME "fr24" \in DOMAIN report'
                  PROVE  /\ report'["fr24"] => "fr24" \in held'
                         /\ "fr24" \in steady' => report'["fr24"]
      BY <2>1, <2>3 DEF Asked
    <3>. QED
      BY <2>1, <2>3, <2>4, <1>f, Zenon
  <2>. QED
    BY <2>1, <2>4, <2>5, <1>s DEF Sighted, Bracketed, Looking, Listed,
       Connected, NoFalseUp, NoFalseDown
<1>4. CASE ScanProcesses
  <2>1. /\ phase = "scan" /\ phase' = "prom" /\ Same
        /\ UNCHANGED <<held, report>>
    BY <1>4, Zenon DEF ScanProcesses, world
  <2>h. PICK hidden \in SUBSET running : ScanProcesses!2!(hidden)
    BY <1>4, Zenon DEF ScanProcesses
  <2>2. Up \subseteq held /\ steady \subseteq Up
    BY <2>1 DEF Sighted, Bracketed, Looking
  <2>3. steady' \subseteq steady /\ pids' \subseteq running
    BY <2>h, Zenon
  <2>4. steady' \ DOMAIN report \subseteq pids'
    BY <2>h, <2>2, <1>f, Zenon
  <2>5. Listed'
    BY <2>1, <2>2, <2>3, <2>4, <1>f, Zenon DEF Listed
  <2>6. Asked' /\ Bracketed'
    BY <2>1, <2>2, <2>3, <1>s DEF Sighted, Asked, Bracketed, Looking
  <2>. QED
    BY <2>1, <2>5, <2>6, <1>s DEF Sighted, Connected, NoFalseUp, NoFalseDown
<1>5. CASE ReadProm
  <2>1. /\ phase = "prom" /\ phase' = "sockets" /\ Same
        /\ UNCHANGED <<held, steady, report, pids>>
    BY <1>5, Zenon DEF ReadProm, world, history
  <2>. QED
    BY <2>1, <1>s DEF Sighted, Bracketed, Looking, Asked, Listed,
       Connected, NoFalseUp, NoFalseDown
<1>6. CASE ReadSockets
  <2>1. /\ phase = "sockets" /\ phase' = "status" /\ Same
        /\ UNCHANGED <<held, report, pids>>
    BY <1>6, Zenon DEF ReadSockets, world
  <2>m. PICK missed \in SUBSET Conn : /\ est' = remote \ missed
                                     /\ steady' = steady \ missed
    BY <1>6, Zenon DEF ReadSockets, Established
  <2>2. Up \subseteq held /\ steady \subseteq Up
    BY <2>1 DEF Sighted, Bracketed, Looking
  <2>3. Connected'
    BY <2>1, <2>m, <2>2, <1>f, Zenon DEF Connected
  <2>4. steady' \subseteq steady
    BY <2>m, Zenon
  <2>5. Asked' /\ Bracketed' /\ Listed'
    BY <2>1, <2>2, <2>4, <1>s DEF Sighted, Asked, Bracketed, Looking, Listed
  <2>. QED
    BY <2>1, <2>3, <2>5, <1>s DEF Sighted, NoFalseUp, NoFalseDown
<1>7. CASE Status
  <2>1. /\ phase = "status" /\ phase' = "shown" /\ Same
        /\ UNCHANGED <<held, report, pids, est>>
    BY <1>7, Zenon DEF Status, world
  <2>2. PICK readable \in SUBSET Conn : Status!2!(readable)
    BY <1>7, Zenon DEF Status
  <2>3. Up \subseteq held /\ steady \subseteq Up
    BY <2>1 DEF Sighted, Bracketed, Looking
  <2>4. pids \cap Proc \subseteq held /\ steady \ DOMAIN report \subseteq pids
    BY <2>1 DEF Sighted, Listed
  <2>5. est \subseteq held /\ steady \cap Conn \subseteq est
    BY <2>1 DEF Sighted, Connected
  <2>6. steady' = steady \ (Conn \ readable)
    BY <2>2, Zenon
  <2>7. \A f \in Conn : shown'[f] = (f \in pids \cap est \cap readable)
    BY <2>2, KindsOfClient DEF Clients
  <2>8. \A f \in Proc : shown'[f] = (f \in pids)
    BY <2>2, KindsOfClient DEF Clients
  <2>9. shown'["fr24"] = Reported("fr24")
    BY <2>2, KindsOfClient DEF Clients, Reporting
  <2>10. /\ "fr24" \in DOMAIN report => Reported("fr24") = report["fr24"]
         /\ "fr24" \notin DOMAIN report => Reported("fr24") = ("fr24" \in pids)
    BY Zenon DEF Reported
  <2>11. "fr24" \in DOMAIN report =>
            /\ report["fr24"] => "fr24" \in held
            /\ "fr24" \in steady => report["fr24"]
    BY Zenon DEF Sighted, Asked
  <2>12. NoFalseUp'
    BY <2>1, <2>4, <2>5, <2>7, <2>8, <2>9, <2>10, <2>11, Zenon DEF NoFalseUp
  <2>13. NoFalseDown'
    <3>. SUFFICES ASSUME NEW f \in steady' PROVE shown'[f]
      BY Zenon DEF NoFalseDown
    <3>1. /\ f \in steady /\ f \in Conn \cup Proc \cup {"fr24"}
          /\ f \in DOMAIN report \/ f \in pids
      BY <2>3, <2>4, <2>6, <1>f, Zenon
    <3>d. DOMAIN report \cap (Conn \cup Proc) = {}
      BY KindsOfClient, Zenon DEF Sighted, Asked
    <3>2. CASE f \in Conn
      BY <3>1, <3>d, <3>2, <2>5, <2>6, <2>7, Zenon
    <3>3. CASE f \in Proc
      BY <3>1, <3>d, <3>3, <2>8, Zenon
    <3>4. CASE f = "fr24"
      BY <3>1, <3>4, <2>9, <2>10, <2>11, Zenon
    <3>. QED
      BY <3>1, <3>2, <3>3, <3>4
  <2>14. Asked' /\ Bracketed'
    BY <2>1, <2>3, <2>6, <2>11, <1>s DEF Sighted, Asked, Bracketed, Looking
  <2>. QED
    BY <2>1, <2>12, <2>13, <2>14, <1>s DEF Sighted, Listed, Connected
<1>8. CASE Rates \/ Abandon \/ Restart
  <2>1. /\ phase' \in {"rated", "idle"} /\ Same
        /\ DOMAIN report' = {} /\ steady' = {}
    BY <1>8 DEF Rates, Abandon, Restart, NoCycle, NoStates, world
  <2>. QED
    BY <2>1, <1>s DEF Sighted, Bracketed, Looking, Asked, Listed, Connected,
       NoFalseUp, NoFalseDown
<1>9. CASE PublishUptimes
  <2>1. /\ phase = "rated" /\ phase' = "wait" /\ Same
        /\ UNCHANGED <<held, steady, report>>
    BY <1>9, Zenon DEF PublishUptimes, world, history
  <2>. QED
    BY <2>1, <1>s DEF Sighted, Bracketed, Looking, Asked, Listed, Connected,
       NoFalseUp, NoFalseDown
<1>10. CASE UNCHANGED vars
  BY <1>10, <1>s, Zenon DEF vars, world, locals, trackers, history, Sighted,
     Bracketed, Looking, Asked, Listed, Connected, NoFalseUp, NoFalseDown
<1>. QED
  BY <1>1, <1>2, <1>3, <1>4, <1>5, <1>6, <1>7, <1>8, <1>9, <1>10, Zenon DEF Next

\* No mixture of a cycle's readings shows a client connected that has not fed
\* in that cycle.
THEOREM ShownHasFed == Spec => []NoFalseUp
<1>1. Init => Sighted
  BY DEF Init, Sighted, ProcessesFeed, Bracketed, Looking, Asked, Listed,
     Connected, NoFalseUp, NoFalseDown, NoStates
<1>2. Sighted => NoFalseUp
  BY DEF Sighted
<1>. QED
  BY <1>1, <1>2, SightedStep, PTL DEF Spec

\* And none shows a client down that fed throughout.
THEOREM FedIsShown == Spec => []NoFalseDown
<1>1. Init => Sighted
  BY DEF Init, Sighted, ProcessesFeed, Bracketed, Looking, Asked, Listed,
     Connected, NoFalseUp, NoFalseDown, NoStates
<1>2. Sighted => NoFalseDown
  BY DEF Sighted
<1>. QED
  BY <1>1, <1>2, SightedStep, PTL DEF Spec

-----------------------------------------------------------------------------
(* PlaneFinder.                                                            *)

\* Since its last sample, pfclient has counted what it sent, from prev on if
\* that sample is still there.
Tracked ==
    mark # None => /\ sent <= counter + mark
                   /\ prev # None => counter + mark = sent + prev

\* A report whose two samples can be compared says what lies between them.
Compared ==
    grew # "unknown" =>
        /\ "planefinder" \in DOMAIN report
        /\ grew = "yes" => report["planefinder"]
        /\ grew = "no" => ~report["planefinder"]

LEMMA TrackedStep == BytesOK /\ Tracked /\ [Next]_vars => Tracked'
<1>. SUFFICES ASSUME BytesOK, Tracked, [Next]_vars PROVE Tracked'
  OBVIOUS
<1>. USE DEF Tracked
<1>1. CASE Starts \/ Reconnects \/ Readsb
  <2>1. UNCHANGED bytes
    BY <1>1, Zenon DEF Starts, Reconnects, Readsb, Observe, trackers, bytes
  <2>. QED
    BY <2>1 DEF bytes
<1>2. CASE Ends
  <2>1. mark' = None \/ UNCHANGED <<counter, mark, sent, prev>>
    BY <1>2, Zenon DEF Ends, Observe, trackers
  <2>. QED
    BY <2>1
<1>3. CASE Sends
  <2>1. counter' = counter + 1 /\ sent' = sent + 1 /\ UNCHANGED <<mark, prev>>
    BY <1>3, Zenon DEF Sends, Observe, trackers
  <2>. QED
    BY <2>1 DEF BytesOK, None
<1>4. CASE GatherReports
  <2>1. UNCHANGED <<counter, sent>>
    BY <1>4, Zenon DEF GatherReports, world
  <2>2. PICK answered \in SUBSET (Reporting \cap running), counts \in BOOLEAN :
           GatherReports!2!(answered, counts)
    BY <1>4, Zenon DEF GatherReports
  <2>3. \/ prev' = counter /\ mark' = sent
        \/ prev' = None /\ mark' = mark
        \/ UNCHANGED <<prev, mark>>
    BY <2>2, Zenon
  <2>. QED
    BY <2>1, <2>3 DEF BytesOK, None
<1>5. CASE \/ Begin \/ ScanProcesses \/ ReadProm \/ ReadSockets \/ Status
           \/ Rates \/ PublishUptimes \/ Abandon
  <2>1. UNCHANGED <<counter, sent, mark, prev>>
    BY <1>5, Zenon DEF Begin, ScanProcesses, ReadProm, ReadSockets, Status,
       Rates, PublishUptimes, Abandon, world, trackers, history
  <2>. QED
    BY <2>1
<1>6. CASE Restart
  BY <1>6 DEF Restart
<1>7. CASE UNCHANGED vars
  <2>1. UNCHANGED <<counter, sent, mark, prev>>
    BY <1>7, Zenon DEF vars, world, trackers, history
  <2>. QED
    BY <2>1
<1>. QED
  BY <1>1, <1>2, <1>3, <1>4, <1>5, <1>6, <1>7, Zenon DEF Next

LEMMA ComparedStep ==
  /\ BytesOK /\ Tracked /\ Compared /\ PlanefinderFollowsTraffic /\ [Next]_vars
  => Compared' /\ PlanefinderFollowsTraffic'
<1>. SUFFICES ASSUME BytesOK, Tracked, Compared, PlanefinderFollowsTraffic,
                     [Next]_vars
              PROVE  Compared' /\ PlanefinderFollowsTraffic'
  OBVIOUS
<1>. USE DEF Compared, PlanefinderFollowsTraffic
<1>1. CASE Starts \/ Ends \/ Reconnects \/ Sends \/ Readsb
  <2>1. Observe
    BY <1>1, Zenon DEF Starts, Ends, Reconnects, Sends, Readsb
  <2>2. UNCHANGED <<phase, shown, report, grew>>
    BY <2>1, Zenon DEF Observe
  <2>. QED
    BY <2>2, Zenon
<1>2. CASE GatherReports
  <2>1. phase' = "scan"
    BY <1>2, Zenon DEF GatherReports
  <2>2. PICK answered \in SUBSET (Reporting \cap running), counts \in BOOLEAN :
           GatherReports!2!(answered, counts)
    BY <1>2, Zenon DEF GatherReports
  <2>3. CASE "planefinder" \in answered /\ counts /\ mark # None
    <3>1. /\ "planefinder" \in DOMAIN report'
          /\ report'["planefinder"] = PfConnected(counter)
      BY <2>2, <2>3
    <3>2. PfConnected(counter) <=>
             IF prev = None THEN counter > 0 ELSE counter > prev
      BY DEF PfConnected
    <3>3. grew' = IF sent > mark THEN "yes"
                  ELSE IF prev = None THEN "idle" ELSE "no"
      BY <2>2, <2>3, Zenon
    <3>4. sent > mark => IF prev = None THEN counter > 0 ELSE counter > prev
      BY <2>3 DEF Tracked, BytesOK, None
    <3>5. ~(sent > mark) /\ prev # None => ~(counter > prev)
      BY <2>3 DEF Tracked, BytesOK, None
    <3>6. /\ grew' = "yes" => sent > mark
          /\ grew' = "no" => ~(sent > mark) /\ prev # None
      BY <3>3
    <3>7. /\ grew' = "yes" => report'["planefinder"]
          /\ grew' = "no" => ~report'["planefinder"]
      BY <3>1, <3>2, <3>4, <3>5, <3>6
    <3>. QED
      BY <2>1, <3>1, <3>7
  <2>4. CASE ~("planefinder" \in answered /\ counts /\ mark # None)
    <3>1. grew' = "unknown"
      BY <2>2, <2>4, Zenon
    <3>. QED
      BY <2>1, <3>1
  <2>. QED
    BY <2>3, <2>4
<1>3. CASE Begin \/ ScanProcesses \/ ReadProm \/ ReadSockets \/ PublishUptimes
  <2>1. /\ phase' # "shown" /\ UNCHANGED <<report, grew>>
    BY <1>3 DEF Begin, ScanProcesses, ReadProm, ReadSockets, PublishUptimes,
       history
  <2>. QED
    BY <2>1, Zenon
<1>4. CASE Status
  <2>1. UNCHANGED <<report, grew>>
    BY <1>4, Zenon DEF Status
  <2>2. PICK readable \in SUBSET Conn : Status!2!(readable)
    BY <1>4, Zenon DEF Status
  <2>3. shown'["planefinder"] = Reported("planefinder")
    <3>1. /\ "planefinder" \in Reporting
          /\ "planefinder" \notin Community \cup Proc \cup Conn
      BY FeederAssumption DEF FeederAssumption, Clients, Reporting
    <3>. QED
      BY <2>2, <3>1, Zenon DEF Clients
  <2>4. "planefinder" \in DOMAIN report =>
           Reported("planefinder") = report["planefinder"]
    BY Zenon DEF Reported
  <2>. QED
    BY <2>1, <2>3, <2>4
<1>5. CASE Rates \/ Abandon \/ Restart
  <2>1. grew' = "unknown"
    BY <1>5, Zenon DEF Rates, Abandon, Restart, NoCycle
  <2>. QED
    BY <2>1
<1>6. CASE UNCHANGED vars
  BY <1>6, Zenon DEF vars, locals, history
<1>. QED
  BY <1>1, <1>2, <1>3, <1>4, <1>5, <1>6, Zenon DEF Next

\* PlaneFinder is shown as connected when bytes went out between the last two
\* samples of one pfclient, even if an answer without the counter erased prev in
\* between; and only then, if none did.
THEOREM PlanefinderTracked == Spec => []PlanefinderFollowsTraffic
<1>1. Init => /\ BytesOK /\ RatesCovered
              /\ Tracked /\ Compared /\ PlanefinderFollowsTraffic
  BY DEF Init, BytesOK, RatesCovered, None, Tracked, Compared,
     PlanefinderFollowsTraffic
<1>. QED
  BY <1>1, RatesStep, TrackedStep, ComparedStep, PTL DEF Spec

-----------------------------------------------------------------------------
(* Uptimes.                                                                *)

\* Until they are used, the connectors read are those the states came from.
StatesFromConnectors ==
    phase \in {"shown", "rated"} =>
        \A f \in Community : shown[f] <=> f \in connectors

LEMMA UptimesStep ==
  /\ StatesFromConnectors /\ UptimeMatchesStatus /\ [Next]_vars
  => StatesFromConnectors' /\ UptimeMatchesStatus'
<1>. SUFFICES ASSUME StatesFromConnectors, UptimeMatchesStatus, [Next]_vars
              PROVE  StatesFromConnectors' /\ UptimeMatchesStatus'
  OBVIOUS
<1>. USE DEF StatesFromConnectors, UptimeMatchesStatus
<1>1. CASE Starts \/ Ends \/ Reconnects \/ Sends \/ Readsb
  <2>1. Observe
    BY <1>1, Zenon DEF Starts, Ends, Reconnects, Sends, Readsb
  <2>2. UNCHANGED <<phase, shown, connectors, uptime>>
    BY <2>1, Zenon DEF Observe
  <2>. QED
    BY <2>2, Zenon
<1>2. CASE Begin \/ GatherReports \/ ScanProcesses \/ ReadProm \/ ReadSockets
  <2>1. phase' \notin {"shown", "rated", "wait"}
    BY <1>2 DEF Begin, GatherReports, ScanProcesses, ReadProm, ReadSockets
  <2>. QED
    BY <2>1, Zenon
<1>3. CASE Status
  <2>1. phase' = "shown" /\ UNCHANGED connectors
    BY <1>3, Zenon DEF Status
  <2>2. PICK readable \in SUBSET Conn : Status!2!(readable)
    BY <1>3, Zenon DEF Status
  <2>3. \A f \in Community : shown'[f] = (f \in connectors)
    BY <2>2, KindsOfClient, Zenon DEF Clients
  <2>. QED
    BY <2>1, <2>3, Zenon
<1>4. CASE Rates
  <2>1. /\ phase = "shown" /\ phase' = "rated" /\ UNCHANGED connectors
        /\ shown' = [f \in Community |-> shown[f]]
    BY <1>4, Zenon DEF Rates
  <2>. QED
    BY <2>1, Zenon
<1>5. CASE PublishUptimes
  <2>1. /\ phase = "rated" /\ phase' = "wait"
        /\ uptime' = connectors /\ shown' = shown
    BY <1>5, Zenon DEF PublishUptimes, Uptimes
  <2>. QED
    BY <2>1, Zenon
<1>6. CASE Abandon \/ Restart
  <2>1. phase' = "idle"
    BY <1>6, Zenon DEF Abandon, Restart, NoCycle
  <2>. QED
    BY <2>1, Zenon
<1>7. CASE UNCHANGED vars
  BY <1>7, Zenon DEF vars, locals
<1>. QED
  BY <1>1, <1>2, <1>3, <1>4, <1>5, <1>6, <1>7, Zenon DEF Next

\* A community feeder has an uptime just when it is shown as connected, however
\* often readsb rewrites stats.prom in between.
THEOREM UptimesAgree == Spec => []UptimeMatchesStatus
<1>1. Init => StatesFromConnectors /\ UptimeMatchesStatus
  BY DEF Init, StatesFromConnectors, UptimeMatchesStatus
<1>. QED
  BY <1>1, UptimesStep, PTL DEF Spec

-----------------------------------------------------------------------------
(* Types.                                                                  *)

\* What TypeOK says of the sets, of the reports and of the phases.
SetsOK ==
    /\ running \subseteq Clients /\ remote \subseteq Conn \cap running
    /\ fed \in BOOLEAN /\ prom \subseteq Community
    /\ phase \in {"idle", "reports", "scan", "prom", "sockets", "status",
                  "shown", "rated", "wait"}
    /\ DOMAIN report \subseteq Reporting
    /\ \A f \in DOMAIN report : report[f] \in BOOLEAN
    /\ pids \subseteq Clients /\ est \subseteq Conn
    /\ connectors \subseteq Community /\ uptime \subseteq Community
    /\ held \subseteq Clients /\ steady \subseteq Clients
    /\ grew \in {"unknown", "yes", "no", "idle"}

LEMMA FeedingClients ==
  ASSUME NEW procs, NEW conns, NEW fr24, conns \subseteq Conn
  PROVE  Feeding(procs, conns, fr24) \subseteq Clients
BY Zenon DEF Feeding, Clients, Reporting

LEMMA SetsStep == SetsOK /\ [Next]_vars => SetsOK'
<1>. SUFFICES ASSUME SetsOK, [Next]_vars PROVE SetsOK'
  OBVIOUS
<1>. USE DEF SetsOK
<1>1. CASE Starts \/ Ends \/ Reconnects \/ Sends \/ Readsb
  <2>1. Observe
    BY <1>1, Zenon DEF Starts, Ends, Reconnects, Sends, Readsb
  <2>2. /\ running' \subseteq Clients /\ remote' \subseteq Conn \cap running'
        /\ fed' \in BOOLEAN /\ prom' \subseteq Community
    <3>1. CASE Starts
      BY <3>1, Zenon DEF Starts
    <3>2. CASE Ends
      BY <3>2 DEF Ends
    <3>3. CASE Reconnects
      BY <3>3 DEF Reconnects
    <3>4. CASE Sends \/ Readsb
      BY <3>4, Zenon DEF Sends, Readsb
    <3>. QED
      BY <1>1, <3>1, <3>2, <3>3, <3>4
  <2>3. Feeding(running', remote', fed') \subseteq Clients
    BY <2>2, FeedingClients, Zenon
  <2>4. /\ held' \subseteq Clients /\ steady' \subseteq Clients
        /\ pids' \subseteq Clients /\ est' \subseteq Conn
    BY <2>1, <2>3, Zenon DEF Observe
  <2>5. UNCHANGED <<phase, report, connectors, uptime, grew>>
    BY <2>1, Zenon DEF Observe
  <2>. QED
    BY <2>2, <2>4, <2>5, Zenon
<1>2. CASE Begin
  <2>1. Feeding(running, remote, fed) \subseteq Clients
    BY FeedingClients, Zenon
  <2>. QED
    BY <1>2, <2>1, Zenon DEF Begin, world
<1>3. CASE GatherReports
  <2>1. PICK answered \in SUBSET (Reporting \cap running), counts \in BOOLEAN :
           GatherReports!2!(answered, counts)
    BY <1>3, Zenon DEF GatherReports
  <2>2. DOMAIN report' \subseteq Reporting
    BY <2>1, Zenon
  <2>3. ASSUME NEW f \in DOMAIN report' PROVE report'[f] \in BOOLEAN
    <3>1. CASE f = "fr24"
      <4>1. report'[f] = fed
        BY <2>1, <3>1, Zenon
      <4>. QED
        BY <4>1, Zenon
    <3>2. CASE f # "fr24"
      <4>1. PICK b : report'[f] = PfConnected(b)
        BY <2>1, <3>2, Zenon
      <4>2. PfConnected(b) \in BOOLEAN
        <5>1. (b > 0) \in BOOLEAN /\ (b > prev) \in BOOLEAN
          BY SMT
        <5>. QED
          BY <5>1, Zenon DEF PfConnected
      <4>. QED
        BY <4>1, <4>2, Zenon
    <3>. QED
      BY <3>1, <3>2
  <2>4. grew' \in {"unknown", "yes", "no", "idle"}
    BY <2>1, Zenon
  <2>. QED
    BY <1>3, <2>2, <2>3, <2>4, Zenon DEF GatherReports, world
<1>4. CASE ScanProcesses \/ ReadProm \/ ReadSockets \/ PublishUptimes
  BY <1>4, Zenon DEF ScanProcesses, ReadProm, ReadSockets, Established,
     PublishUptimes, Uptimes, world, history
<1>5. CASE Status
  <2>1. steady' \subseteq steady
    BY <1>5, Zenon DEF Status
  <2>. QED
    BY <1>5, <2>1, Zenon DEF Status, world
<1>6. CASE Rates
  BY <1>6, Zenon DEF Rates, NoStates, world
<1>7. CASE Abandon \/ Restart
  BY <1>7, Zenon DEF Abandon, Restart, NoCycle, NoStates, world
<1>8. CASE UNCHANGED vars
  BY <1>8, Zenon DEF vars, world, locals, history
<1>. QED
  BY <1>1, <1>2, <1>3, <1>4, <1>5, <1>6, <1>7, <1>8, Zenon DEF Next

LEMMA ShownStep == ShownOK /\ SetsOK /\ [Next]_vars => ShownOK'
<1>. SUFFICES ASSUME ShownOK, SetsOK, [Next]_vars PROVE ShownOK'
  OBVIOUS
<1>. USE DEF ShownOK
<1>1. CASE Starts \/ Ends \/ Reconnects \/ Sends \/ Readsb
  <2>1. Observe
    BY <1>1, Zenon DEF Starts, Ends, Reconnects, Sends, Readsb
  <2>. QED
    BY <2>1, Zenon DEF Observe
<1>2. CASE Begin \/ Abandon \/ Restart
  <2>1. phase' \in {"reports", "idle"} /\ DOMAIN shown' = {}
    BY <1>2 DEF Begin, Abandon, Restart, NoCycle, NoStates
  <2>. QED
    BY <2>1
<1>3. CASE GatherReports \/ ScanProcesses \/ ReadProm \/ ReadSockets
  <2>1. /\ phase \in {"reports", "scan", "prom", "sockets"} /\ UNCHANGED shown
        /\ phase' \in {"scan", "prom", "sockets", "status"}
    BY <1>3 DEF GatherReports, ScanProcesses, ReadProm, ReadSockets
  <2>. QED
    BY <2>1
<1>4. CASE Status
  <2>1. phase' = "shown" /\ DOMAIN shown' = Community \cup Clients
    BY <1>4, Zenon DEF Status
  <2>2. \A f \in DOMAIN report : report[f] \in BOOLEAN
    BY Zenon DEF SetsOK
  <2>3. ASSUME NEW f PROVE Reported(f) \in BOOLEAN
    <3>1. CASE f \in DOMAIN report
      <4>1. Reported(f) = report[f]
        BY <3>1, Zenon DEF Reported
      <4>. QED
        BY <2>2, <3>1, <4>1, Zenon
    <3>2. CASE f \notin DOMAIN report
      <4>1. Reported(f) = (f \in pids)
        BY <3>2, Zenon DEF Reported
      <4>2. (f \in pids) \in BOOLEAN
        BY SMT
      <4>. QED
        BY <4>1, <4>2, Zenon
    <3>. QED
      BY <3>1, <3>2
  <2>4. \A f \in DOMAIN shown' : shown'[f] \in BOOLEAN
    <3>. SUFFICES ASSUME NEW f \in Community \cup Clients
                  PROVE  shown'[f] \in BOOLEAN
      BY <2>1
    <3>1. PICK readable \in SUBSET Conn : Status!2!(readable)
      BY <1>4, Zenon DEF Status
    <3>2. CASE f \in Community
      <4>1. shown'[f] = (f \in connectors)
        BY <3>1, <3>2, KindsOfClient, Zenon DEF Clients
      <4>2. (f \in connectors) \in BOOLEAN
        BY SMT
      <4>. QED
        BY <4>1, <4>2, Zenon
    <3>3. CASE f \in Reporting
      BY <2>3, <3>1, <3>3, FeederAssumption DEF FeederAssumption, Clients
    <3>4. CASE f \in Proc
      BY <3>1, <3>4, KindsOfClient DEF Clients
    <3>5. CASE f \in Conn
      <4>1. shown'[f] = (f \in pids \cap est \cap readable)
        BY <3>1, <3>5, KindsOfClient DEF Clients
      <4>2. (f \in pids \cap est \cap readable) \in BOOLEAN
        BY SMT
      <4>. QED
        BY <4>1, <4>2, Zenon
    <3>. QED
      BY <3>2, <3>3, <3>4, <3>5, Zenon DEF Clients
  <2>. QED
    BY <2>1, <2>4
<1>5. CASE Rates
  <2>1. /\ phase = "shown" /\ phase' = "rated"
        /\ shown' = [f \in Community |-> shown[f]]
    BY <1>5, Zenon DEF Rates
  <2>. QED
    BY <2>1
<1>6. CASE PublishUptimes
  BY <1>6 DEF PublishUptimes
<1>7. CASE UNCHANGED vars
  BY <1>7, Zenon DEF vars, locals
<1>. QED
  BY <1>1, <1>2, <1>3, <1>4, <1>5, <1>6, <1>7, Zenon DEF Next

\* Every variable stays in its type; the counts only together with the bounds
\* on them, or a rate might be negative.
THEOREM TypeInvariant == Spec => []TypeOK
<1>1. Init => BytesOK /\ RatesCovered
  BY DEF Init, BytesOK, RatesCovered, None
<1>2. Init => ShownOK /\ SetsOK
  BY DEF Init, ShownOK, SetsOK, NoStates
<1>3. BytesOK /\ ShownOK /\ SetsOK => TypeOK
  BY Zenon DEF TypeOK, SetsOK
<1>. QED
  BY <1>1, <1>2, <1>3, RatesStep, ShownStep, SetsStep, PTL DEF Spec

=============================================================================

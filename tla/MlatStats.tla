----------------------------- MODULE MlatStats -----------------------------
(***************************************************************************)
(* The --stats-json file of each enabled MLAT feeder.  Its mlat-client     *)
(* writes it from two places: what the MLAT server pushes (peer_count,     *)
(* good_sync), and what the client computes on a timer of its own          *)
(* (positions_per_minute, aircraft_adsb_used, added by                     *)
(* patch-mlat-client.py).  Either writer merges its fields into those that *)
(* are there and renames the result over the file.  The publisher reads    *)
(* the files every cycle (mlat_stats.py) and shows 0 where they say        *)
(* nothing, or are too old to be believed (mlat_states in app.py).         *)
(*                                                                         *)
(* A field is represented by its age: what matters is how long ago the     *)
(* number shown was true.                                                  *)
(***************************************************************************)
EXTENDS Integers

CONSTANTS
    Feeders,        \* MLAT_CAPABLE, as far as enabled
    SyncCapable,    \* MLAT_SYNC_CAPABLE: their servers push
    StaleAfter,     \* _STALE_AFTER_S
    Interval        \* --stats-interval, the period of the client's timer

ASSUME FeedersAssumption == SyncCapable \subseteq Feeders

ASSUME TimesAssumption ==
    /\ StaleAfter \in Nat /\ Interval \in Nat \ {0}
    /\ Interval <= StaleAfter

VARIABLES
    running,    \* the mlat-client processes that run
    synced,     \* those in sync with a server that pushes statistics
    due,        \* time since the client's timer last expired
    tmp,        \* the temporary file a writer is about to rename
    file,       \* the stats file
    mtime,      \* time since it was renamed into place
    shown,      \* what the MLAT sensors were last given
    dead,       \* history: time since the client ended; 0 while it runs
    last        \* history: time since each writer's last completed write;
                \* a write that could not read the file forgets the other's

client == <<running, synced, due, dead>>
disk   == <<tmp, file, mtime, last>>
vars   == <<client, disk, shown>>

-----------------------------------------------------------------------------

\* Times saturate just past the limit, where nothing distinguishes them.
Old == StaleAfter + 1
Times == 0 .. Old
Later(t) == IF t < Old THEN t + 1 ELSE Old

\* A field that is not there has no age.
Absent == -1
Groups == {"server", "client"}

\* The fields of one file, by the writer that owns them, with their ages.
Fields == [Groups -> Times \cup {Absent}]

None == [g \in Groups |-> Absent]

Aged(fields) ==
    [g \in Groups |-> IF fields[g] = Absent THEN Absent ELSE Later(fields[g])]

\* A temporary file, whose it is, and whether it was made without the fields
\* that were there; "none" when no write is under way.
Idle == [by |-> "none", blind |-> FALSE, fields |-> None]
Writes == [by: Groups, blind: BOOLEAN, fields: Fields] \cup {Idle}

\* Mutant: the file is overwritten, as the unpatched jsonclient.py did.
MergedOver(f, by, blind) == [None EXCEPT ![by] = 0]

\* _haf_merged.update(stats), data.update(fields): the fields that are there,
\* with the writer's own replaced.  A file that cannot be read counts as empty.
Merged(f, by, blind) == [IF blind THEN None ELSE file[f] EXCEPT ![by] = 0]

\* Mutant: a file is believed whatever its age.
FreshAlways(f) == file[f] # None

\* Mutant: a file is believed for less time than its writer needs.
FreshBriefly(f) == file[f] # None /\ mtime[f] < Interval

\* read_mlat_stats takes the file: it is there and has been touched lately.
Fresh(f) == file[f] # None /\ mtime[f] <= StaleAfter

\* What a sensor shows.  "unread" is a 0 too, of a file that was there and could
\* not be read; it is told apart to say when a 0 is justified.
Shown == {"unpublished", "value", "unread", "zero"}

\* Mutant: nothing is published where there is nothing to say, and the sensor
\* is left to expire.
mlat_statesExpiring(f, unread) ==
    [g \in Groups |->
        CASE f \in unread                         -> "unread"
          [] Fresh(f) /\ file[f][g] # Absent      -> "value"
          [] OTHER                                -> "unpublished"]

\* mlat_states: the sensors of `f`, 0 where the file does not say; the files in
\* `unread` could not be read.
mlat_states(f, unread) ==
    [g \in Groups |->
        CASE g = "server" /\ f \notin SyncCapable -> "unpublished"
          [] f \in unread                         -> "unread"
          [] Fresh(f) /\ file[f][g] # Absent      -> "value"
          [] OTHER                                -> "zero"]

-----------------------------------------------------------------------------

\* /run is empty after boot, and nothing has been published.
Init ==
    /\ running = {} /\ synced = {}
    /\ due = [f \in Feeders |-> 0]
    /\ tmp = [f \in Feeders |-> Idle]
    /\ file = [f \in Feeders |-> None]
    /\ mtime = [f \in Feeders |-> Old]
    /\ shown = [f \in Feeders |-> [g \in Groups |-> "unpublished"]]
    /\ dead = [f \in Feeders |-> Old]
    /\ last = [f \in Feeders |-> None]

\* s6 starts the client, or restarts it.
Start(f) ==
    /\ f \notin running
    /\ running' = running \cup {f}
    /\ dead' = [dead EXCEPT ![f] = 0]
    /\ UNCHANGED <<synced, due, disk, shown>>

\* The client ends, in the middle of a write or not.  A temporary file it
\* leaves is never read.
Die(f) ==
    /\ f \in running
    /\ running' = running \ {f} /\ synced' = synced \ {f}
    /\ tmp' = [tmp EXCEPT ![f] = Idle] /\ due' = [due EXCEPT ![f] = 0]
    /\ UNCHANGED <<dead, file, mtime, last, shown>>

\* The server takes the client into sync, or drops it.
GainSync(f) ==
    /\ f \in (running \cap SyncCapable) \ synced
    /\ synced' = synced \cup {f}
    /\ UNCHANGED <<running, due, dead, disk, shown>>

LoseSync(f) ==
    /\ f \in synced
    /\ synced' = synced \ {f}
    /\ UNCHANGED <<running, due, dead, disk, shown>>

\* Both writers run in the client's one thread: a write is begun when no
\* other is under way.  Reading the file may fail: `data = {}`.
BeginWrite(f, by) ==
    /\ tmp[f] = Idle
    /\ \E blind \in BOOLEAN :
        tmp' = [tmp EXCEPT ![f] =
                    [by |-> by, blind |-> blind, fields |-> Merged(f, by, blind)]]

\* A stats message from the server: jsonclient.py.
ServerPush(f) ==
    /\ f \in synced
    /\ BeginWrite(f, "server")
    /\ UNCHANGED <<client, file, mtime, last, shown>>

\* The client's timer: _haf_write_client_stats, whatever the server does.
ClientTimer(f) ==
    /\ f \in running /\ due[f] = Interval
    /\ BeginWrite(f, "client")
    /\ due' = [due EXCEPT ![f] = 0]
    /\ UNCHANGED <<running, synced, dead, file, mtime, last, shown>>

\* os.rename over the stats file.
Rename(f) ==
    /\ tmp[f] # Idle
    /\ file' = [file EXCEPT ![f] = tmp[f].fields]
    /\ mtime' = [mtime EXCEPT ![f] = 0]
    /\ last' = [last EXCEPT ![f] =
                    [IF tmp[f].blind THEN None ELSE last[f] EXCEPT ![tmp[f].by] = 0]]
    /\ tmp' = [tmp EXCEPT ![f] = Idle]
    /\ UNCHANGED <<client, shown>>

\* Writing fails.  The client's helper passes over it; from the server's write
\* the exception rises into mlat-client, which may drop the connection or end:
\* LoseSync and Die, at any time.
WriteFails(f, by) ==
    /\ tmp[f].by = by
    /\ tmp' = [tmp EXCEPT ![f] = Idle]
    /\ UNCHANGED <<client, file, mtime, last, shown>>

\* One cycle of the publisher reads every file and publishes what it found.
\* A file is replaced as a whole, so reading one is one step; it may fail.
Publish ==
    /\ \E unread \in SUBSET Feeders :
        shown' = [f \in Feeders |-> mlat_states(f, unread)]
    /\ UNCHANGED <<client, disk>>

\* Time passes: slowly, compared with a write, and no timer is missed.
Tick ==
    /\ \A f \in Feeders : tmp[f] = Idle /\ (f \in running => due[f] < Interval)
    /\ due' = [f \in Feeders |-> IF f \in running THEN due[f] + 1 ELSE due[f]]
    /\ mtime' = [f \in Feeders |-> Later(mtime[f])]
    /\ dead' = [f \in Feeders |-> IF f \in running THEN 0 ELSE Later(dead[f])]
    /\ file' = [f \in Feeders |-> Aged(file[f])]
    /\ last' = [f \in Feeders |-> Aged(last[f])]
    /\ UNCHANGED <<running, synced, tmp, shown>>

Client(f) ==
    \/ Start(f) \/ Die(f) \/ GainSync(f) \/ LoseSync(f)
    \/ ServerPush(f) \/ ClientTimer(f) \/ Rename(f)
    \/ \E by \in Groups : WriteFails(f, by)

Next == (\E f \in Feeders : Client(f)) \/ Publish \/ Tick

Spec == Init /\ [][Next]_vars

\* Time passes and a running client serves its timer, however often the server
\* pushes in between; writes end, and the publisher keeps its cycle.  Servers,
\* s6 and the disk owe nothing.
Fairness ==
    /\ SF_vars(Tick) /\ WF_vars(Publish)
    /\ \A f \in Feeders :
        /\ SF_vars(ClientTimer(f))
        /\ WF_vars(Rename(f) \/ \E by \in Groups : WriteFails(f, by))

FairSpec == Spec /\ Fairness

-----------------------------------------------------------------------------
(* Properties.                                                             *)

\* Types; a client that does not run is not in sync and writes nothing; once a
\* cycle has published, no sensor that is advertised is left without a state.
TypeOK ==
    /\ running \subseteq Feeders /\ synced \subseteq running
    /\ due \in [Feeders -> 0 .. Interval]
    /\ tmp \in [Feeders -> Writes]
    /\ file \in [Feeders -> Fields]
    /\ mtime \in [Feeders -> Times]
    /\ shown \in [Feeders -> [Groups -> Shown]]
    /\ dead \in [Feeders -> Times]
    /\ last \in [Feeders -> Fields]
    /\ \A f \in Feeders : tmp[f] # Idle => f \in running
    /\ \A f, h \in Feeders, g \in Groups :
        shown[f]["client"] # "unpublished" /\ shown[h][g] = "unpublished"
            => g = "server" /\ h \notin SyncCapable

\* Neither writer undoes the other: at all times the file holds each one's
\* latest completed write, whatever was merged, failed or died since.  Only a
\* write that could not read the file loses what it could not read.
FieldsKept == file = last

\* A client that has been dead for longer than the limit reads 0: it never
\* goes on showing the last numbers it wrote.
DeadReadsZero ==
    [][\A f \in Feeders, g \in Groups :
        Publish /\ dead[f] > StaleAfter => shown'[f][g] # "value"]_vars

\* Nor is a client that lives mistaken for a dead one: a number that either
\* writer completed within the limit is shown by the next cycle, whatever the
\* other one has written, merged or failed to write since.  The reading itself
\* may fail, here and in the other writer.
RecentIsShown ==
    [][\A f \in Feeders, g \in Groups :
        /\ Publish /\ last[f][g] # Absent /\ last[f][g] <= StaleAfter
        /\ g = "server" => f \in SyncCapable
        => shown'[f][g] \in {"value", "unread"}]_vars

\* A client that keeps running is not mistaken for a dead one: from some time
\* on its own numbers are always shown, unless they cannot be written, or the
\* file cannot be read.  Of the server's writes only those matter that could not
\* read the file.
LiveIsShown ==
    \A f \in Feeders :
        /\ <>[](f \in running) /\ <>[][~WriteFails(f, "client")]_vars
        /\ <>[](tmp[f].by = "server" => ~tmp[f].blind)
        /\ <>[](shown[f]["client"] # "unread")
        => <>[](shown[f]["client"] = "value")

\* DOCS.md:284: "An MLAT sensor reads 0 when that aggregator is not syncing".
NotSyncingReadsZero ==
    [][\A f \in Feeders :
        Publish /\ f \in running \ synced /\ last[f]["server"] > StaleAfter
            => shown'[f]["server"] # "value"]_vars

=============================================================================

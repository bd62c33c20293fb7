----------------------------- MODULE Throughput -----------------------------
(***************************************************************************)
(* ThroughputAccumulator (aviation_feeder_mqtt/throughput.py) over the     *)
(* kernel's socket dump (netdiag.py): per-socket byte counters, which      *)
(* start at 0 with each connection, are folded into per-feeder totals.     *)
(*                                                                         *)
(* An update is not atomic: the dump is taken first, then /proc is read to *)
(* attribute sockets to feeders, then the loop folds one socket at a time; *)
(* the feeders open, use and close sockets throughout.  The two counters   *)
(* of a socket (sent, received) are folded alike; one stands for both.     *)
(* The publisher may be restarted at any time: its totals start again from *)
(* 0, while the sockets live on.                                           *)
(***************************************************************************)
EXTENDS Integers, FiniteSets

CONSTANTS
    Inodes,         \* socket inode numbers
    Feeders,        \* the enabled THROUGHPUT_KERNEL feeders
    Families,       \* address families, each dumped by its own request
    PartialDumps,   \* one family's dump may fail while another succeeds
    HasCounters,    \* the kernel's tcp_info is long enough to hold the counters
    MaxBytes        \* bound: bytes one feeder carries in a behaviour

ASSUME BytesAssumption == MaxBytes \in Nat /\ HasCounters \in BOOLEAN

\* idiag_inode is a 32-bit number.
ASSUME InodesAssumption == IsFiniteSet(Inodes)

VARIABLES
    alive,      \* inodes of ESTABLISHED sockets
    sock,       \* inode -> its feeder, family, remote (not loopback), bytes
    phase,      \* where update() is: idle, dumped, fold
    dumped,     \* inode -> bytes in the dump: update's `socks`
    keys,       \* inode -> feeder, as /proc said: `inode_to_key`
    todo,       \* sockets of the dump the loop has not reached
    last,       \* inode -> bytes: `_last`
    totals,     \* feeder -> bytes: `_totals` (0 when absent)
    carried,    \* history: bytes each feeder's remote sockets have carried
    counted,    \* history: bytes of the inode's current socket in the totals
                \* of this run of the publisher
    inherited   \* history: sockets that got a number `_last` still held

kernel == <<alive, sock, carried>>
reader == <<phase, dumped, keys, todo>>
vars == <<kernel, reader, last, totals, counted, inherited>>

-----------------------------------------------------------------------------

Sockets == [feeder: Feeders, family: Families, remote: BOOLEAN, bytes: Nat]

\* A dict from inodes to `values`.
IsDict(d, values) ==
    DOMAIN d \subseteq Inodes /\ \A i \in DOMAIN d : d[i] \in values

\* `d` with `v` at `i`, which may be a new key.
Put(d, i, v) == [j \in DOMAIN d \cup {i} |-> IF j = i THEN v ELSE d[j]]

NoEntries == [i \in {} |-> 0]

Nonnegative(n) == IF n < 0 THEN 0 ELSE n

Init ==
    /\ alive = {}
    /\ sock \in [Inodes -> [feeder: Feeders, family: Families,
                            remote: {TRUE}, bytes: {0}]]
    /\ phase = "idle" /\ dumped = NoEntries /\ keys = NoEntries /\ todo = {}
    /\ last = NoEntries
    /\ totals = [f \in Feeders |-> 0]
    /\ carried = [f \in Feeders |-> 0]
    /\ counted = [i \in Inodes |-> 0]
    /\ inherited = {}

-----------------------------------------------------------------------------
(* The kernel and the feeders.                                             *)

\* A feeder connects.  Its counter starts at 0; the inode number may be one
\* of an earlier socket, but is not handed out twice during one update (the
\* kernel takes numbers from a 32-bit counter).
Open ==
    \E i \in Inodes \ (alive \cup DOMAIN dumped), f \in Feeders,
       a \in Families, r \in BOOLEAN :
        /\ alive' = alive \cup {i}
        /\ sock' = [sock EXCEPT ![i] = [feeder |-> f, family |-> a,
                                        remote |-> r, bytes |-> 0]]
        /\ counted' = [counted EXCEPT ![i] = 0]
        /\ inherited' = IF i \in DOMAIN last THEN inherited \cup {i}
                                             ELSE inherited \ {i}
        /\ UNCHANGED <<carried, reader, last, totals>>

Transfer ==
    \E i \in alive :
        /\ sock[i].remote => carried[sock[i].feeder] < MaxBytes
        /\ sock[i].bytes < MaxBytes
        /\ sock' = [sock EXCEPT ![i].bytes = @ + 1]
        /\ carried' = IF sock[i].remote
                      THEN [carried EXCEPT ![sock[i].feeder] = @ + 1]
                      ELSE carried
        /\ UNCHANGED <<alive, reader, last, totals, counted, inherited>>

\* A socket leaves ESTABLISHED.
Close ==
    \E i \in alive :
        /\ alive' = alive \ {i}
        /\ UNCHANGED <<sock, carried, reader, last, totals, counted, inherited>>

-----------------------------------------------------------------------------
(* One update().                                                           *)

\* Families whose dump errors or times out: `continue` skips that family.
Failures ==
    IF PartialDumps THEN SUBSET Families ELSE {{}, Families}

\* established_sockets(); _parse_dump reports 0 where there is no counter.
Dump ==
    /\ phase = "idle"
    /\ \E failed \in Failures :
        LET present == {i \in alive : sock[i].family \notin failed}
        IN  /\ dumped' = [i \in present |-> IF HasCounters THEN sock[i].bytes ELSE 0]
            /\ todo' = present
    /\ phase' = "dumped"
    /\ UNCHANGED <<kernel, keys, last, totals, counted, inherited>>

\* _inode_to_key: sockets opened or closed since the dump are seen as they
\* are now, and the fds of a process may be unreadable this once.
Attribute ==
    /\ phase = "dumped"
    /\ \E seen \in SUBSET alive : keys' = [i \in seen |-> sock[i].feeder]
    /\ phase' = "fold"
    /\ UNCHANGED <<kernel, dumped, todo, last, totals, counted, inherited>>

\* Mutants: the drop of a reused number is not clamped; a first sight is only
\* a baseline; a socket's whole counter is added each time.
DeltaUnclamped(i) == IF i \in DOMAIN last THEN dumped[i] - last[i] ELSE dumped[i]
DeltaFromBaseline(i) ==
    IF i \in DOMAIN last THEN Nonnegative(dumped[i] - last[i]) ELSE 0
DeltaWhole(i) == dumped[i]

\* d_sent (d_recv) of one socket.
Delta(i) ==
    IF i \in DOMAIN last THEN Nonnegative(dumped[i] - last[i]) ELSE dumped[i]

\* One turn of `for s in socks`.
Fold ==
    /\ phase = "fold"
    /\ \E i \in todo :
        /\ todo' = todo \ {i}
        /\ IF i \in DOMAIN keys /\ sock[i].remote
           THEN /\ totals' = [totals EXCEPT ![keys[i]] = @ + Delta(i)]
                /\ counted' = [counted EXCEPT ![i] = @ + Delta(i)]
                /\ last' = Put(last, i, dumped[i])
           ELSE UNCHANGED <<totals, counted, last>>
        /\ UNCHANGED <<kernel, phase, dumped, keys, inherited>>

\* Mutant: an inode that is not attributed this time is forgotten.
KeptAttributed == DOMAIN last \cap DOMAIN dumped \cap DOMAIN keys

\* Inodes that stay in `_last`: those in the dump, or all if it is empty.
Kept ==
    IF DOMAIN dumped = {} THEN DOMAIN last ELSE DOMAIN last \cap DOMAIN dumped

\* Forget the sockets that are gone, and return the totals.
Prune ==
    /\ phase = "fold" /\ todo = {}
    /\ last' = [i \in Kept |-> last[i]]
    /\ phase' = "idle" /\ dumped' = NoEntries /\ keys' = NoEntries
    /\ UNCHANGED <<kernel, todo, totals, counted, inherited>>

\* The publisher ends, in the middle of an update or not, and s6 starts it
\* again: a new ThroughputAccumulator knows no socket and no total.
Restart ==
    /\ phase' = "idle" /\ dumped' = NoEntries /\ keys' = NoEntries /\ todo' = {}
    /\ last' = NoEntries
    /\ totals' = [f \in Feeders |-> 0]
    /\ counted' = [i \in Inodes |-> 0]
    /\ inherited' = {}
    /\ UNCHANGED kernel

Next ==
    \/ Restart
    \/ Open \/ Transfer \/ Close
    \/ Dump \/ Attribute \/ Fold \/ Prune

Spec == Init /\ [][Next]_vars

-----------------------------------------------------------------------------
(* Properties.                                                             *)

\* Every variable stays in its type; no total is negative.
TypeOK ==
    /\ alive \in SUBSET Inodes
    /\ sock \in [Inodes -> Sockets]
    /\ phase \in {"idle", "dumped", "fold"}
    /\ IsDict(dumped, Nat) /\ todo \in SUBSET DOMAIN dumped
    /\ IsDict(keys, Feeders)
    /\ IsDict(last, Nat)
    /\ totals \in [Feeders -> Nat]
    /\ carried \in [Feeders -> Nat]
    /\ counted \in [Inodes -> Nat]
    /\ inherited \in SUBSET Inodes

\* No byte of a live socket is folded twice in one run of the publisher, whatever
\* mix of unreadable processes, failed dumps, reconnections and reused numbers
\* came before.
NoByteTwice == \A i \in alive : counted[i] <= sock[i].bytes

\* When an update's loop ends, every remote socket it attributed is in the
\* totals up to the byte the dump showed, also if earlier updates missed it;
\* except a socket whose number `_last` still held from another one.
NoByteMissed ==
    phase = "fold" =>
        \A i \in (DOMAIN dumped \cap DOMAIN keys) \ (todo \cup inherited) :
            sock[i].remote => counted[i] = dumped[i]

\* Each feeder's total goes down only with a restart, to 0, and never exceeds
\* what its remote sockets have carried: the whole counters of the sockets that
\* a restarted publisher finds are within it too.
Meter == INSTANCE ByteMeter WITH metered <- totals
MeterSpec == Meter!Spec

=============================================================================

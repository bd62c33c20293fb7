------------------------------- MODULE Beast -------------------------------
(***************************************************************************)
(* The Beast stream reader (aviation_feeder_mqtt/beast.py): readsb writes  *)
(* escaped frames, TCP delivers them in chunks cut anywhere, parse_frames  *)
(* recovers them, keeping what is incomplete for the next read, and a      *)
(* tally by downlink format is handed to the publisher once a cycle.       *)
(*                                                                         *)
(* Bytes are what the parser can tell apart: the escape, the known frame   *)
(* types, which may also occur as data, and others.                        *)
(***************************************************************************)
EXTENDS Integers, Sequences, SequencesExt, Functions

CONSTANTS
    Esc,            \* _ESC
    PayloadLen,     \* _PAYLOAD_LEN: known type -> payload length
    Others,         \* byte values that are neither
    HeaderLen,      \* _HEADER_LEN
    ModeAC,         \* the type of Mode A/C frames, 0x31
    Df,             \* byte value -> its upper five bits, as a first byte
    UnknownLen,     \* body length of the frames of a type it does not know
    MaxBuffer,      \* _MAX_BUFFER_BYTES
    MaxFrames       \* bound: frames readsb writes, lost ones not counted

Types == DOMAIN PayloadLen
Bytes == {Esc} \cup Types \cup Others
Need(type) == HeaderLen + PayloadLen[type]

ASSUME BytesAssumption ==
    /\ Esc \notin Types \cup Others
    /\ Types \cap Others = {} /\ Types # {} /\ Others # {}
    /\ ModeAC \in Types /\ DOMAIN Df = Bytes
    /\ "unknown" \notin Types
    /\ HeaderLen \in Nat \ {0} /\ MaxBuffer \in Nat /\ MaxFrames \in Nat
    /\ \A t \in Types : PayloadLen[t] \in Nat \ {0}

\* What readsb has to keep to: a type byte found after an escaped escape inside
\* a frame of an unknown type must not gather a whole frame from what is left
\* of it.  The scan cannot tell that pair from the start of a frame.
ASSUME UnknownAssumption ==
    UnknownLen \in Nat /\ \A t \in Types : UnknownLen < Need(t) + 2

\* The buffer has room for all but the last byte of any frame, every byte of
\* it escaped.
ASSUME BufferAssumption == \A t \in Types : 2 * Need(t) + 1 <= MaxBuffer

VARIABLES
    phase,      \* the await of _run: connecting, reading, closing, waiting, ended
    stop,       \* _stop
    wire,       \* bytes written by readsb and not yet read
    buf,        \* the reader's buffer
    tally,      \* _counts
    sampled,    \* _last_snapshot_at is set
    got,        \* history: frames parsed on this connection
    sent,       \* history: frames written on this connection
    overran,    \* history: the buffer was discarded on this connection
    earlier,    \* history: frames parsed on earlier connections, by format
    skipped,    \* history: frames a snapshot without an interval took away
    reported    \* history: frames reported by the snapshots

task     == <<phase, stop>>
stream   == <<wire, buf, got, sent, overran, earlier>>
counting == <<tally, sampled, skipped, reported>>
vars     == <<task, stream, counting>>

-----------------------------------------------------------------------------
(* parse_frames.                                                           *)

Frames == [type: Types, payload: Seq(Bytes)]

\* The frame of `type` whose unescaped header and payload are `body`.
FrameOf(type, body) ==
    [type |-> type, payload |-> SubSeq(body, HeaderLen + 1, Need(type))]

\* Mutant: the escape byte is not doubled inside a frame.
WidthUndoubled(b, j) == IF j <= Len(b) THEN 1 ELSE 0

\* What the byte of a body that starts at `j` takes up: nothing at the end of
\* the data, and at an escape that is lone or split by the chunk.
Width(b, j) ==
    CASE j <= Len(b) /\ b[j] # Esc -> 1
      [] j < Len(b) /\ b[j] = Esc /\ b[j + 1] = Esc -> 2
      [] OTHER -> 0

\* One turn of the inner loop: `out` is what was unescaped, `at` the index.
Take(b, s) ==
    IF Width(b, s.at) = 0 THEN s
    ELSE [out |-> Append(s.out, b[s.at]), at |-> s.at + Width(b, s.at)]

\* Up to `need` unescaped bytes of `b` from `start`, and where that stopped.
Body(b, start, need) ==
    LET take[n \in 0 .. need] ==
            IF n = 0 THEN [out |-> <<>>, at |-> start] ELSE Take(b, take[n - 1])
    IN  take[need]

\* Mutant: what the frames took up is not consumed.
TurnConsumingNothing(b, s) ==
    LET type == b[s.i + 1]
        body == Body(b, s.i + 2, Need(type))
    IN  IF s.i >= Len(b) THEN s
        ELSE IF b[s.i] # Esc \/ type \notin Types THEN [s EXCEPT !.i = @ + 1]
        ELSE IF Len(body.out) < Need(type) THEN [s EXCEPT !.i = body.at]
        ELSE [s EXCEPT !.i = body.at, !.frames = Append(@, FrameOf(type, body.out))]

\* One turn of the loop over `b`: `i` is the index, `frames` the frames so
\* far, and `used` the bytes that they, and what precedes them, take up.
Turn(b, s) ==
    LET type == b[s.i + 1]
        body == Body(b, s.i + 2, Need(type))
    IN  IF s.i >= Len(b) THEN s
        ELSE IF b[s.i] # Esc \/ type \notin Types THEN [s EXCEPT !.i = @ + 1]
        ELSE IF Len(body.out) < Need(type) THEN [s EXCEPT !.i = body.at]
        ELSE [i |-> body.at, used |-> body.at - 1,
              frames |-> Append(s.frames, FrameOf(type, body.out))]

\* The frames in `b`, and the number of bytes consumed.  Every turn but the
\* last moves on, so the length of the buffer is enough of them.
Parse(b) ==
    LET turn[n \in 0 .. Len(b)] ==
            IF n = 0 THEN [i |-> 1, frames |-> <<>>, used |-> 0]
                     ELSE Turn(b, turn[n - 1])
    IN  turn[Len(b)]

-----------------------------------------------------------------------------
(* count_dfs.                                                              *)

Keys == {"modeac"} \cup Range(Df)

\* What a frame is tallied under.
Key(f) == IF f.type = ModeAC THEN "modeac" ELSE Df[f.payload[1]]

NoFrames == [k \in Keys |-> 0]

count_dfs(frames) ==
    [k \in Keys |-> Cardinality({j \in DOMAIN frames : Key(frames[j]) = k})]

Plus(a, b) == [k \in Keys |-> a[k] + b[k]]

Total(counts) == FoldFunction(+, 0, counts)

-----------------------------------------------------------------------------
(* readsb, as the docstring of beast.py describes its output.              *)

Escaped(body) ==
    FlattenSeq([k \in DOMAIN body |->
                    IF body[k] = Esc THEN <<Esc, Esc>> ELSE <<body[k]>>])

\* Frames on the wire: of a known type, as the reader expects them or ending
\* early (`cut`, anywhere but between a byte and its escape), and of a type that
\* it does not know.
Bodies(lengths) == UNION {[1 .. n -> Bytes] : n \in lengths}
WholeFrames ==
    UNION {[type: {t}, body: Bodies({Need(t)}), cut: {FALSE}] : t \in Types}
CutFrames ==
    UNION {[type: {t}, body: Bodies(0 .. Need(t) - 1), cut: {TRUE}] : t \in Types}
UnknownFrames ==
    [type: {"unknown"}, body: [1 .. UnknownLen -> Bytes], cut: {FALSE}]

Writable == WholeFrames \cup CutFrames \cup UnknownFrames

OnWire(f) ==
    <<Esc, IF f.type = "unknown" THEN CHOOSE o \in Others : TRUE ELSE f.type>>
        \o Escaped(f.body)

\* The frames of `s` that a reader should see.
IsWhole(f) == f.type \in Types /\ ~f.cut
Whole(s) ==
    FlattenSeq([k \in DOMAIN s |->
                    IF IsWhole(s[k]) THEN <<FrameOf(s[k].type, s[k].body)>>
                                     ELSE <<>>])

\* readsb writes.  Left out is what it writes after stop, which is not read.
Write ==
    /\ phase = "reading" /\ ~stop
    /\ Len(sent) + Total(earlier) < MaxFrames
    /\ \E f \in Writable :
        /\ sent' = Append(sent, f)
        /\ wire' = wire \o OnWire(f)
    /\ UNCHANGED <<task, buf, got, overran, earlier, counting>>

-----------------------------------------------------------------------------
(* The reader task.                                                        *)

\* start(): the task makes its first attempt.
Init ==
    /\ phase = "connecting" /\ stop = FALSE
    /\ wire = <<>> /\ buf = <<>> /\ got = <<>> /\ sent = <<>>
    /\ overran = FALSE /\ earlier = NoFrames
    /\ tally = NoFrames /\ sampled = FALSE
    /\ skipped = NoFrames /\ reported = NoFrames

\* open_connection succeeds: a new buffer, and the loop that reads it.
Connect ==
    /\ phase = "connecting"
    /\ phase' = IF stop THEN "closing" ELSE "reading"
    /\ UNCHANGED <<stop, stream, counting>>

\* It fails, or takes longer than _CONNECT_TIMEOUT_S.
ConnectFails ==
    /\ phase = "connecting"
    /\ phase' = IF stop THEN "ended" ELSE "waiting"
    /\ UNCHANGED <<stop, stream, counting>>

\* Mutant: the buffer is emptied after every read.
KeptNothing(b, used) == <<>>

\* Mutant: the buffer may grow without limit.
KeptForever(b, used) == SubSeq(b, used + 1, Len(b))

\* What stays in the buffer after a parse.
Kept(b, used) ==
    LET rest == SubSeq(b, used + 1, Len(b))
    IN  IF Len(rest) > MaxBuffer THEN <<>> ELSE rest

\* One chunk of the stream.  A chunk that is there in the moment stop is set
\* counts as read just before.
Read ==
    /\ phase = "reading" /\ ~stop
    /\ \E n \in 1 .. Len(wire) :
        LET b      == buf \o SubSeq(wire, 1, n)
            parsed == Parse(b)
        IN  /\ wire' = SubSeq(wire, n + 1, Len(wire))
            /\ got' = got \o parsed.frames
            /\ buf' = Kept(b, parsed.used)
            /\ overran' = (overran \/ Len(b) - parsed.used > MaxBuffer)
            /\ tally' = Plus(tally, count_dfs(parsed.frames))
    /\ UNCHANGED <<task, sent, earlier, sampled, skipped, reported>>

\* The read loop is left; a new connection starts with an empty buffer.
Leave ==
    /\ phase = "reading"
    /\ phase' = "closing"
    /\ earlier' = Plus(earlier, count_dfs(got))
    /\ wire' = <<>> /\ buf' = <<>> /\ got' = <<>> /\ sent' = <<>>
    /\ overran' = FALSE
    /\ UNCHANGED <<stop, counting>>

\* readsb closes the connection, or a read fails.
Disconnect == ~stop /\ Leave

\* Mutant: the read is awaited alone, and stop looked at after it.
StopSeenOnTraffic == stop /\ wire # <<>> /\ Leave

\* _read_or_stop gives up the read.
StopSeen == stop /\ Leave

\* wait_closed returns.
Closed ==
    /\ phase = "closing"
    /\ phase' = IF stop THEN "ended" ELSE "waiting"
    /\ UNCHANGED <<stop, stream, counting>>

\* The retry delay is over, or cut short by stop.
Retry ==
    /\ phase = "waiting"
    /\ phase' = IF stop THEN "ended" ELSE "connecting"
    /\ UNCHANGED <<stop, stream, counting>>

\* aclose: stop is set, and the task awaited.
Stop ==
    /\ ~stop
    /\ stop' = TRUE
    /\ UNCHANGED <<phase, stream, counting>>

\* _CLOSE_TIMEOUT_S later, wait_for cancels the task in what it awaits.
Cancel ==
    /\ stop /\ phase \in {"connecting", "closing"}
    /\ phase' = "ended"
    /\ UNCHANGED <<stop, stream, counting>>

\* Mutant: the frames of a snapshot without an interval are left for the next.
SnapshotKeepingSkipped ==
    /\ ~stop
    /\ sampled' = TRUE
    /\ \E elapsed \in BOOLEAN :
        IF sampled /\ elapsed
        THEN tally' = NoFrames /\ reported' = Plus(reported, tally) /\ UNCHANGED skipped
        ELSE skipped' = Plus(skipped, tally) /\ UNCHANGED <<tally, reported>>
    /\ UNCHANGED <<task, stream>>

\* snapshot(), once a cycle.  The first one has no interval to divide by, nor
\* has one in whose interval no time has passed; their counts are dropped.  The
\* publisher has ended its cycles when it calls aclose.
Snapshot ==
    /\ ~stop
    /\ tally' = NoFrames /\ sampled' = TRUE
    /\ \E elapsed \in BOOLEAN :
        IF sampled /\ elapsed
        THEN reported' = Plus(reported, tally) /\ UNCHANGED skipped
        ELSE skipped' = Plus(skipped, tally) /\ UNCHANGED reported
    /\ UNCHANGED <<task, stream>>

Next ==
    \/ Write \/ Connect \/ ConnectFails \/ Read \/ Disconnect \/ StopSeen
    \/ Closed \/ Retry \/ Stop \/ Cancel \/ Snapshot

Spec == Init /\ [][Next]_vars

\* The event loop serves the task; readsb and the publisher owe nothing.
FairSpec == Spec /\ WF_vars(StopSeen \/ Retry \/ Cancel)

-----------------------------------------------------------------------------
(* Properties.                                                             *)

\* Types, and the reader's memory is bounded whatever readsb sends.
TypeOK ==
    /\ phase \in {"connecting", "reading", "closing", "waiting", "ended"}
    /\ {stop, sampled, overran} \subseteq BOOLEAN
    /\ wire \in Seq(Bytes) /\ buf \in Seq(Bytes)
    /\ got \in Seq(Frames)
    /\ Len(buf) <= MaxBuffer
    /\ {tally, earlier, skipped, reported} \subseteq [Keys -> Nat]

\* What is counted is what readsb sent, in order, for any cutting of the
\* stream into chunks: no phantom frame out of escaped bytes, a truncated
\* frame or a frame of an unknown type.
InOrder == ~overran => IsPrefix(got, Whole(sent))

\* Once everything is read, nothing is missing: a frame split over any number
\* of reads, also inside an escape pair, is neither lost nor kept waiting.
AllCounted == (phase = "reading" /\ wire = <<>> /\ ~overran) => got = Whole(sent)

\* The guard on the buffer's growth is for streams that do not parse: while
\* readsb sends whole frames it never discards any of them, however many are
\* sent and however they are cut.
NeverDiscards == (\A k \in DOMAIN sent : IsWhole(sent[k])) => ~overran

\* Every frame is reported by exactly one snapshot, or waits for the next one,
\* or was taken by one that had no interval, through reconnections, retries and
\* the cycles in which the reader has no connection.
ReportedOnce ==
    Plus(tally, Plus(skipped, reported)) = Plus(earlier, count_dfs(got))

\* aclose ends the reader in whatever it awaits, without traffic from readsb
\* and without its answer.
StopEnds == stop ~> phase = "ended"

=============================================================================

-------------------------- MODULE MlatStatsProofs --------------------------
(***************************************************************************)
(* Proofs about MlatStats: types; that two writers of one file never undo  *)
(* each other; and that a dead client's numbers do not outlive the limit.  *)
(***************************************************************************)
EXTENDS MlatStats, TLAPS

USE DEF Absent

-----------------------------------------------------------------------------
(* Ages and fields.                                                        *)

\* An age stays one, and never goes down as time passes.
LEMMA LaterTime ==
    ASSUME NEW t \in Times
    PROVE  Later(t) \in Times /\ Later(t) >= t
  BY TimesAssumption DEF Times, Old, Later

\* The order of two ages survives the passing of time.
LEMMA LaterMonotone ==
    ASSUME NEW s \in Times, NEW t \in Times, s <= t
    PROVE  Later(s) <= Later(t)
  BY TimesAssumption DEF Times, Old, Later

LEMMA NoneFields == None \in Fields
  BY DEF None, Fields

LEMMA AgedFields ==
    ASSUME NEW c \in Fields
    PROVE  Aged(c) \in Fields
<1>1. ASSUME NEW g \in Groups
      PROVE  (IF c[g] = Absent THEN Absent ELSE Later(c[g])) \in Times \cup {Absent}
  <2>1. c[g] \in Times \cup {Absent}
    BY <1>1 DEF Fields
  <2>. QED  BY <2>1, LaterTime
<1>. QED  BY <1>1 DEF Aged, Fields

\* A merge only touches the writer's own group.
LEMMA MergedFields ==
    ASSUME NEW c \in Fields, NEW by \in Groups, NEW blind \in BOOLEAN
    PROVE  [IF blind THEN None ELSE c EXCEPT ![by] = 0] \in Fields
<1>1. 0 \in Times
  BY TimesAssumption DEF Times, Old
<1>2. CASE blind
  BY <1>1, <1>2, NoneFields DEF Fields
<1>3. CASE ~blind
  BY <1>1, <1>3 DEF Fields
<1>. QED  BY <1>2, <1>3

LEMMA IdleWrite == Idle \in Writes /\ Idle.by = "none"
  BY DEF Writes, Idle

-----------------------------------------------------------------------------
(* Types.                                                                  *)

\* What the processes and the publisher's sensors keep of their types.
ClientsOK ==
    /\ running \subseteq Feeders /\ synced \subseteq running
    /\ due \in [Feeders -> 0 .. Interval]
    /\ dead \in [Feeders -> Times]

DiskOK ==
    /\ tmp \in [Feeders -> Writes]
    /\ file \in [Feeders -> Fields]
    /\ mtime \in [Feeders -> Times]
    /\ last \in [Feeders -> Fields]

WritersRun == \A f \in Feeders : tmp[f] # Idle => f \in running

ShownOK == shown \in [Feeders -> [Groups -> Shown]]

\* The first cycle gives every advertised sensor a state.
NoneExpires ==
    \A f, h \in Feeders, g \in Groups :
        shown[f]["client"] # "unpublished" /\ shown[h][g] = "unpublished"
            => g = "server" /\ h \notin SyncCapable

LEMMA TypeParts ==
    TypeOK <=> ClientsOK /\ DiskOK /\ WritersRun /\ ShownOK /\ NoneExpires
  BY DEF TypeOK, ClientsOK, DiskOK, WritersRun, ShownOK, NoneExpires

LEMMA InitTypes == Init => TypeOK
<1>. SUFFICES ASSUME Init PROVE TypeOK
  OBVIOUS
<1>1. 0 \in Times /\ Old \in Times /\ 0 \in 0 .. Interval
  BY TimesAssumption DEF Times, Old
<1>2. ShownOK /\ NoneExpires
  BY DEF Init, ShownOK, NoneExpires, Shown, Groups
<1>3. ClientsOK /\ DiskOK /\ WritersRun
  BY <1>1, NoneFields, IdleWrite DEF Init, ClientsOK, DiskOK, WritersRun
<1>. QED  BY <1>2, <1>3, TypeParts

LEMMA ClientsStep == TypeOK /\ [Next]_vars => ClientsOK'
<1>. SUFFICES ASSUME TypeOK, [Next]_vars PROVE ClientsOK'
  OBVIOUS
<1>0. /\ ClientsOK
      /\ 0 \in 0 .. Interval /\ 0 \in Times
  BY TypeParts, TimesAssumption DEF Times, Old
<1>1. ASSUME NEW f \in Feeders, Client(f) PROVE ClientsOK'
  <2>1. CASE Start(f)
    BY <1>0, <2>1 DEF Start, ClientsOK
  <2>2. CASE Die(f)
    BY <1>0, <2>2 DEF Die, ClientsOK
  <2>3. CASE GainSync(f)
    BY <1>0, <2>3 DEF GainSync, ClientsOK
  <2>4. CASE LoseSync(f)
    BY <1>0, <2>4 DEF LoseSync, ClientsOK
  <2>5. CASE ServerPush(f)
    BY <1>0, <2>5 DEF ServerPush, ClientsOK, client
  <2>6. CASE ClientTimer(f)
    BY <1>0, <2>6 DEF ClientTimer, ClientsOK
  <2>7. CASE Rename(f) \/ \E by \in Groups : WriteFails(f, by)
    BY <1>0, <2>7 DEF Rename, WriteFails, ClientsOK, client
  <2>. QED  BY <1>1, <2>1, <2>2, <2>3, <2>4, <2>5, <2>6, <2>7 DEF Client
<1>2. CASE Publish
  BY <1>0, <1>2 DEF Publish, ClientsOK, client
<1>3. CASE Tick
  <2>1. due' \in [Feeders -> 0 .. Interval]
    <3>1. ASSUME NEW f \in Feeders
          PROVE  (IF f \in running THEN due[f] + 1 ELSE due[f]) \in 0 .. Interval
      <4>1. due[f] \in 0 .. Interval /\ (f \in running => due[f] < Interval)
        BY <1>0, <1>3 DEF Tick, ClientsOK
      <4>. QED  BY <4>1, TimesAssumption
    <3>. QED  BY <1>3, <3>1 DEF Tick
  <2>2. dead' \in [Feeders -> Times]
    BY <1>0, <1>3, LaterTime DEF Tick, ClientsOK
  <2>3. UNCHANGED <<running, synced>>
    BY <1>3 DEF Tick
  <2>. QED  BY <1>0, <2>1, <2>2, <2>3 DEF ClientsOK
<1>4. CASE UNCHANGED vars
  BY <1>0, <1>4 DEF vars, client, ClientsOK
<1>. QED  BY <1>1, <1>2, <1>3, <1>4 DEF Next

LEMMA DiskStep == TypeOK /\ [Next]_vars => DiskOK'
<1>. SUFFICES ASSUME TypeOK, [Next]_vars PROVE DiskOK'
  OBVIOUS
<1>0. DiskOK /\ 0 \in Times /\ Idle \in Writes
  BY TypeParts, IdleWrite, TimesAssumption DEF Times, Old
<1>1. ASSUME NEW f \in Feeders, Client(f) PROVE DiskOK'
  <2>1. CASE Start(f) \/ GainSync(f) \/ LoseSync(f)
    BY <1>0, <2>1 DEF Start, GainSync, LoseSync, DiskOK, disk
  <2>2. CASE Die(f)
    BY <1>0, <2>2 DEF Die, DiskOK
  <2>3. ASSUME NEW by \in Groups, BeginWrite(f, by), UNCHANGED <<file, mtime, last>>
        PROVE  DiskOK'
    <3>1. PICK blind \in BOOLEAN :
              tmp' = [tmp EXCEPT ![f] =
                          [by |-> by, blind |-> blind, fields |-> Merged(f, by, blind)]]
      BY <2>3 DEF BeginWrite
    <3>2. Merged(f, by, blind) \in Fields
      BY <1>0, MergedFields DEF DiskOK, Merged
    <3>3. [by |-> by, blind |-> blind, fields |-> Merged(f, by, blind)] \in Writes
      BY <3>2 DEF Writes
    <3>. QED  BY <1>0, <2>3, <3>1, <3>3 DEF DiskOK
  <2>4. CASE ServerPush(f)
    BY <2>3, <2>4 DEF ServerPush, Groups
  <2>5. CASE ClientTimer(f)
    BY <2>3, <2>5 DEF ClientTimer, Groups
  <2>6. CASE Rename(f)
    <3>1. tmp[f] \in Writes /\ tmp[f] # Idle
      BY <1>0, <2>6 DEF Rename, DiskOK
    <3>2. tmp[f].fields \in Fields /\ tmp[f].by \in Groups /\ tmp[f].blind \in BOOLEAN
      BY <3>1 DEF Writes
    <3>3. file' \in [Feeders -> Fields]
      BY <1>0, <2>6, <3>2 DEF Rename, DiskOK
    <3>4. last' \in [Feeders -> Fields]
      <4>1. [IF tmp[f].blind THEN None ELSE last[f] EXCEPT ![tmp[f].by] = 0] \in Fields
        BY <1>0, <3>2, MergedFields DEF DiskOK
      <4>. QED  BY <1>0, <2>6, <4>1 DEF Rename, DiskOK
    <3>. QED  BY <1>0, <2>6, <3>3, <3>4 DEF Rename, DiskOK
  <2>7. CASE \E by \in Groups : WriteFails(f, by)
    BY <1>0, <2>7 DEF WriteFails, DiskOK
  <2>. QED  BY <1>1, <2>1, <2>2, <2>4, <2>5, <2>6, <2>7 DEF Client
<1>2. CASE Publish
  BY <1>0, <1>2 DEF Publish, DiskOK, disk
<1>3. CASE Tick
  BY <1>0, <1>3, LaterTime, AgedFields DEF Tick, DiskOK
<1>4. CASE UNCHANGED vars
  BY <1>0, <1>4 DEF vars, disk, DiskOK
<1>. QED  BY <1>1, <1>2, <1>3, <1>4 DEF Next

LEMMA WritersStep == TypeOK /\ [Next]_vars => WritersRun'
<1>. SUFFICES ASSUME TypeOK, [Next]_vars PROVE WritersRun'
  OBVIOUS
<1>0. WritersRun /\ synced \subseteq running /\ tmp \in [Feeders -> Writes]
  BY TypeParts DEF ClientsOK, DiskOK
<1>1. ASSUME NEW f \in Feeders, Client(f) PROVE WritersRun'
  <2>1. CASE Start(f) \/ GainSync(f) \/ LoseSync(f)
    BY <1>0, <2>1 DEF Start, GainSync, LoseSync, disk, WritersRun
  <2>2. CASE Die(f)
    BY <1>0, <2>2 DEF Die, WritersRun
  <2>3. CASE ServerPush(f)
    BY <1>0, <2>3 DEF ServerPush, BeginWrite, client, WritersRun
  <2>4. CASE ClientTimer(f)
    BY <1>0, <2>4 DEF ClientTimer, BeginWrite, WritersRun
  <2>5. CASE Rename(f) \/ \E by \in Groups : WriteFails(f, by)
    BY <1>0, <2>5 DEF Rename, WriteFails, client, WritersRun
  <2>. QED  BY <1>1, <2>1, <2>2, <2>3, <2>4, <2>5 DEF Client
<1>2. CASE Publish \/ UNCHANGED vars
  BY <1>0, <1>2 DEF Publish, vars, client, disk, WritersRun
<1>3. CASE Tick
  BY <1>0, <1>3 DEF Tick, WritersRun
<1>. QED  BY <1>1, <1>2, <1>3 DEF Next

\* What one cycle can show.
LEMMA StatesShown ==
    ASSUME NEW f \in Feeders, NEW unread
    PROVE  /\ mlat_states(f, unread) \in [Groups -> Shown]
           /\ \A g \in Groups :
                mlat_states(f, unread)[g] = "unpublished"
                    => g = "server" /\ f \notin SyncCapable
<1>1. ASSUME NEW g \in Groups
      PROVE  /\ mlat_states(f, unread)[g] \in Shown
             /\ mlat_states(f, unread)[g] = "unpublished"
                  => g = "server" /\ f \notin SyncCapable
  <2>. DEFINE x == mlat_states(f, unread)[g]
  <2>1. x = CASE g = "server" /\ f \notin SyncCapable -> "unpublished"
              [] f \in unread                         -> "unread"
              [] Fresh(f) /\ file[f][g] # Absent      -> "value"
              [] OTHER                                -> "zero"
    BY DEF mlat_states
  <2>. HIDE DEF x
  <2>2. CASE g = "server" /\ f \notin SyncCapable
    <3>1. x \in Shown
      BY <2>1, <2>2 DEF Shown
    <3>. QED  BY <2>2, <3>1 DEF x
  <2>3. CASE ~(g = "server" /\ f \notin SyncCapable)
    <3>1. x \in {"unread", "value", "zero"}
      BY <2>1, <2>3
    <3>. QED  BY <3>1 DEF x, Shown
  <2>. QED  BY <2>2, <2>3
<1>2. mlat_states(f, unread) = [g \in Groups |-> mlat_states(f, unread)[g]]
  BY DEF mlat_states
<1>. QED  BY <1>1, <1>2

LEMMA ShownStep == TypeOK /\ [Next]_vars => ShownOK' /\ NoneExpires'
<1>. SUFFICES ASSUME TypeOK, [Next]_vars PROVE ShownOK' /\ NoneExpires'
  OBVIOUS
<1>0. ShownOK /\ NoneExpires
  BY TypeParts
<1>1. ASSUME UNCHANGED shown PROVE ShownOK' /\ NoneExpires'
  BY <1>0, <1>1 DEF ShownOK, NoneExpires
<1>2. ASSUME NEW f \in Feeders, Client(f) PROVE UNCHANGED shown
  BY <1>2 DEF Client, Start, Die, GainSync, LoseSync, ServerPush,
     ClientTimer, Rename, WriteFails
<1>3. CASE Publish
  <2>1. PICK unread \in SUBSET Feeders :
            shown' = [f \in Feeders |-> mlat_states(f, unread)]
    BY <1>3 DEF Publish
  <2>. QED  BY <2>1, StatesShown DEF ShownOK, NoneExpires
<1>4. CASE Tick \/ UNCHANGED vars
  BY <1>1, <1>4 DEF Tick, vars
<1>. QED  BY <1>1, <1>2, <1>3, <1>4 DEF Next

\* Every variable keeps its type, and no write outlives the client behind it.
THEOREM TypeInvariant == Spec => []TypeOK
<1>1. TypeOK /\ [Next]_vars => TypeOK'
  BY ClientsStep, DiskStep, WritersStep, ShownStep
     DEF TypeOK, ClientsOK, DiskOK, WritersRun, ShownOK, NoneExpires
<1>. QED  BY InitTypes, <1>1, PTL DEF Spec

-----------------------------------------------------------------------------
(* The two writers.                                                        *)

\* What is about to be renamed into place was merged over what is there now, if
\* it could be read: nothing replaced the file while the write was under way.
MergedOverCurrent ==
    \A f \in Feeders :
        tmp[f] # Idle =>
            tmp[f].fields =
                [IF tmp[f].blind THEN None ELSE file[f] EXCEPT ![tmp[f].by] = 0]

LEMMA InitKept == Init => FieldsKept /\ MergedOverCurrent
  BY DEF Init, FieldsKept, MergedOverCurrent

LEMMA KeptStep ==
    TypeOK /\ FieldsKept /\ MergedOverCurrent /\ [Next]_vars
        => FieldsKept' /\ MergedOverCurrent'
<1>. SUFFICES ASSUME TypeOK, FieldsKept, MergedOverCurrent, [Next]_vars
              PROVE  FieldsKept' /\ MergedOverCurrent'
  OBVIOUS
<1>0. DiskOK /\ Idle \in Writes /\ Idle.by = "none"
  BY TypeParts, IdleWrite
<1>1. ASSUME NEW f \in Feeders, Client(f)
      PROVE  FieldsKept' /\ MergedOverCurrent'
  <2>1. CASE Start(f) \/ GainSync(f) \/ LoseSync(f)
    BY <2>1 DEF Start, GainSync, LoseSync, disk, FieldsKept, MergedOverCurrent
  <2>2. CASE Die(f) \/ \E by \in Groups : WriteFails(f, by)
    BY <1>0, <2>2
       DEF Die, WriteFails, DiskOK, FieldsKept, MergedOverCurrent
  <2>3. ASSUME NEW by \in Groups, BeginWrite(f, by), UNCHANGED <<file, last>>
        PROVE  FieldsKept' /\ MergedOverCurrent'
    <3>1. PICK blind \in BOOLEAN :
              tmp' = [tmp EXCEPT ![f] =
                        [by |-> by, blind |-> blind,
                         fields |-> [IF blind THEN None ELSE file[f] EXCEPT ![by] = 0]]]
      BY <2>3 DEF BeginWrite, Merged
    <3>. QED  BY <1>0, <2>3, <3>1 DEF DiskOK, FieldsKept, MergedOverCurrent
  <2>4. CASE ServerPush(f)
    BY <2>3, <2>4 DEF ServerPush, Groups
  <2>5. CASE ClientTimer(f)
    BY <2>3, <2>5 DEF ClientTimer, Groups
  <2>6. CASE Rename(f)
    <3>. DEFINE new ==
             [IF tmp[f].blind THEN None ELSE last[f] EXCEPT ![tmp[f].by] = 0]
    <3>1. tmp[f].fields = new /\ file = last
      BY <2>6 DEF Rename, MergedOverCurrent, FieldsKept
    <3>2. file' = [file EXCEPT ![f] = new]
      BY <2>6, <3>1 DEF Rename
    <3>3. last' = [last EXCEPT ![f] = new]
      BY <2>6 DEF Rename
    <3>4. file' = last'
      BY <3>1, <3>2, <3>3
    <3>5. \A g \in Feeders : tmp'[g] # Idle => tmp'[g] = tmp[g] /\ file'[g] = file[g]
      BY <1>0, <2>6 DEF Rename, DiskOK
    <3>. QED  BY <3>4, <3>5 DEF FieldsKept, MergedOverCurrent
  <2>. QED  BY <1>1, <2>1, <2>2, <2>4, <2>5, <2>6 DEF Client
<1>2. CASE Publish \/ UNCHANGED vars
  BY <1>2 DEF Publish, vars, disk, FieldsKept, MergedOverCurrent
<1>3. CASE Tick
  BY <1>3 DEF Tick, FieldsKept, MergedOverCurrent
<1>. QED  BY <1>1, <1>2, <1>3 DEF Next

\* For any sets of feeders and any times, the file always holds the latest
\* completed write of either writer, unless the other has failed to read it since:
\* merging loses nothing.
THEOREM NothingClobbered == Spec => []FieldsKept
<1>1. TypeOK /\ FieldsKept /\ MergedOverCurrent /\ [Next]_vars
          => FieldsKept' /\ MergedOverCurrent'
  BY KeptStep
<1>. QED  BY TypeInvariant, InitKept, <1>1, PTL DEF Spec

-----------------------------------------------------------------------------
(* Dead clients.                                                           *)

\* A file is never younger than its writer's death.
DeadAges ==
    \A f \in Feeders : (f \in running => dead[f] = 0) /\ dead[f] <= mtime[f]

LEMMA InitDead == Init => DeadAges
<1>. SUFFICES ASSUME Init PROVE DeadAges
  OBVIOUS
<1>1. Old \in Int
  BY TimesAssumption DEF Old
<1>2. \A f \in Feeders : dead[f] = Old /\ mtime[f] = Old /\ f \notin running
  BY DEF Init
<1>3. ASSUME NEW f \in Feeders
      PROVE  (f \in running => dead[f] = 0) /\ dead[f] <= mtime[f]
  <2>1. dead[f] <= mtime[f]
    BY <1>1, <1>2
  <2>. QED  BY <1>2, <2>1
<1>. QED  BY <1>3 DEF DeadAges

LEMMA DeadStep == TypeOK /\ DeadAges /\ [Next]_vars => DeadAges'
<1>. SUFFICES ASSUME TypeOK, DeadAges, [Next]_vars PROVE DeadAges'
  OBVIOUS
<1>0. ClientsOK /\ DiskOK /\ WritersRun
  BY TypeParts
<1>1. ASSUME NEW f \in Feeders, Client(f) PROVE DeadAges'
  <2>1. CASE Start(f)
    <3>1. mtime' = mtime /\ dead' = [dead EXCEPT ![f] = 0] /\ running' = running \cup {f}
      BY <2>1 DEF Start, disk
    <3>2. \A g \in Feeders : dead'[g] = IF g = f THEN 0 ELSE dead[g]
      BY <1>0, <3>1 DEF ClientsOK
    <3>3. \A g \in Feeders : mtime[g] >= 0
      BY <1>0 DEF DiskOK, Times
    <3>. QED  BY <3>1, <3>2, <3>3 DEF DeadAges
  <2>2. CASE Die(f)
    <3>1. running' \subseteq running /\ UNCHANGED <<dead, mtime>>
      BY <2>2 DEF Die
    <3>. QED  BY <3>1 DEF DeadAges
  <2>3. CASE GainSync(f) \/ LoseSync(f) \/ ServerPush(f) \/ ClientTimer(f)
             \/ \E by \in Groups : WriteFails(f, by)
    <3>1. UNCHANGED <<running, dead, mtime>>
      BY <2>3 DEF GainSync, LoseSync, ServerPush, ClientTimer, WriteFails, client, disk
    <3>. QED  BY <3>1 DEF DeadAges
  <2>4. CASE Rename(f)
    <3>1. /\ UNCHANGED <<running, dead>> /\ mtime' = [mtime EXCEPT ![f] = 0]
          /\ tmp[f] # Idle
      BY <2>4 DEF Rename, client
    <3>2. dead[f] = 0
      BY <1>0, <3>1 DEF WritersRun, DeadAges
    <3>3. \A g \in Feeders : mtime'[g] = IF g = f THEN 0 ELSE mtime[g]
      BY <1>0, <3>1 DEF DiskOK
    <3>. QED  BY <3>1, <3>2, <3>3 DEF DeadAges
  <2>. QED  BY <1>1, <2>1, <2>2, <2>3, <2>4 DEF Client
<1>2. CASE Publish \/ UNCHANGED vars
  <2>1. UNCHANGED <<running, dead, mtime>>
    BY <1>2 DEF Publish, vars, client, disk
  <2>. QED  BY <2>1 DEF DeadAges
<1>3. CASE Tick
  <2>1. ASSUME NEW f \in Feeders
        PROVE  (f \in running' => dead'[f] = 0) /\ dead'[f] <= mtime'[f]
    <3>1. /\ running' = running
          /\ dead'[f] = IF f \in running THEN 0 ELSE Later(dead[f])
          /\ mtime'[f] = Later(mtime[f])
      BY <1>3 DEF Tick
    <3>2. dead[f] \in Times /\ mtime[f] \in Times /\ dead[f] <= mtime[f]
      BY <1>0 DEF ClientsOK, DiskOK, DeadAges
    <3>3. Later(mtime[f]) >= 0 /\ Later(dead[f]) <= Later(mtime[f])
      BY <3>2, LaterTime, LaterMonotone DEF Times
    <3>4. CASE f \in running
      BY <3>1, <3>3, <3>4
    <3>5. CASE f \notin running
      BY <3>1, <3>3, <3>5
    <3>. QED  BY <3>4, <3>5
  <2>. QED  BY <2>1 DEF DeadAges
<1>. QED  BY <1>1, <1>2, <1>3 DEF Next

\* A file that is not fresh gives no value.
LEMMA StaleGivesNothing ==
    ASSUME NEW f \in Feeders, ~Fresh(f), NEW unread, NEW g \in Groups
    PROVE  mlat_states(f, unread)[g] # "value"
<1>1. mlat_states(f, unread)[g] =
        CASE g = "server" /\ f \notin SyncCapable -> "unpublished"
          [] f \in unread                         -> "unread"
          [] Fresh(f) /\ file[f][g] # Absent      -> "value"
          [] OTHER                                -> "zero"
  BY DEF mlat_states
<1>2. CASE g = "server" /\ f \notin SyncCapable
  BY <1>1, <1>2
<1>3. CASE ~(g = "server" /\ f \notin SyncCapable)
  BY <1>1, <1>3
<1>. QED  BY <1>2, <1>3

\* For any set of feeders and any limit, the numbers of a client that has been
\* dead for longer than the limit are never published as current.
THEOREM DeadClientReadsZero == Spec => DeadReadsZero
<1>1. TypeOK /\ DeadAges /\ [Next]_vars =>
        [\A f \in Feeders, g \in Groups :
            Publish /\ dead[f] > StaleAfter => shown'[f][g] # "value"]_vars
  <2>. SUFFICES ASSUME TypeOK, DeadAges, Publish,
                       NEW f \in Feeders, NEW g \in Groups, dead[f] > StaleAfter
                PROVE  shown'[f][g] # "value"
    OBVIOUS
  <2>1. dead[f] \in Times /\ mtime[f] \in Times /\ dead[f] <= mtime[f]
    BY TypeParts DEF ClientsOK, DiskOK, DeadAges
  <2>2. ~(mtime[f] <= StaleAfter)
    BY <2>1, TimesAssumption DEF Times
  <2>3. ~Fresh(f)
    BY <2>2 DEF Fresh
  <2>4. PICK unread \in SUBSET Feeders : shown'[f][g] = mlat_states(f, unread)[g]
    BY DEF Publish
  <2>. QED  BY <2>3, <2>4, StaleGivesNothing
<1>. QED  BY TypeInvariant, InitDead, DeadStep, <1>1, PTL DEF Spec, DeadReadsZero

-----------------------------------------------------------------------------
(* Recent numbers.                                                         *)

\* A file is no older than the latest write into it.
FileAges ==
    \A f \in Feeders, g \in Groups :
        last[f][g] # Absent => mtime[f] <= last[f][g]

LEMMA InitAges == Init => FileAges
  BY DEF Init, FileAges, None

\* Every step keeps it: a rename makes the file new, and time passes for both.
LEMMA AgesStep == TypeOK /\ FileAges /\ [Next]_vars => FileAges'
<1>. SUFFICES ASSUME TypeOK, FileAges, [Next]_vars PROVE FileAges'
  OBVIOUS
<1>0. DiskOK
  BY TypeParts
<1>1. ASSUME UNCHANGED <<mtime, last>>
      PROVE  FileAges'
  BY <1>1 DEF FileAges
<1>2. ASSUME NEW f \in Feeders, Client(f) PROVE FileAges'
  <2>1. CASE Rename(f)
    <3>1. /\ mtime' = [mtime EXCEPT ![f] = 0]
          /\ last' = [last EXCEPT ![f] =
                [IF tmp[f].blind THEN None ELSE last[f] EXCEPT ![tmp[f].by] = 0]]
      BY <2>1 DEF Rename
    <3>2. ASSUME NEW h \in Feeders, NEW g \in Groups, last'[h][g] # Absent
          PROVE  mtime'[h] <= last'[h][g]
      <4>1. CASE h = f
        <5>1. mtime'[h] = 0
          BY <1>0, <3>1, <4>1 DEF DiskOK
        <5>2. last'[h][g] = 0 \/ last'[h][g] = last[h][g]
          <6>1. last'[h] = [IF tmp[f].blind THEN None ELSE last[h]
                                EXCEPT ![tmp[f].by] = 0]
            BY <1>0, <3>1, <4>1 DEF DiskOK
          <6>2. CASE tmp[f].blind
            <7>1. last'[h] = [None EXCEPT ![tmp[f].by] = 0]
              BY <6>1, <6>2
            <7>. QED  BY <3>2, <7>1 DEF None
          <6>3. CASE ~tmp[f].blind
            <7>1. last'[h] = [last[h] EXCEPT ![tmp[f].by] = 0]
              BY <6>1, <6>3
            <7>. QED  BY <1>0, <7>1 DEF DiskOK, Fields
          <6>. QED  BY <6>2, <6>3
        <5>3. last[h][g] \in Times \cup {Absent}
          BY <1>0 DEF DiskOK, Fields
        <5>4. last'[h][g] = 0 \/ last'[h][g] \in Times
          BY <3>2, <5>2, <5>3
        <5>. QED  BY <5>1, <5>4 DEF Times
      <4>2. CASE h # f
        <5>1. mtime'[h] = mtime[h] /\ last'[h] = last[h]
          BY <1>0, <3>1, <4>2 DEF DiskOK
        <5>. QED  BY <3>2, <5>1 DEF FileAges
      <4>. QED  BY <4>1, <4>2
    <3>. QED  BY <3>2 DEF FileAges
  <2>2. CASE ~Rename(f)
    <3>1. UNCHANGED <<mtime, last>>
      BY <1>2, <2>2 DEF Client, Start, Die, GainSync, LoseSync, ServerPush,
         ClientTimer, WriteFails, disk
    <3>. QED  BY <1>1, <3>1
  <2>. QED  BY <2>1, <2>2
<1>3. CASE Publish \/ UNCHANGED vars
  <2>1. UNCHANGED <<mtime, last>>
    BY <1>3 DEF Publish, vars, disk
  <2>. QED  BY <1>1, <2>1
<1>4. CASE Tick
  <2>1. ASSUME NEW f \in Feeders, NEW g \in Groups, last'[f][g] # Absent
        PROVE  mtime'[f] <= last'[f][g]
    <3>1. mtime'[f] = Later(mtime[f]) /\ last'[f] = Aged(last[f])
      BY <1>4 DEF Tick
    <3>2. last[f][g] # Absent /\ last'[f][g] = Later(last[f][g])
      BY <2>1, <3>1 DEF Aged
    <3>3. mtime[f] \in Times /\ last[f][g] \in Times /\ mtime[f] <= last[f][g]
      BY <1>0, <3>2 DEF DiskOK, Fields, FileAges
    <3>. QED  BY <3>1, <3>2, <3>3, LaterMonotone
  <2>. QED  BY <2>1 DEF FileAges
<1>. QED  BY <1>2, <1>3, <1>4 DEF Next

\* For any feeders, limit and interval: what either writer completed within
\* the limit is shown as a number by the next cycle that can read the file.
THEOREM RecentAlwaysShown == Spec => RecentIsShown
<1>1. TypeOK /\ FieldsKept /\ FileAges /\ [Next]_vars =>
        [\A f \in Feeders, g \in Groups :
            /\ Publish /\ last[f][g] # Absent /\ last[f][g] <= StaleAfter
            /\ g = "server" => f \in SyncCapable
            => shown'[f][g] \in {"value", "unread"}]_vars
  <2>. SUFFICES ASSUME TypeOK, FieldsKept, FileAges, Publish,
                       NEW f \in Feeders, NEW g \in Groups,
                       last[f][g] # Absent, last[f][g] <= StaleAfter,
                       g = "server" => f \in SyncCapable
                PROVE  shown'[f][g] \in {"value", "unread"}
    OBVIOUS
  <2>1. file[f][g] # Absent
    BY DEF FieldsKept
  <2>2. mtime[f] \in Times /\ last[f][g] \in Times /\ mtime[f] <= last[f][g]
    BY TypeParts DEF DiskOK, Fields, FileAges
  <2>3. mtime[f] <= StaleAfter
    BY <2>2, TimesAssumption DEF Times
  <2>4. Fresh(f)
    BY <2>1, <2>3 DEF Fresh, None
  <2>5. PICK unread \in SUBSET Feeders : shown'[f][g] = mlat_states(f, unread)[g]
    BY DEF Publish
  <2>6. mlat_states(f, unread)[g] =
          CASE g = "server" /\ f \notin SyncCapable -> "unpublished"
            [] f \in unread                         -> "unread"
            [] Fresh(f) /\ file[f][g] # Absent      -> "value"
            [] OTHER                                -> "zero"
    BY DEF mlat_states
  <2>. QED  BY <2>1, <2>4, <2>5, <2>6
<1>. QED  BY TypeInvariant, NothingClobbered, InitAges, AgesStep, <1>1,
            PTL DEF Spec, RecentIsShown

=============================================================================

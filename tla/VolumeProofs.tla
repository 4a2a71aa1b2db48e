---------------------------- MODULE VolumeProofs ----------------------------
(***************************************************************************)
(* For any number of containers, exits and faults:                         *)
(*   - every variable keeps its type;                                      *)
(*   - at most one container is past the lock;                             *)
(*   - a committed AOF is only moved aside for a dump that something       *)
(*     other than this image's own life explains;                          *)
(*   - boot, migration, saves and exits implement DurableVolume.           *)
(***************************************************************************)
EXTENDS Volume, TLAPS

USE DEF bootVars, engineVars, fileVars, worldVars

Act(c) == \/ Boot(c) \/ Serve(c) \/ Migrate(c) \/ Leave(c)
          \/ GiveUp(c) \/ FailOpen(c) \/ BootFails(c) \/ RewriteDies(c)
          \/ RedisDies(c) \/ StopRedis(c) \/ KillRedis(c) \/ Kill(c)

LEMMA NextCases ==
    Next <=> trusted /\ ((\E c \in Container : Act(c)) \/ Tick \/ Foreign)
  BY DEF Next, Act

-----------------------------------------------------------------------------
(* Types.                                                                  *)

LEMMA FileTypes ==
    /\ Absent \in File
    /\ NoDir \in [data : Nat, mtime : Int, manifest : BOOLEAN]
    /\ \A d \in Nat : TypeOK => Saved(d) \in File
    /\ \A v \in Volumes : /\ v[1] \in File
                          /\ v[2] \in [data : Nat, mtime : Int, manifest : BOOLEAN]
  BY MarginAssumption DEF Absent, NoDir, File, Saved, Volumes, TypeOK

LEMMA TypeInit == Init => TypeOK
  <1> SUFFICES ASSUME Init PROVE TypeOK
    OBVIOUS
  <1>1. dump \in File /\ aof \in [data : Nat, mtime : Int, manifest : BOOLEAN]
    BY FileTypes DEF Init
  <1>2. \A c \in Container : ~rewriting[c] /\ snap[c] = Absent
    BY DEF Init
  <1>3. snap \in [Container -> File]
    BY FileTypes DEF Init
  <1> QED
    BY <1>1, <1>2, <1>3, MarginAssumption DEF Init, TypeOK, Stage

LEMMA StageNames ==
    /\ Stage = {"off", "locking", "deciding", "quarantine", "record", "spawn",
                "loading", "on", "stopping", "draining", "exiting"}
    /\ Serving = {c \in Container : pc[c] \in {"on", "stopping", "draining"}}
    /\ InVolume = {c \in Container : pc[c] \notin {"off", "locking"}}
  BY DEF Stage, Serving, InVolume

LEMMA RecordTypes ==
    ASSUME TypeOK, Record
    PROVE  /\ marker' \in {"absent", "dump", "other"}
           /\ faults' \in Nat /\ excused' \in BOOLEAN
  <1>1. Claim \in {"absent", "dump"}
    BY DEF Claim
  <1>2. faults \in Nat /\ marker \in {"absent", "dump", "other"}
    BY DEF TypeOK
  <1>3. faults' \in Nat
    BY <1>2 DEF Record
  <1>4. marker' \in {"absent", "dump", "other"}
    BY <1>1, <1>2 DEF Record
  <1>5. excused' \in BOOLEAN
    BY Zenon DEF Record
  <1> QED
    BY <1>3, <1>4, <1>5

LEMMA EngineEndsTypes ==
    ASSUME TypeOK, NEW c \in Container, EngineEnds(c)
    PROVE  /\ adopting' \in [Container -> BOOLEAN]
           /\ mem' \in [Container -> Nat]
           /\ aofOn' \in [Container -> BOOLEAN] /\ rewriting' \in [Container -> BOOLEAN]
           /\ snap' \in [Container -> File]
           /\ ~rewriting'[c] /\ snap'[c] = Absent
           /\ \A d \in Container \ {c} : rewriting'[d] = rewriting[d] /\ snap'[d] = snap[d]
  BY FileTypes DEF TypeOK, EngineEnds

LEMMA TypeStep == TypeOK /\ [Next]_vars => TypeOK'
  <1> SUFFICES ASSUME TypeOK, [Next]_vars PROVE TypeOK'
    OBVIOUS
  <1> USE StageNames, FileTypes
  <1>1. ASSUME NEW c \in Container, Boot(c) PROVE TypeOK'
    <2>0. NeedsMigration \in BOOLEAN
      BY DEF NeedsMigration, HasDump
    <2>1. CASE Start(c) \/ Acquire(c)
      BY <1>1, <2>1 DEF Start, Acquire, At, TypeOK, Serving
    <2>5. CASE Decide(c)
      BY <2>5, <2>0 DEF Decide, At, TypeOK, Serving
    <2>2. CASE Quarantine(c) \/ RecordAtBoot(c)
      BY <1>1, <2>2, RecordTypes DEF Quarantine, RecordAtBoot, At, TypeOK, Serving
    <2>3. CASE SpawnRedis(c)
      BY <1>1, <2>3 DEF SpawnRedis, At, TypeOK, Serving
    <2>4. CASE Load(c)
      <3>1. /\ dump.data \in Nat /\ aof.data \in Nat
            /\ [data |-> 0, mtime |-> clock, manifest |-> TRUE]
                 \in [data : Nat, mtime : Int, manifest : BOOLEAN]
        BY DEF TypeOK, File
      <3> QED
        BY <1>1, <2>4, <3>1 DEF Load, At, TypeOK, Serving
    <2> QED
      BY <1>1, <2>1, <2>2, <2>3, <2>4, <2>5 DEF Boot
  <1>2. ASSUME NEW c \in Container, Serve(c) PROVE TypeOK'
    <2>1. CASE Write(c)
      <3>1. mem[c] + 1 \in Nat
        BY DEF TypeOK
      <3>2. [data |-> mem[c] + 1, mtime |-> clock, manifest |-> TRUE]
              \in [data : Nat, mtime : Int, manifest : BOOLEAN]
        BY <3>1 DEF TypeOK
      <3> QED
        BY <2>1, <3>1, <3>2 DEF Write, TypeOK, Serving
    <2>2. CASE SaveStart(c)
      BY <2>2 DEF SaveStart, TypeOK, Serving, File
    <2>3. CASE SaveEnd(c)
      <3>1. snap[c].data \in Nat
        BY DEF TypeOK, File
      <3> QED
        BY <2>3, <3>1 DEF SaveEnd, TypeOK, Serving, Disowned
    <2>4. CASE OwnerPoll(c)
      BY <2>4, RecordTypes DEF OwnerPoll, TypeOK, Serving
    <2> QED
      BY <1>2, <2>1, <2>2, <2>3, <2>4 DEF Serve
  <1>3. ASSUME NEW c \in Container, Migrate(c) PROVE TypeOK'
    <2>1. CASE Nudge(c)
      <3>1. [data |-> 0, mtime |-> clock, manifest |-> FALSE]
              \in [data : Nat, mtime : Int, manifest : BOOLEAN]
        BY DEF TypeOK
      <3> QED
        BY <2>1, <3>1 DEF Nudge, TypeOK, Serving
    <2>2. CASE RewriteCommits(c)
      <3>1. [data |-> mem[c], mtime |-> clock, manifest |-> TRUE]
              \in [data : Nat, mtime : Int, manifest : BOOLEAN]
        BY DEF TypeOK
      <3> QED
        BY <2>2, <3>1 DEF RewriteCommits, TypeOK, Serving
    <2> QED
      BY <1>3, <2>1, <2>2 DEF Migrate
  <1>4. ASSUME NEW c \in Container, Leave(c) PROVE TypeOK'
    <2>1. CASE ShutdownSave(c)
      <3>1. mem[c] \in Nat
        BY DEF TypeOK
      <3> QED
        BY <2>1, <3>1, EngineEndsTypes DEF ShutdownSave, TypeOK, Serving, Disowned
    <2>2. CASE Exit(c)
      BY <2>2, RecordTypes DEF Exit, At, TypeOK, Serving
    <2> QED
      BY <1>4, <2>1, <2>2 DEF Leave
  <1>5. ASSUME NEW c \in Container, GiveUp(c) \/ FailOpen(c) \/ BootFails(c)
        PROVE  TypeOK'
    <2>1. CASE GiveUp(c)
      BY <2>1 DEF GiveUp, At, TypeOK, Serving
    <2>2. CASE FailOpen(c)
      <3>1. trusted' \in BOOLEAN
        BY <2>2, Zenon DEF FailOpen
      <3> QED
        BY <2>2, <3>1 DEF FailOpen, At, TypeOK, Serving
    <2>3. CASE BootFails(c)
      BY <2>3 DEF BootFails, TypeOK, Serving
    <2> QED
      BY <1>5, <2>1, <2>2, <2>3
  <1>6. ASSUME NEW c \in Container, RewriteDies(c) \/ StopRedis(c) PROVE TypeOK'
    <2>1. CASE RewriteDies(c)
      BY <2>1 DEF RewriteDies, TypeOK, Serving
    <2>2. CASE StopRedis(c)
      BY <2>2 DEF StopRedis, Ends, TypeOK, Serving
    <2> QED
      BY <1>6, <2>1, <2>2
  <1>7. ASSUME NEW c \in Container, RedisDies(c) \/ KillRedis(c) \/ Kill(c)
        PROVE  TypeOK'
    <2>1. EngineEnds(c)
      BY <1>7 DEF RedisDies, KillRedis, Kill
    <2>2. CASE RedisDies(c)
      BY <2>1, <2>2, EngineEndsTypes DEF RedisDies, Ends, TypeOK, Serving
    <2>3. CASE KillRedis(c)
      BY <2>1, <2>3, EngineEndsTypes DEF KillRedis, At, TypeOK, Serving
    <2>4. CASE Kill(c)
      BY <2>1, <2>4, EngineEndsTypes DEF Kill, Ends, TypeOK, Serving
    <2> QED
      BY <1>7, <2>2, <2>3, <2>4
  <1>8. CASE Tick
    BY <1>8 DEF Tick, TypeOK, Serving
  <1>9. CASE Foreign
    <2>1. Newest + 1 \in Nat
      BY DEF TypeOK, File, Newest
    <2>2. dump' \in File
      BY <1>9, <2>1 DEF Foreign
    <2> QED
      BY <1>9, <2>2 DEF Foreign, Ends, TypeOK, Serving, Disowned
  <1>10. CASE UNCHANGED vars
    BY <1>10 DEF vars, TypeOK, Serving
  <1> QED
    BY <1>1, <1>2, <1>3, <1>4, <1>5, <1>6, <1>7, <1>8, <1>9, <1>10, NextCases DEF Act

(* Every variable keeps its type, and no save or rewrite outlives its      *)
(* redis-server.                                                           *)
THEOREM TypeCorrect == Spec => []TypeOK
  BY TypeInit, TypeStep, PTL DEF Spec

-----------------------------------------------------------------------------
(* The lock.                                                               *)

\* While nobody failed open, whoever is past the lock holds it.
Locked == trusted => \A c \in InVolume : holder = c

LEMMA LockInit == Init => Locked
  BY DEF Init, Locked, InVolume

\* Of the steps, Acquire and FailOpen let a container past the lock, and those
\* that take a container out drop its lock alone.
LEMMA StepMoves ==
    ASSUME TypeOK, NEW c \in Container, Act(c), trusted
    PROVE  /\ \A d \in Container \ {c} : pc'[d] = pc[d]
           /\ \/ trusted' /\ pc'[c] \in {"off", "locking"} /\ holder' \in {holder, NoOne}
                 /\ (holder' # holder => holder = c)
              \/ trusted' /\ c \in InVolume /\ holder' = holder
              \/ trusted' /\ holder = NoOne /\ holder' = c
              \/ ~trusted'
  <1> USE DEF TypeOK, At
  <1>1. CASE Boot(c)
    BY <1>1 DEF Boot, Start, Acquire, Decide, Quarantine, RecordAtBoot, SpawnRedis, Load,
                InVolume
  <1>2. CASE Serve(c)
    BY <1>2 DEF Serve, Write, SaveStart, SaveEnd, OwnerPoll, InVolume
  <1>3. CASE Migrate(c)
    BY <1>3 DEF Migrate, Nudge, RewriteCommits, InVolume
  <1>4. CASE Leave(c)
    BY <1>4 DEF Leave, ShutdownSave, Exit, InVolume
  <1>5. CASE GiveUp(c) \/ FailOpen(c) \/ BootFails(c)
    BY <1>5 DEF GiveUp, FailOpen, BootFails
  <1>6. CASE RewriteDies(c) \/ RedisDies(c) \/ StopRedis(c) \/ KillRedis(c)
    BY <1>6 DEF RewriteDies, RedisDies, StopRedis, KillRedis, InVolume
  <1>7. CASE Kill(c)
    BY <1>7 DEF Kill
  <1> QED
    BY <1>1, <1>2, <1>3, <1>4, <1>5, <1>6, <1>7 DEF Act

LEMMA LockStep == TypeOK /\ Locked /\ [Next]_vars => Locked'
  <1> SUFFICES ASSUME TypeOK, Locked, [Next]_vars, trusted' PROVE Locked'
    BY DEF Locked
  <1>1. ASSUME NEW c \in Container, Act(c), trusted PROVE Locked'
    <2>1. /\ \A d \in Container \ {c} : pc'[d] = pc[d]
          /\ \A d \in InVolume : holder = d
          /\ NoOne # c
      BY <1>1, StepMoves, LockAssumption DEF Locked
    <2>2. \A d \in InVolume' \ {c} : d \in InVolume
      BY <2>1 DEF InVolume
    <2>3. CASE pc'[c] \in {"off", "locking"} /\ holder' \in {holder, NoOne}
               /\ (holder' # holder => holder = c)
      <3>1. c \notin InVolume'
        BY <2>3 DEF InVolume
      <3> QED
        BY <2>1, <2>2, <2>3, <3>1 DEF Locked
    <2>4. CASE c \in InVolume /\ holder' = holder
      BY <2>1, <2>2, <2>4 DEF Locked
    <2>5. CASE holder = NoOne /\ holder' = c
      <3>1. InVolume = {}
        BY <2>1, <2>5, LockAssumption DEF InVolume
      <3> QED
        BY <2>2, <2>5, <3>1 DEF Locked
    <2> QED
      BY <1>1, <2>3, <2>4, <2>5, StepMoves
  <1>2. CASE Tick \/ Foreign \/ UNCHANGED vars
    BY <1>2 DEF Tick, Foreign, vars, Locked, InVolume
  <1> QED
    BY <1>1, <1>2, NextCases

(* volume_lock: unless one failed open, no two containers are past it.     *)
THEOREM OneEngineAlways == Spec => []OneEngine
  <1>1. Locked => OneEngine
    BY DEF Locked, OneEngine
  <1>2. Spec => []Locked
    BY TypeCorrect, LockInit, LockStep, PTL DEF Spec
  <1> QED
    BY <1>1, <1>2, PTL

-----------------------------------------------------------------------------
(* The claim of the dump.                                                  *)

Dirty == {"on", "stopping", "draining", "exiting"}

\* Unless something excuses it, the marker claims the dump whenever no
\* redis-server of this image has run since the claim.
Claimed ==
    trusted /\ ~excused =>
        marker = Claim \/ \E c \in Container : pc[c] \in Dirty

LEMMA ClaimInit == Init => Claimed
  BY DEF Init, Claimed

LEMMA ClaimStep == TypeOK /\ Locked /\ Claimed /\ [Next]_vars => Claimed'
  <1> SUFFICES ASSUME TypeOK, Locked, Claimed, [Next]_vars, trusted', ~excused'
               PROVE  marker' = Claim' \/ \E c \in Container : pc'[c] \in Dirty
    BY DEF Claimed
  <1> USE DEF Dirty, At
  <1>1. ASSUME UNCHANGED <<marker, dump, trusted, excused>>,
               \A c \in Container : pc[c] \in Dirty => pc'[c] \in Dirty
        PROVE  marker' = Claim' \/ \E c \in Container : pc'[c] \in Dirty
    BY <1>1 DEF Claimed, Claim, HasDump
  <1>2. ASSUME NEW c \in Container, Act(c)
        PROVE  marker' = Claim' \/ \E d \in Container : pc'[d] \in Dirty
    <2>1. CASE pc'[c] \in Dirty
      BY <2>1
    <2>2. CASE Record /\ UNCHANGED dump
      BY <2>2 DEF Record, Claim, HasDump
    <2>3. CASE Boot(c) /\ ~RecordAtBoot(c) /\ ~Load(c)
      BY <2>3, <1>1
         DEF Boot, Start, Acquire, Decide, Quarantine, SpawnRedis, TypeOK
    <2>4. CASE GiveUp(c) \/ BootFails(c)
      BY <2>4, <1>1 DEF GiveUp, BootFails, TypeOK
    <2>5. CASE RecordAtBoot(c) \/ OwnerPoll(c) \/ Exit(c)
      BY <2>2, <2>5 DEF RecordAtBoot, OwnerPoll, Exit
    <2>6. CASE Load(c) \/ Serve(c) \/ Migrate(c) \/ ShutdownSave(c) \/ RewriteDies(c)
      BY <2>1, <2>5, <2>6
         DEF Load, Serve, Write, SaveStart, SaveEnd, Migrate, Nudge, RewriteCommits,
             ShutdownSave, RewriteDies, TypeOK
    <2>7. CASE RedisDies(c) \/ StopRedis(c) \/ KillRedis(c)
      BY <2>1, <2>7 DEF RedisDies, StopRedis, KillRedis, TypeOK
    <2>8. ~FailOpen(c) /\ ~Kill(c)
      BY DEF FailOpen, Kill
    <2> QED
      BY <1>2, <2>3, <2>4, <2>5, <2>6, <2>7, <2>8 DEF Act, Boot, Leave
  <1>3. CASE Tick \/ UNCHANGED vars
    BY <1>1, <1>3 DEF Tick, vars
  <1>4. ~Foreign
    BY DEF Foreign
  <1> QED
    BY <1>2, <1>3, <1>4, NextCases

\* A container that found such a dump keeps the excuse until it has moved the
\* AOF aside: nobody else is on the volume to change it.
LEMMA TrustInit == Init => TrustsOwnAof
  BY DEF Init, TrustsOwnAof

LEMMA TrustStep ==
    TypeOK /\ Locked /\ Claimed /\ TrustsOwnAof /\ [Next]_vars => TrustsOwnAof'
  <1> SUFFICES ASSUME TypeOK, Locked, Claimed, TrustsOwnAof, [Next]_vars, trusted',
                      NEW c \in Container,
                      pc'[c] = "quarantine", adopting'[c], Committed'
               PROVE  excused'
    BY DEF TrustsOwnAof
  <1> USE DEF At
  <1>1. ASSUME UNCHANGED <<aof, excused, trusted>>, pc[c] = "quarantine", adopting[c]
        PROVE  excused'
    BY <1>1 DEF TrustsOwnAof, Committed
  <1>2. ASSUME NEW d \in Container, Act(d), trusted PROVE excused'
    <2>1. CASE d # c
      <3>1. pc[c] = "quarantine"
        BY <1>2, <2>1, StepMoves
      <3>2. d \notin InVolume /\ c \in InVolume
        BY <1>2, <2>1, <3>1 DEF Locked, InVolume
      <3>3. holder # NoOne
        BY <1>2, <3>2, LockAssumption DEF Locked, InVolume
      <3>4. pc[d] \in {"off", "locking"}
        BY <3>2 DEF InVolume
      <3>5. Start(d) \/ GiveUp(d)
        BY <1>2, <3>3, <3>4
           DEF Act, Boot, Serve, Migrate, Leave, Acquire, Decide, Quarantine,
               RecordAtBoot, SpawnRedis, Load, Write, SaveStart, SaveEnd, OwnerPoll,
               Nudge, RewriteCommits, ShutdownSave, Exit, FailOpen, BootFails,
               RewriteDies, RedisDies, StopRedis, KillRedis, Kill
      <3> QED
        BY <1>1, <3>1, <3>5 DEF Start, GiveUp
    <2>2. CASE d = c
      <3>1. Decide(c)
        BY <1>2, <2>2
           DEF TypeOK, Act, Boot, Serve, Migrate, Leave, Start, Acquire, Quarantine,
               RecordAtBoot, SpawnRedis, Load, Write, SaveStart, SaveEnd, OwnerPoll,
               Nudge, RewriteCommits, ShutdownSave, Exit, GiveUp, FailOpen, BootFails,
               RewriteDies, RedisDies, StopRedis, KillRedis, Kill
      <3>2. HasDump /\ ~OwnsRdb
        BY <3>1 DEF Decide, NeedsMigration, TypeOK, Committed
      <3>3. marker # Claim
        BY <3>2 DEF Claim, OwnsRdb
      <3>4. c \in InVolume /\ \A e \in Container : pc[e] \in Dirty => e = c
        BY <1>2, <3>1 DEF Decide, Locked, InVolume, Dirty
      <3>5. pc[c] \notin Dirty
        BY <3>1 DEF Decide, Dirty
      <3> QED
        BY <1>2, <3>1, <3>3, <3>4, <3>5 DEF Claimed, Decide
    <2> QED
      BY <2>1, <2>2
  <1>3. CASE Tick \/ UNCHANGED vars
    BY <1>1, <1>3 DEF Tick, vars
  <1>4. CASE Foreign
    BY <1>4 DEF Foreign
  <1> QED
    BY <1>2, <1>3, <1>4, NextCases

(* needs_rdb_to_aof_migration moves a committed AOF aside only when another*)
(* image, a kill or a failed write explains the dump that outlived it.     *)
THEOREM OwnAofTrusted == Spec => []TrustsOwnAof
  <1>1. Spec => []Locked
    BY TypeCorrect, LockInit, LockStep, PTL DEF Spec
  <1>2. Spec => []Claimed
    BY <1>1, TypeCorrect, ClaimInit, ClaimStep, PTL DEF Spec
  <1> QED
    BY <1>1, <1>2, TypeCorrect, TrustInit, TrustStep, PTL DEF Spec

-----------------------------------------------------------------------------
(* The data.  The side a boot would choose has the newest dataset, at      *)
(* every moment; what follows is what each stage has to know for that.     *)

FilesOK ==
    /\ Committed => IF NeedsMigration THEN dump.data >= aof.data
                                      ELSE aof.data >= dump.data
    /\ ~Committed => aof.data = 0
    /\ ~HasDump => dump.data = 0
    /\ dump.mtime <= clock

\* The decision stands until the directory is moved.
DecidingOK(c) == pc[c] = "quarantine" => adopting[c] = NeedsMigration

\* A boot that adopts the dump has no AOF; one that does not has nothing in
\* the dump that the AOF lacks.
BootingOK(c) ==
    pc[c] \in {"record", "spawn", "loading"} =>
        /\ Committed => ~adopting[c] /\ aof.data >= dump.data
        /\ ~Committed /\ ~adopting[c] => ~HasDump
        /\ pc[c] = "loading" => aofOn[c] = ~adopting[c]

ServingOK(c) ==
    c \in Serving =>
        /\ dump.data <= mem[c]
        /\ Committed => aofOn[c] /\ aof.data = mem[c]
        /\ rewriting[c] => aofOn[c]

\* A save is too short to outlive Margin, so one that began after the last
\* write of the AOF has all of it.
SavingOK(c) ==
    snap[c] # Absent =>
        /\ dump.data <= snap[c].data /\ snap[c].data <= mem[c]
        /\ snap[c].mtime <= clock /\ clock - snap[c].mtime <= MaxSave
        /\ Committed /\ aof.mtime < snap[c].mtime => snap[c].data = mem[c]

ExitingOK(c) == pc[c] = "exiting" /\ Committed => aof.data >= dump.data

ContainerOK(c) == /\ DecidingOK(c) /\ BootingOK(c) /\ ServingOK(c)
                  /\ SavingOK(c) /\ ExitingOK(c)

DataOK == trusted => FilesOK /\ \A c \in InVolume : ContainerOK(c)

LEMMA DataInit == Init => DataOK
  <1> SUFFICES ASSUME Init PROVE FilesOK /\ InVolume = {}
    BY DEF DataOK
  <1>1. InVolume = {}
    BY DEF Init, InVolume
  <1>2. PICK v \in Volumes : dump = v[1] /\ aof = v[2]
    BY DEF Init
  <1>3. clock = Margin /\ marker = "absent"
    BY DEF Init
  <1> QED
    BY <1>1, <1>2, <1>3, MarginAssumption
       DEF Volumes, Absent, NoDir, FilesOK, NeedsMigration, HasDump, Committed, OwnsRdb

\* What is on the volume and on the clock is a number.
LEMMA Numbers ==
    ASSUME TypeOK, NEW c \in Container
    PROVE  /\ dump.data \in Nat /\ dump.mtime \in Int
           /\ aof.data \in Nat /\ aof.mtime \in Int /\ aof.manifest \in BOOLEAN
           /\ snap[c].data \in Nat /\ snap[c].mtime \in Int
           /\ mem[c] \in Nat /\ clock \in Nat
  BY DEF TypeOK, File

\* A step that touches neither the files nor the clock, and of containers only c.
LEMMA FilesStay ==
    ASSUME FilesOK, UNCHANGED <<dump, aof, marker, clock>> PROVE FilesOK'
  BY DEF FilesOK, NeedsMigration, HasDump, Committed, OwnsRdb

LEMMA BootStep ==
    ASSUME TypeOK, FilesOK, NEW c \in Container, c \in InVolume, ContainerOK(c),
           Boot(c) \/ BootFails(c)
    PROVE  FilesOK' /\ ContainerOK(c)'
  <1> USE Numbers, MarginAssumption DEF At
  <1>0. snap[c] = Absent \/ c \in Serving
    BY DEF TypeOK
  <1>1. CASE Decide(c)
    <2>1. /\ pc'[c] = "quarantine" /\ adopting'[c] = NeedsMigration
          /\ NeedsMigration' = NeedsMigration
          /\ UNCHANGED <<snap, dump, aof, marker, clock>>
          /\ snap'[c] = Absent
      BY <1>1, <1>0 DEF Decide, TypeOK, Serving, NeedsMigration, HasDump, Committed, OwnsRdb
    <2> QED
      BY <2>1, FilesStay
         DEF ContainerOK, DecidingOK, BootingOK, ServingOK, SavingOK, ExitingOK, Serving, Absent
  <1>2. CASE Quarantine(c)
    <2>1. /\ pc[c] = "quarantine" /\ pc'[c] = "record"
          /\ UNCHANGED <<adopting, snap, dump, marker, clock>>
          /\ snap'[c] = Absent
      BY <1>2, <1>0 DEF Quarantine, TypeOK, Serving
    <2>2. CASE adopting[c]
      <3>1. aof' = NoDir /\ ~Committed'
        BY <1>2, <2>2 DEF Quarantine, NoDir, Committed
      <3> QED
        BY <2>1, <2>2, <3>1
           DEF FilesOK, ContainerOK, DecidingOK, BootingOK, ServingOK, SavingOK, ExitingOK,
               Serving, NoDir, HasDump, Absent
    <2>3. CASE ~adopting[c]
      <3>1. aof' = aof /\ ~NeedsMigration
        BY <1>2, <2>1, <2>3 DEF Quarantine, ContainerOK, DecidingOK
      <3>2. Committed => aof.data >= dump.data
        BY <3>1 DEF FilesOK
      <3>3. ~Committed => ~HasDump
        BY <3>1 DEF NeedsMigration
      <3> QED
        BY <2>1, <2>3, <3>1, <3>2, <3>3, FilesStay
           DEF ContainerOK, DecidingOK, BootingOK, ServingOK, SavingOK, ExitingOK,
               Serving, Committed, HasDump, Absent
    <2> QED
      BY <2>2, <2>3
  <1>3. CASE RecordAtBoot(c)
    <2>1. /\ pc[c] = "record" /\ pc'[c] = "spawn" /\ UNCHANGED <<adopting, snap, dump, aof, clock>>
          /\ snap'[c] = Absent
      BY <1>3, <1>0 DEF RecordAtBoot, TypeOK, Serving
    <2>2. marker' \in {Claim, marker}
      BY <1>3 DEF RecordAtBoot, Record
    <2>3. /\ Committed => ~adopting[c] /\ aof.data >= dump.data
          /\ ~Committed /\ ~adopting[c] => ~HasDump
      BY <2>1 DEF ContainerOK, BootingOK
    <2>4. FilesOK'
      BY <2>1, <2>2, <2>3
         DEF FilesOK, NeedsMigration, HasDump, Committed, OwnsRdb, Claim
    <2> QED
      BY <2>1, <2>3, <2>4
         DEF ContainerOK, DecidingOK, BootingOK, ServingOK, SavingOK, ExitingOK,
             Serving, Committed, HasDump, Absent
  <1>4. CASE SpawnRedis(c)
    <2>1. /\ pc[c] = "spawn" /\ pc'[c] = "loading"
          /\ UNCHANGED <<adopting, snap, dump, aof, marker, clock>>
          /\ aofOn'[c] = ~adopting[c] /\ snap'[c] = Absent
      BY <1>4, <1>0 DEF SpawnRedis, TypeOK, Serving
    <2> QED
      BY <2>1, FilesStay
         DEF ContainerOK, DecidingOK, BootingOK, ServingOK, SavingOK, ExitingOK,
             Serving, Committed, HasDump, Absent
  <1>5. CASE Load(c)
    <2>1. /\ pc[c] = "loading" /\ pc'[c] = "on" /\ aofOn'[c] = aofOn[c]
          /\ UNCHANGED <<adopting, rewriting, snap, dump, marker, clock>>
          /\ snap'[c] = Absent /\ ~rewriting'[c]
          /\ aofOn[c] = ~adopting[c]
          /\ mem'[c] = IF aofOn[c] THEN aof.data ELSE dump.data
      BY <1>5, <1>0 DEF Load, TypeOK, Serving, ContainerOK, BootingOK
    <2>2. /\ Committed => ~adopting[c] /\ aof.data >= dump.data
          /\ ~Committed /\ ~adopting[c] => ~HasDump
      BY <2>1 DEF ContainerOK, BootingOK
    <2>3. CASE aofOn[c] /\ ~Committed
      <3>1. /\ aof' = [data |-> 0, mtime |-> clock, manifest |-> TRUE]
            /\ ~HasDump /\ dump.data = 0 /\ aof.data = 0
        BY <1>5, <2>1, <2>2, <2>3 DEF Load, FilesOK
      <3> QED
        BY <2>1, <2>3, <3>1
           DEF FilesOK, ContainerOK, DecidingOK, BootingOK, ServingOK, SavingOK, ExitingOK,
               Serving, Committed, HasDump, NeedsMigration, Absent
    <2>4. CASE ~(aofOn[c] /\ ~Committed)
      <3>1. aof' = aof
        BY <1>5, <2>4 DEF Load
      <3>2. dump.data <= mem'[c] /\ (Committed => aofOn[c] /\ aof.data = mem'[c])
        <4>1. CASE aofOn[c]
          BY <2>1, <2>2, <2>4, <4>1
        <4>2. CASE ~aofOn[c]
          <5>1. mem'[c] = dump.data /\ adopting[c]
            BY <2>1, <4>2
          <5> QED
            BY <2>2, <5>1
        <4> QED
          BY <4>1, <4>2
      <3> QED
        BY <2>1, <3>1, <3>2, FilesStay
           DEF ContainerOK, DecidingOK, BootingOK, ServingOK, SavingOK, ExitingOK,
               Serving, Committed, HasDump, Absent
    <2> QED
      BY <2>3, <2>4
  <1>6. CASE BootFails(c)
    <2>1. /\ pc'[c] = "off" /\ UNCHANGED <<snap, dump, aof, marker, clock>>
          /\ snap'[c] = Absent
      BY <1>6, <1>0 DEF BootFails, TypeOK, Serving
    <2> QED
      BY <2>1, FilesStay
         DEF ContainerOK, DecidingOK, BootingOK, ServingOK, SavingOK, ExitingOK, Serving, Absent
  <1>7. ~Start(c) /\ ~Acquire(c)
    BY DEF Start, Acquire, InVolume
  <1> QED
    BY <1>1, <1>2, <1>3, <1>4, <1>5, <1>6, <1>7 DEF Boot

\* A container that serves is judged by what it serves and what it saves.
LEMMA ServingSuffices ==
    ASSUME NEW c \in Container,
           pc'[c] \in {"on", "stopping", "draining"}, ServingOK(c)', SavingOK(c)'
    PROVE  ContainerOK(c)'
  BY DEF ContainerOK, DecidingOK, BootingOK, ExitingOK

LEMMA ServeStep ==
    ASSUME TypeOK, FilesOK, NEW c \in Container, c \in InVolume, ContainerOK(c),
           Serve(c) \/ Migrate(c) \/ RewriteDies(c) \/ StopRedis(c)
    PROVE  FilesOK' /\ ContainerOK(c)'
  <1> USE Numbers, MarginAssumption
  <1>1. /\ pc[c] = "on" /\ pc'[c] \in {"on", "stopping", "draining"}
        /\ c \in Serving /\ c \in Serving'
    BY DEF Serve, Write, SaveStart, SaveEnd, OwnerPoll, Migrate, Nudge, RewriteCommits,
           RewriteDies, StopRedis, Serving, TypeOK
  <1>2. /\ dump.data <= mem[c] /\ dump.mtime <= clock
        /\ Committed => aofOn[c] /\ aof.data = mem[c]
        /\ rewriting[c] => aofOn[c]
        /\ ~Committed => aof.data = 0
        /\ ~HasDump => dump.data = 0
    BY <1>1 DEF ContainerOK, ServingOK, FilesOK
  <1>3. SavingOK(c)
    BY DEF ContainerOK
  <1>4. SUFFICES FilesOK' /\ ServingOK(c)' /\ SavingOK(c)'
    BY <1>1, ServingSuffices
  <1>5. CASE Write(c)
    <2>1. /\ mem'[c] = mem[c] + 1
          /\ UNCHANGED <<aofOn, rewriting, snap, dump, marker, clock>>
      BY <1>5 DEF Write, TypeOK
    <2>2. CASE aofOn[c] /\ Committed
      <3>1. aof' = [data |-> mem[c] + 1, mtime |-> clock, manifest |-> TRUE]
        BY <1>5, <2>2 DEF Write
      <3>2. FilesOK'
        BY <1>2, <2>1, <3>1 DEF FilesOK, Committed, NeedsMigration, HasDump, OwnsRdb
      <3> QED
        BY <1>2, <1>3, <2>1, <2>2, <3>1, <3>2 DEF ServingOK, SavingOK, Committed
    <2>3. CASE ~(aofOn[c] /\ Committed)
      <3>1. aof' = aof /\ ~Committed
        BY <1>2, <1>5, <2>3 DEF Write
      <3> QED
        BY <1>2, <1>3, <2>1, <3>1, FilesStay DEF ServingOK, SavingOK, Committed
    <2> QED
      BY <2>2, <2>3
  <1>6. CASE SaveStart(c)
    <2>1. /\ snap'[c] = [data |-> mem[c], mtime |-> clock]
          /\ UNCHANGED <<mem, aofOn, rewriting, dump, aof, marker, clock>>
      BY <1>6 DEF SaveStart, TypeOK
    <2> QED
      BY <1>1, <1>2, <2>1, FilesStay DEF ServingOK, SavingOK, Committed
  <1>7. CASE SaveEnd(c)
    <2>1. /\ snap[c] # Absent /\ snap'[c] = Absent
          /\ dump' = [data |-> snap[c].data, mtime |-> clock]
          /\ marker' # "dump"
          /\ UNCHANGED <<mem, aofOn, rewriting, aof, clock>>
      BY <1>7 DEF SaveEnd, TypeOK, Saved, Disowned
    <2>2. /\ snap[c].data <= mem[c] /\ clock - snap[c].mtime <= MaxSave
          /\ Committed /\ aof.mtime < snap[c].mtime => snap[c].data = mem[c]
      BY <1>3, <2>1 DEF SavingOK
    <2>3. Committed /\ clock - aof.mtime >= Margin => snap[c].data = mem[c]
      <3> SUFFICES ASSUME Committed, clock - aof.mtime >= Margin
                   PROVE  aof.mtime < snap[c].mtime
        BY <2>2
      <3> QED
        BY <2>2
    <2>4. FilesOK'
      <3>1. NeedsMigration' <=> (Committed => clock - aof.mtime >= Margin)
        BY <2>1 DEF NeedsMigration, HasDump, Committed, OwnsRdb
      <3>2. CASE Committed /\ clock - aof.mtime >= Margin
        BY <1>2, <2>1, <2>3, <3>1, <3>2 DEF FilesOK, Committed, HasDump
      <3>3. CASE ~(Committed /\ clock - aof.mtime >= Margin)
        BY <1>2, <2>1, <2>2, <3>1, <3>3 DEF FilesOK, Committed, HasDump
      <3> QED
        BY <3>2, <3>3
    <2> QED
      BY <1>2, <2>1, <2>2, <2>4 DEF ServingOK, SavingOK, Committed
  <1>8. CASE OwnerPoll(c)
    <2>1. /\ marker' \in {Claim, marker}
          /\ UNCHANGED <<mem, aofOn, rewriting, snap, dump, aof, clock>>
      BY <1>8 DEF OwnerPoll, Record
    <2>2. Committed => aof.data >= dump.data
      BY <1>2
    <2>3. FilesOK'
      BY <2>1, <2>2 DEF FilesOK, NeedsMigration, HasDump, Committed, OwnsRdb, Claim
    <2> QED
      BY <1>2, <1>3, <2>1, <2>3 DEF ServingOK, SavingOK, Committed
  <1>9. CASE Nudge(c)
    <2>1. /\ ~Committed /\ ~Committed' /\ aof'.data = 0
          /\ aofOn'[c] = TRUE
          /\ UNCHANGED <<mem, snap, dump, marker, clock>>
      BY <1>2, <1>9 DEF Nudge, Committed, TypeOK
    <2>2. FilesOK'
      BY <1>2, <2>1 DEF FilesOK, HasDump
    <2> QED
      BY <1>2, <1>3, <2>1, <2>2 DEF ServingOK, SavingOK
  <1>10. CASE RewriteCommits(c)
    <2>1. /\ aof' = [data |-> mem[c], mtime |-> clock, manifest |-> TRUE]
          /\ rewriting[c] /\ rewriting'[c] = FALSE
          /\ UNCHANGED <<mem, aofOn, snap, dump, marker, clock>>
      BY <1>10 DEF RewriteCommits, TypeOK
    <2>2. FilesOK'
      BY <1>2, <2>1 DEF FilesOK, NeedsMigration, HasDump, Committed, OwnsRdb
    <2> QED
      BY <1>2, <1>3, <2>1, <2>2 DEF ServingOK, SavingOK, Committed
  <1>11. CASE RewriteDies(c) \/ StopRedis(c)
    <2>1. /\ UNCHANGED <<mem, aofOn, snap, dump, aof, marker, clock>>
          /\ rewriting'[c] => rewriting[c]
      BY <1>11 DEF RewriteDies, StopRedis, TypeOK
    <2> QED
      BY <1>2, <1>3, <2>1, FilesStay DEF ServingOK, SavingOK, Committed
  <1> QED
    BY <1>5, <1>6, <1>7, <1>8, <1>9, <1>10, <1>11 DEF Serve, Migrate

\* A container that leaves has no engine, and had nothing in the dump that a
\* committed AOF lacks.
LEMMA LeaveStep ==
    ASSUME TypeOK, FilesOK, NEW c \in Container, c \in InVolume, ContainerOK(c),
           Leave(c) \/ RedisDies(c) \/ KillRedis(c) \/ Kill(c)
    PROVE  FilesOK' /\ ContainerOK(c)'
  <1> USE Numbers, MarginAssumption DEF At
  <1>1. /\ pc'[c] \in {"exiting", "off"} /\ c \notin Serving' /\ snap'[c] = Absent
    <2>1. CASE Exit(c)
      <3>1. c \notin Serving
        BY <2>1 DEF Exit, Serving
      <3> QED
        BY <2>1, <3>1 DEF Exit, TypeOK, Serving
    <2>2. CASE ~Exit(c)
      BY <2>2 DEF Leave, ShutdownSave, RedisDies, KillRedis, Kill, EngineEnds, TypeOK, Serving
    <2> QED
      BY <2>1, <2>2
  <1>2. SUFFICES FilesOK' /\ ExitingOK(c)'
    BY <1>1 DEF ContainerOK, DecidingOK, BootingOK, ServingOK, SavingOK, Absent
  <1>3. CASE Exit(c)
    <2>1. /\ pc[c] = "exiting" /\ pc'[c] = "off" /\ marker' \in {Claim, marker}
          /\ UNCHANGED <<dump, aof, clock>>
      BY <1>3 DEF Exit, Record, TypeOK
    <2>2. Committed => aof.data >= dump.data
      BY <2>1 DEF ContainerOK, ExitingOK
    <2> QED
      BY <2>1, <2>2
         DEF FilesOK, NeedsMigration, HasDump, Committed, OwnsRdb, Claim, ExitingOK
  <1>4. CASE ShutdownSave(c)
    <2>1. /\ c \in Serving /\ dump' = [data |-> mem[c], mtime |-> clock]
          /\ UNCHANGED <<aof, clock>>
      BY <1>4 DEF ShutdownSave, Saved, Serving
    <2>2. (Committed => aof.data = mem[c]) /\ (~Committed => aof.data = 0)
      BY <2>1 DEF ContainerOK, ServingOK, FilesOK
    <2>3. HasDump'
      BY <2>1 DEF HasDump
    <2> QED
      BY <2>1, <2>2, <2>3 DEF FilesOK, Committed, ExitingOK
  <1>5. CASE RedisDies(c)
    <2>1. Committed => aof.data >= dump.data
      <3>1. pc[c] \in {"loading", "on"}
        BY <1>5 DEF RedisDies
      <3>2. CASE pc[c] = "loading"
        BY <3>2 DEF ContainerOK, BootingOK
      <3>3. CASE pc[c] = "on"
        BY <3>3 DEF ContainerOK, ServingOK, Serving
      <3> QED
        BY <3>1, <3>2, <3>3
    <2>2. UNCHANGED <<dump, aof, marker, clock>>
      BY <1>5 DEF RedisDies
    <2> QED
      BY <2>1, <2>2, FilesStay DEF ExitingOK, Committed
  <1>6. CASE KillRedis(c)
    <2>1. c \in Serving /\ UNCHANGED <<dump, aof, marker, clock>>
      BY <1>6 DEF KillRedis, Serving
    <2>2. Committed => aof.data >= dump.data
      BY <2>1 DEF ContainerOK, ServingOK
    <2> QED
      BY <2>1, <2>2, FilesStay DEF ExitingOK, Committed
  <1>7. CASE Kill(c)
    <2>1. pc'[c] = "off" /\ UNCHANGED <<dump, aof, marker, clock>>
      BY <1>7 DEF Kill, TypeOK
    <2> QED
      BY <2>1, FilesStay DEF ExitingOK
  <1> QED
    BY <1>3, <1>4, <1>5, <1>6, <1>7 DEF Leave

\* Two containers are not on the volume together.
LEMMA Alone ==
    ASSUME Locked, trusted, NEW c \in InVolume PROVE InVolume = {c}
  BY DEF Locked, InVolume

LEMMA DataStep == TypeOK /\ Locked /\ Locked' /\ DataOK /\ [Next]_vars => DataOK'
  <1> SUFFICES ASSUME TypeOK, Locked, Locked', DataOK, [Next]_vars, trusted'
               PROVE  FilesOK' /\ \A c \in InVolume' : ContainerOK(c)'
    BY DEF DataOK
  <1>1. ASSUME NEW c \in Container, Act(c), trusted
        PROVE  FilesOK' /\ \A d \in InVolume' : ContainerOK(d)'
    <2>1. FilesOK /\ (c \in InVolume => ContainerOK(c) /\ InVolume = {c})
      BY <1>1, Alone DEF DataOK
    <2>2. \A d \in InVolume' \ {c} : d \in InVolume /\ pc'[d] = pc[d]
      BY <1>1, StepMoves DEF InVolume
    <2>3. CASE c \in InVolume
      <3>1. InVolume' \subseteq {c}
        BY <2>1, <2>2, <2>3
      <3>2. ~FailOpen(c) /\ ~GiveUp(c)
        BY <2>3 DEF FailOpen, GiveUp, At, InVolume
      <3>3. FilesOK' /\ ContainerOK(c)'
        BY <1>1, <2>1, <2>3, <3>2, BootStep, ServeStep, LeaveStep DEF Act
      <3> QED
        BY <3>1, <3>3
    <2>4. CASE c \notin InVolume
      <3>1. pc[c] \in {"off", "locking"} /\ c \notin Serving /\ snap[c] = Absent
        BY <2>4 DEF InVolume, Serving, TypeOK
      <3>2. Start(c) \/ GiveUp(c) \/ Acquire(c)
        BY <1>1, <3>1
           DEF Act, Boot, Serve, Migrate, Leave, Decide, Quarantine, RecordAtBoot,
               SpawnRedis, Load, Write, SaveStart, SaveEnd, OwnerPoll, Nudge,
               RewriteCommits, ShutdownSave, Exit, FailOpen, BootFails, RewriteDies,
               RedisDies, StopRedis, KillRedis, Kill, At
      <3>3. FilesOK'
        BY <2>1, <3>2, FilesStay DEF Start, GiveUp, Acquire
      <3>4. CASE Start(c) \/ GiveUp(c)
        <4>1. pc'[c] \in {"off", "locking"} /\ InVolume' \subseteq InVolume
          BY <2>2, <3>4 DEF Start, GiveUp, At, TypeOK, InVolume
        <4>2. ASSUME NEW d \in InVolume' PROVE ContainerOK(d)'
          <5>1. ContainerOK(d) /\ pc'[d] = pc[d]
            BY <1>1, <2>2, <4>1, <4>2 DEF DataOK, InVolume
          <5> QED
            BY <3>4, <5>1
               DEF Start, GiveUp, ContainerOK, DecidingOK, BootingOK, ServingOK, SavingOK,
                   ExitingOK, Serving, NeedsMigration, HasDump, Committed, OwnsRdb
        <4> QED
          BY <3>3, <4>2
      <3>5. CASE Acquire(c)
        <4>1. pc'[c] = "deciding" /\ snap'[c] = Absent /\ holder = NoOne
          BY <3>1, <3>5 DEF Acquire, At, TypeOK
        <4>2. InVolume' = {c}
          BY <1>1, <2>2, <4>1, LockAssumption DEF Locked, InVolume
        <4>3. ContainerOK(c)'
          BY <4>1 DEF ContainerOK, DecidingOK, BootingOK, ServingOK, SavingOK, ExitingOK,
                      Serving
        <4> QED
          BY <3>3, <4>2, <4>3
      <3> QED
        BY <3>2, <3>4, <3>5
    <2> QED
      BY <2>3, <2>4
  <1>2. CASE Tick
    <2>1. /\ clock' = clock + 1
          /\ \A c \in Container : snap[c] # Absent => clock - snap[c].mtime < MaxSave
          /\ UNCHANGED <<pc, adopting, mem, aofOn, rewriting, snap, dump, aof, marker, trusted>>
      BY <1>2 DEF Tick
    <2>2. FilesOK /\ FilesOK'
      BY <2>1 DEF DataOK, FilesOK, TypeOK, File, NeedsMigration, HasDump, Committed, OwnsRdb
    <2>3. ASSUME NEW c \in InVolume' PROVE ContainerOK(c)'
      <3>1. c \in Container /\ ContainerOK(c)
        BY <2>1 DEF DataOK, InVolume
      <3>2. SavingOK(c)'
        BY <2>1, <3>1, Numbers, MarginAssumption DEF ContainerOK, SavingOK, Committed
      <3> QED
        BY <2>1, <3>1, <3>2
           DEF ContainerOK, DecidingOK, BootingOK, ServingOK, ExitingOK, Serving,
               NeedsMigration, HasDump, Committed, OwnsRdb
    <2> QED
      BY <2>2, <2>3
  <1>3. CASE Foreign /\ trusted
    <2>1. /\ dump' = [data |-> Newest + 1, mtime |-> clock] /\ marker' # "dump"
          /\ clock - aof.mtime >= Margin /\ UNCHANGED <<aof, clock>>
          /\ InVolume = {} /\ InVolume' = {}
      BY <1>3 DEF Foreign, Saved, Disowned, InVolume
    <2>2. Newest \in Nat /\ (Newest >= aof.data \/ ~Committed)
      BY DEF Newest, TypeOK, File
    <2>3. FilesOK'
      BY <1>3, <2>1, <2>2
         DEF DataOK, FilesOK, TypeOK, File, NeedsMigration, HasDump, Committed, OwnsRdb
    <2> QED
      BY <2>1, <2>3
  <1>4. CASE UNCHANGED vars
    BY <1>4, FilesStay
       DEF vars, DataOK, ContainerOK, DecidingOK, BootingOK, ServingOK, SavingOK, ExitingOK,
           InVolume, Serving, NeedsMigration, HasDump, Committed, OwnsRdb
  <1> QED
    BY <1>1, <1>2, <1>3, <1>4, NextCases

-----------------------------------------------------------------------------
(* The refinement.                                                         *)

LEMMA Found == TypeOK /\ FilesOK => Recoverable = Newest /\ Newest \in Nat
  <1> SUFFICES ASSUME TypeOK, FilesOK PROVE Recoverable = Newest /\ Newest \in Nat
    OBVIOUS
  <1>1. dump.data \in Nat /\ aof.data \in Nat
    BY DEF TypeOK, File
  <1>2. ~Committed => (NeedsMigration <=> HasDump)
    BY DEF NeedsMigration
  <1> QED
    BY <1>1, <1>2 DEF FilesOK, Recoverable, Newest

LEMMA FoundNext == TypeOK' /\ FilesOK' => Recoverable' = Newest' /\ Newest' \in Nat
  <1> SUFFICES ASSUME TypeOK', FilesOK' PROVE Recoverable' = Newest' /\ Newest' \in Nat
    OBVIOUS
  <1>1. dump'.data \in Nat /\ aof'.data \in Nat
    BY DEF TypeOK, File
  <1>2. ~Committed' => (NeedsMigration' <=> HasDump')
    BY DEF NeedsMigration
  <1> QED
    BY <1>1, <1>2 DEF FilesOK, Recoverable, Newest

LEMMA LatestServed ==
    ASSUME NEW c, Serving = {c} PROVE Latest = mem[c] /\ Journalled = (Committed /\ aofOn[c])
  BY DEF Latest, Journalled

LEMMA LatestServedNext ==
    ASSUME NEW c, Serving' = {c}
    PROVE  Latest' = mem'[c] /\ Journalled' = (Committed' /\ aofOn'[c])
  BY DEF Latest, Journalled

LEMMA LatestIdle == Serving = {} => Latest = Newest /\ Journalled = FALSE
  BY DEF Latest, Journalled

LEMMA LatestIdleNext == Serving' = {} => Latest' = Newest' /\ Journalled' = FALSE
  BY DEF Latest, Journalled

AbstractStep == [Abstract!Next]_(Abstract!vars)

\* The mapped variables stay.
LEMMA Stutters ==
    ASSUME UNCHANGED <<InVolume, Latest, Recoverable, Journalled, trusted>>
    PROVE  AbstractStep
  BY DEF AbstractStep, Abstract!vars

LEMMA BootRefines ==
    ASSUME TypeOK, TypeOK', FilesOK, FilesOK', NEW c \in Container,
           InVolume = {c}, ContainerOK(c), trusted, trusted',
           \A d \in Container \ {c} : pc'[d] = pc[d],
           Boot(c) \/ BootFails(c)
    PROVE  AbstractStep
  <1> USE DEF At
  <1>0. /\ trusted' = trusted
        /\ Recoverable = Newest /\ Recoverable' = Newest' /\ Newest \in Nat /\ Newest' \in Nat
        /\ Serving \subseteq {c} /\ Serving' \subseteq {c}
    BY Found, FoundNext DEF TypeOK, Serving, InVolume
  <1>1. CASE Load(c)
    <2>1. /\ pc[c] = "loading" /\ Serving = {} /\ Serving' = {c} /\ InVolume' = {c}
      BY <1>0, <1>1 DEF Load, TypeOK, Serving, InVolume
    <2>2. /\ mem'[c] = Newest
      <3>1. /\ mem'[c] = IF aofOn[c] THEN aof.data ELSE dump.data
            /\ Committed => ~adopting[c] /\ aof.data >= dump.data
            /\ ~Committed /\ ~adopting[c] => ~HasDump
            /\ aofOn[c] = ~adopting[c]
        BY <1>1, <2>1 DEF Load, TypeOK, ContainerOK, BootingOK
      <3>2. CASE aofOn[c] /\ Committed
        BY <3>1, <3>2, Numbers DEF Newest
      <3>3. CASE aofOn[c] /\ ~Committed
        <4>1. ~HasDump
          BY <3>1, <3>3
        <4> QED
          BY <3>1, <3>3, <4>1 DEF Newest, FilesOK
      <3>4. CASE ~aofOn[c]
        <4>1. mem'[c] = dump.data /\ ~Committed
          BY <3>1, <3>4
        <4> QED
          BY <4>1 DEF Newest
      <3> QED
        BY <3>2, <3>3, <3>4
    <2>3. Latest' = Newest /\ Latest = Newest /\ Journalled = FALSE
      BY <2>1, <2>2, LatestServedNext, LatestIdle
    <2>4. Newest' = Newest
      <3>1. dump' = dump
        BY <1>1 DEF Load
      <3>2. CASE aof' = aof
        BY <3>1, <3>2 DEF Newest, Committed
      <3>3. CASE aof' # aof
        <4>1. ~Committed /\ aof'.data = 0
          BY <1>1, <3>3 DEF Load
        <4> QED
          BY <3>1, <4>1 DEF Newest, Committed, TypeOK, File
      <3> QED
        BY <3>2, <3>3
    <2>5. Journalled' \in BOOLEAN
      BY DEF Journalled, Committed, TypeOK
    <2>6. CASE Journalled'
      <3>1. Abstract!Journal
        BY <1>0, <2>1, <2>3, <2>4, <2>5, <2>6 DEF Abstract!Journal
      <3> QED
        BY <3>1 DEF AbstractStep, Abstract!Next
    <2>7. CASE ~Journalled'
      BY <1>0, <2>1, <2>3, <2>4, <2>5, <2>7, Stutters
    <2> QED
      BY <2>6, <2>7
  <1>2. CASE BootFails(c)
    <2>1. InVolume' = {} /\ Serving = {} /\ Serving' = {} /\ Newest' = Newest
      BY <1>0, <1>2 DEF BootFails, TypeOK, Serving, InVolume, Newest, Committed
    <2>2. Abstract!Close
      BY <1>0, <2>1, LatestIdle, LatestIdleNext DEF Abstract!Close
    <2> QED
      BY <2>2 DEF AbstractStep, Abstract!Next
  <1>3. CASE Decide(c) \/ Quarantine(c) \/ RecordAtBoot(c) \/ SpawnRedis(c)
    <2>1. InVolume' = {c} /\ Serving = {} /\ Serving' = {}
      BY <1>0, <1>3
         DEF Decide, Quarantine, RecordAtBoot, SpawnRedis, TypeOK, Serving, InVolume
    <2>2. Newest' = Newest
      <3>1. CASE aof' = aof
        BY <1>3, <3>1
           DEF Decide, Quarantine, RecordAtBoot, SpawnRedis, Newest, Committed
      <3>2. CASE aof' # aof
        <4>1. Quarantine(c) /\ adopting[c] /\ aof' = NoDir /\ dump' = dump
          BY <1>3, <3>2 DEF Decide, Quarantine, RecordAtBoot, SpawnRedis
        <4>2. NeedsMigration
          BY <4>1 DEF Quarantine, ContainerOK, DecidingOK
        <4>3. Newest = dump.data
          BY <1>0, <4>2 DEF Recoverable
        <4>4. Newest' = dump.data
          BY <4>1 DEF Newest, NoDir, Committed
        <4> QED
          BY <4>3, <4>4
      <3> QED
        BY <3>1, <3>2
    <2> QED
      BY <1>0, <2>1, <2>2, LatestIdle, LatestIdleNext, Stutters
  <1>4. ~Start(c) /\ ~Acquire(c)
    BY DEF Start, Acquire, InVolume
  <1> QED
    BY <1>1, <1>2, <1>3, <1>4 DEF Boot

LEMMA ServeRefines ==
    ASSUME TypeOK, TypeOK', FilesOK, FilesOK', NEW c \in Container,
           InVolume = {c}, ContainerOK(c), ContainerOK(c)', trusted, trusted',
           \A d \in Container \ {c} : pc'[d] = pc[d],
           Serve(c) \/ Migrate(c) \/ RewriteDies(c) \/ StopRedis(c)
    PROVE  AbstractStep
  <1>1. /\ pc[c] = "on" /\ pc'[c] \in {"on", "stopping", "draining"}
        /\ InVolume' = {c} /\ Serving = {c} /\ Serving' = {c}
    BY DEF Serve, Write, SaveStart, SaveEnd, OwnerPoll, Migrate, Nudge, RewriteCommits,
           RewriteDies, StopRedis, Serving, InVolume, TypeOK
  <1>2. /\ trusted' = trusted /\ Latest = mem[c] /\ Latest' = mem'[c]
        /\ Journalled = (Committed /\ aofOn[c])
        /\ Journalled' = (Committed' /\ aofOn'[c])
        /\ Recoverable = Newest /\ Recoverable' = Newest'
        /\ Newest \in Nat /\ Newest' \in Nat
    BY <1>1, LatestServed, LatestServedNext, Found, FoundNext DEF TypeOK
  <1>3. /\ dump.data <= mem[c] /\ (Committed => aofOn[c] /\ aof.data = mem[c])
        /\ Newest = IF Committed THEN mem[c] ELSE dump.data
        /\ rewriting[c] => aofOn[c]
    BY <1>1, Numbers DEF ContainerOK, ServingOK, Newest
  <1>4. CASE Write(c)
    <2>1. /\ mem'[c] = mem[c] + 1 /\ UNCHANGED <<aofOn, dump>>
          /\ Committed' = Committed
          /\ aof' = IF Committed THEN [data |-> mem[c] + 1, mtime |-> clock, manifest |-> TRUE]
                                 ELSE aof
      BY <1>3, <1>4 DEF Write, TypeOK, Committed
    <2>2. Newest' = IF Committed THEN mem[c] + 1 ELSE dump.data
      BY <1>3, <2>1, Numbers DEF Newest
    <2>3. Abstract!Write
      BY <1>1, <1>2, <1>3, <2>1, <2>2 DEF Abstract!Write
    <2> QED
      BY <2>3 DEF AbstractStep, Abstract!Next
  <1>5. CASE SaveEnd(c)
    <2>1. /\ dump'.data = snap[c].data /\ UNCHANGED <<aof, mem, aofOn>>
          /\ dump.data <= snap[c].data /\ snap[c].data <= mem[c]
      BY <1>5 DEF SaveEnd, Saved, ContainerOK, SavingOK
    <2>2. Newest' = IF Committed THEN mem[c] ELSE snap[c].data
      BY <1>3, <2>1, Numbers DEF Newest, Committed
    <2>3. Newest' \in Newest .. mem[c]
      BY <1>2, <1>3, <2>1, <2>2, Numbers
    <2>4. Abstract!Snapshot
      BY <1>1, <1>2, <2>1, <2>3 DEF Abstract!Snapshot, Committed
    <2> QED
      BY <2>4 DEF AbstractStep, Abstract!Next
  <1>6. CASE RewriteCommits(c)
    <2>1. /\ aof' = [data |-> mem[c], mtime |-> clock, manifest |-> TRUE]
          /\ aofOn[c] /\ UNCHANGED <<dump, mem, aofOn>>
      BY <1>3, <1>6 DEF RewriteCommits
    <2>2. Committed' /\ Newest' = mem[c]
      BY <1>3, <2>1, Numbers DEF Newest, Committed
    <2>3. Abstract!Journal
      BY <1>1, <1>2, <2>1, <2>2 DEF Abstract!Journal
    <2> QED
      BY <2>3 DEF AbstractStep, Abstract!Next
  <1>7. CASE Nudge(c)
    <2>1. ~Committed /\ ~Committed' /\ UNCHANGED <<dump, mem>>
      BY <1>7 DEF Nudge, Committed, TypeOK
    <2>2. Newest' = Newest
      BY <2>1 DEF Newest
    <2> QED
      BY <1>1, <1>2, <2>1, <2>2, Stutters
  <1>8. CASE SaveStart(c) \/ OwnerPoll(c) \/ RewriteDies(c) \/ StopRedis(c)
    <2>1. UNCHANGED <<dump, aof, mem, aofOn>>
      BY <1>8 DEF SaveStart, OwnerPoll, RewriteDies, StopRedis
    <2>2. Newest' = Newest /\ Committed' = Committed
      BY <2>1 DEF Newest, Committed
    <2> QED
      BY <1>1, <1>2, <2>1, <2>2, Stutters
  <1> QED
    BY <1>4, <1>5, <1>6, <1>7, <1>8 DEF Serve, Migrate

LEMMA LeaveRefines ==
    ASSUME TypeOK, TypeOK', FilesOK, FilesOK', NEW c \in Container,
           InVolume = {c}, ContainerOK(c), trusted, trusted',
           \A d \in Container \ {c} : pc'[d] = pc[d],
           Leave(c) \/ RedisDies(c) \/ KillRedis(c) \/ Kill(c)
    PROVE  AbstractStep
  <1> USE DEF At
  <1>1. /\ trusted' = trusted
        /\ Recoverable = Newest /\ Recoverable' = Newest'
        /\ Newest \in Nat /\ Newest' \in Nat
        /\ Serving \subseteq {c} /\ Serving' = {}
    <2>1. pc'[c] \in {"exiting", "off"}
      BY DEF Leave, ShutdownSave, Exit, RedisDies, KillRedis, Kill, TypeOK
    <2> QED
      BY <2>1, Found, FoundNext DEF TypeOK, Serving, InVolume
  <1>2. Latest' = Newest' /\ Journalled' = FALSE
    BY <1>1, LatestIdleNext
  \* What was kept was never newer than what was written.
  <1>3. Newest <= Latest /\ Latest \in Nat
    <2>1. CASE Serving = {}
      BY <1>1, <2>1, LatestIdle
    <2>2. CASE Serving = {c}
      <3>1. dump.data <= mem[c] /\ (Committed => aof.data = mem[c])
        BY <2>2 DEF ContainerOK, ServingOK
      <3> QED
        BY <2>2, <3>1, LatestServed, Numbers DEF Newest
    <2> QED
      BY <1>1, <2>1, <2>2
  <1>4. CASE Exit(c) \/ Kill(c)
    <2>1. InVolume' = {}
      BY <1>4 DEF Exit, Kill, InVolume, TypeOK
    <2>2. Newest' = Newest
      BY <1>4 DEF Exit, Kill, Newest, Committed
    <2>3. Abstract!Close
      BY <1>1, <1>2, <2>1, <2>2 DEF Abstract!Close
    <2> QED
      BY <2>3 DEF AbstractStep, Abstract!Next
  <1>5. CASE RedisDies(c) \/ KillRedis(c) \/ ShutdownSave(c)
    <2>1. InVolume' = {c}
      BY <1>5 DEF RedisDies, KillRedis, ShutdownSave, InVolume, TypeOK
    <2>2. Newest' \in Newest .. Latest
      <3>1. CASE RedisDies(c) \/ KillRedis(c)
        <4>1. Newest' = Newest
          BY <3>1 DEF RedisDies, KillRedis, Newest, Committed
        <4> QED
          BY <1>1, <1>3, <4>1
      <3>2. CASE ShutdownSave(c)
        <4>1. Serving = {c} /\ dump'.data = mem[c] /\ aof' = aof
          BY <1>1, <3>2 DEF ShutdownSave, Saved, Serving
        <4>2. Latest = mem[c] /\ (Committed => aof.data = mem[c])
          BY <4>1, LatestServed DEF ContainerOK, ServingOK
        <4>3. Newest' = mem[c]
          BY <4>1, <4>2, Numbers DEF Newest, Committed
        <4> QED
          BY <1>1, <1>3, <4>2, <4>3
      <3> QED
        BY <1>5, <3>1, <3>2
    <2>3. Abstract!Stop
      BY <1>1, <1>2, <2>1, <2>2 DEF Abstract!Stop
    <2> QED
      BY <2>3 DEF AbstractStep, Abstract!Next
  <1> QED
    BY <1>4, <1>5 DEF Leave

LEMMA StepRefines ==
    /\ TypeOK /\ Locked /\ DataOK
    /\ TypeOK' /\ Locked' /\ DataOK'
    /\ [Next]_vars
    => AbstractStep
  <1> SUFFICES ASSUME TypeOK, Locked, DataOK, TypeOK', Locked', DataOK', [Next]_vars
               PROVE  AbstractStep
    OBVIOUS
  <1>1. CASE UNCHANGED vars
    <2>1. UNCHANGED <<InVolume, Latest, Recoverable, Journalled, trusted>>
      BY <1>1 DEF vars, InVolume, Latest, Recoverable, Journalled, Serving, Newest,
                  Committed, NeedsMigration, HasDump, OwnsRdb
    <2> QED
      BY <2>1, Stutters
  <1>2. CASE Next /\ trusted'
    <2>1. trusted /\ FilesOK /\ FilesOK'
      BY <1>2, NextCases DEF DataOK
    <2>2. ASSUME NEW c \in Container, Act(c) PROVE AbstractStep
      <3>1. \A d \in Container \ {c} : pc'[d] = pc[d]
        BY <2>1, <2>2, StepMoves
      <3>2. CASE c \in InVolume
        <4>1. InVolume = {c} /\ ContainerOK(c)
          BY <2>1, <3>2, Alone DEF DataOK
        <4>2. CASE Boot(c) \/ BootFails(c)
          BY <1>2, <2>1, <3>1, <4>1, <4>2, BootRefines
        <4>3. CASE Serve(c) \/ Migrate(c) \/ RewriteDies(c) \/ StopRedis(c)
          <5>1. ContainerOK(c)'
            BY <2>1, <3>2, <4>1, <4>3, ServeStep
          <5> QED
            BY <1>2, <2>1, <3>1, <4>1, <4>3, <5>1, ServeRefines
        <4>4. CASE Leave(c) \/ RedisDies(c) \/ KillRedis(c) \/ Kill(c)
          BY <1>2, <2>1, <3>1, <4>1, <4>4, LeaveRefines
        <4>5. ~FailOpen(c) /\ ~GiveUp(c)
          BY <3>2 DEF FailOpen, GiveUp, At, InVolume
        <4> QED
          BY <2>2, <4>2, <4>3, <4>4, <4>5 DEF Act
      <3>3. CASE c \notin InVolume
        <4>1. pc[c] \in {"off", "locking"}
          BY <3>3 DEF InVolume
        <4>2. Start(c) \/ GiveUp(c) \/ Acquire(c)
          BY <1>2, <2>2, <4>1
             DEF Act, Boot, Serve, Migrate, Leave, Decide, Quarantine, RecordAtBoot,
                 SpawnRedis, Load, Write, SaveStart, SaveEnd, OwnerPoll, Nudge,
                 RewriteCommits, ShutdownSave, Exit, FailOpen, BootFails, RewriteDies,
                 RedisDies, StopRedis, KillRedis, Kill, At
        <4>3. UNCHANGED <<mem, aofOn, dump, aof, marker, trusted>>
          BY <4>2 DEF Start, GiveUp, Acquire
        <4>4. Serving' = Serving /\ pc'[c] \notin {"on", "stopping", "draining"}
          BY <4>1, <4>2, <3>1 DEF Start, GiveUp, Acquire, At, Serving, TypeOK
        <4>5. UNCHANGED <<Latest, Recoverable, Journalled, trusted>>
          BY <4>3, <4>4 DEF Latest, Recoverable, Journalled, Newest, Committed,
                            NeedsMigration, HasDump, OwnsRdb
        <4>6. CASE Start(c) \/ GiveUp(c)
          <5>1. InVolume' = InVolume
            BY <3>1, <3>3, <4>6 DEF Start, GiveUp, At, InVolume, TypeOK
          <5> QED
            BY <4>5, <5>1, Stutters
        <4>7. CASE Acquire(c)
          <5>1. InVolume = {}
            BY <2>1, <4>7, LockAssumption DEF Acquire, Locked, InVolume
          <5>2. InVolume' = {c}
            BY <3>1, <4>7, <5>1 DEF Acquire, At, InVolume, TypeOK
          <5>3. Abstract!Open(c)
            BY <4>5, <5>1, <5>2 DEF Abstract!Open
          <5> QED
            BY <5>3 DEF AbstractStep, Abstract!Next
        <4> QED
          BY <4>2, <4>6, <4>7
      <3> QED
        BY <3>2, <3>3
    <2>3. CASE Tick
      <3>1. UNCHANGED <<InVolume, Latest, Recoverable, Journalled, trusted>>
        BY <2>3 DEF Tick, InVolume, Latest, Recoverable, Journalled, Serving, Newest,
                    Committed, NeedsMigration, HasDump, OwnsRdb
      <3> QED
        BY <3>1, Stutters
    <2>4. CASE Foreign
      <3>1. /\ InVolume = {} /\ InVolume' = {} /\ Serving = {} /\ Serving' = {}
            /\ trusted' = trusted
        BY <2>4 DEF Foreign, InVolume, Serving
      <3>2. dump'.data = Newest + 1 /\ aof' = aof
        BY <2>4 DEF Foreign, Saved
      <3>3. /\ Recoverable = Newest /\ Recoverable' = Newest' /\ Newest \in Nat
        BY <2>1, Found, FoundNext
      <3>4. Newest' = Newest + 1
        <4>1. aof.data <= Newest \/ ~Committed
          BY DEF Newest, TypeOK, File
        <4> QED
          BY <3>2, <3>3, <4>1 DEF Newest, Committed, TypeOK
      <3>5. Abstract!Replace
        BY <3>1, <3>3, <3>4, LatestIdle, LatestIdleNext DEF Abstract!Replace
      <3> QED
        BY <3>5 DEF AbstractStep, Abstract!Next
    <2> QED
      BY <1>2, <2>2, <2>3, <2>4, NextCases
  <1>3. CASE ~trusted'
    <2>1. Abstract!Unprotected
      BY <1>3 DEF Abstract!Unprotected, TypeOK
    <2> QED
      BY <2>1 DEF AbstractStep, Abstract!Next
  <1> QED
    BY <1>1, <1>2, <1>3

LEMMA InitRefines == Init => Abstract!Init
  <1> SUFFICES ASSUME Init PROVE Abstract!Init
    OBVIOUS
  <1>1. TypeOK /\ FilesOK /\ InVolume = {} /\ Serving = {} /\ trusted = TRUE
    BY TypeInit, DataInit DEF Init, DataOK, InVolume, Serving
  <1> QED
    BY <1>1, Found, LatestIdle DEF Abstract!Init

(* Boot, migration, saves and exits implement DurableVolume: no step loses *)
(* a version that a boot before it would have found.                       *)
THEOREM ImplementsDurable == Spec => Durable
  <1>1. Spec => [](TypeOK /\ Locked /\ DataOK)
    BY TypeInit, TypeStep, LockInit, LockStep, DataInit, DataStep, PTL DEF Spec
  <1>2. Spec => [][Abstract!Next]_(Abstract!vars)
    <2>1. /\ TypeOK /\ Locked /\ DataOK
          /\ (TypeOK /\ Locked /\ DataOK)'
          /\ [Next]_vars
          => [Abstract!Next]_(Abstract!vars)
      BY StepRefines DEF AbstractStep
    <2> QED
      BY <1>1, <2>1, PTL DEF Spec
  <1> QED
    BY <1>2, InitRefines, PTL DEF Durable, Spec, Abstract!Spec
=============================================================================

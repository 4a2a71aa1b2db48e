------------------------------- MODULE Volume -------------------------------
(***************************************************************************)
(* The containers of one service on its volume, from boot to exit: the     *)
(* runtime lock (volume_lock.rs), the choice between dump.rdb and the AOF  *)
(* (redis_conf.rs), the marker that says whose dump.rdb it is              *)
(* (rdb_owner.rs), the AOF migration and the supervisor's exit paths       *)
(* (process_manager.rs), in the order the wrapper runs them.               *)
(*                                                                         *)
(* A dataset is the version of its last write.  redis-server, the platform *)
(* that starts and kills containers, and an image of another lineage that  *)
(* runs between two of them, are external.                                 *)
(***************************************************************************)
EXTENDS Integers, FiniteSets

CONSTANTS
    Container,  \* the containers an overlapping deploy may run at once
    NoOne,      \* nobody holds the lock
    Margin,     \* STALE_AOF_MARGIN, in clock ticks
    MaxSave,    \* the ticks a background save may take
    MaxVersion, \* bound: writes
    MaxClock,   \* bound: ticks
    MaxExits,   \* bound: containers that end
    MaxFaults   \* bound: failed records, inspections and rewrites, open failures

ASSUME LockAssumption == NoOne \notin Container
ASSUME MarginAssumption == Margin \in Nat /\ MaxSave \in Nat /\ MaxSave < Margin
ASSUME BoundAssumption ==
    MaxVersion \in Nat /\ MaxClock \in Nat /\ MaxExits \in Nat /\ MaxFaults \in Nat

VARIABLES
    \* each container
    pc,        \* how far it has come, see Stage
    adopting,  \* needs_rdb_to_aof_migration, decided once per boot
    \* its redis-server
    mem,       \* the version in memory
    aofOn,     \* aof_enabled
    rewriting, \* aof_rewrite_in_progress
    snap,      \* the background save that runs: [data, at]
    \* the volume
    holder,    \* whose supervisor has the flock
    dump,      \* dump.rdb: [data, mtime]
    aof,       \* appendonlydir: [data, mtime, manifest]
    marker,    \* .rdb_owner: "absent", names the "dump" there, or an "other"
    \* the world
    clock, exits, faults,
    trusted,   \* history: no container has failed open
    excused    \* history: the dump may be unclaimed for a reason, see TrustsOwnAof

bootVars == <<pc, adopting>>
engineVars == <<mem, aofOn, rewriting, snap>>
fileVars == <<dump, aof, marker>>
worldVars == <<clock, exits, faults, trusted, excused>>
vars == <<bootVars, engineVars, holder, fileVars, worldVars>>

Absent == [data |-> 0, mtime |-> -1]
NoDir == [data |-> 0, mtime |-> -1, manifest |-> FALSE]
Stage == {"off", "locking", "deciding", "quarantine", "record", "spawn",
          "loading", "on", "stopping", "draining", "exiting"}

\* Past the lock and not yet gone; and those whose redis-server has loaded
InVolume == {c \in Container : pc[c] \notin {"off", "locking"}}
Serving == {c \in Container : pc[c] \in {"on", "stopping", "draining"}}

At(c, from, to) == pc[c] = from /\ pc' = [pc EXCEPT ![c] = to]

HasDump == dump.mtime >= 0
Committed == aof.manifest                       \* aof_manifest_exists

\* Versions only grow, so the newest one is the dataset of the service
Newest == IF Committed /\ aof.data > dump.data THEN aof.data ELSE dump.data

\* A save is a new file, which no marker names yet
Saved(d) == [data |-> d, mtime |-> clock]
Disowned == IF marker = "absent" THEN "absent" ELSE "other"

-----------------------------------------------------------------------------
(***************************************************************************)
(* The lock.                                                               *)
(***************************************************************************)

Start(c) ==
    /\ At(c, "off", "locking")
    /\ UNCHANGED <<adopting, engineVars, holder, fileVars, worldVars>>

\* Mutant: the file is opened and never locked.
AcquireUnlocked(c) ==
    /\ At(c, "locking", "deciding")
    /\ UNCHANGED <<adopting, holder, engineVars, fileVars, worldVars>>

\* acquire_with_wait: Held
Acquire(c) ==
    /\ holder = NoOne /\ holder' = c
    /\ At(c, "locking", "deciding")
    /\ UNCHANGED <<adopting, engineVars, fileVars, worldVars>>

\* The deadline passes while another container holds it: fails closed
GiveUp(c) ==
    /\ holder # NoOne
    /\ At(c, "locking", "off")
    /\ UNCHANGED <<adopting, engineVars, holder, fileVars, worldVars>>

\* FailedOpen: the lock file cannot be opened, and the boot goes on
FailOpen(c) ==
    /\ faults < MaxFaults /\ faults' = faults + 1
    /\ At(c, "locking", "deciding")
    /\ trusted' = FALSE
    /\ UNCHANGED <<adopting, engineVars, holder, fileVars, clock, exits, excused>>

-----------------------------------------------------------------------------
(***************************************************************************)
(* The boot.                                                               *)
(***************************************************************************)

\* Mutant: a marker is trusted whatever file it names.
OwnsAnyRdb == marker # "absent"

\* owns_rdb
OwnsRdb == marker = "dump"

\* needs_rdb_to_aof_migration
NeedsMigration ==
    /\ HasDump
    /\ Committed => ~OwnsRdb /\ dump.mtime - aof.mtime >= Margin

\* The decision, once, and redis.conf with appendonly set by it
Decide(c) ==
    /\ At(c, "deciding", "quarantine")
    /\ adopting' = [adopting EXCEPT ![c] = NeedsMigration]
    /\ UNCHANGED <<engineVars, holder, fileVars, worldVars>>

\* quarantine_manifestless_aof_dir, quarantine_stale_aof_dir: either way the
\* directory is renamed aside
Quarantine(c) ==
    /\ At(c, "quarantine", "record")
    /\ aof' = IF adopting[c] THEN NoDir ELSE aof
    /\ UNCHANGED <<adopting, engineVars, holder, dump, marker, worldVars>>

\* rdb_owner::record: the marker names the dump there is, or goes
Claim == IF HasDump THEN "dump" ELSE "absent"

\* The write may fail, which is only warned about: the claim is outstanding then
Record ==
    \/ marker' = Claim /\ excused' = FALSE /\ UNCHANGED faults
    \/ /\ faults < MaxFaults /\ faults' = faults + 1
       /\ excused' = TRUE /\ UNCHANGED marker

RecordAtBoot(c) ==
    /\ At(c, "record", "spawn")
    /\ Record
    /\ UNCHANGED <<adopting, engineVars, holder, dump, aof, clock, exits, trusted>>

SpawnRedis(c) ==
    /\ At(c, "spawn", "loading")
    /\ mem' = [mem EXCEPT ![c] = 0]
    /\ aofOn' = [aofOn EXCEPT ![c] = ~adopting[c]]
    /\ UNCHANGED <<adopting, rewriting, snap, holder, fileVars, worldVars>>

\* A file that cannot be inspected, moved or written stops the boot
BootFails(c) ==
    /\ pc[c] \in {"deciding", "quarantine", "spawn"}
    /\ faults < MaxFaults /\ faults' = faults + 1
    /\ pc' = [pc EXCEPT ![c] = "off"]
    /\ adopting' = [adopting EXCEPT ![c] = FALSE]
    /\ holder' = IF holder = c THEN NoOne ELSE holder
    /\ UNCHANGED <<engineVars, fileVars, clock, exits, trusted, excused>>

-----------------------------------------------------------------------------
(***************************************************************************)
(* redis-server.                                                           *)
(***************************************************************************)

\* appendonly yes loads the AOF, whose files keep their times, or creates an empty
\* one; appendonly no loads the dump
Load(c) ==
    /\ At(c, "loading", "on")
    /\ mem' = [mem EXCEPT ![c] = IF aofOn[c] THEN aof.data ELSE dump.data]
    /\ aof' = IF aofOn[c] /\ ~Committed
              THEN [data |-> 0, mtime |-> clock, manifest |-> TRUE] ELSE aof
    /\ UNCHANGED <<adopting, aofOn, rewriting, snap, holder, dump, marker, worldVars>>

\* A write goes to the AOF's incr file; an orphan one is not loadable
Write(c) ==
    /\ pc[c] = "on" /\ mem[c] < MaxVersion
    /\ mem' = [mem EXCEPT ![c] = @ + 1]
    /\ aof' = IF aofOn[c] /\ Committed
              THEN [data |-> mem[c] + 1, mtime |-> clock, manifest |-> TRUE] ELSE aof
    /\ UNCHANGED <<bootVars, aofOn, rewriting, snap, holder, dump, marker, worldVars>>

SaveStart(c) ==
    /\ pc[c] = "on" /\ snap[c] = Absent
    /\ snap' = [snap EXCEPT ![c] = [data |-> mem[c], mtime |-> clock]]
    /\ UNCHANGED <<bootVars, mem, aofOn, rewriting, holder, fileVars, worldVars>>

SaveEnd(c) ==
    /\ pc[c] = "on" /\ snap[c] # Absent
    /\ dump' = Saved(snap[c].data)
    /\ marker' = Disowned
    /\ snap' = [snap EXCEPT ![c] = Absent]
    /\ UNCHANGED <<bootVars, mem, aofOn, rewriting, holder, aof, worldVars>>

\* rdb_owner::spawn
OwnerPoll(c) ==
    /\ pc[c] = "on" /\ marker # Claim
    /\ Record
    /\ UNCHANGED <<bootVars, engineVars, holder, dump, aof, clock, exits, trusted>>

\* Mutant: CONFIG SET, which does nothing when AOF is nominally on, is repeated.
NudgedBySetAlone(c) == ~aofOn[c]

\* aof_nudge: EnableAof, or StartRewrite when AOF is on with nothing running
Nudged(c) == ~aofOn[c] \/ ~rewriting[c]

\* enable_aof_after_rdb_load, which goes on until the manifest is there
Nudge(c) ==
    /\ pc[c] = "on" /\ adopting[c] /\ ~Committed
    /\ Nudged(c)
    /\ aofOn' = [aofOn EXCEPT ![c] = TRUE]
    /\ rewriting' = [rewriting EXCEPT ![c] = TRUE]
    /\ aof' = IF aofOn[c] THEN aof ELSE [data |-> 0, mtime |-> clock, manifest |-> FALSE]
    /\ UNCHANGED <<bootVars, mem, snap, holder, dump, marker, worldVars>>

\* The rewrite's child commits the manifest, or dies
RewriteCommits(c) ==
    /\ pc[c] = "on" /\ rewriting[c]
    /\ aof' = [data |-> mem[c], mtime |-> clock, manifest |-> TRUE]
    /\ rewriting' = [rewriting EXCEPT ![c] = FALSE]
    /\ UNCHANGED <<bootVars, mem, aofOn, snap, holder, dump, marker, worldVars>>

RewriteDies(c) ==
    /\ pc[c] = "on" /\ rewriting[c]
    /\ faults < MaxFaults /\ faults' = faults + 1
    /\ rewriting' = [rewriting EXCEPT ![c] = FALSE]
    /\ UNCHANGED <<bootVars, mem, aofOn, snap, holder, fileVars, clock, exits, trusted,
                   excused>>

-----------------------------------------------------------------------------
(***************************************************************************)
(* The exits.                                                              *)
(***************************************************************************)
\* redis-server is gone, with the children it had forked
EngineEnds(c) ==
    /\ adopting' = [adopting EXCEPT ![c] = FALSE]
    /\ mem' = [mem EXCEPT ![c] = 0]
    /\ aofOn' = [aofOn EXCEPT ![c] = FALSE]
    /\ rewriting' = [rewriting EXCEPT ![c] = FALSE]
    /\ snap' = [snap EXCEPT ![c] = Absent]

Ends == exits < MaxExits /\ exits' = exits + 1

\* redis-server dies: the supervisor records, stops Sentinel and exits
RedisDies(c) ==
    /\ Ends
    /\ pc[c] \in {"loading", "on"} /\ pc' = [pc EXCEPT ![c] = "exiting"]
    /\ EngineEnds(c)
    /\ UNCHANGED <<holder, fileVars, clock, faults, trusted, excused>>

\* SIGTERM, SIGINT or a self-heal's restart: graceful_shutdown waits 30 s for
\* redis-server.  Sentinel's death: redis-server is waited for without a bound.
StopRedis(c) ==
    /\ Ends
    /\ pc[c] = "on"
    /\ \E s \in {"stopping", "draining"} : pc' = [pc EXCEPT ![c] = s]
    /\ UNCHANGED <<adopting, engineVars, holder, fileVars, clock, faults, trusted, excused>>

\* redis-server's answer to SIGTERM is its shutdown save; while it loads, as to
\* any death, it leaves the files as they are
ShutdownSave(c) ==
    /\ pc[c] \in {"stopping", "draining"} /\ pc' = [pc EXCEPT ![c] = "exiting"]
    /\ dump' = Saved(mem[c])
    /\ marker' = Disowned
    /\ EngineEnds(c)
    /\ UNCHANGED <<holder, aof, worldVars>>

\* The 30 s are over: SIGKILL
KillRedis(c) ==
    /\ At(c, "stopping", "exiting")
    /\ EngineEnds(c)
    /\ UNCHANGED <<holder, fileVars, worldVars>>

\* Mutant: the supervisor leaves without the record.
ExitUnrecorded(c) ==
    /\ At(c, "exiting", "off")
    /\ holder' = IF holder = c THEN NoOne ELSE holder
    /\ UNCHANGED <<adopting, engineVars, fileVars, worldVars>>

\* own_rdb_after_redis_exit and exit: the kernel drops the flock
Exit(c) ==
    /\ At(c, "exiting", "off")
    /\ Record
    /\ holder' = IF holder = c THEN NoOne ELSE holder
    /\ UNCHANGED <<adopting, engineVars, dump, aof, clock, exits, trusted>>

\* SIGKILL of the container; or RESTART_SENTINEL's `?`, which leaves supervise
\* with redis-server alive: it dies with its parent, PID 1, and nothing records
Kill(c) ==
    /\ Ends
    /\ pc[c] \notin {"off", "locking"} /\ pc' = [pc EXCEPT ![c] = "off"]
    /\ EngineEnds(c)
    /\ holder' = IF holder = c THEN NoOne ELSE holder
    /\ excused' = TRUE
    /\ UNCHANGED <<fileVars, clock, faults, trusted>>

-----------------------------------------------------------------------------
(***************************************************************************)
(* The world.                                                              *)
(***************************************************************************)

\* A save is done before MaxSave ticks are over
Tick ==
    /\ clock < MaxClock /\ clock' = clock + 1
    /\ \A c \in Container : snap[c] # Absent => clock - snap[c].mtime < MaxSave
    /\ UNCHANGED <<bootVars, engineVars, holder, fileVars, exits, faults, trusted, excused>>

\* Between two containers an image with AOF off serves the volume and saves,
\* long after the AOF was last written
Foreign ==
    /\ InVolume = {} /\ Ends
    /\ HasDump /\ clock - aof.mtime >= Margin
    /\ Newest < MaxVersion /\ dump' = Saved(Newest + 1)
    /\ marker' = Disowned
    /\ excused' = TRUE
    /\ UNCHANGED <<bootVars, engineVars, holder, aof, clock, faults, trusted>>

\* A new volume, one of the standalone template, one that lost its AOF before the
\* commit, and one whose AOF an earlier image abandoned
Volumes ==
    {<<Absent, NoDir>>,
     <<[data |-> 1, mtime |-> 0], NoDir>>,
     <<[data |-> 1, mtime |-> 0], [data |-> 0, mtime |-> 0, manifest |-> FALSE]>>,
     <<[data |-> 1, mtime |-> Margin], [data |-> 0, mtime |-> 0, manifest |-> TRUE]>>}

Init ==
    /\ pc = [c \in Container |-> "off"]
    /\ adopting = [c \in Container |-> FALSE]
    /\ mem = [c \in Container |-> 0]
    /\ aofOn = [c \in Container |-> FALSE]
    /\ rewriting = [c \in Container |-> FALSE]
    /\ snap = [c \in Container |-> Absent]
    /\ holder = NoOne
    /\ \E v \in Volumes : dump = v[1] /\ aof = v[2]
    /\ marker = "absent"
    /\ clock = Margin /\ exits = 0 /\ faults = 0
    /\ trusted = TRUE /\ excused = TRUE

Boot(c) == \/ Start(c) \/ Acquire(c) \/ Decide(c) \/ Quarantine(c)
           \/ RecordAtBoot(c) \/ SpawnRedis(c) \/ Load(c)
Serve(c) == Write(c) \/ SaveStart(c) \/ SaveEnd(c) \/ OwnerPoll(c)
Migrate(c) == Nudge(c) \/ RewriteCommits(c)
Leave(c) == ShutdownSave(c) \/ Exit(c)

\* Nothing is promised, and nothing modelled, once a container has failed open
Next ==
    /\ trusted
    /\ \/ \E c \in Container :
            \/ Boot(c) \/ Serve(c) \/ Migrate(c) \/ Leave(c)
            \/ GiveUp(c) \/ FailOpen(c) \/ BootFails(c) \/ RewriteDies(c)
            \/ RedisDies(c) \/ StopRedis(c) \/ KillRedis(c) \/ Kill(c)
       \/ Tick \/ Foreign

\* The platform starts a container that ended, the wrapper and redis-server run
Fairness ==
    \A c \in Container : /\ WF_vars(trusted /\ Boot(c))
                         /\ WF_vars(trusted /\ Leave(c))
                         /\ WF_vars(trusted /\ Migrate(c))

Spec == Init /\ [][Next]_vars
FairSpec == Spec /\ Fairness

-----------------------------------------------------------------------------
File == [data : Nat, mtime : Int]

\* Types of the variables; what belongs to a redis-server is gone with it.
TypeOK ==
    /\ pc \in [Container -> Stage]
    /\ adopting \in [Container -> BOOLEAN]
    /\ mem \in [Container -> Nat]
    /\ aofOn \in [Container -> BOOLEAN] /\ rewriting \in [Container -> BOOLEAN]
    /\ snap \in [Container -> File]
    /\ holder \in Container \cup {NoOne}
    /\ dump \in File
    /\ aof \in [data : Nat, mtime : Int, manifest : BOOLEAN]
    /\ marker \in {"absent", "dump", "other"}
    /\ clock \in Nat /\ exits \in Nat /\ faults \in Nat
    /\ trusted \in BOOLEAN /\ excused \in BOOLEAN
    /\ \A c \in Container : rewriting[c] \/ snap[c] # Absent => c \in Serving

\* At most one container is past the lock, and so at most one redis-server runs
\* on the volume, through overlaps, timeouts and kills, unless one failed open.
OneEngine == trusted => \A c, d \in InVolume : c = d

\* A boot that finds a committed AOF moves it aside only if something explains a
\* dump this image did not claim: another image, a kill, or a failed write of
\* the marker.  Idling, crashes of redis-server and slow stops do not.
TrustsOwnAof ==
    trusted => \A c \in Container : pc[c] = "quarantine" /\ adopting[c] /\ Committed => excused

\* The abstract volume: what a boot would load now, compared with the newest
\* dataset there is, and whether each write is in it at once.
Recoverable == IF NeedsMigration THEN dump.data ELSE aof.data
Latest == IF Serving = {} THEN Newest ELSE mem[CHOOSE c \in Serving : TRUE]
Journalled == Committed /\ \E c \in Serving : aofOn[c]

Abstract ==
    INSTANCE DurableVolume WITH
        users <- InVolume,
        latest <- Latest,
        kept <- Recoverable,
        journalled <- Journalled,
        trusted <- trusted

\* Boot, migration, saves and exits implement the abstract volume: no step loses
\* a version that a boot before it would have found.
Durable == Abstract!Spec

\* Once containers stop ending, one runs with its dataset in a committed AOF,
\* whatever rewrites failed before, unless a container failed open.
Migrated ==
    [](trusted) => <>[](\E c \in Container : pc[c] = "on" /\ aofOn[c] /\ Committed)
=============================================================================

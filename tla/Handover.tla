------------------------------ MODULE Handover ------------------------------
(***************************************************************************)
(* A planned stop of one node: process_manager's supervisor and            *)
(* demote_on_shutdown's handing of the primary role to another node before *)
(* redis-server is signalled.  Self's supervisor is modelled step by step; *)
(* Redis and Sentinel are external: each node's Redis is the node it       *)
(* follows, and the local Sentinel is the failover it runs and the primary *)
(* it names.  Failovers led by another node's Sentinel are not modelled.   *)
(***************************************************************************)
EXTENDS Naturals, FiniteSets, TLC

CONSTANTS
    Self,       \* the node that stops
    Other,      \* the other nodes of the deployment
    None,       \* no node: a primary follows None; an address never read
    Deadline,   \* DEMOTE_ON_SHUTDOWN_TIMEOUT_MS, in ticks
    MaxPause,   \* MAX_WRITE_PAUSE, in ticks
    Call,       \* ticks one bounded step of calls to a child may take
    Grace,      \* ticks a child gets to exit before it is killed
    MaxFaults   \* deaths of a child and failures of a call, at most

ASSUME SelfIsApart == Self \notin Other /\ None \notin Other \cup {Self}
ASSUME OthersExist == IsFiniteSet(Other) /\ Other # {}
ASSUME BudgetsAreNat ==
    /\ Deadline \in Nat /\ MaxPause \in Nat /\ Call \in Nat
    /\ Grace \in Nat /\ MaxFaults \in Nat

Node == Other \cup {Self}

VARIABLES
    follows,    \* node -> the node its Redis replicates from, None a primary
    known,      \* replicas the local Sentinel has learnt of
    failover,   \* local Sentinel's failover: "none", "select" or "reconf"
    winner,     \* the replica it promoted last, or None
    names,      \* the primary SENTINEL MASTER names
    redisUp,    \* Self's redis-server runs
    sentinelUp, \* Self's redis-sentinel runs
    pause,      \* ticks the write pause still holds
    step,       \* where the supervisor stands
    spent,      \* ticks spent in that step
    last,       \* wait_for_demotion's last_master_addr, or None
    confirmed,  \* wait_for_demotion's answer
    paused,     \* history: CLIENT PAUSE was answered OK
    tail,       \* history: ticks Self took writes beside another primary
    faults      \* faults so far

sentinelVars == <<failover, winner, names>>
demoteVars   == <<last, confirmed, paused>>
vars == <<follows, known, sentinelVars, redisUp, sentinelUp, pause, step,
          spent, demoteVars, tail, faults>>

Demoting == {"role", "pause", "request", "wait", "close"}
Stopping == {"stopSentinel", "stopRedis"}
Reaping  == {"reapSentinel", "reapRedis"}

Init ==
    /\ follows = [n \in Node |-> IF n = Self THEN None ELSE Self]
    /\ known \in SUBSET Other
    /\ failover = "none" /\ winner = None /\ names = Self
    /\ redisUp = TRUE /\ sentinelUp = TRUE /\ pause = 0
    /\ step = "serving" /\ spent = 0
    /\ last = None /\ confirmed = FALSE /\ paused = FALSE
    /\ tail = 0 /\ faults = 0

-----------------------------------------------------------------------------
(* The local Sentinel's failover, external.                                *)

Begun == /\ failover' = "select"
         /\ UNCHANGED <<winner, names>>

(* An operator asks for a failover while the node serves.                  *)
OperatorAsks ==
    /\ step \in {"serving", "role", "pause"} /\ sentinelUp
    /\ failover = "none" /\ names = Self /\ winner = None
    /\ Begun
    /\ UNCHANGED <<follows, known, redisUp, sentinelUp, pause, step, spent,
                   demoteVars, tail, faults>>

(* The replica it picked answers as a primary; every other one it knows is *)
(* still to be told, and the address may already be the winner's.          *)
Promote(n) ==
    /\ failover = "select" /\ sentinelUp /\ n \in known
    /\ failover' = "reconf" /\ winner' = n
    /\ names' \in {names, n}
    /\ follows' = [follows EXCEPT ![n] = None]
    /\ UNCHANGED <<known, redisUp, sentinelUp, pause, step, spent, demoteVars,
                   tail, faults>>

(* No replica could be promoted.                                           *)
Abort ==
    /\ failover = "select" /\ sentinelUp
    /\ failover' = "none"
    /\ UNCHANGED <<follows, known, winner, names, redisUp, sentinelUp, pause,
                   step, spent, demoteVars, tail, faults>>

(* One more replica is told to follow the winner.                          *)
Reconf(n) ==
    /\ failover = "reconf" /\ sentinelUp
    /\ n \in known \ {winner} /\ follows[n] # winner
    /\ follows' = [follows EXCEPT ![n] = winner]
    /\ UNCHANGED <<known, sentinelVars, redisUp, sentinelUp, pause, step, spent,
                   demoteVars, tail, faults>>

Finish ==
    /\ failover = "reconf" /\ sentinelUp
    /\ \A n \in known \ {winner} : follows[n] = winner
    /\ failover' = "none" /\ names' = winner
    /\ UNCHANGED <<follows, known, winner, redisUp, sentinelUp, pause, step,
                   spent, demoteVars, tail, faults>>

(* The old primary is told last, once the switch is done.                  *)
Converted ==
    /\ failover = "none" /\ sentinelUp /\ redisUp
    /\ names # Self /\ follows[Self] = None
    /\ follows' = [follows EXCEPT ![Self] = names]
    /\ UNCHANGED <<known, sentinelVars, redisUp, sentinelUp, pause, step, spent,
                   demoteVars, tail, faults>>

-----------------------------------------------------------------------------
(* The supervisor: each step hands over to the next with its time at zero. *)

Goto(s) == step' = s /\ spent' = 0

Fault == faults < MaxFaults /\ faults' = faults + 1
NoFault == UNCHANGED faults

(* SIGTERM or SIGINT: should_run gates the demotion, whose kill switch and *)
(* co-location are this boolean; a restart request of the ghost-master     *)
(* watcher takes the path without it.                                      *)
Signalled(shouldRun) ==
    /\ step = "serving"
    /\ Goto(IF shouldRun THEN "role" ELSE "stopSentinel")
    /\ UNCHANGED <<follows, known, sentinelVars, redisUp, sentinelUp, pause,
                   demoteVars, tail, faults>>

(* local_role: what INFO answers, or Unknown when the call fails.          *)
Answered(up, ok) ==
    /\ ok => up
    /\ IF ok \/ ~up THEN NoFault ELSE Fault

LocalRole(ok) == IF ~ok THEN "unknown"
                 ELSE IF follows[Self] = None THEN "master" ELSE "replica"

ShouldAttempt(role) == role = "master"

ReadRole(ok) ==
    /\ step = "role" /\ Answered(redisUp, ok)
    /\ Goto(IF ShouldAttempt(LocalRole(ok)) THEN "pause" ELSE "stopSentinel")
    /\ UNCHANGED <<follows, known, sentinelVars, redisUp, sentinelUp, pause,
                   demoteVars, tail>>

(* write_pause_ms: as long as the wait may last, capped.                   *)
(* Mutant: sized to one call.                                              *)
WritePauseOfACall == IF Call < MaxPause THEN Call ELSE MaxPause

WritePause == IF Deadline < MaxPause THEN Deadline ELSE MaxPause

PauseWrites(ok) ==
    /\ step = "pause" /\ Answered(redisUp, ok)
    /\ pause' = IF ok THEN WritePause ELSE pause
    /\ paused' = (ok /\ WritePause > 0)
    /\ Goto("request")
    /\ UNCHANGED <<follows, known, sentinelVars, redisUp, sentinelUp, last,
                   confirmed, tail>>

(* request_failover: Sentinel starts it, is already running one (-INPROG), *)
(* refuses, or is not reached; a call that times out may have been heard.  *)
RequestTaken ==
    /\ sentinelUp /\ failover = "none" /\ names = Self
    /\ Begun /\ NoFault /\ Goto("wait")

RequestInProgress ==
    /\ sentinelUp /\ failover # "none"
    /\ NoFault /\ Goto("wait")
    /\ UNCHANGED sentinelVars

RequestRefused ==
    /\ \/ ~sentinelUp
       \/ failover = "none"
    /\ NoFault /\ Goto("stopSentinel")
    /\ UNCHANGED sentinelVars

RequestTimedOut ==
    /\ sentinelUp /\ Fault /\ Goto("stopSentinel")
    /\ \/ UNCHANGED sentinelVars
       \/ failover = "none" /\ names = Self /\ Begun

Request ==
    /\ step = "request"
    /\ RequestTaken \/ RequestInProgress \/ RequestRefused \/ RequestTimedOut
    /\ UNCHANGED <<follows, known, redisUp, sentinelUp, pause, demoteVars, tail>>

-----------------------------------------------------------------------------
(* wait_for_demotion: the role first, then SENTINEL MASTER's ip and flags; *)
(* a role that changes in between is one the poll still took for a master. *)

Inspected == [addr |-> names, running |-> failover # "none"]
NoFields  == [addr |-> None, running |-> TRUE]

FailoverFinished(f) == ~f.running

SwitchedAway(role, f) == role = "replica" \/ f.addr \notin {None, Self}

(* Mutant: the new address is taken for the end of the failover.           *)
DemoteConfirmedByAddress(role, f) == SwitchedAway(role, f)

DemoteConfirmed(role, f) == FailoverFinished(f) /\ SwitchedAway(role, f)

(* Mutant: an attempt that ran out of time is polled again.                *)
WaitOverNever == FALSE

WaitOver == spent >= Deadline

(* One poll that reads role and fields f.                                  *)
Polled(role, f) ==
    /\ last' = IF f.addr = None THEN last ELSE f.addr
    /\ confirmed' = DemoteConfirmed(role, f)
    /\ IF DemoteConfirmed(role, f) \/ WaitOver
       THEN Goto("close") ELSE UNCHANGED <<step, spent>>

Poll ==
    /\ step = "wait"
    /\ \E roleOk, fieldsOk \in BOOLEAN :
        /\ roleOk => redisUp
        /\ fieldsOk => sentinelUp
        /\ IF (roleOk \/ ~redisUp) /\ (fieldsOk \/ ~sentinelUp)
           THEN NoFault ELSE Fault
        /\ Polled(LocalRole(roleOk), IF fieldsOk THEN Inspected ELSE NoFields)
    /\ UNCHANGED <<follows, known, sentinelVars, redisUp, sentinelUp, pause,
                   paused, tail>>

(* replicaof_target: only ever another node.                               *)
(* Mutant: whatever Sentinel named.                                        *)
ReplicaofTargetAny == last

ReplicaofTarget == IF last = Self THEN None ELSE last

Close(ok) ==
    /\ step = "close"
    /\ IF ReplicaofTarget = None THEN ~ok /\ NoFault ELSE Answered(redisUp, ok)
    /\ follows' = IF ok THEN [follows EXCEPT ![Self] = ReplicaofTarget] ELSE follows
    /\ Goto("stopSentinel")
    /\ UNCHANGED <<known, sentinelVars, redisUp, sentinelUp, pause, demoteVars,
                   tail>>

-----------------------------------------------------------------------------
(* graceful_shutdown, and the two arms of a child that died while serving. *)

(* The child exits on SIGTERM, or is killed when its grace is over.        *)
SentinelStops ==
    /\ step = "stopSentinel"
    /\ sentinelUp' = FALSE /\ Goto("stopRedis")
    /\ UNCHANGED <<follows, known, sentinelVars, redisUp, pause, demoteVars,
                   tail, faults>>

RedisStops ==
    /\ step = "stopRedis"
    /\ redisUp' = FALSE /\ Goto("gone")
    /\ UNCHANGED <<follows, known, sentinelVars, sentinelUp, pause, demoteVars,
                   tail, faults>>

RedisDied ==
    /\ step = "serving" /\ ~redisUp /\ Goto("reapSentinel")
    /\ UNCHANGED <<follows, known, sentinelVars, redisUp, sentinelUp, pause,
                   demoteVars, tail, faults>>

SentinelDied ==
    /\ step = "serving" /\ ~sentinelUp /\ Goto("reapRedis")
    /\ UNCHANGED <<follows, known, sentinelVars, redisUp, sentinelUp, pause,
                   demoteVars, tail, faults>>

Reaped ==
    /\ step \in Reaping
    /\ sentinelUp' = FALSE /\ redisUp' = FALSE /\ Goto("gone")
    /\ UNCHANGED <<follows, known, sentinelVars, pause, demoteVars, tail, faults>>

(* A child dies on its own; nobody selects on it once a signal came.       *)
RedisDies ==
    /\ redisUp /\ step # "gone" /\ Fault /\ redisUp' = FALSE
    /\ UNCHANGED <<follows, known, sentinelVars, sentinelUp, pause, step, spent,
                   demoteVars, tail>>

SentinelDies ==
    /\ sentinelUp /\ step # "gone" /\ Fault /\ sentinelUp' = FALSE
    /\ UNCHANGED <<follows, known, sentinelVars, redisUp, pause, step, spent,
                   demoteVars, tail>>

-----------------------------------------------------------------------------
(* Time: a step that is over its budget lets no more pass.                 *)

Budget(s) == IF s = "wait" THEN Deadline + Call
             ELSE IF s \in Stopping THEN Grace
             ELSE Call

Writable == redisUp /\ follows[Self] = None /\ pause = 0

AnotherPrimary == \E n \in Other : follows[n] = None

Tick ==
    /\ step \in Demoting \cup Stopping /\ spent < Budget(step)
    /\ spent' = spent + 1
    /\ pause' = IF pause = 0 THEN 0 ELSE pause - 1
    /\ tail' = IF /\ step \in {"request", "wait", "close"} /\ paused
                  /\ Writable /\ AnotherPrimary
               THEN tail + 1 ELSE tail
    /\ UNCHANGED <<follows, known, sentinelVars, redisUp, sentinelUp, step,
                   demoteVars, faults>>

Supervise ==
    \/ \E ok \in BOOLEAN : ReadRole(ok) \/ PauseWrites(ok) \/ Close(ok)
    \/ Request
    \/ Poll
    \/ SentinelStops
    \/ RedisStops
    \/ RedisDied
    \/ SentinelDied
    \/ Reaped

Sentinel ==
    \/ OperatorAsks
    \/ \E n \in Other : Promote(n) \/ Reconf(n)
    \/ Abort
    \/ Finish
    \/ Converted

Next ==
    \/ \E shouldRun \in BOOLEAN : Signalled(shouldRun)
    \/ Supervise
    \/ Sentinel
    \/ RedisDies
    \/ SentinelDies
    \/ Tick

Spec == Init /\ [][Next]_vars

(* Calls are bounded and children that are signalled exit or are killed;   *)
(* time passes.  Nothing is asked of Sentinel or of the operator.          *)
FairSpec == Spec /\ WF_vars(Supervise) /\ WF_vars(Tick)

-----------------------------------------------------------------------------
(* Types of the variables: the write pause stays within its cap, and no    *)
(* step of the stop lasts longer than the budgets allow.                   *)
TypeOK ==
    /\ follows \in [Node -> Node \cup {None}]
    /\ known \in SUBSET Other
    /\ failover \in {"none", "select", "reconf"}
    /\ winner \in Other \cup {None}
    /\ names \in Node
    /\ redisUp \in BOOLEAN /\ sentinelUp \in BOOLEAN
    /\ pause \in 0 .. MaxPause
    /\ step \in {"serving", "gone"} \cup Demoting \cup Stopping \cup Reaping
    /\ spent \in 0 .. (Deadline + Call + Grace)
    /\ last \in Node \cup {None}
    /\ confirmed \in BOOLEAN /\ paused \in BOOLEAN
    /\ tail \in Nat /\ faults \in 0 .. MaxFaults

(* A confirmed handover is complete before anything is stopped: the node   *)
(* Sentinel named is a primary and every replica its Sentinel knew follows *)
(* it, none is left on the primary that is about to disappear.             *)
HandedOver ==
    confirmed =>
        /\ winner # None /\ follows[winner] = None
        /\ \A n \in known \ {winner} : follows[n] = winner

(* The closing REPLICAOF, after a confirmed wait or one that ran out,      *)
(* points Self at a primary: never at itself, nor at a node that follows   *)
(* another.                                                                *)
ClosesOnAPrimary ==
    follows[Self] # None => follows[Self] # Self /\ follows[follows[Self]] = None

(* The pause starts before the request and is sized to the wait alone, so  *)
(* it may run out under it: Self then takes writes beside the new primary, *)
(* but never for longer than the calls around the wait take (and what      *)
(* the cap cuts off the pause).                                            *)
TailIsCalls ==
    tail <= 3 * Call + (IF Deadline > MaxPause THEN Deadline - MaxPause ELSE 0)

(* Whatever fails or hangs, a signalled supervisor stops both children.    *)
Exits == (step = "role") ~> (step = "gone" /\ ~redisUp /\ ~sentinelUp)
=============================================================================

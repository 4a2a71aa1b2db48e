---------------------------- MODULE Credentials ----------------------------
(***************************************************************************)
(* Coordinated password rotation: credentials.rs (the five operations of   *)
(* /credentials/rotate, the journal, the Sentinel rewrite and the boot     *)
(* adoption), credential_reconcile.rs (the loop that keeps the local       *)
(* Sentinel on the pinned password), sentinel_auth.rs (the posture a first *)
(* boot gives its Sentinel) and the password half of the wrapper's boot.   *)
(*                                                                         *)
(* A password is kept in five places per node: the pin (requirepass in     *)
(* redis.conf), what the running Redis accepts, its masterauth, and on the *)
(* Sentinel what it accepts and the two passwords it dials out with.  The  *)
(* control plane that calls the operations, one node at a time and again   *)
(* after every error, is external: it is modelled from the repository's    *)
(* test/password-rotation-local.py.                                        *)
(***************************************************************************)
EXTENDS Integers, FiniteSets

CONSTANTS
    N,            \* members, 1..N, in the control plane's order
    Fresh,        \* members whose volume is still empty
    Old, New,     \* the two passwords of a rotation and of its compensation
    None,         \* no pin, no journal, no sentinel-pass
    MaxRotations, \* bound: rotations, each back from the one before
    MaxKills,     \* bound: containers killed
    MaxFaults,    \* bound: operations cut off, responses lost, repairs cut short,
                  \*        first boots that hear no open peer
    MaxDrifts     \* bound: Sentinel settings overwritten by a stale writer

Node == 1..N
Password == {Old, New}

ASSUME NodeAssumption == N \in Nat \ {0} /\ Fresh \subseteq Node
ASSUME PasswordAssumption == Old # New /\ None \notin Password
ASSUME BoundAssumption ==
    MaxRotations \in Nat /\ MaxKills \in Nat /\ MaxFaults \in Nat /\ MaxDrifts \in Nat

VARIABLES
    \* the control plane
    cur,       \* the password this rotation leaves
    phase,     \* the operation it is calling, or "done"
    at,        \* the member it calls it on
    rotations,
    env,       \* REDIS_PASSWORD, upserted when a rotation is done
    \* the operation running on a node, under its ROTATION lock
    op,        \* [node, stage], node 0 when there is none
    \* the node's processes
    up,        \* "down" | "decided" | "redis" | "up": how far its boot came
    boot,      \* config.redis_password of this boot
    adopted,   \* rotated_at_boot
    permit,    \* RESTART_SENTINEL holds a permit
    stopped,   \* the supervisor has stopped Sentinel to rewrite its file
    \* the volume
    pin,       \* persisted_requirepass
    journal,   \* the target named by .railway_rotation
    \* the running redis-server
    accepts,   \* the passwords of its default user
    masterauth,
    master,    \* the node that is master
    linked,    \* replicas whose link is up
    \* Sentinel, in memory and in sentinel.conf alike: every SET flushes
    sent,      \* [accepts, pass, auth], or NoConf before the first boot
    \* faults
    kills, faults, drifts,
    deaf       \* history: members whose first boot heard no open Sentinel of those that ran

planVars == <<cur, phase, at, rotations, env>>
procVars == <<up, boot, adopted, permit, stopped>>
diskVars == <<pin, journal>>
dataVars == <<accepts, masterauth, master, linked>>
faultVars == <<kills, faults, drifts, deaf>>
vars == <<planVars, op, procVars, diskVars, dataVars, sent, faultVars>>

Other(p) == IF p = Old THEN New ELSE Old
tgt == Other(cur)

\* Sentinel before its first boot; an open one accepts no password and uses none
NoConf == [accepts |-> {}, pass |-> None, auth |-> None]
Authed(p) == [accepts |-> {p}, pass |-> p, auth |-> p]
OpenConf(p) == [accepts |-> {}, pass |-> None, auth |-> p]
HasConf(n) == sent[n].auth # None
RequiresAuth(n) == sent[n].accepts # {}       \* conf_requires_auth

RedisRuns(n)    == up[n] \in {"redis", "up"}
SentinelRuns(n) == up[n] = "up" /\ ~stopped[n]
Idle == op.node = 0
NoOp == [node |-> 0, stage |-> 0]

\* An outbound credential of i is accepted by the Sentinel, or the Redis, of j
SentinelTalks(i, j) ==
    /\ SentinelRuns(i) /\ SentinelRuns(j)
    /\ IF RequiresAuth(j) THEN sent[i].pass \in sent[j].accepts ELSE sent[i].pass = None
Monitors(i, j) == SentinelRuns(i) /\ RedisRuns(j) /\ sent[i].auth \in accepts[j]

\* SENTINEL CKQUORUM, and MEMBER's count of connected peers
Quorate(n) == 2 * Cardinality({n} \cup {j \in Node : SentinelTalks(n, j)}) > N

\* connect(sentinel_port, p): AUTH is refused by an open Sentinel too
SentinelAccepts(n, p) == SentinelRuns(n) /\ p \in sent[n].accepts

\* wait_replication: live_replicas and replication_ready
Replicating(n, p) ==
    IF n # master THEN n \in linked
    ELSE IF SentinelAccepts(n, p)
         THEN {r \in Node \ {n} : Monitors(n, r)} \subseteq linked
         ELSE linked = Node \ {n}

-----------------------------------------------------------------------------
(***************************************************************************)
(* The operations.  Each stage is one command with an await after it, where*)
(* the 35 s deadline may drop the operation.                               *)
(***************************************************************************)

\* rotate: the lock, then Basic auth with the pin, which is one of the two.  A
\* waiting supervisor takes a permit before the next call can arrive.
Begin ==
    /\ Idle /\ phase # "done"
    /\ \A n \in Node : permit[n] => ~SentinelRuns(n)
    /\ LET n == IF phase = "database" THEN master ELSE at
       IN /\ RedisRuns(n) /\ pin[n] \in Password
          /\ accepts[n] \cap Password # {}        \* connect_either
          /\ op' = [node |-> n, stage |-> 1]
    /\ UNCHANGED <<planVars, procVars, diskVars, dataVars, sent, faultVars>>

Stage(kind, k) == ~Idle /\ phase = kind /\ op.stage = k
GoTo(k) == op' = [op EXCEPT !.stage = k]

PhaseAfter ==
    [preflight |-> "prepare", prepare |-> "database", database |-> "member",
     member |-> "verify", verify |-> "done"]

\* The response: received, or lost and the same call made again
Respond ==
    /\ op' = NoOp
    /\ \/ /\ IF at = N \/ phase = "database"
             THEN phase' = PhaseAfter[phase] /\ at' = 1
             ELSE phase' = phase /\ at' = at + 1
          /\ env' = IF phase' = "done" THEN tgt ELSE env
          /\ UNCHANGED faultVars
       \/ /\ faults < MaxFaults /\ faults' = faults + 1
          /\ UNCHANGED <<phase, at, env, kills, drifts, deaf>>
    /\ UNCHANGED <<cur, rotations>>

\* A check of the operation fails, or the 35 s are over: the lock is released
\* and what the operation has done stays done
Refuse ==
    /\ op' = NoOp
    /\ UNCHANGED <<planVars, procVars, diskVars, dataVars, sent, faultVars>>

CutOff ==
    /\ ~Idle
    /\ faults < MaxFaults /\ faults' = faults + 1
    /\ op' = NoOp
    /\ UNCHANGED <<planVars, procVars, diskVars, dataVars, sent, kills, drifts, deaf>>

\* PREFLIGHT, called with the current password twice
Preflight ==
    LET n == op.node
    IN /\ Stage("preflight", 1)
       /\ IF Replicating(n, cur) /\ cur \in accepts[n]
             /\ SentinelAccepts(n, cur) /\ Quorate(n)
          THEN Respond /\ UNCHANGED <<procVars, diskVars, dataVars, sent>>
          ELSE Refuse

\* PREPARE: the journal before any live change
PrepareJournal ==
    /\ Stage("prepare", 1) /\ GoTo(2)
    /\ journal' = [journal EXCEPT ![op.node] = tgt]
    /\ UNCHANGED <<planVars, procVars, pin, dataVars, sent, faultVars>>

PrepareData ==
    LET n == op.node
    IN \/ /\ Stage("prepare", 2) /\ GoTo(3)                  \* ACL SETUSER >new
          /\ accepts' = [accepts EXCEPT ![n] = @ \cup {tgt}]
          /\ UNCHANGED <<planVars, procVars, diskVars, masterauth, master, linked,
                         sent, faultVars>>
       \/ /\ Stage("prepare", 3) /\ GoTo(4)                  \* masterauth, REWRITE
          /\ masterauth' = [masterauth EXCEPT ![n] = tgt]
          /\ UNCHANGED <<planVars, procVars, diskVars, accepts, master, linked,
                         sent, faultVars>>

\* Mutant: the peers' outbound password is moved without the overlap.
PrepareWithoutOverlap(s, k) ==
    CASE k = 4 -> s
      [] k = 5 -> [s EXCEPT !.pass = tgt]
      [] k = 6 -> [s EXCEPT !.auth = tgt]

\* What each Sentinel command of PREPARE sets
Prepared(s, k) ==
    CASE k = 4 -> [s EXCEPT !.accepts = @ \cup {tgt}]
      [] k = 5 -> [s EXCEPT !.pass = tgt]
      [] k = 6 -> [s EXCEPT !.auth = tgt]

PrepareSentinel ==
    LET n == op.node
    IN \E k \in 4..6 :
         /\ Stage("prepare", k)
         /\ IF ~SentinelRuns(n) \/ (k = 4 /\ ~RequiresAuth(n))
            THEN Refuse
            ELSE /\ sent' = [sent EXCEPT ![n] = Prepared(@, k)]
                 /\ IF k < 6 THEN GoTo(k + 1) /\ UNCHANGED <<planVars, faultVars>>
                             ELSE Respond
                 /\ UNCHANGED <<procVars, diskVars, dataVars>>

\* DATABASE: a prepared primary must accept the target
Database ==
    /\ Stage("database", 1)
    /\ IF tgt \in accepts[op.node]
       THEN Respond /\ UNCHANGED <<procVars, diskVars, dataVars, sent>>
       ELSE Refuse

\* MEMBER: one CONFIG SET moves masterauth and requirepass, dropping the
\* overlap; CONFIG REWRITE moves the pin
MemberData ==
    LET n == op.node
    IN \/ /\ Stage("member", 1) /\ GoTo(2)
          /\ accepts' = [accepts EXCEPT ![n] = {tgt}]
          /\ masterauth' = [masterauth EXCEPT ![n] = tgt]
          /\ UNCHANGED <<planVars, procVars, diskVars, master, linked, sent, faultVars>>
       \/ /\ Stage("member", 2) /\ GoTo(3)
          /\ pin' = [pin EXCEPT ![n] = tgt]
          /\ UNCHANGED <<planVars, procVars, journal, dataVars, sent, faultVars>>

OnlyTarget(n) == SentinelAccepts(n, tgt) /\ cur \notin sent[n].accepts

\* Sentinel is asked to restart unless it has already moved, and waited for
MemberRestart ==
    LET n == op.node
    IN \/ /\ Stage("member", 3)
          /\ IF OnlyTarget(n)
             THEN GoTo(5) /\ UNCHANGED permit
             ELSE GoTo(4) /\ permit' = [permit EXCEPT ![n] = TRUE]
          /\ UNCHANGED <<planVars, up, boot, adopted, stopped, diskVars, dataVars,
                         sent, faultVars>>
       \/ /\ Stage("member", 4) /\ OnlyTarget(n) /\ GoTo(5)
          /\ UNCHANGED <<planVars, procVars, diskVars, dataVars, sent, faultVars>>

-----------------------------------------------------------------------------
(***************************************************************************)
(* The reconcile loop.                                                     *)
(***************************************************************************)

\* connect_with_any: the pin, the journal's two passwords, this boot's one
Reaches(n) ==
    LET staged == IF journal[n] = None THEN {} ELSE Password
    IN SentinelRuns(n) /\ sent[n].accepts \cap ({pin[n], boot[n]} \cup staged) # {}

\* plan: the values a repair leaves alone, and the one it applies
Acceptable(n, p) == p = pin[n] \/ (journal[n] # None /\ p = journal[n])
RepairTo(n) == IF journal[n] # None THEN journal[n] ELSE pin[n]

\* apply: the first k of AcceptInbound, SentinelPass, AuthPass, where they differ
Repaired(n, k) ==
    LET s == sent[n]
    IN [accepts |-> IF k >= 1 /\ pin[n] \notin s.accepts
                    THEN s.accepts \cup {pin[n]} ELSE s.accepts,
        pass    |-> IF k >= 2 /\ ~Acceptable(n, s.pass) THEN RepairTo(n) ELSE s.pass,
        auth    |-> IF k >= 3 /\ ~Acceptable(n, s.auth) THEN RepairTo(n) ELSE s.auth]

\* reconcile_once, as MEMBER calls it
MemberReconcile ==
    LET n == op.node
    IN /\ Stage("member", 5) /\ GoTo(6)
       /\ sent' = IF Reaches(n) THEN [sent EXCEPT ![n] = Repaired(n, 3)] ELSE sent
       /\ UNCHANGED <<planVars, procVars, diskVars, dataVars, faultVars>>

\* A listening port is not a quorum member yet
JoinedQuorum(n) == SentinelAccepts(n, tgt) /\ Quorate(n)

MemberWait ==
    /\ Stage("member", 6)
    /\ IF JoinedQuorum(op.node)
       THEN Respond /\ UNCHANGED <<procVars, diskVars, dataVars, sent>>
       ELSE Refuse

\* VERIFY: the target works, the pin names it and the old one is rejected
Revoked(n) ==
    /\ Replicating(n, tgt) /\ tgt \in accepts[n] /\ SentinelAccepts(n, tgt)
    /\ Quorate(n)
    /\ pin[n] = tgt
    /\ cur \notin accepts[n] /\ cur \notin sent[n].accepts

Verify ==
    LET n == op.node
    IN \/ /\ Stage("verify", 1)
          /\ IF Revoked(n)
             THEN /\ GoTo(2)
                  /\ UNCHANGED <<planVars, procVars, diskVars, dataVars, sent, faultVars>>
             ELSE Refuse
       \/ /\ Stage("verify", 2)
          /\ journal' = [journal EXCEPT ![n] = None]
          /\ Respond
          /\ UNCHANGED <<procVars, pin, dataVars, sent>>

\* spawn: a tick between operations; a failed call stops it after k commands
ReconcileTick(n) ==
    /\ op.node # n                                 \* ROTATION.try_lock
    /\ RequiresAuth(n) /\ Reaches(n)
    /\ \E k \in 0..3 :
         /\ sent' = [sent EXCEPT ![n] = Repaired(n, k)]
         /\ sent' # sent
         /\ IF k = 3 THEN faults' = faults
                     ELSE faults < MaxFaults /\ faults' = faults + 1
    /\ UNCHANGED <<planVars, op, procVars, diskVars, dataVars, kills, drifts, deaf>>

-----------------------------------------------------------------------------
(***************************************************************************)
(* The supervisor's Sentinel restart and the node's boot.                  *)
(***************************************************************************)

\* Mutant: the rewritten file still has the default user's overlap.
RewrittenKeepingOverlap(n) ==
    IF RequiresAuth(n) THEN [Authed(pin[n]) EXCEPT !.accepts = @ \cup sent[n].accepts]
                       ELSE OpenConf(pin[n])

\* rewrite_sentinel: every credential directive becomes the pin's, and the
\* default user's overlap goes; an open Sentinel stays open
Rewritten(n) == IF RequiresAuth(n) THEN Authed(pin[n]) ELSE OpenConf(pin[n])

\* supervise: Sentinel is stopped, its file rewritten, and started again
StopSentinel(n) ==
    /\ permit[n] /\ SentinelRuns(n)
    /\ permit' = [permit EXCEPT ![n] = FALSE]
    /\ stopped' = [stopped EXCEPT ![n] = TRUE]
    /\ UNCHANGED <<planVars, op, up, boot, adopted, diskVars, dataVars, sent, faultVars>>

StartSentinel(n) ==
    /\ stopped[n]
    /\ stopped' = [stopped EXCEPT ![n] = FALSE]
    /\ sent' = [sent EXCEPT ![n] = Rewritten(n)]
    /\ UNCHANGED <<planVars, op, up, boot, adopted, permit, diskVars, dataVars, faultVars>>

\* adopt_proven_boot_password: the staged target, else the variable, tried on a
\* peer's Sentinel and on the primary it names
Candidate(n) == IF journal[n] # None THEN journal[n] ELSE env
Proven(n) ==
    /\ \E p \in Node \ {n} : SentinelAccepts(p, Candidate(n))
    /\ master # n /\ RedisRuns(master) /\ Candidate(n) \in accepts[master]

\* Mutant: a changed variable is applied without asking the cluster.
BootPasswordsUnproven(n) == {[pass |-> Candidate(n), adopted |-> Candidate(n) # pin[n]]}

\* The probe may be lost; without proof boot_password keeps the pin
BootPasswords(n) ==
    IF pin[n] = None THEN {[pass |-> env, adopted |-> FALSE]}
    ELSE {[pass |-> pin[n], adopted |-> FALSE]}
         \cup {b \in {[pass |-> Candidate(n), adopted |-> TRUE]} :
                 Candidate(n) # pin[n] /\ Proven(n)}

DecidePassword(n) ==
    /\ up[n] = "down"
    /\ \E b \in BootPasswords(n) :
         /\ boot' = [boot EXCEPT ![n] = b.pass]
         /\ adopted' = [adopted EXCEPT ![n] = b.adopted]
    /\ up' = [up EXCEPT ![n] = "decided"]
    /\ UNCHANGED <<planVars, op, permit, stopped, diskVars, dataVars, sent, faultVars>>

\* Mutant: a missing journal is taken for one that names another password.
StagedWithoutJournal(n) == journal[n] # boot[n]

\* staged_config: the overlap is kept while the journal's target is not active
Staged(n) == journal[n] # None /\ journal[n] # boot[n]

\* probe_unauthenticated: an open Sentinel answers without AUTH
AnswersOpen(p) == ~RequiresAuth(p)

\* Mutant: a peer whose probes time out is counted as one that asks for a password.
FirstPostureUnanimous(n, S) ==
    IF \A p \in Node \ {n} : p \in S /\ AnswersOpen(p)
    THEN OpenConf(boot[n]) ELSE Authed(boot[n])

\* aggregate_posture and decide_first_boot_auth over the peers that answered: one open
\* answer wins, and no answer at all means a new cluster, authed by default
FirstPosture(n, S) ==
    IF \E p \in S : AnswersOpen(p) THEN OpenConf(boot[n]) ELSE Authed(boot[n])

\* probe_peers and the file written from it.  Any peer's two probes may time out, and
\* those of every open one: then nothing keeps the joiner from asking for a password.
WriteFirstConf(n) ==
    LET peers == {p \in Node \ {n} : SentinelRuns(p)}
        open  == {p \in peers : AnswersOpen(p)}
    IN \E S \in SUBSET peers :
         /\ sent' = [sent EXCEPT ![n] = FirstPosture(n, S)]
         /\ IF open # {} /\ open \cap S = {}
            THEN /\ faults < MaxFaults /\ faults' = faults + 1
                 /\ deaf' = deaf \cup {n}
            ELSE UNCHANGED <<faults, deaf>>

\* redis.conf, a first sentinel.conf, and redis-server
StartRedis(n) ==
    /\ up[n] = "decided"
    /\ up' = [up EXCEPT ![n] = "redis"]
    /\ pin' = [pin EXCEPT ![n] = boot[n]]
    /\ accepts' = [accepts EXCEPT ![n] = IF Staged(n) THEN Password ELSE {boot[n]}]
    /\ masterauth' = [masterauth EXCEPT ![n] = IF Staged(n) THEN journal[n] ELSE boot[n]]
    /\ IF HasConf(n) THEN UNCHANGED <<sent, faults, deaf>> ELSE WriteFirstConf(n)
    /\ UNCHANGED <<planVars, op, boot, adopted, permit, stopped, journal, master,
                   linked, kills, drifts>>

\* rewrite_sentinel_password after an adoption, reconcile_sentinel_boot after an
\* interrupted MEMBER
NeedsRewrite(n) == adopted[n] \/ (journal[n] # None /\ pin[n] = journal[n])

BootSentinel(n) ==
    /\ up[n] = "redis"
    /\ up' = [up EXCEPT ![n] = "up"]
    /\ sent' = IF NeedsRewrite(n) THEN [sent EXCEPT ![n] = Rewritten(n)] ELSE sent
    /\ UNCHANGED <<planVars, op, boot, adopted, permit, stopped, diskVars, dataVars,
                   faultVars>>

-----------------------------------------------------------------------------
(***************************************************************************)
(* Redis and Sentinel, as the code relies on them, and the faults.         *)
(***************************************************************************)

\* A replica connects; an established link survives a change of passwords
Link(n) ==
    /\ n # master /\ n \notin linked
    /\ RedisRuns(n) /\ RedisRuns(master) /\ masterauth[n] \in accepts[master]
    /\ linked' = linked \cup {n}
    /\ UNCHANGED <<planVars, op, procVars, diskVars, accepts, masterauth, master, sent,
                   faultVars>>

\* A majority of Sentinels that can vote for each other replaces a dead master
Failover(m) ==
    /\ ~RedisRuns(master) /\ up[m] = "up" /\ Quorate(m)
    /\ master' = m
    /\ linked' = {}
    /\ UNCHANGED <<planVars, op, procVars, diskVars, accepts, masterauth, sent, faultVars>>

\* A container is killed at any point.  While a new member has not joined, one
\* other stays up: a first boot amid a whole-cluster outage is a documented limit.
Kill(n) ==
    /\ kills < MaxKills /\ kills' = kills + 1
    /\ up[n] # "down"
    /\ (\E f \in Fresh : ~HasConf(f)) => \E m \in Node \ {n} : up[m] = "up"
    /\ up' = [up EXCEPT ![n] = "down"]
    /\ permit' = [permit EXCEPT ![n] = FALSE]
    /\ stopped' = [stopped EXCEPT ![n] = FALSE]
    /\ op' = IF op.node = n THEN NoOp ELSE op
    /\ linked' = IF n = master THEN {} ELSE linked \ {n}
    /\ UNCHANGED <<planVars, boot, adopted, diskVars, accepts, masterauth, master, sent,
                   faults, drifts, deaf>>

\* Something writes one of Sentinel's outbound passwords from a stale copy
Drift(n) ==
    /\ drifts < MaxDrifts /\ drifts' = drifts + 1
    /\ SentinelRuns(n) /\ RequiresAuth(n)
    /\ \/ sent' = [sent EXCEPT ![n].pass = Other(@)]
       \/ sent' = [sent EXCEPT ![n].auth = Other(@)]
    /\ UNCHANGED <<planVars, op, procVars, diskVars, dataVars, kills, faults, deaf>>

\* The next rotation goes back to the password before
Compensate ==
    /\ phase = "done" /\ rotations < MaxRotations
    /\ rotations' = rotations + 1
    /\ cur' = tgt
    /\ phase' = "preflight" /\ at' = 1
    /\ UNCHANGED <<env, op, procVars, diskVars, dataVars, sent, faultVars>>

-----------------------------------------------------------------------------
Init ==
    /\ cur = Old /\ phase = "preflight" /\ at = 1 /\ rotations = 1 /\ env = Old
    /\ op = NoOp
    /\ up = [n \in Node |-> IF n \in Fresh THEN "down" ELSE "up"]
    /\ boot = [n \in Node |-> Old]
    /\ adopted = [n \in Node |-> FALSE]
    /\ permit = [n \in Node |-> FALSE]
    /\ stopped = [n \in Node |-> FALSE]
    /\ pin = [n \in Node |-> IF n \in Fresh THEN None ELSE Old]
    /\ journal = [n \in Node |-> None]
    /\ accepts = [n \in Node |-> {Old}]
    /\ masterauth = [n \in Node |-> Old]
    /\ master = 1
    /\ linked = (Node \ {1}) \ Fresh
    /\ \E s \in {Authed(Old), OpenConf(Old)} :
         sent = [n \in Node |-> IF n \in Fresh THEN NoConf ELSE s]
    /\ kills = 0 /\ faults = 0 /\ drifts = 0 /\ deaf = {}

Operate == \/ Begin \/ Preflight \/ PrepareJournal \/ PrepareData \/ PrepareSentinel
           \/ Database \/ MemberData \/ MemberRestart \/ MemberReconcile
           \/ MemberWait \/ Verify

Boots(n) == DecidePassword(n) \/ StartRedis(n) \/ BootSentinel(n)
Supervise(n) == StopSentinel(n) \/ StartSentinel(n)

Next ==
    \/ Operate
    \/ CutOff \/ Compensate
    \/ \E n \in Node : \/ Boots(n) \/ Supervise(n) \/ ReconcileTick(n)
                       \/ Link(n) \/ Failover(n) \/ Kill(n) \/ Drift(n)

\* The control plane retries until the rotation is done; containers are
\* restarted, and the wrapper's tasks and Redis' own are scheduled.  A tick only
\* tries the lock: between two calls of the control plane it finds it free; and
\* the supervisor does not stop Sentinel again each time MEMBER looks at it.
Fairness ==
    /\ WF_vars(Operate \/ Compensate)
    /\ SF_vars(MemberReconcile /\ SentinelRuns(op.node))
    /\ SF_vars(MemberWait /\ JoinedQuorum(op.node))
    /\ WF_vars(\E n \in Node : Boots(n) \/ Supervise(n) \/ Link(n) \/ Failover(n))
    /\ SF_vars(\E n \in Node : ReconcileTick(n) /\ faults' = faults)

Spec == Init /\ [][Next]_vars
FairSpec == Spec /\ Fairness

-----------------------------------------------------------------------------
SentinelConf == [accepts : SUBSET Password, pass : Password \cup {None},
                 auth : Password \cup {None}]

\* Each kind of connection n opens to m is accepted
Interoperates(n, m) ==
    /\ RedisRuns(n) /\ RedisRuns(m) => masterauth[n] \in accepts[m]
    /\ SentinelRuns(n) /\ SentinelRuns(m) => SentinelTalks(n, m)
    /\ SentinelRuns(n) /\ RedisRuns(m) => Monitors(n, m)

\* The members VERIFY has answered for
Verified == IF phase = "done" THEN Node ELSE IF phase = "verify" THEN 1..(at - 1) ELSE {}

Agreed ==
    /\ phase = "done" /\ rotations = MaxRotations
    /\ linked = Node \ {master}
    /\ \A n \in Node : /\ up[n] = "up" /\ journal[n] = None
                       /\ sent[n] = Authed(tgt) /\ masterauth[n] = tgt

\* Types of the variables.
TypeOK ==
    /\ cur \in Password /\ env \in Password
    /\ phase \in DOMAIN PhaseAfter \cup {"done"}
    /\ at \in Node /\ rotations \in Nat
    /\ op \in [node : 0..N, stage : 0..6]
    /\ up \in [Node -> {"down", "decided", "redis", "up"}]
    /\ boot \in [Node -> Password]
    /\ adopted \in [Node -> BOOLEAN]
    /\ permit \in [Node -> BOOLEAN] /\ stopped \in [Node -> BOOLEAN]
    /\ pin \in [Node -> Password \cup {None}]
    /\ journal \in [Node -> Password \cup {None}]
    /\ accepts \in [Node -> SUBSET Password]
    /\ masterauth \in [Node -> Password]
    /\ master \in Node /\ linked \subseteq Node
    /\ sent \in [Node -> SentinelConf]
    /\ kills \in Nat /\ faults \in Nat /\ drifts \in Nat /\ deaf \subseteq Node

\* Once every node is prepared, any connection one member opens to another is
\* accepted, whatever is restarted, killed or retried meanwhile: the overlap
\* covers the whole of MEMBER and VERIFY, and no quorum is lost to a rotation.
OverlapCovers ==
    phase \in {"database", "member", "verify", "done"} /\ drifts = 0
        => \A n, m \in Node : Interoperates(n, m)

\* A member VERIFY has answered for holds the target and nothing else, on its
\* volume and in both its processes, and keeps to it through later restarts.
VerifiedRevoked ==
    \A n \in Verified :
        /\ pin[n] = tgt /\ journal[n] = None
        /\ RedisRuns(n) => accepts[n] = {tgt}
        /\ sent[n].accepts = {tgt}

\* A member that joins gives its Sentinel the posture its peers have, and no rotation,
\* repair, kill or boot ever changes one: a scale-up never creates "a mixed-auth cluster"
\* (sentinel_auth.rs:3), unless a joiner's probes of all the open ones that ran timed out.
PostureUniform ==
    deaf = {} => \A n, m \in Node :
                    HasConf(n) /\ HasConf(m) => (RequiresAuth(n) <=> RequiresAuth(m))

\* Every rotation of a cluster with Sentinel auth ends, through kills, lost
\* answers, timeouts and stale writers, with all members up on the same
\* password, every replica linked and no journal left.
RotationCompletes == (\E n \in Node : RequiresAuth(n)) => <>[]Agreed

=============================================================================

----------------------------- MODULE Switchover -----------------------------
(***************************************************************************)
(* health_server.rs, POST /switchover: a node asked to become the primary  *)
(* biases the one lever an election reads, its own replica-priority, waits *)
(* until its Sentinel has seen the bias, starts an election and restores   *)
(* the priority when the election has settled.  A latch admits one attempt *)
(* at a time; the priority to restore is stashed before it is overwritten, *)
(* because the handler's timeout may drop the attempt at any await.  So    *)
(* may the client, by going away: then the whole handler is dropped, the   *)
(* arm that restores with it.                                              *)
(*                                                                         *)
(* Several nodes may be asked at once.  Sentinel is external: it selects   *)
(* from its cached view of the priorities, the lowest that is not 0, and   *)
(* it may act on a command whose sender has given up on the answer.        *)
(***************************************************************************)
EXTENDS Integers, FiniteSets

CONSTANTS
    Node,          \* the members of the cluster
    First,         \* the primary at the start
    Gated,         \* members whose first full sync is outstanding
    MaxPosts,      \* bound: POST /switchover requests that are admitted
    MaxFaults      \* bound: failed conversations, timeouts, hang-ups and restarts

ASSUME Members == First \in Node /\ Gated \subseteq Node \ {First}
ASSUME Bounds == MaxPosts \in Nat /\ MaxFaults \in Nat

VARIABLES
    \* the health server (AppState)
    latch,     \* switchover_in_flight
    stash,     \* bias_restore, or None
    stage,     \* the await the request is at, or "none"
    taken,     \* the priority a restore has taken from the stash, or None
    \* the local Redis
    prio,      \* replica-priority
    primary,   \* the node that is master
    \* the local Sentinel
    seen,      \* the priorities it has cached: seen[s][n]
    named,     \* the master it names
    electing,  \* a failover it leads is in progress
    \* history
    synced,    \* the nodes that hold the dataset
    asked,     \* the nodes a request was admitted at
    lost,      \* how the restore of each node's priority was lost since it started
    posts, faults

serverVars   == <<latch, stash, stage, taken>>
redisVars    == <<prio, primary, synced>>
sentinelVars == <<seen, named, electing>>
historyVars  == <<asked, lost, posts, faults>>
vars == <<serverVars, redisVars, sentinelVars, historyVars>>

None == -1
Bias == 1          \* PROMOTE_PRIORITY
Default == 100     \* DEFAULT_REPLICA_PRIORITY, and sync_gate's UNGATED_PRIORITY

\* The stages the handler runs under SWITCHOVER_TIMEOUT, and all of its stages: the
\* settle watch and its restore are a task of their own
UnderTimeout == {"check", "read", "set", "wait", "failover", "unbias"}
Handling == UnderTimeout \cup {"restore"}
Stages == Handling \cup {"none", "settle", "unsettle"}
Restoring == {"unbias", "restore", "unsettle"}

Fault == faults < MaxFaults /\ faults' = faults + 1
NoFault == UNCHANGED faults

\* A restore of n's priority is lost in this way
Loses(n, how) == lost' = [lost EXCEPT ![n] = @ \cup {how}]
NothingLost == UNCHANGED lost

-----------------------------------------------------------------------------
(***************************************************************************)
(* Ways out of an attempt.  restore_bias takes the stash under its lock,   *)
(* so that exactly one restorer wins, and then speaks to Redis.            *)
(***************************************************************************)
Goto(n, s) == stage' = [stage EXCEPT ![n] = s] /\ UNCHANGED <<latch, stash, taken>>

Restore(n, s) ==
    /\ stage' = [stage EXCEPT ![n] = s]
    /\ taken' = [taken EXCEPT ![n] = stash[n]]
    /\ stash' = [stash EXCEPT ![n] = None]
    /\ UNCHANGED latch

\* Mutant: the end of the request forgets the latch.
LeaveLatched(n) ==
    /\ stage' = [stage EXCEPT ![n] = "none"]
    /\ taken' = [taken EXCEPT ![n] = None]
    /\ UNCHANGED <<latch, stash>>

\* The request is over: the latch is released
Leave(n) ==
    /\ stage' = [stage EXCEPT ![n] = "none"]
    /\ taken' = [taken EXCEPT ![n] = None]
    /\ latch' = [latch EXCEPT ![n] = FALSE]
    /\ UNCHANGED stash

\* Mutant: a timed-out request is answered without a restore.
TimeoutArmForgets(n) == Leave(n)

\* The handler's arm for a dropped attempt
TimeoutArm(n) == Restore(n, "restore")

-----------------------------------------------------------------------------
(***************************************************************************)
(* The request: switchover, initiate_switchover, spawn_settle_watch.       *)
(***************************************************************************)

\* Admitted, or answered 409 with no effect
Post(n) ==
    /\ posts < MaxPosts
    /\ ~latch[n]
    /\ posts' = posts + 1
    /\ asked' = asked \cup {n}
    /\ latch' = [latch EXCEPT ![n] = TRUE]
    /\ stage' = [stage EXCEPT ![n] = "check"]
    /\ UNCHANGED <<stash, taken, redisVars, sentinelVars, lost, faults>>

\* is_sentinel_confirmed_master
Confirmed(n) == primary = n /\ named[n] = n

\* 200 if it is; a check that gets no answer counts as a no
Check(n) ==
    /\ stage[n] = "check"
    /\ \/ Confirmed(n) /\ Leave(n) /\ NoFault
       \/ ~Confirmed(n) /\ Goto(n, "read") /\ NoFault
       \/ Confirmed(n) /\ Goto(n, "read") /\ Fault
    /\ UNCHANGED <<redisVars, sentinelVars, asked, lost, posts>>

\* Mutant: the gated priority is not refused.
NothingBlocks(p) == FALSE

\* sync_gate.rs
BlocksSwitchover(p) == p = 0

\* CONFIG GET; a gated node refuses; the stash comes before the overwrite
ReadPriority(n) ==
    /\ stage[n] = "read"
    /\ IF BlocksSwitchover(prio[n])
       THEN Restore(n, "restore")
       ELSE /\ stash' = [stash EXCEPT ![n] = prio[n]]
            /\ stage' = [stage EXCEPT ![n] = "set"]
            /\ UNCHANGED <<latch, taken>>
    /\ UNCHANGED <<redisVars, sentinelVars, historyVars>>

SetBias(n) ==
    /\ stage[n] = "set"
    /\ prio' = [prio EXCEPT ![n] = Bias]
    /\ Goto(n, "wait")
    /\ UNCHANGED <<primary, synced, sentinelVars, historyVars>>

\* Mutant: the election does not wait for the Sentinel's cache.
VisibleAtOnce(n) == TRUE

\* observed_priority_for_host: the local Sentinel lists this node among the
\* replicas of the master it names, with the bias in its cache
BiasVisible(n) == named[n] # n /\ seen[n][n] = Bias

\* wait_for_bias_visible
SeeBias(n) ==
    /\ stage[n] = "wait"
    /\ BiasVisible(n)
    /\ Goto(n, "failover")
    /\ UNCHANGED <<redisVars, sentinelVars, historyVars>>

\* BIAS_VISIBILITY_TIMEOUT: the attempt restores on its own way out
WaitExpires(n) ==
    /\ stage[n] = "wait"
    /\ Restore(n, "unbias")
    /\ UNCHANGED <<redisVars, sentinelVars, historyVars>>

\* SENTINEL FAILOVER, accepted; the settle watch takes over
AskFailover(n) ==
    /\ stage[n] = "failover"
    /\ ~electing[n]
    /\ electing' = [electing EXCEPT ![n] = TRUE]
    /\ Goto(n, "settle")
    /\ UNCHANGED <<redisVars, seen, named, historyVars>>

\* -INPROG, -NOGOODSLAVE, or the Sentinel unreachable
FailoverRefused(n) ==
    /\ stage[n] = "failover"
    /\ \/ electing[n] /\ NoFault
       \/ Fault
    /\ Restore(n, "unbias")
    /\ UNCHANGED <<redisVars, sentinelVars, asked, lost, posts>>

\* What a command without an answer may have done all the same
MayHaveSet(n) ==
    {prio} \cup {[prio EXCEPT ![n] = p] : p \in
        CASE stage[n] = "set"                             -> {Bias}
          [] stage[n] \in Restoring /\ taken[n] # None    -> {taken[n]}
          [] OTHER                                        -> {}}

\* Nor an answer to SENTINEL FAILOVER
MayHaveAsked(n) ==
    {electing} \cup (IF stage[n] = "failover" THEN {[electing EXCEPT ![n] = TRUE]} ELSE {})

\* A CONFIG fails: Redis unreachable, or the connection lost
RedisFails(n) ==
    /\ stage[n] \in {"read", "set"}
    /\ Fault
    /\ prio' \in MayHaveSet(n)
    /\ Restore(n, "restore")
    /\ UNCHANGED <<primary, synced, sentinelVars, asked, lost, posts>>

\* spawn_settle_watch: the node has become primary, or SETTLE_TIMEOUT passed
Settle(n) ==
    /\ stage[n] = "settle"
    /\ Restore(n, "unsettle")
    /\ UNCHANGED <<redisVars, sentinelVars, historyVars>>

\* restore_priority, and the end of the request
PutBack(n) ==
    /\ stage[n] \in Restoring
    /\ prio' = [prio EXCEPT ![n] = IF taken[n] = None THEN @ ELSE taken[n]]
    /\ Leave(n)
    /\ UNCHANGED <<primary, synced, sentinelVars, historyVars>>

\* It only warns of a CONFIG SET that fails; what it took is gone
RestoreRefused(n) ==
    /\ stage[n] \in Restoring /\ taken[n] # None
    /\ Fault
    /\ prio' \in MayHaveSet(n)
    /\ Loses(n, "refused")
    /\ Leave(n)
    /\ UNCHANGED <<primary, synced, sentinelVars, asked, posts>>

\* SWITCHOVER_TIMEOUT drops the attempt wherever it is; the command in flight
\* may have had its effect.  The timeout arm then restores, unless the attempt
\* had taken the stash itself and was about to.
TimesOut(n) ==
    /\ stage[n] \in UnderTimeout
    /\ Fault
    /\ prio' \in MayHaveSet(n)
    /\ electing' \in MayHaveAsked(n)
    /\ IF stage[n] = "unbias" /\ taken[n] # None THEN Loses(n, "dropped") ELSE NothingLost
    /\ TimeoutArm(n)
    /\ UNCHANGED <<primary, synced, seen, named, asked, posts>>

\* The client goes away and axum::serve drops the handler with the connection:
\* no arm runs, the latch stays held and the stash, if it is not taken, unused.
HangUp(n) ==
    /\ stage[n] \in Handling
    /\ Fault
    /\ prio' \in MayHaveSet(n)
    /\ electing' \in MayHaveAsked(n)
    /\ stage' = [stage EXCEPT ![n] = "none"]
    /\ taken' = [taken EXCEPT ![n] = None]
    /\ Loses(n, "deserted")
    /\ UNCHANGED <<latch, stash, primary, synced, seen, named, asked, posts>>

\* The container restarts: AppState is new, redis.conf is regenerated
Restart(n) ==
    /\ Fault
    /\ latch' = [latch EXCEPT ![n] = FALSE]
    /\ stash' = [stash EXCEPT ![n] = None]
    /\ stage' = [stage EXCEPT ![n] = "none"]
    /\ taken' = [taken EXCEPT ![n] = None]
    /\ prio'  = [prio EXCEPT ![n] = IF n \in synced THEN Default ELSE 0]
    /\ electing' = [electing EXCEPT ![n] = FALSE]
    /\ lost' = [lost EXCEPT ![n] = {}]
    /\ UNCHANGED <<primary, synced, seen, named, asked, posts>>

\* sync_gate::run lifts the gate of a node whose first sync has completed
Lift(n) ==
    /\ prio[n] = 0
    /\ prio'   = [prio EXCEPT ![n] = Default]
    /\ synced' = synced \cup {n}
    /\ UNCHANGED <<serverVars, primary, sentinelVars, historyVars>>

-----------------------------------------------------------------------------
(***************************************************************************)
(* External: Sentinel.                                                     *)
(***************************************************************************)
Refresh(s, n) ==
    /\ seen[s][n] # prio[n]
    /\ seen' = [seen EXCEPT ![s][n] = prio[n]]
    /\ UNCHANGED <<serverVars, redisVars, named, electing, historyVars>>

\* The failover selects among the replicas it knows, lowest priority first
Candidates(s) ==
    LET eligible == {n \in Node \ {named[s]} : seen[s][n] > 0}
    IN {n \in eligible : \A m \in eligible : seen[s][n] <= seen[s][m]}

Elect(s) ==
    /\ electing[s]
    /\ electing' = [electing EXCEPT ![s] = FALSE]
    /\ IF Candidates(s) = {} THEN UNCHANGED <<primary, named>>
       ELSE \E n \in Candidates(s) :
                primary' = n /\ named' = [named EXCEPT ![s] = n]
    /\ UNCHANGED <<serverVars, prio, synced, seen, historyVars>>

\* Hello gossip of a newer configuration ends a failover of its own
Learn(s) ==
    /\ named[s] # primary
    /\ named' = [named EXCEPT ![s] = primary]
    /\ electing' = [electing EXCEPT ![s] = FALSE]
    /\ UNCHANGED <<serverVars, redisVars, seen, historyVars>>

-----------------------------------------------------------------------------
Init ==
    /\ latch = [n \in Node |-> FALSE]
    /\ stash = [n \in Node |-> None]
    /\ stage = [n \in Node |-> "none"]
    /\ taken = [n \in Node |-> None]
    /\ prio  = [n \in Node |-> IF n \in Gated THEN 0 ELSE Default]
    /\ primary = First
    /\ seen  = [s \in Node |-> prio]
    /\ named = [s \in Node |-> First]
    /\ electing = [s \in Node |-> FALSE]
    /\ synced = Node \ Gated
    /\ asked = {} /\ lost = [n \in Node |-> {}] /\ posts = 0 /\ faults = 0

Attempt(n) ==
    \/ Check(n) \/ ReadPriority(n) \/ SetBias(n) \/ SeeBias(n) \/ WaitExpires(n)
    \/ AskFailover(n) \/ FailoverRefused(n) \/ Settle(n) \/ PutBack(n)

Interruption(n) ==
    \/ RedisFails(n) \/ RestoreRefused(n)
    \/ TimesOut(n) \/ HangUp(n) \/ Restart(n)

Sentinel(s) == Elect(s) \/ Learn(s) \/ \E n \in Node : Refresh(s, n)

Next ==
    \E n \in Node : Post(n) \/ Attempt(n) \/ Interruption(n) \/ Lift(n) \/ Sentinel(n)

Spec == Init /\ [][Next]_vars

\* A request that has been admitted goes on while its client stays: every await ends
\* in an answer, an error or a deadline.  HangUp is outside the fairness and may end
\* the handler at any of them.  Nothing is asked of Sentinel.
FairSpec == Spec /\ \A n \in Node : WF_vars(Attempt(n))

-----------------------------------------------------------------------------
\* Every variable keeps its type.
Priority == {0, Bias, Default}

TypeOK ==
    /\ latch \in [Node -> BOOLEAN] /\ stage \in [Node -> Stages]
    /\ stash \in [Node -> {None, Bias, Default}]
    /\ taken \in [Node -> {None, Bias, Default}]
    /\ prio \in [Node -> Priority] /\ primary \in Node /\ synced \in SUBSET Node
    /\ seen \in [Node -> [Node -> Priority]] /\ named \in [Node -> Node]
    /\ electing \in [Node -> BOOLEAN]
    /\ asked \in SUBSET Node /\ lost \in [Node -> SUBSET {"refused", "dropped", "deserted"}]
    /\ posts \in 0..MaxPosts /\ faults \in 0..MaxFaults

\* A node that carries the election bias has an attempt, a settle watch or a restore
\* that will take it away, whatever times out, fails or races at any await, and
\* whatever a command without an answer has done; except where a restore itself was
\* lost: Redis refused it, the timeout dropped it, or the client hung up.
BiasOwned == \A n \in Node : prio[n] = Bias => stage[n] # "none" \/ lost[n] # {}

\* The code's own claim, and it makes no exception of a restore that the timeout
\* drops: "every path out of a switchover ... restores it exactly once; no path can
\* leave the election bias behind" (health_server.rs:53-56), Redis permitting.
NoBiasLeftBehind ==
    \A n \in Node : ~latch[n] /\ "refused" \notin lost[n] => prio[n] # Bias

\* Neither the bias nor a restore ever makes a node promotable whose first
\* full sync is outstanding (health_server.rs, "the wipe the gate exists to
\* prevent").
GatedStaysOut == \A n \in Node : prio[n] # 0 => n \in synced

\* While the attempt that asked for it is settling, an election that the local
\* Sentinel leads away from another node promotes a node that a switchover asked
\* for: it never "races the refresh" of the candidate cache, not even against
\* another node's attempt (health_server.rs, wait_for_bias_visible).
ElectsAsked ==
    [][\A s \in Node :
          electing[s] /\ stage[s] = "settle" /\ named[s] # s /\ primary' # primary
            /\ ~electing'[s] => primary' \in asked]_vars

\* Every admitted request releases the latch, whatever fails or times out on its way,
\* so that "a failed election can't leave ... a wedged latch behind" (health_server.rs,
\* spawn_settle_watch): once the requests have stopped no node stays latched, unless
\* a client hung up on it, after which every request gets 409 until a restart.
LatchReleased == <>[](\A n \in Node : latch[n] => "deserted" \in lost[n])

=============================================================================

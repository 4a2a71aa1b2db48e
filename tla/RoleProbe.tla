----------------------------- MODULE RoleProbe ------------------------------
(***************************************************************************)
(* GET /role of one node (health_server.rs): concurrent probes that ask    *)
(* redis and the local Sentinel, the confirmation they share, the grace for*)
(* a Sentinel that does not answer and the fence that ends it, while the   *)
(* node is cut off from its peers, replaced by them and reconfigured.      *)
(*                                                                         *)
(* redis-server, Sentinel and the peers are external; of HAProxy only that *)
(* it probes, and may give a probe up.  A tick is the budget of a probe: it*)
(* ends no later than in the tick after the one it began in.               *)
(***************************************************************************)
EXTENDS Integers

CONSTANTS
    Probe,       \* probes that may be in flight together
    Grace,       \* ROLE_SENTINEL_GRACE_SECONDS, in ticks
    MaxLag,      \* min-replicas-max-lag, in ticks
    Threshold,   \* min-replicas-to-write
    MaxEvents    \* bound: stalls, partitions, failovers, kills, lost probes

ASSUME TimeAssumption == Grace \in Nat /\ MaxLag \in Nat
ASSUME FenceAssumption == Threshold \in 0..1 /\ MaxEvents \in Nat

VARIABLES
    \* the node's redis-server, and one replica of it
    master,     \* it reports role:master
    lag,        \* ticks since the replica last acknowledged
    \* the local Sentinel
    names,      \* "self" or "other"
    mute,       \* it does not answer
    \* the rest of the cluster
    cut,        \* the node is cut off from its peers
    replaced,   \* they have promoted another node
    \* the wrapper
    confirmed,  \* sentinel_confirmed_at: ticks since, or None
    conns,      \* the cached connections: "none", "live", "dead" or "stuck"
    probe,      \* each probe in flight
    \* history
    vouched,    \* ticks since Sentinel last named this node, or None
    healthy,    \* ticks since the node was last anything but an acknowledged
                \* master its Sentinel names
    reply,      \* what this step answered a probe, or "nothing"
    events

worldVars == <<master, lag, names, mute, cut, replaced>>
sharedVars == <<confirmed, conns>>
vars == <<worldVars, sharedVars, probe, vouched, healthy, reply, events>>

None == -1
Slot == {"redis", "sentinel"}
Idle == [at |-> "idle"]

\* A counter of ticks stops at its bound
Later(t, bound) == IF t \in {None, bound} THEN t ELSE t + 1
LongLag == MaxLag + 2
LongConfirmed == Grace + 1
LongVouched == Grace + 3
LongHealthy == 2

\* good_replicas counts a replica while its lag is within min-replicas-max-lag
Good(l) == IF l <= MaxLag THEN 1 ELSE 0
Acknowledged == master /\ Good(lag) >= Threshold

Event == events < MaxEvents /\ events' = events + 1

-----------------------------------------------------------------------------
(***************************************************************************)
(* One probe.                                                              *)
(***************************************************************************)

\* Mutant: a cached connection that has died is an endpoint that has.
ReachedOnce(slot) == conns[slot] # "dead"

\* query_cached: one retry on a fresh connection, which the dead one's error made
Reached(slot) == TRUE

Dropped(slot) == [conns EXCEPT ![slot] = "none"]
Opened(slot) == [conns EXCEPT ![slot] = "live"]

Answer(p, said) ==
    /\ probe' = [probe EXCEPT ![p] = Idle]
    /\ reply' = said

GoesOn(p, state) ==
    /\ probe' = [probe EXCEPT ![p] = state]
    /\ reply' = "nothing"

\* INFO replication.  A replica's 503 says so; a master's view is kept
View(p) ==
    /\ probe[p] = Idle
    /\ IF ~Reached("redis") THEN Answer(p, "unknown") /\ conns' = Dropped("redis")
       ELSE /\ conns' = Opened("redis")
            /\ IF master THEN GoesOn(p, [at |-> "viewed", good |-> Good(lag), age |-> 0])
                         ELSE Answer(p, "replica")
    /\ UNCHANGED <<worldVars, confirmed, vouched, healthy, events>>

\* LOCAL_REDIS_BUDGET runs out
ViewTimesOut(p) ==
    /\ probe[p] = Idle /\ Event
    /\ conns' = Dropped("redis")
    /\ Answer(p, "timeout")
    /\ UNCHANGED <<worldVars, confirmed, vouched, healthy>>

\* get-master-addr-by-name is answered, or SENTINEL_BUDGET runs out
Ask(p) ==
    /\ probe[p].at = "viewed"
    /\ LET answers == ~mute /\ conns["sentinel"] # "stuck" /\ Reached("sentinel")
       IN /\ GoesOn(p, [at |-> "answered", verdict |-> IF answers THEN names ELSE "none",
                        good |-> probe[p].good, age |-> probe[p].age])
          /\ IF answers
             THEN /\ conns' = Opened("sentinel")
                  /\ vouched' = IF names = "self" THEN 0 ELSE vouched
             ELSE UNCHANGED <<conns, vouched>>
    /\ UNCHANGED <<worldVars, confirmed, healthy, events>>

Confirms(p) ==
    /\ probe[p].at = "answered" /\ probe[p].verdict = "self"
    /\ confirmed' = 0
    /\ Answer(p, "primary")
    /\ UNCHANGED <<worldVars, conns, vouched, healthy, events>>

\* A demotion leaves nothing for the grace to extend
NamesOther(p) ==
    /\ probe[p].at = "answered" /\ probe[p].verdict = "other"
    /\ confirmed' = None
    /\ Answer(p, "fenced")
    /\ UNCHANGED <<worldVars, conns, vouched, healthy, events>>

\* Mutant: the connection that gave no answer is asked again.
Kept(slot) == conns

\* The cached connection may be what is stuck
LetGo(slot) == Dropped(slot)

\* The confirmation is read; the fence is still to be asked
NoAnswer(p) ==
    /\ probe[p].at = "answered" /\ probe[p].verdict = "none"
    /\ conns' = LetGo("sentinel")
    /\ GoesOn(p, [at |-> "fence", ago |-> confirmed,
                  good |-> probe[p].good, age |-> probe[p].age])
    /\ UNCHANGED <<worldVars, confirmed, vouched, healthy, events>>

\* Mutant: a threshold that could not be read is no threshold.
AcceptsWritesUnread(good, read) == ~read \/ Threshold = 0 \/ good >= Threshold

\* redis_accepts_writes, by the threshold read now and the replicas viewed before
AcceptsWrites(good, read) == read /\ (Threshold = 0 \/ good >= Threshold)

\* Mutant: any confirmation will do.
KeepsRoutingForever(ago, accepts) == Grace > 0 /\ ago # None /\ accepts

\* silent_sentinel_decision
KeepsRouting(ago, accepts) == Grace > 0 /\ ago # None /\ ago <= Grace /\ accepts

\* CONFIG GET min-replicas-to-write, or its failure
Decide(p) ==
    /\ probe[p].at = "fence"
    /\ \E read \in BOOLEAN :
         /\ IF read THEN UNCHANGED events ELSE Event
         /\ conns' = IF read THEN Opened("redis") ELSE Dropped("redis")
         /\ Answer(p, IF KeepsRouting(probe[p].ago, AcceptsWrites(probe[p].good, read))
                      THEN "sheltered" ELSE IF read THEN "fenced" ELSE "unread")
    /\ UNCHANGED <<worldVars, confirmed, vouched, healthy>>

\* HAProxy's timeout check: the request is dropped where it stands
GivenUp(p) ==
    /\ probe[p] # Idle /\ Event
    /\ GoesOn(p, Idle)
    /\ UNCHANGED <<worldVars, sharedVars, vouched, healthy>>

\* GET /health: PING over the same connection, which no answer drops
Health ==
    /\ \/ conns' = Opened("redis") /\ UNCHANGED events
       \/ conns' = Dropped("redis") /\ Event
    /\ reply' = "nothing"
    /\ UNCHANGED <<worldVars, confirmed, probe, vouched, healthy>>

-----------------------------------------------------------------------------
(***************************************************************************)
(* The world.                                                              *)
(***************************************************************************)
World ==
    /\ reply' = "nothing"
    /\ healthy' = IF Acknowledged /\ names = "self" /\ ~replaced THEN healthy ELSE 0
    /\ UNCHANGED <<confirmed, probe, vouched>>

\* Sentinel stalls in a lookup, in TILT or in its own restart, and answers again,
\* which a connection may survive or not
Stall ==
    /\ Event /\ ~mute /\ mute' = TRUE
    /\ \E c \in IF conns["sentinel"] = "live" THEN {"live", "dead", "stuck"}
                                              ELSE {conns["sentinel"]} :
         conns' = [conns EXCEPT !["sentinel"] = c]
    /\ World /\ UNCHANGED <<master, lag, names, cut, replaced>>

StallEnds ==
    /\ mute /\ mute' = FALSE
    /\ World /\ UNCHANGED <<master, lag, names, cut, replaced, conns, events>>

\* The node and its Sentinel lose the others, but not HAProxy
Partition ==
    /\ Event /\ ~cut /\ cut' = TRUE
    /\ World /\ UNCHANGED <<master, lag, names, mute, replaced, conns>>

PartitionHeals ==
    /\ cut /\ cut' = FALSE
    /\ World /\ UNCHANGED <<master, lag, names, mute, replaced, conns, events>>

\* The others elect another master, and the replica follows it
Replace ==
    /\ Event /\ ~replaced /\ replaced' = TRUE
    /\ World /\ UNCHANGED <<master, lag, names, mute, cut, conns>>

\* The local Sentinel learns of the new epoch
Learn ==
    /\ replaced /\ ~cut /\ ~mute /\ names = "self" /\ names' = "other"
    /\ World /\ UNCHANGED <<master, lag, mute, cut, replaced, conns, events>>

\* The winning Sentinel, or the local one, sends REPLICAOF, which closes the
\* clients' connections
Reconfigure ==
    /\ replaced /\ ~cut /\ master /\ master' = FALSE
    /\ conns' = [conns EXCEPT !["redis"] = IF @ = "live" THEN "dead" ELSE @]
    /\ World /\ UNCHANGED <<lag, names, mute, cut, replaced, events>>

\* CLIENT KILL TYPE normal, or a server that closed an idle connection
Kill(slot) ==
    /\ Event /\ conns[slot] = "live" /\ conns' = [conns EXCEPT ![slot] = "dead"]
    /\ World /\ UNCHANGED worldVars

Tick ==
    /\ \A p \in Probe : probe[p] # Idle => probe[p].age = 0
    /\ lag' = IF cut \/ replaced THEN Later(lag, LongLag) ELSE 0
    /\ confirmed' = Later(confirmed, LongConfirmed) /\ vouched' = Later(vouched, LongVouched)
    /\ healthy' = IF master /\ Good(lag') >= Threshold /\ names = "self" /\ ~replaced
                  THEN Later(healthy, LongHealthy) ELSE 0
    /\ probe' = [p \in Probe |-> IF probe[p] = Idle THEN Idle
                                 ELSE [probe[p] EXCEPT !.age = 1]]
    /\ reply' = "nothing"
    /\ UNCHANGED <<master, names, mute, cut, replaced, conns, events>>

Init ==
    /\ master = TRUE /\ lag = 0
    /\ names = "self" /\ mute \in BOOLEAN
    /\ cut = FALSE /\ replaced = FALSE
    /\ confirmed = None /\ conns = [slot \in Slot |-> "none"]
    /\ probe = [p \in Probe |-> Idle]
    /\ vouched = None /\ healthy = 0 /\ reply = "nothing"
    /\ events = 0

Progress(p) == View(p) \/ Ask(p) \/ Confirms(p) \/ NamesOther(p) \/ NoAnswer(p) \/ Decide(p)

Next ==
    \/ \E p \in Probe : Progress(p) \/ ViewTimesOut(p) \/ GivenUp(p)
    \/ Health
    \/ Stall \/ StallEnds \/ Partition \/ PartitionHeals
    \/ Replace \/ Learn \/ Reconfigure
    \/ \E slot \in Slot : Kill(slot)
    \/ Tick

\* HAProxy goes on probing, partitions and stalls end, Sentinel does its part
Fairness ==
    /\ \A p \in Probe : WF_vars(Progress(p))
    /\ WF_vars(Tick) /\ WF_vars(StallEnds) /\ WF_vars(PartitionHeals)
    /\ WF_vars(Learn) /\ WF_vars(Reconfigure)

Spec == Init /\ [][Next]_vars
FairSpec == Spec /\ Fairness

-----------------------------------------------------------------------------
\* Types of the variables; no probe outlives the tick after the one it began in.
TypeOK ==
    /\ master \in BOOLEAN /\ lag \in 0..LongLag
    /\ names \in {"self", "other"} /\ mute \in BOOLEAN
    /\ cut \in BOOLEAN /\ replaced \in BOOLEAN
    /\ confirmed \in -1..LongConfirmed
    /\ conns \in [Slot -> {"none", "live", "dead", "stuck"}]
    /\ probe \in [Probe ->
         {Idle}
         \cup [at : {"viewed"}, good : 0..1, age : 0..1]
         \cup [at : {"answered"}, verdict : {"self", "other", "none"}, good : 0..1, age : 0..1]
         \cup [at : {"fence"}, ago : -1..LongConfirmed, good : 0..1, age : 0..1]]
    /\ vouched \in -1..LongVouched
    /\ healthy \in 0..LongHealthy
    /\ reply \in {"nothing", "unknown", "timeout", "replica", "primary", "sheltered",
                  "fenced", "unread"}
    /\ events \in Nat

\* A node cut off or replaced is not kept in rotation through the silence of its
\* Sentinel for longer than the lag its fence allows, and one probe.
ShelterIsWritable == reply = "sheltered" /\ Threshold = 1 => lag <= MaxLag + 1

\* Silence shelters a primary for the grace, and the probe that recorded it and the
\* one that reads it, whatever other probes write to the confirmation meanwhile.
ShelterEnds == reply = "sheltered" => vouched # None /\ vouched <= Grace + 2

\* No probe of a primary that is acknowledged and was confirmed within the grace is
\* refused, because Sentinel stalls or because a cached connection died.
StallRidden ==
    reply \in {"unknown", "replica", "fenced"} => healthy < LongHealthy \/ confirmed \notin 2..Grace

\* A primary that stays one is advertised again after every stall, and one that was
\* replaced is not.
SettlesOnTheTruth ==
    <>[](reply \in IF replaced THEN {"nothing", "replica", "fenced"} ELSE {"nothing", "primary"})
=============================================================================

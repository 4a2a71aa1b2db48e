---------------------------- MODULE ClusterBoot ----------------------------
(***************************************************************************)
(* How a node of the Redis HA template chooses the role it boots in, and   *)
(* why an empty node neither becomes master nor becomes promotable:        *)
(* boot_role.rs (role resolution and the empty-primary guard),             *)
(* sync_gate.rs (the priority-0 gate of a first full sync), and the boot   *)
(* order of bin/redis_wrapper.rs that ties them together.                  *)
(*                                                                         *)
(* Every node runs a wrapper, a redis-server and a co-located Sentinel.    *)
(* Redis replication and Sentinel's failover are external programs: they   *)
(* appear here only through what the code relies on (a replica full-syncs  *)
(* from the node it follows; Sentinel promotes a reachable replica of      *)
(* non-zero priority with a majority, persists the master it believes in,  *)
(* and repoints the others).                                               *)
(***************************************************************************)
EXTENDS Integers, FiniteSets

CONSTANTS
    Node,          \* the members of the cluster
    Primary,       \* the node deployed with an empty REPLICA_OF
    ScaledUp,      \* members added later: the others' SENTINEL_HOSTS lack them
    Ghost,         \* a master address of a dead world, on a reused volume
    Torn,          \* a sentinel.conf without a usable monitor line
    NoState,       \* no sentinel.conf on the volume
    NoMaster,      \* "replicaof no one"
    NoAnswer,      \* no peer Sentinel answered
    InitialConf,   \* what a reused volume may carry at deploy time
    MaxCrashes,    \* bound: containers that stop or die
    MaxWipes,      \* bound: volumes that lose their dataset
    MaxEpoch,      \* bound: Sentinel failovers
    MaxSlips,      \* bound: marker writes that fail, boots no live peer answers
    MaxFaults,     \* bound: crashes, wipes and slips together
    LinkHealOn,    \* FALSE under LINK_HEAL_DISABLED=1
    Overlapping    \* whether a fault may strike before the last one has healed

ASSUME NodeAssumption ==
    /\ IsFiniteSet(Node)
    /\ Primary \in Node
    /\ ScaledUp \subseteq Node \ {Primary}
ASSUME SentinelValues ==
    /\ {Ghost, Torn, NoState, NoMaster, NoAnswer} \cap Node = {}
    /\ Ghost # Torn /\ Ghost # NoState /\ Torn # NoState
    /\ NoAnswer # Ghost
    /\ InitialConf \subseteq {Ghost, Torn, NoState}
ASSUME Bounds ==
    /\ MaxCrashes \in Nat
    /\ MaxWipes \in Nat
    /\ MaxEpoch \in Nat
    /\ MaxSlips \in Nat
    /\ MaxFaults \in Nat
    /\ LinkHealOn \in BOOLEAN
    /\ Overlapping \in BOOLEAN

VARIABLES
    \* the wrapper's boot
    phase,     \* "down" | "resolved" | "configured" | "prepared" | "running"
    boot,      \* the master this boot resolved to (the node itself: master)
    \* the volume
    loadable,  \* Config::holds_redis_dataset: files redis could load
    data,      \* generation of the dataset held, 0 for an empty one
    marker,    \* .sync_gate_pending exists
    conf,      \* the monitor line of sentinel.conf; live while running
    epoch,     \* its config epoch
    \* the running redis-server
    follows,   \* the node it replicates from, or NoMaster
    linked,    \* master_link_status:up
    prio,      \* replica-priority
    gate,      \* the lift watcher: "off", "poll", or the INFO it just read
    seen,      \* the replica-priority Sentinel last read from it, or -1
    \* history
    unsynced,  \* since the volume was new, no full sync and no master role
    unmarked,  \* nodes whose gated boot could not write its marker
    exposed,   \* nodes that were running unmarked, without a full sync, and died
    alone,     \* boots that heard no live peer made a master of a node "holding" a
               \* dataset, or of one without a full sync, "empty"
    crashes, wipes, slips

bootVars   == <<phase, boot>>
volumeVars == <<loadable, data, marker, conf, epoch>>
redisVars  == <<follows, linked, prio, gate, seen>>
pastVars   == <<unsynced, unmarked, exposed, alone>>
faultVars  == <<crashes, wipes, slips>>
vars == <<bootVars, volumeVars, redisVars, pastVars, faultVars>>

MayFault == crashes + wipes + slips < MaxFaults

\* A failure the code only warns of
Slips == MayFault /\ slips < MaxSlips /\ slips' = slips + 1

Running == {n \in Node : phase[n] = "running"}
IsMaster(n) == phase[n] = "running" /\ follows[n] = NoMaster

-----------------------------------------------------------------------------
(***************************************************************************)
(* Role resolution.                                                        *)
(***************************************************************************)

\* declared_hosts: the founding nodes never hear of a scaled-up member
Declared(n) == IF n \in ScaledUp THEN Node ELSE Node \ ScaledUp

\* peer_sentinel_addrs
Peers(n) == Declared(n) \ {n}

\* master_is_declared, or undeclared_master_is_member: an authenticated PING
IsMember(n, m) == m \in Declared(n) \/ m \in Running

\* The sets of peers that may answer the boot query in time: any probe can be
\* lost to its deadline, and all of them to a partition.
Answering(n) == SUBSET (Peers(n) \cap Running)

\* Peers run and none of them is heard: query_peer_sentinels reads a fresh cluster
Unheard(n, S) == S = {} /\ Peers(n) \cap Running # {}

Votes(S, m) == Cardinality({p \in S : conf[p] = m})

\* majority_answer: a tie goes to whichever answer arrived first
MajorityAnswers(S) ==
    IF S = {} THEN {NoAnswer}
    ELSE {m \in {conf[p] : p \in S} :
              \A p \in S : Votes(S, conf[p]) <= Votes(S, m)}

\* resolve_boot_master and classify_local_state: NoState also stands for the
\* files set aside, a torn one and one that names a dead world's master
LocalState(n) ==
    IF conf[n] = n \/ (conf[n] \notin {NoState, Torn} /\ IsMember(n, conf[n]))
    THEN conf[n]
    ELSE NoState

Resolution(m, peersNamedSelf, confNamesSelf) ==
    [master |-> m, peersNamedSelf |-> peersNamedSelf,
     confNamesSelf |-> confNamesSelf]

\* Mutant: a node without state trusts the env topology, never its peers.
ResolveFromEnv(n, local, answer) ==
    IF local \notin {n, NoState} THEN Resolution(local, FALSE, FALSE)
    ELSE IF local = n THEN Resolution(n, FALSE, TRUE)
    ELSE Resolution(Primary, FALSE, FALSE)

\* boot_master_for_this_boot, given the local state and the peers' answer: a
\* vetted answer naming another node decides for a node without state and
\* demotes one whose state names itself (peer_check_self_master); naming this
\* node it confirms the one and is refused by the other, which falls back to
\* the env topology
Resolve(n, local, answer) ==
    LET namesOther == answer \notin {NoAnswer, n} /\ IsMember(n, answer)
    IN IF local \notin {n, NoState} THEN Resolution(local, FALSE, FALSE)
       ELSE IF namesOther           THEN Resolution(answer, FALSE, FALSE)
       ELSE IF local = n            THEN Resolution(n, FALSE, TRUE)
       ELSE                              Resolution(Primary, answer = n, FALSE)

\* Mutant: only the peers' answer refuses, the state that names this node does not.
RefusesByPeersOnly(n, r) == r.peersNamedSelf /\ n = Primary /\ ~loadable[n]

\* decide_empty_primary_boot
Refuses(n, r) ==
    /\ \/ r.peersNamedSelf /\ n = Primary
       \/ r.confNamesSelf /\ Peers(n) # {}
    /\ ~loadable[n]

-----------------------------------------------------------------------------
(***************************************************************************)
(* The wrapper's boot, in main's order.  The peers are asked in one step   *)
(* and the answer is used in later ones.                                   *)
(***************************************************************************)

\* boot_master_for_this_boot, then empty_primary_boot_guard: a refusal exits
\* before anything but the quarantine has touched the volume
ResolveRole(n) ==
    /\ phase[n] = "down"
    /\ \E S \in Answering(n) : \E answer \in MajorityAnswers(S) :
         LET local == LocalState(n)
             r     == Resolve(n, local, answer)
         IN /\ IF Unheard(n, S) THEN Slips ELSE UNCHANGED slips
            /\ conf'  = [conf EXCEPT ![n] = local]
            /\ epoch' = [epoch EXCEPT ![n] = IF local = NoState THEN 0 ELSE @]
            /\ IF Refuses(n, r)
               THEN UNCHANGED <<bootVars, alone>>
               ELSE /\ phase' = [phase EXCEPT ![n] = "resolved"]
                    /\ boot'  = [boot EXCEPT ![n] = r.master]
                    /\ alone' = IF Unheard(n, S) /\ r.master = n
                                THEN alone \cup {IF unsynced[n] THEN "empty" ELSE "holding"}
                                ELSE alone
    /\ UNCHANGED <<loadable, data, marker, redisVars, unsynced, unmarked, exposed,
                   crashes, wipes>>

\* Mutant: the dataset check alone decides, the marker of an unfinished sync is not read.
GatedWithoutMarker(n) == boot[n] # n /\ ~loadable[n]

\* decide_gated, for a Sentinel boot with the gate enabled
Gated(n) == boot[n] # n /\ (~loadable[n] \/ marker[n])

\* generate_redis_conf stamps the priority of the boot
StampedPriority(n) == IF Gated(n) THEN 0 ELSE 100

\* generate_sentinel_conf, written only where there is none
MonitorLine(n) == IF conf[n] = NoState THEN boot[n] ELSE conf[n]

\* redis.conf, then sentinel.conf
WriteConfs(n) ==
    /\ phase[n] = "resolved"
    /\ phase' = [phase EXCEPT ![n] = "configured"]
    /\ conf'  = [conf EXCEPT ![n] = MonitorLine(n)]
    /\ prio'  = [prio EXCEPT ![n] = StampedPriority(n)]
    /\ UNCHANGED <<boot, loadable, data, marker, epoch, follows, linked, gate, seen,
                   pastVars, faultVars>>

\* arm evaluates the gate again and writes the marker, or removes a stale one; a
\* write or a removal that fails is only warned of
LeaveMarker(n) ==
    \/ /\ marker' = [marker EXCEPT ![n] = Gated(n)]
       /\ unmarked' = unmarked \ {n}
       /\ UNCHANGED slips
    \/ /\ marker[n] # Gated(n)
       /\ Slips
       /\ unmarked' = IF Gated(n) THEN unmarked \cup {n} ELSE unmarked
       /\ UNCHANGED marker

\* A master role ends the unsynced state
Arm(n) ==
    /\ phase[n] = "configured"
    /\ phase'    = [phase EXCEPT ![n] = "prepared"]
    /\ LeaveMarker(n)
    /\ unsynced' = [unsynced EXCEPT ![n] = @ /\ boot[n] # n]
    /\ UNCHANGED <<boot, loadable, data, conf, epoch, redisVars, exposed, alone,
                   crashes, wipes>>

\* spawn_redis (which commits an AOF manifest over whatever it holds), the
\* lift watcher of a gated boot, and spawn_sentinel
StartRedis(n) ==
    /\ phase[n] = "prepared"
    /\ phase'    = [phase EXCEPT ![n] = "running"]
    /\ follows'  = [follows EXCEPT ![n] = IF boot[n] = n THEN NoMaster ELSE boot[n]]
    /\ loadable' = [loadable EXCEPT ![n] = TRUE]
    /\ gate'     = [gate EXCEPT ![n] = IF prio[n] = 0 THEN "poll" ELSE "off"]
    /\ UNCHANGED <<boot, data, marker, conf, epoch, linked, prio, seen, pastVars,
                   faultVars>>

-----------------------------------------------------------------------------
(***************************************************************************)
(* sync_gate::run.  INFO replication and CONFIG GET are two round trips;   *)
(* the decision uses both answers.                                         *)
(***************************************************************************)

GateReads == {"slave-up", "slave-down", "master"}

\* parse_role_and_link
RoleAndLink(n) ==
    IF follows[n] = NoMaster THEN "master"
    ELSE IF linked[n] THEN "slave-up" ELSE "slave-down"

ReadInfo(n) ==
    /\ phase[n] = "running"
    /\ gate[n] = "poll"
    /\ gate' = [gate EXCEPT ![n] = RoleAndLink(n)]
    /\ UNCHANGED <<bootVars, volumeVars, follows, linked, prio, seen, pastVars,
                   faultVars>>

\* Mutant: a replica whose link is down has nothing left to lift.
GateStepStopsEarly(n) ==
    IF gate[n] = "slave-up" /\ prio[n] = 0 THEN "Lift" ELSE "Stop"

\* Mutant: the priority is lifted as soon as the node reports itself a replica.
GateStepLiftsEarly(n) ==
    IF gate[n] = "master" \/ prio[n] # 0 THEN "Stop" ELSE "Lift"

\* decide_step, on the INFO just read and the priority read now
GateStep(n) ==
    IF gate[n] = "master" \/ prio[n] # 0 THEN "Stop"
    ELSE IF gate[n] = "slave-up" THEN "Lift" ELSE "Wait"

\* Lift: CONFIG SET 100, then the marker goes.  Stop: only a master drops it.
\* A CONFIG SET that fails is retried from the next poll; a marker that cannot be
\* removed stays.
ActOnInfo(n, setOk) ==
    /\ phase[n] = "running"
    /\ gate[n] \in GateReads
    /\ LET lift == GateStep(n) = "Lift" /\ setOk
           done == lift \/ GateStep(n) = "Stop"
           clear == marker[n] /\ (lift \/ (done /\ gate[n] = "master"))
       IN /\ prio' = [prio EXCEPT ![n] = IF lift THEN 100 ELSE @]
          /\ \/ marker' = [marker EXCEPT ![n] = @ /\ ~clear] /\ UNCHANGED slips
             \/ clear /\ Slips /\ UNCHANGED marker
          /\ gate' = [gate EXCEPT ![n] = IF done THEN "off" ELSE "poll"]
    /\ UNCHANGED <<bootVars, loadable, data, conf, epoch, follows, linked, seen,
                   pastVars, crashes, wipes>>

-----------------------------------------------------------------------------
(***************************************************************************)
(* External: Redis replication.                                            *)
(***************************************************************************)

\* The replica's full sync completes: its dataset is now its master's.
FullSync(n) ==
    /\ phase[n] = "running"
    /\ follows[n] \in Node
    /\ IsMaster(follows[n])
    /\ ~linked[n]
    /\ linked'   = [linked EXCEPT ![n] = TRUE]
    /\ data'     = [data EXCEPT ![n] = data[follows[n]]]
    /\ unsynced' = [unsynced EXCEPT ![n] = FALSE]
    /\ UNCHANGED <<bootVars, loadable, marker, conf, epoch, follows, prio, gate,
                   seen, unmarked, exposed, alone, faultVars>>

-----------------------------------------------------------------------------
(***************************************************************************)
(* External: Sentinel.                                                     *)
(***************************************************************************)

\* INFO refresh of a replica: what the candidate filter knows of its priority
RefreshInfo(n) ==
    /\ phase[n] = "running"
    /\ seen' = [seen EXCEPT ![n] = prio[n]]
    /\ seen[n] # prio[n]
    /\ UNCHANGED <<bootVars, volumeVars, follows, linked, prio, gate, pastVars,
                   faultVars>>

\* Hello messages: the higher config epoch wins and is persisted
CanGossip(s, t) == {s, t} \subseteq Running /\ epoch[t] > epoch[s]

Gossip(s, t) ==
    /\ CanGossip(s, t)
    /\ conf'  = [conf EXCEPT ![s] = conf[t]]
    /\ epoch' = [epoch EXCEPT ![s] = epoch[t]]
    /\ UNCHANGED <<bootVars, loadable, data, marker, redisVars, pastVars, faultVars>>

\* A majority of the Sentinels monitor the same master and see it down, or
\* reporting the role of a replica; the candidate has fresh INFO and a
\* priority other than 0, and may hold the role of a master already.
Supporters(s) == {t \in Running : conf[t] = conf[s]}

CanFailover(s, c) ==
    /\ {s, c} \subseteq Running
    /\ c # conf[s] /\ ~(conf[s] \in Node /\ IsMaster(conf[s]))
    /\ 2 * Cardinality(Supporters(s)) > Cardinality(Node)
    /\ seen[c] > 0

IsNextEpoch(e) ==
    /\ \E t \in Node : e = epoch[t] + 1
    /\ \A t \in Node : epoch[t] < e

\* What the promoted node accepts from then on is a new generation of what it has.
Failover(s, c) ==
    /\ CanFailover(s, c)
    /\ \E e \in 1..MaxEpoch :
         /\ IsNextEpoch(e)
         /\ conf'  = [t \in Node |-> IF t \in Supporters(s) THEN c ELSE conf[t]]
         /\ epoch' = [t \in Node |-> IF t \in Supporters(s) THEN e ELSE epoch[t]]
         /\ data'  = [data EXCEPT ![c] = IF @ = 0 THEN 0 ELSE e + 1]
    /\ follows'  = [follows EXCEPT ![c] = NoMaster]
    /\ linked'   = [linked EXCEPT ![c] = FALSE]
    /\ unsynced' = [unsynced EXCEPT ![c] = FALSE]
    /\ UNCHANGED <<bootVars, loadable, marker, prio, gate, seen, unmarked, exposed,
                   alone, faultVars>>

\* +convert-to-slave and +fix-slave-config, by a Sentinel no peer's epoch
\* outranks, towards a master that reports itself one
CanRepoint(s, n) ==
    /\ {s, n} \subseteq Running
    /\ conf[s] \in Node /\ IsMaster(conf[s])
    /\ n # conf[s] /\ follows[n] # conf[s]
    /\ \A t \in Running : epoch[t] <= epoch[s]

Repoint(s, n) ==
    /\ CanRepoint(s, n)
    /\ follows' = [follows EXCEPT ![n] = conf[s]]
    /\ linked'  = [linked EXCEPT ![n] = FALSE]
    /\ UNCHANGED <<bootVars, volumeVars, prio, gate, seen, pastVars, faultVars>>

-----------------------------------------------------------------------------
(***************************************************************************)
(* link_heal.rs, the watcher of a replica whose link stays down or that    *)
(* stays attached to another master than its Sentinel names.  Its dwell    *)
(* windows (20 and 5 minutes) outlast everything the Sentinels, the lift   *)
(* watchers and a booting node can still do, which is all this module      *)
(* keeps of them.                                                          *)
(***************************************************************************)
\* Nothing that takes seconds is still pending
Durable ==
    /\ \A n \in Node : phase[n] \in {"down", "running"}
    /\ \A n \in Running : seen[n] = prio[n] /\ (linked[n] => gate[n] = "off")
    /\ \A s, t \in Node : ~CanGossip(s, t) /\ ~CanFailover(s, t) /\ ~CanRepoint(s, t)

\* decide_link_heal: PromoteSelf when Sentinel names this very node, else
\* Reheal.  It looks neither at the gate nor at the dataset.
LinkHeal(n) ==
    /\ LinkHealOn
    /\ phase[n] = "running"
    /\ follows[n] # NoMaster
    /\ follows[n] # conf[n] \/ (~linked[n] /\ ~IsMaster(follows[n]))
    /\ Durable
    /\ follows'  = [follows EXCEPT ![n] = IF conf[n] = n THEN NoMaster ELSE conf[n]]
    /\ linked'   = [linked EXCEPT ![n] = FALSE]
    /\ unsynced' = [unsynced EXCEPT ![n] = @ /\ conf[n] # n]
    /\ UNCHANGED <<bootVars, volumeVars, prio, gate, seen, unmarked, exposed, alone,
                   faultVars>>

-----------------------------------------------------------------------------
(***************************************************************************)
(* Faults.                                                                 *)
(***************************************************************************)

\* The cluster has a master, some other node is up, each of them has booted,
\* and their Sentinels name that master
Settled(n) ==
    LET others == {p \in Node \ {n} : phase[p] # "down"}
    IN /\ others # {} /\ others \subseteq Running
       /\ \E m \in Node : /\ IsMaster(m)
                          /\ \A p \in others : conf[p] = m /\ (IsMaster(p) => p = m)

\* The container stops or dies, at any point of its boot or after it
Crash(n) ==
    /\ phase[n] # "down"
    /\ MayFault /\ crashes < MaxCrashes
    /\ Overlapping \/ Settled(n)
    /\ crashes' = crashes + 1
    /\ phase'   = [phase EXCEPT ![n] = "down"]
    /\ boot'    = [boot EXCEPT ![n] = n]
    /\ follows' = [follows EXCEPT ![n] = NoMaster]
    /\ linked'  = [p \in Node |-> linked[p] /\ p # n /\ follows[p] # n]
    /\ prio'    = [prio EXCEPT ![n] = 100]
    /\ gate'    = [gate EXCEPT ![n] = "off"]
    /\ seen'    = [seen EXCEPT ![n] = -1]
    /\ unmarked' = unmarked \ {n}
    /\ exposed' = IF n \in unmarked /\ unsynced[n] /\ phase[n] = "running"
                  THEN exposed \cup {n} ELSE exposed
    /\ UNCHANGED <<volumeVars, unsynced, alone, wipes, slips>>

\* A stopped node's volume is replaced (everything on it goes) or its dataset
\* alone is deleted, while a running promotable node still holds a dataset.
Wipe(n) ==
    /\ phase[n] = "down"
    /\ MayFault /\ wipes < MaxWipes
    /\ loadable[n]
    /\ \E p \in Running : data[p] > 0 /\ prio[p] > 0
    /\ wipes'    = wipes + 1
    /\ data'     = [data EXCEPT ![n] = 0]
    /\ loadable' = [loadable EXCEPT ![n] = FALSE]
    /\ unsynced' = [unsynced EXCEPT ![n] = TRUE]
    /\ \/ UNCHANGED <<marker, conf, epoch>>
       \/ /\ marker' = [marker EXCEPT ![n] = FALSE]
          /\ conf'   = [conf EXCEPT ![n] = NoState]
          /\ epoch'  = [epoch EXCEPT ![n] = 0]
    /\ UNCHANGED <<bootVars, redisVars, unmarked, exposed, alone, crashes, slips>>

-----------------------------------------------------------------------------
(***************************************************************************)
(* The conversion of a standalone node: its volume holds the dataset, the  *)
(* other volumes are new, and any of them may be a reused one.             *)
(***************************************************************************)
Init ==
    /\ phase    = [n \in Node |-> "down"]
    /\ boot     = [n \in Node |-> n]
    /\ loadable = [n \in Node |-> n = Primary]
    /\ data     = [n \in Node |-> IF n = Primary THEN 1 ELSE 0]
    /\ marker   = [n \in Node |-> FALSE]
    /\ conf     \in [Node -> InitialConf]
    /\ epoch    = [n \in Node |-> 0]
    /\ follows  = [n \in Node |-> NoMaster]
    /\ linked   = [n \in Node |-> FALSE]
    /\ prio     = [n \in Node |-> 100]
    /\ gate     = [n \in Node |-> "off"]
    /\ seen     = [n \in Node |-> -1]
    /\ unsynced = [n \in Node |-> n # Primary]
    /\ unmarked = {} /\ exposed = {} /\ alone = {}
    /\ crashes  = 0
    /\ wipes    = 0
    /\ slips    = 0

Boot(n)      == ResolveRole(n) \/ WriteConfs(n) \/ Arm(n) \/ StartRedis(n)
GateWatch(n) == ReadInfo(n) \/ \E setOk \in BOOLEAN : ActOnInfo(n, setOk)
Sentinel(n) == \/ RefreshInfo(n)
               \/ \E s \in Node : Gossip(s, n) \/ Failover(s, n) \/ Repoint(s, n)

Next ==
    \E n \in Node :
        \/ Boot(n) \/ GateWatch(n) \/ FullSync(n) \/ Sentinel(n) \/ LinkHeal(n)
        \/ Crash(n) \/ Wipe(n)

Spec == Init /\ [][Next]_vars

Progress(n) == Boot(n) \/ FullSync(n) \/ Sentinel(n) \/ LinkHeal(n)

\* Something that can happen does: the platform restarts a container that stopped,
\* Redis completes a sync it can make, and Sentinel keeps refreshing INFO, gossiping,
\* repointing and retrying a failover.  The watcher polls for ever and its CONFIG SET
\* succeeds in the end.  Nothing is fair about faults.
Fairness ==
    /\ WF_vars(\E n \in Node : Progress(n))
    /\ \A n \in Node : WF_vars(ReadInfo(n)) /\ SF_vars(ActOnInfo(n, TRUE))

FairSpec == Spec /\ Fairness

-----------------------------------------------------------------------------
\* Every variable keeps its type.
TypeOK ==
    /\ phase \in [Node -> {"down", "resolved", "configured", "prepared", "running"}]
    /\ boot \in [Node -> Node]
    /\ loadable \in [Node -> BOOLEAN]
    /\ data \in [Node -> 0..MaxEpoch + 1]
    /\ marker \in [Node -> BOOLEAN]
    /\ conf \in [Node -> Node \cup {Ghost, Torn, NoState}]
    /\ epoch \in [Node -> 0..MaxEpoch]
    /\ follows \in [Node -> Node \cup {NoMaster}]
    /\ linked \in [Node -> BOOLEAN]
    /\ prio \in [Node -> {0, 100}]
    /\ gate \in [Node -> {"off", "poll"} \cup GateReads]
    /\ seen \in [Node -> {-1, 0, 100}]
    /\ unsynced \in [Node -> BOOLEAN]
    /\ unmarked \in SUBSET Node
    /\ exposed \in SUBSET Node
    /\ alone \in SUBSET {"holding", "empty"}
    /\ crashes \in 0..MaxCrashes
    /\ wipes \in 0..MaxWipes
    /\ slips \in 0..MaxSlips

\* A running replica that has completed no full sync since its volume was new
\* carries priority 0, and the marker that gates its next boot unless this boot
\* could not write it, even though redis-server has already created loadable files
\* on the volume (sync_gate.rs: decide_gated, arm, decide_step).  Only the restart
\* that such a write warns of, mid-sync, lifts the gate.
GateCovers ==
    \A n \in Running :
        follows[n] # NoMaster /\ unsynced[n] =>
            \/ prio[n] = 0 /\ (marker[n] \/ n \in unmarked)
            \/ n \in exposed

\* What Sentinel last read of a node makes it a candidate only once it has
\* completed a full sync: neither a lift decided on an older INFO, nor a boot
\* over the files of an unfinished sync, nor a marker that could not be written or
\* removed lets an empty node into the candidate filter, so a failover in the gap
\* "never promotes the wrong node" (sync_gate.rs), short of a restart mid-sync
\* without the marker.
CandidateSynced == \A n \in Running : seen[n] > 0 => ~unsynced[n] \/ n \in exposed

MastersHoldData == \A n \in Node : IsMaster(n) => data[n] > 0

\* No node that holds no dataset is ever master of the cluster: not by booting
\* (the empty-primary guard) and not by being promoted (the sync gate).  Two things
\* the code lets through end the promise: a boot that hears no live peer, of the
\* deployed primary on a wiped volume or of the old master mid-sync, and the restart
\* mid-sync without the marker.
NoEmptyMaster == "empty" \in alone \/ exposed # {} \/ MastersHoldData

\* A node's dataset is never replaced by an older one or by an empty one:
\* it goes back only when its volume is wiped.  This is the replication wipe,
\* and the self-demotion of a promoted node, that boot_role.rs exists against.  A
\* boot that takes the master role and hears none of its live peers ends it: the next
\* boot of the real master may side with it.
NoStaleResync ==
    [][\A n \in Node : data'[n] < data[n] =>
           wipes' > wipes \/ alone # {} \/ exposed # {}]_vars

\* Whatever bounded faults strike, refused boots included, the cluster comes
\* back whole: one master, everyone else linked to it, and no gate left down
\* (the recovery that decide_empty_primary_boot's Refuse relies on, and the
\* lift that sync_gate::run owes every gated boot).
Whole ==
    \E m \in Node :
        /\ IsMaster(m)
        /\ \A n \in Node \ {m} : n \in Running /\ follows[n] = m /\ linked[n]
                                  /\ prio[n] = 100
Recovers == <>[]Whole

=============================================================================

----------------------------- MODULE QuorumSync -----------------------------
(***************************************************************************)
(* quorum.rs: the watcher that keeps a node's odown quorum at a majority   *)
(* of the Sentinels it sees alive, its split-brain fence                   *)
(* (min-replicas-to-write) at majority - 1 of the Sentinels it knows, and  *)
(* its Sentinel's memory free of deleted peers (SENTINEL RESET).           *)
(*                                                                         *)
(* One node is followed in full: the master, Self.  The other members are  *)
(* there through what its Sentinel sees of them and through what they may  *)
(* do without it: a majority of the members that a partition cuts off may  *)
(* promote a master of its own.  A poll of the watcher is three steps, one *)
(* per conversation it holds: Sentinel's answers, Redis's fence, the prune.*)
(* Time is counted in polls.                                               *)
(***************************************************************************)
EXTENDS Integers, FiniteSets

CONSTANTS
    Node,         \* every service the cluster may ever have
    Self,         \* the node whose watcher this is
    Founders,     \* the members at the first boot
    Dwell,        \* polls a drift has to hold (QUORUM_SYNC_DWELL_SECONDS)
    PruneDwell,   \* polls a peer has to be down (SENTINEL_PRUNE_DWELL_SECONDS)
    Backoff,      \* polls between two resets (SENTINEL_PRUNE_BACKOFF_SECONDS)
    MaxCuts, MaxRemovals, MaxRestarts, MaxMisses    \* bounds on faults

ASSUME Membership ==
    /\ IsFiniteSet(Node)
    /\ Self \in Founders
    /\ Founders \subseteq Node
ASSUME Windows ==
    /\ Dwell \in Nat \ {0}
    /\ PruneDwell \in Nat \ {0}
    /\ Backoff \in Nat
ASSUME Bounds == {MaxCuts, MaxRemovals, MaxRestarts, MaxMisses} \subseteq Nat

VARIABLES
    \* the deployment and the network
    member,      \* the services that exist
    removed,     \* the services that were deleted: their names are NXDOMAIN
    near,        \* the members on Self's side of the network
    electorate,  \* the members when the network was last cut
    role,        \* Self is the "master", or a "replica" after being replaced
    failedOver,  \* the far side has promoted a master of its own
    stamp,       \* the cluster size the SENTINEL_QUORUM env was stamped for
    \* the co-located Sentinel
    known,       \* the peers it remembers
    sdown,       \* those it flags s_down
    flags,       \* "fresh", or "stale" since something changed, or "seen" stale
    quorum,      \* the quorum it enforces
    \* the co-located Redis
    fence,       \* min-replicas-to-write
    \* the watcher
    step,        \* "idle" | "fence" | "prune"
    snap,        \* the peers this poll has read
    drift, fenceDrift,   \* the open drift windows
    downFor, goneFor,    \* polls each peer has been down, and gone, without a gap
    sinceReset,  \* polls since the last reset, capped at Backoff
    \* history
    loopholes,   \* what the cut in progress met that the fence does not cover
    cuts, restarts, misses

networkVars  == <<member, removed, near, electorate, role, failedOver, stamp>>
sentinelVars == <<known, sdown, flags, quorum>>
windowVars   == <<drift, fenceDrift, downFor, goneFor, sinceReset>>
pollVars     == <<step, snap>>
faultVars    == <<loopholes, cuts, restarts, misses>>
vars == <<networkVars, sentinelVars, fence, pollVars, windowVars, faultVars>>

far == member \ near

-----------------------------------------------------------------------------
(***************************************************************************)
(* The pure decisions.  0 stands for "no opinion".                         *)
(***************************************************************************)
AtLeast(x, y) == IF x >= y THEN x ELSE y
AtMost(x, y)  == IF x <= y THEN x ELSE y

\* the strict majority of n members, never below 2
Majority(n) == AtLeast((n \div 2) + 1, 2)

DesiredQuorum(liveOthers) == IF liveOthers = 0 THEN 0 ELSE Majority(liveOthers + 1)

\* redis_conf.rs, stamped at boot and recomputed by the watcher
MinReplicasToWrite(q) == AtLeast(q - 1, 1)

DesiredFence(knownOthers) ==
    IF knownOthers = 0 THEN 0 ELSE MinReplicasToWrite(Majority(knownOthers + 1))

\* Mutant: the fence follows the live count, as the quorum does.
LivePeersCount(peers) == Cardinality(peers.known \ peers.sdown)

\* the membership the fence is sized for, s_down peers included
FencedPeersCount(peers) == Cardinality(peers.known)

NoDrift == [desired |-> 0, polls |-> 0]

\* Mutant: every poll reopens the window.
StepDriftAfresh(current, desired, d) ==
    IF desired \in {0, current} THEN NoDrift ELSE [desired |-> desired, polls |-> 0]

\* step_drift: the window it leaves, and whether the dwell has been served
StepDrift(current, desired, d) ==
    IF desired \in {0, current} THEN NoDrift
    ELSE IF d.desired = desired THEN [d EXCEPT !.polls = AtMost(@ + 1, Dwell)]
    ELSE [desired |-> desired, polls |-> 0]

Served(current, desired, d) ==
    LET next == StepDrift(current, desired, d)
    IN next.desired # 0 /\ next.polls >= Dwell

LiveIsMajorityOfKnown(peers) ==
    2 * (Cardinality(peers.known \ peers.sdown) + 1) > Cardinality(peers.known) + 1

NoWindows == [p \in Node |-> 0]

\* step_prune and step_gone: a window counts the polls in a row that saw the
\* peer so, the one that opened it included
StepWindows(windows, seen) ==
    [p \in Node |-> IF p \in seen THEN AtMost(windows[p] + 1, PruneDwell + 1) ELSE 0]

PastDwell(windows, p) == windows[p] > PruneDwell

-----------------------------------------------------------------------------
(***************************************************************************)
(* One poll: iteration.                                                    *)
(***************************************************************************)

ClearObservations ==
    /\ drift' = NoDrift /\ fenceDrift' = NoDrift
    /\ downFor' = NoWindows /\ goneFor' = NoWindows

\* Sentinel unreachable, or an answer it cannot read
PollFails ==
    /\ step = "idle"
    /\ misses < MaxMisses
    /\ misses' = misses + 1
    /\ ClearObservations
    /\ sinceReset' = AtMost(sinceReset + 1, Backoff)
    /\ UNCHANGED <<networkVars, sentinelVars, fence, pollVars, loopholes, cuts, restarts>>

\* SENTINEL master and SENTINEL sentinels, step_drift, and SENTINEL SET once
\* the dwell is served.  Flags that lag behind the network are read at most
\* once: a poll is a minute, down-after five seconds.
ReadSentinel(setOk) ==
    LET desired == DesiredQuorum(Cardinality(known \ sdown))
        sets    == Served(quorum, desired, drift)
    IN /\ step = "idle"
       /\ flags # "seen"
       /\ setOk \/ (sets /\ misses < MaxMisses)
       /\ step'   = "fence"
       /\ snap'   = [known |-> known, sdown |-> sdown]
       /\ flags'  = IF flags = "stale" THEN "seen" ELSE flags
       /\ quorum' = IF sets /\ setOk THEN desired ELSE quorum
       /\ drift'  = IF sets /\ setOk THEN NoDrift ELSE StepDrift(quorum, desired, drift)
       /\ misses' = IF setOk THEN misses ELSE misses + 1
       /\ UNCHANGED <<networkVars, known, sdown, fence, fenceDrift, downFor, goneFor,
                      sinceReset, loopholes, cuts, restarts>>

\* sync_fence: CONFIG GET, step_drift over the KNOWN membership, CONFIG SET
SyncFence(setOk) ==
    LET desired == DesiredFence(FencedPeersCount(snap))
        sets    == Served(fence, desired, fenceDrift)
    IN /\ step = "fence"
       /\ setOk \/ (sets /\ misses < MaxMisses)
       /\ step'  = "prune"
       /\ fence' = IF sets /\ setOk THEN desired ELSE fence
       /\ fenceDrift' = IF sets /\ setOk THEN NoDrift
                        ELSE StepDrift(fence, desired, fenceDrift)
       /\ misses' = IF setOk THEN misses ELSE misses + 1
       /\ UNCHANGED <<networkVars, sentinelVars, snap, drift, downFor, goneFor, sinceReset,
                      loopholes, cuts, restarts>>

\* Redis unreachable: no opinion, and no stale window either
FenceUnread ==
    /\ step = "fence"
    /\ misses < MaxMisses
    /\ step' = "prune"
    /\ fenceDrift' = NoDrift
    /\ misses' = misses + 1
    /\ UNCHANGED <<networkVars, sentinelVars, fence, snap, drift, downFor, goneFor, sinceReset,
                   loopholes, cuts, restarts>>

\* The gates of prune_dead_sentinels, over this poll's windows
Due(down) == \E p \in Node : PastDwell(down, p)

\* Mutant: any due peer is forgotten, whoever is left.
MayForgetAnyone(gone) == TRUE

MayForget(gone) ==
    \/ LiveIsMajorityOfKnown(snap)
    \/ snap.sdown # {} /\ \A p \in snap.sdown : PastDwell(gone, p)

\* prune_dead_sentinels: the probes (a deleted name answers NXDOMAIN, or not
\* at all; an existing one never does), the windows, the gates, and the
\* SENTINEL RESET that makes the Sentinel forget every peer it knows NOW.
Prune(answered, calm, resetOk) ==
    LET down   == StepWindows(downFor, snap.sdown)
        gone   == StepWindows(goneFor, answered)
        passes == Due(down) /\ MayForget(gone) /\ sinceReset >= Backoff
        resets == passes /\ calm /\ resetOk
    IN /\ step = "prune"
       /\ answered \subseteq snap.sdown \cap removed
       /\ \/ answered = snap.sdown \cap removed /\ calm /\ resetOk
          \/ misses < MaxMisses
       /\ step'    = "idle"
       /\ snap'    = [known |-> {}, sdown |-> {}]
       /\ known'   = IF resets THEN {} ELSE known
       /\ sdown'   = IF resets THEN {} ELSE sdown
       /\ downFor' = IF resets THEN NoWindows ELSE down
       /\ goneFor' = IF resets THEN NoWindows ELSE gone
       /\ sinceReset' = IF resets THEN 0 ELSE AtMost(sinceReset + 1, Backoff)
       /\ misses'  = IF answered = snap.sdown \cap removed /\ calm /\ resetOk
                     THEN misses ELSE misses + 1
       /\ UNCHANGED <<networkVars, flags, quorum, fence, drift, fenceDrift, loopholes, cuts,
                      restarts>>

-----------------------------------------------------------------------------
(***************************************************************************)
(* External: the co-located Sentinel.                                      *)
(***************************************************************************)

\* Its flags catch up with the network
Detect ==
    /\ flags # "fresh"
    /\ sdown' = known \ near
    /\ flags' = "fresh"
    /\ UNCHANGED <<networkVars, known, quorum, fence, pollVars, windowVars, faultVars>>

\* Hello gossip from a member it can reach
Discover(p) ==
    /\ p \in near \ (known \cup {Self})
    /\ known' = known \cup {p}
    /\ UNCHANGED <<networkVars, sdown, flags, quorum, fence, pollVars, windowVars, faultVars>>

-----------------------------------------------------------------------------
(***************************************************************************)
(* The deployment, the network and the far side.                           *)
(***************************************************************************)

\* the fence that a cluster of n needs
FenceOf(n) == MinReplicasToWrite(Majority(n))

\* generate_redis_conf, from the SENTINEL_QUORUM env
BootFence == FenceOf(stamp)

\* The container restarts: redis.conf is regenerated, sentinel.conf (the peers
\* and the quorum) survives, the watcher starts with empty windows.  During a
\* cut, a stamp older than a scale-up boots a fence that is too low for it.
Restart ==
    /\ restarts < MaxRestarts
    /\ restarts' = restarts + 1
    /\ fence' = BootFence
    /\ sdown' = {} /\ flags' = "seen"
    /\ step' = "idle" /\ snap' = [known |-> {}, sdown |-> {}]
    /\ ClearObservations
    /\ sinceReset' = Backoff
    /\ loopholes' = IF far # {} /\ stamp < Cardinality(electorate)
                    THEN loopholes \cup {"stamp"} ELSE loopholes
    /\ UNCHANGED <<networkVars, known, quorum, cuts, misses>>

\* A scale-up adds a service, and may restamp the env of every node
Join(p, restamps) ==
    /\ near = member
    /\ p \in Node \ (member \cup removed)
    /\ member' = member \cup {p}
    /\ near'   = member'
    /\ stamp'  = IF restamps THEN Cardinality(member') ELSE stamp
    /\ UNCHANGED <<removed, electorate, role, failedOver, sentinelVars, fence, pollVars,
                   windowVars, faultVars>>

\* A scale-down deletes one, on either side of a cut.  The env is not
\* restamped to a smaller cluster in the middle of one.
Remove(p, restamps) ==
    /\ p \in member \ {Self}
    /\ Cardinality(removed) < MaxRemovals
    /\ member'  = member \ {p}
    /\ removed' = removed \cup {p}
    /\ near'    = near \ {p}
    /\ failedOver' = (failedOver /\ near' # member')
    /\ flags'   = IF flags = "seen" THEN "seen" ELSE "stale"
    /\ stamp'   = IF restamps /\ near = member THEN Cardinality(member') ELSE stamp
    /\ UNCHANGED <<electorate, role, known, sdown, quorum, fence, pollVars, windowVars,
                   faultVars>>

\* The peers the Sentinel has to know
Others == member \ {Self}

\* The Sentinel has not heard of every member, after a reset or a join
MemoryLags == ~(Others \subseteq known)

\* The fence is not a majority's yet, or a poll that knew fewer is about to size it
FenceLags ==
    \/ fence < FenceOf(Cardinality(member))
    \/ step = "fence" /\ ~(Others \subseteq snap.known)

\* A prune would pass in the poll in progress or in the next one, the last that
\* can read flags older than the cut
PruneNear == \E p \in Node : downFor[p] + (IF step = "idle" THEN 1 ELSE 2) > PruneDwell

\* What a cut that strikes now would find unready
Unready ==
    {gap \in {"memory", "fence", "prune"} :
        CASE gap = "memory" -> MemoryLags
          [] gap = "fence"  -> FenceLags
          [] gap = "prune"  -> PruneNear}

\* The network splits, whatever the watcher is at: S stays with Self
Cut(S) ==
    /\ near = member
    /\ cuts < MaxCuts
    /\ S \subseteq member /\ Self \in S /\ S # member
    /\ cuts' = cuts + 1
    /\ near' = S
    /\ electorate' = member
    /\ flags' = "stale"
    /\ loopholes' = Unready
    /\ UNCHANGED <<member, removed, role, failedOver, stamp, known, sdown, quorum, fence,
                   pollVars, windowVars, restarts, misses>>

\* A majority of the Sentinels that were members at the cut promotes one of
\* the replicas on the far side
FailOver ==
    /\ role = "master" /\ ~failedOver
    /\ 2 * Cardinality(far) > Cardinality(electorate)
    /\ failedOver' = TRUE
    /\ UNCHANGED <<member, removed, near, electorate, role, stamp, sentinelVars, fence,
                   pollVars, windowVars, faultVars>>

\* The network heals; a master that was replaced is demoted
Heal ==
    /\ far # {}
    /\ near' = member
    /\ role' = IF failedOver THEN "replica" ELSE role
    /\ failedOver' = FALSE
    /\ flags' = "stale"
    /\ loopholes' = {}
    /\ UNCHANGED <<member, removed, electorate, stamp, known, sdown, quorum, fence, pollVars,
                   windowVars, cuts, restarts, misses>>

-----------------------------------------------------------------------------
Init ==
    /\ member = Founders /\ near = Founders
    /\ removed = {} /\ electorate = Founders
    /\ role = "master" /\ failedOver = FALSE
    /\ stamp = Cardinality(Founders)
    /\ known = {} /\ sdown = {} /\ flags = "fresh"
    /\ quorum = Majority(Cardinality(Founders))
    /\ fence = MinReplicasToWrite(Majority(Cardinality(Founders)))
    /\ step = "idle" /\ snap = [known |-> {}, sdown |-> {}]
    /\ drift = NoDrift /\ fenceDrift = NoDrift
    /\ downFor = NoWindows /\ goneFor = NoWindows
    /\ sinceReset = Backoff
    /\ loopholes = {} /\ cuts = 0 /\ restarts = 0 /\ misses = 0

Poll ==
    \/ PollFails
    \/ \E setOk \in BOOLEAN : ReadSentinel(setOk) \/ SyncFence(setOk)
    \/ FenceUnread
    \/ \E answered \in SUBSET snap.sdown : \E calm, resetOk \in BOOLEAN :
          Prune(answered, calm, resetOk)

Sentinel == Detect \/ \E p \in Node : Discover(p)

Environment ==
    \/ Restart \/ FailOver \/ Heal
    \/ \E p \in Node, restamps \in BOOLEAN : Join(p, restamps) \/ Remove(p, restamps)
    \/ \E S \in SUBSET member : Cut(S)

Next == Poll \/ Sentinel \/ Environment

Spec == Init /\ [][Next]_vars

\* The watcher polls for ever, and its Sentinel keeps detecting and gossiping
FairSpec == Spec /\ WF_vars(Poll) /\ WF_vars(Detect) /\ \A p \in Node : WF_vars(Discover(p))

-----------------------------------------------------------------------------
\* Every variable keeps its type.
Peers == [known : SUBSET (Node \ {Self}), sdown : SUBSET (Node \ {Self})]

TypeOK ==
    /\ member \in SUBSET Node /\ near \in SUBSET member /\ Self \in near
    /\ removed \in SUBSET (Node \ member)
    /\ electorate \in SUBSET Node
    /\ role \in {"master", "replica"} /\ failedOver \in BOOLEAN
    /\ stamp \in Nat \ {0}
    /\ known \in SUBSET (Node \ {Self}) /\ sdown \in SUBSET known
    /\ flags \in {"fresh", "stale", "seen"}
    /\ quorum \in Nat \ {0, 1}
    /\ fence \in Nat \ {0}
    /\ step \in {"idle", "fence", "prune"} /\ snap \in Peers
    /\ drift \in [desired : Nat, polls : 0..Dwell]
    /\ fenceDrift \in [desired : Nat, polls : 0..Dwell]
    /\ downFor \in [Node -> 0..PruneDwell + 1]
    /\ goneFor \in [Node -> 0..PruneDwell + 1]
    /\ sinceReset \in 0..Backoff
    /\ loopholes \subseteq {"memory", "fence", "prune", "stamp"}
    /\ cuts \in 0..MaxCuts /\ restarts \in 0..MaxRestarts /\ misses \in 0..MaxMisses

\* Self acknowledges writes: every member it reaches acks as a replica
Writes == role = "master" /\ Cardinality(near) - 1 >= fence

\* The far side's master does, with a fence of at least one replica
FarWrites == failedOver /\ Cardinality(far) >= 2

\* No two masters accept writes at once: while the far side of a partition is
\* writable, the fence of the master it has failed over past holds, however
\* the dwells, the prune, deletions and restarts fall before and during the
\* cut (quorum.rs, "Syncing the split-brain fence"; redis_conf.rs,
\* min_replicas_to_write).  The fence is a majority's only once the watcher has
\* caught up with the membership, and a restart takes it back to the env's, so
\* a cut that finds the node unready, or a stale stamp, is left out.
NoSplitBrain == loopholes = {} => ~(Writes /\ FarWrites)

\* A Sentinel never forgets a far side that could still elect a master: the
\* prune "refuses to run on a minority" (quorum.rs), whenever the cut strikes
\* between its readings, unless members were still unknown to it at the cut or
\* a prune was so near that it runs on readings from before the cut.
MinorityNeverForgets ==
    [][/\ 2 * Cardinality(far) > Cardinality(electorate)
       /\ loopholes \cap {"memory", "prune"} = {}
       => known \subseteq known']_vars

\* Once the faults stop the node converges: the quorum is a majority of the
\* live Sentinels, and in a healed cluster every deleted peer is forgotten and
\* the fence is majority - 1 of the members.
Settled ==
    /\ Cardinality(known \ sdown) > 0 => quorum = Majority(Cardinality(known \ sdown) + 1)
    /\ near = member /\ Cardinality(member) > 1 =>
          /\ known = member \ {Self}
          /\ fence = Majority(Cardinality(member)) - 1
Converges == <>[]Settled

=============================================================================

---------------------------- MODULE GhostMaster ----------------------------
(***************************************************************************)
(* The ghost-master watcher (ghost_master.rs) of every node of a cluster   *)
(* whose Sentinels, all or one of them, resumed a world whose master no    *)
(* longer exists: what a poll observes, the dwell with its stagger by rank,*)
(* the cap on the volume, the restart, and the boot that cures it          *)
(* (boot_role.rs: quarantine and role resolution).                         *)
(*                                                                         *)
(* Sentinel's failover and the gossip between Sentinels of the living world*)
(* are external.  Sentinels of the dead world are taken to be pruned, and  *)
(* its replica table to list none of the members.                          *)
(***************************************************************************)
EXTENDS Integers, FiniteSets

CONSTANTS
    N,           \* members, 1..N; 1 is the env-declared primary
    Declared,    \* the members SENTINEL_HOSTS lists, in this order
    Ghost,       \* the address of the dead world's master
    Dwell,       \* GHOST_MASTER_DWELL_SECONDS, in ticks
    Stagger,     \* GHOST_MASTER_STAGGER_SECONDS, in ticks
    MaxRestarts, \* GHOST_MASTER_MAX_RESTARTS_PER_WINDOW
    Window,      \* GHOST_MASTER_WINDOW_SECONDS, in ticks
    Leads,       \* bound: the ages, in ticks, that windows already have at the start
    MaxFaults    \* bound: lost polls and PINGs, crashes, failed writes and renames

Node == 1..N

ASSUME NodeAssumption == N \in Nat /\ Declared \subseteq Node /\ 1 \in Declared
ASSUME GhostAssumption == Ghost \notin Node
ASSUME TimeAssumption == Dwell \in Nat \ {0} /\ Stagger \in Nat \ {0} /\ Window \in Nat
ASSUME BoundAssumption == MaxRestarts \in Nat /\ MaxFaults \in Nat
ASSUME LeadsAssumption == Leads \subseteq Nat

VARIABLES
    \* each node
    world,     \* the master its Sentinel names
    role,      \* of its redis-server
    up,        \* its container runs
    \* its watcher, in memory
    poll,      \* this tick's poll: "due", "confirmed" or "done"
    since,     \* ticks since ghost_since, or None
    \* its volume
    marks,     \* ticks since each restart in .ghost_master_state
    \* history and faults
    past,      \* ticks since each restart the watcher asked for
    unmarked,  \* a marker could not be written
    inOrder,   \* no window was opened its node's stagger before the primary's
    faults

nodeVars == <<world, role, up>>
watchVars == <<poll, since>>
vars == <<nodeVars, watchVars, marks, past, unmarked, inOrder, faults>>

None == -1
Live(a) == a \in Node /\ up[a]
IsMaster(n) == up[n] /\ role[n] = "master"

\* seed_rank: no replica shares rank 0 with the primary
Rank(n) == IF n = 1 THEN 0
           ELSE IF n \in Declared THEN Cardinality({d \in Declared : d <= n})
           ELSE Cardinality(Declared) + 1

PingsLost(a) == Live(a) /\ faults < MaxFaults /\ faults' = faults + 1

-----------------------------------------------------------------------------
(***************************************************************************)
(* A poll.                                                                 *)
(***************************************************************************)

\* merge_peer_addrs: declared peers, and those gossip has brought
Peers(n) == (Declared \cup (IF world[n] = Ghost THEN {} ELSE Node)) \ {n}

\* This node and the peers that answer with a
Votes(n, a) == Cardinality({p \in {n} \cup {q \in Peers(n) : up[q]} : world[p] = a})

\* Mutant: a quorum that names another master than this node's Sentinel is none.
ConsensusOnOwn(n, a) ==
    a = world[n] /\ Votes(n, a) >= 2 /\ 2 * Votes(n, a) > Cardinality(Peers(n)) + 1

\* consensus_answer: a strict majority of the membership, of at least two
Consensus(n, a) == Votes(n, a) >= 2 /\ 2 * Votes(n, a) > Cardinality(Peers(n)) + 1

\* The replicas the local Sentinel lists
Table(n) == IF world[n] = Ghost THEN {} ELSE Node \ {world[n]}

\* observe: the named master is not declared and does not answer, this node is
\* not master, and the quorum names the same ghost with no master among its
\* replicas, or a real member
Confirmed(n, answers) ==
    /\ world[n] \notin Declared \cup {n}
    /\ ~answers
    /\ role[n] # "master"
    /\ \E a \in Node \cup {Ghost} :
         /\ Consensus(n, a)
         /\ IF a = world[n] THEN \A r \in Table(n) : ~IsMaster(r)
                            ELSE a \in Declared \/ Live(a)

\* Mutant: a cleared poll leaves the window open.
ClearKeepingWindow(n) ==
    /\ poll' = [poll EXCEPT ![n] = "done"]
    /\ UNCHANGED since

\* Verdict::Clear
Clear(n) ==
    /\ poll' = [poll EXCEPT ![n] = "done"]
    /\ since' = [since EXCEPT ![n] = None]

\* undeclared_master_is_member: both PINGs of a live member may be lost
Observe(n) ==
    /\ up[n] /\ poll[n] = "due"
    /\ \E answers \in BOOLEAN :
         /\ IF answers = Live(world[n]) THEN UNCHANGED faults ELSE PingsLost(world[n])
         /\ IF Confirmed(n, answers)
            THEN poll' = [poll EXCEPT ![n] = "confirmed"] /\ UNCHANGED since
            ELSE Clear(n)
    /\ UNCHANGED <<nodeVars, marks, past, unmarked, inOrder>>

\* A conversation fails, or a failover is in progress: fails closed
ObserveNothing(n) ==
    /\ up[n] /\ poll[n] = "due"
    /\ faults < MaxFaults /\ faults' = faults + 1
    /\ Clear(n)
    /\ UNCHANGED <<nodeVars, marks, past, unmarked, inOrder>>

\* Mutant: every rank fires at the dwell.
HoldUnstaggered(n) == Dwell

\* decide: the rank's stagger rides on the dwell
Hold(n) == Dwell + Rank(n) * Stagger

Since(n) == IF since[n] = None THEN 0 ELSE since[n]

\* GhostAction::Wait, or GiveUp, which leaves the node running
Wait(n) ==
    /\ poll[n] = "confirmed" /\ poll' = [poll EXCEPT ![n] = "done"]
    /\ Since(n) < Hold(n) \/ Cardinality(marks[n]) >= MaxRestarts
    /\ since' = [since EXCEPT ![n] = Since(n)]
    /\ UNCHANGED <<nodeVars, marks, past, unmarked, inOrder, faults>>

\* Mutant: the restart is counted in the memory it ends.
MarkedInMemory(n) ==
    /\ UNCHANGED <<marks, unmarked, faults>>

\* append_restart_marker: fs::write truncates, and its result is ignored
Marked(n) ==
    \/ marks' = [marks EXCEPT ![n] = @ \cup {0}] /\ UNCHANGED <<unmarked, faults>>
    \/ /\ faults < MaxFaults /\ faults' = faults + 1
       /\ \E kept \in {marks[n], {}} : marks' = [marks EXCEPT ![n] = kept]
       /\ unmarked' = TRUE

\* GhostAction::Restart: the marker first, then the supervisor ends the container
Restart(n) ==
    /\ poll[n] = "confirmed" /\ poll' = [poll EXCEPT ![n] = "due"]
    /\ Since(n) >= Hold(n) /\ Cardinality(marks[n]) < MaxRestarts
    /\ Marked(n)
    /\ past' = [past EXCEPT ![n] = @ \cup {0}]
    /\ up' = [up EXCEPT ![n] = FALSE]
    /\ since' = [since EXCEPT ![n] = None]
    /\ UNCHANGED <<world, role, inOrder>>

-----------------------------------------------------------------------------
(***************************************************************************)
(* The boot, and what resolves its role.                                   *)
(***************************************************************************)

\* majority_answer of the peers that are up, an even split falling either way
PeerAnswers(n) ==
    LET P == {p \in Declared \ {n} : up[p]}
        V(a) == Cardinality({p \in P : world[p] = a})
    IN {a \in {world[p] : p \in P} : \A p \in P : V(a) >= V(world[p])}

\* master_is_declared, or undeclared_master_is_member
Vetted(a) == a \in Declared \/ Live(a)

\* REPLICA_OF
EnvMaster == 1

\* With no local state: a vetted peer answer that names another node, or the env
Resolved(n) ==
    LET A == PeerAnswers(n)
    IN IF A = {} THEN {EnvMaster}
       ELSE {IF Vetted(a) /\ a # n THEN a ELSE EnvMaster : a \in A}

RoleFor(n, m) == IF m = n THEN "master" ELSE "replica"

\* boot_master_for_this_boot.  A state that names a declared or a live member is
\* kept; else the fresh sentinel.conf names the resolved master, or, when the
\* ghost's cannot be moved aside, Sentinel resumes it.
Boot(n) ==
    /\ ~up[n] /\ up' = [up EXCEPT ![n] = TRUE]
    /\ poll' = [poll EXCEPT ![n] = "done"]
    /\ since' = [since EXCEPT ![n] = None]
    /\ \/ /\ world[n] \in Declared \/ Live(world[n]) \/ world[n] = n
          /\ \E m \in IF world[n] # n THEN {world[n]}
                      ELSE IF PeerAnswers(n) = {} THEN {n}
                      ELSE {IF Vetted(a) THEN a ELSE n : a \in PeerAnswers(n)} :
               role' = [role EXCEPT ![n] = RoleFor(n, m)]
          /\ UNCHANGED <<world, faults>>
       \/ /\ world[n] \notin Declared \cup {n}
          /\ IF Live(world[n]) THEN PingsLost(world[n]) ELSE UNCHANGED faults
          /\ \E m \in Resolved(n) : /\ role' = [role EXCEPT ![n] = RoleFor(n, m)]
                                   /\ world' = [world EXCEPT ![n] = m]
       \/ /\ world[n] \notin Declared \cup {n} /\ ~Live(world[n])
          /\ faults < MaxFaults /\ faults' = faults + 1
          /\ \E m \in Resolved(n) : role' = [role EXCEPT ![n] = RoleFor(n, m)]
          /\ UNCHANGED world
    /\ UNCHANGED <<marks, past, unmarked, inOrder>>

-----------------------------------------------------------------------------
(***************************************************************************)
(* The world around the watcher.                                           *)
(***************************************************************************)

\* A container dies, and the restart policy brings it back
Crash(n) ==
    /\ up[n] /\ up' = [up EXCEPT ![n] = FALSE]
    /\ faults < MaxFaults /\ faults' = faults + 1
    /\ poll' = [poll EXCEPT ![n] = "due"]
    /\ since' = [since EXCEPT ![n] = None]
    /\ UNCHANGED <<world, role, marks, past, unmarked, inOrder>>

Following(a) == {n \in Node : up[n] /\ world[n] = a}

\* Sentinels of a real world, a majority of them, replace a master that is down or
\* is no master
Failover(a, x) ==
    /\ ~IsMaster(a)
    /\ 2 * Cardinality(Following(a)) > N
    /\ x \in Following(a) \ {a}
    /\ world' = [n \in Node |-> IF n \in Following(a) THEN x ELSE world[n]]
    /\ role' = [role EXCEPT ![x] = "master"]
    /\ UNCHANGED <<up, watchVars, marks, past, unmarked, inOrder, faults>>

\* Two worlds of members meet in the hello messages, and one has the higher
\* config epoch: here the one with more followers
Prevails(m, a) ==
    \/ Cardinality(Following(m)) > Cardinality(Following(a))
    \/ Cardinality(Following(m)) = Cardinality(Following(a)) /\ m > a

\* The node follows that world; and a role that differs from what its own Sentinel
\* names is repaired, by Sentinel or by link heal
Converge(n) ==
    /\ up[n] /\ world[n] # Ghost
    /\ \E m \in Node :
         /\ Following(m) \ {n} # {} \/ m = n
         /\ IF m = world[n] THEN role[n] # RoleFor(n, m) ELSE Prevails(m, world[n])
         /\ world' = [world EXCEPT ![n] = m]
         /\ role' = [role EXCEPT ![n] = RoleFor(n, m)]
    /\ UNCHANGED <<up, watchVars, marks, past, unmarked, inOrder, faults>>

\* recent_restart_count: what is older than the window counts no more
Aged(S) == {t + 1 : t \in {s \in S : s < Window}}

\* A tick is longer than a poll period, a restart and a failover.  Once a window is as
\* old as its node's hold, its age is counted no further.
Tick ==
    /\ \A n \in Node : up[n] /\ poll[n] = "done"
    /\ \A a \in Node : 2 * Cardinality(Following(a)) > N => IsMaster(a)
    /\ poll' = [n \in Node |-> "due"]
    /\ since' = [n \in Node |-> IF since[n] \in {None, Hold(n)} THEN since[n]
                                ELSE since[n] + 1]
    /\ marks' = [n \in Node |-> Aged(marks[n])]
    /\ past' = [n \in Node |-> Aged(past[n])]
    /\ UNCHANGED <<nodeVars, unmarked, inOrder, faults>>

\* The watchers whose windows are open at the start are a consensus for each of them
EarlyAgree ==
    LET Early == {n \in Node : since[n] # None}
    IN \A n \in Early : LET M == Declared \cup {n}
                        IN 2 * Cardinality(Early \cap M) > Cardinality(M)

\* All Sentinels resumed the ghost and no node is master, and watchers opened their
\* windows as their containers came up and their own polls confirmed; or one Sentinel
\* resumed it, in a cluster that is healthy otherwise
Init ==
    /\ \/ /\ world = [n \in Node |-> Ghost]
          /\ role = [n \in Node |-> "replica"]
          /\ since \in [Node -> {None} \cup Leads]
          /\ EarlyAgree /\ \A n \in Node : since[n] <= Hold(n)
       \/ \E m \in Node, g \in Node : /\ m # g
            /\ world = [n \in Node |-> IF n = g THEN Ghost ELSE m]
            /\ role = [n \in Node |-> RoleFor(n, m)]
            /\ since = [n \in Node |-> None]
    /\ inOrder = \A n \in Node \ {1} : Since(n) - Since(1) < Rank(n) * Stagger
    /\ up = [n \in Node |-> TRUE]
    /\ poll = [n \in Node |-> "due"]
    /\ marks = [n \in Node |-> {}] /\ past = [n \in Node |-> {}]
    /\ unmarked = FALSE
    /\ faults = 0

Watch(n) == Observe(n) \/ Wait(n) \/ Restart(n)

Next ==
    \/ \E n \in Node : \/ Watch(n) \/ ObserveNothing(n) \/ Boot(n) \/ Crash(n) \/ Converge(n)
    \/ \E a, x \in Node : Failover(a, x)
    \/ Tick

\* The watcher polls, the restart policy restarts, Sentinel does its part
Fairness ==
    /\ WF_vars(Tick \/ \E n \in Node : Watch(n) \/ Boot(n))
    /\ WF_vars(\E n \in Node : Converge(n) \/ \E x \in Node : Failover(n, x))

Spec == Init /\ [][Next]_vars
FairSpec == Spec /\ Fairness

-----------------------------------------------------------------------------
\* Types of the variables; a window counts ticks that were polled.
TypeOK ==
    /\ world \in [Node -> Node \cup {Ghost}]
    /\ role \in [Node -> {"master", "replica"}]
    /\ up \in [Node -> BOOLEAN]
    /\ poll \in [Node -> {"due", "confirmed", "done"}]
    /\ since \in [Node -> Int] /\ \A n \in Node : since[n] \in -1..Hold(n)
    /\ marks \in [Node -> SUBSET (0..Window)]
    /\ past \in [Node -> SUBSET (0..Window)]
    /\ unmarked \in BOOLEAN /\ inOrder \in BOOLEAN /\ faults \in Nat

\* However often a node comes back on the ghost, the watcher restarts it no more
\* often than the cap allows: its own restart does not reset the count, as long as
\* the marker can be written.
CapHolds == ~unmarked => \A n \in Node : Cardinality(past[n]) <= MaxRestarts

\* The watcher never restarts a node whose Sentinel names a member: neither a
\* scaled-up master the environment does not list, nor one that is down while its
\* failover or its own restart is under way.  Only a member that every poll of a
\* dwell fails to reach may be taken for a ghost.
OnlyGhostsRestart ==
    [][\A n \in Node : past'[n] # past[n] /\ 0 \in past'[n] \ past[n] /\ faults' <= Dwell
           => world[n] = Ghost]_vars

\* The stagger makes the env-declared primary restart first, so that there is a master
\* whose world the boots of the others can join, as long as no poll is lost, nothing
\* crashes, and no watcher opened its window earlier than the primary's by its own
\* stagger or more.
RefoundedFirst ==
    [][\A n \in Node \ {1} : inOrder /\ faults' = 0 /\ up[n] /\ ~up'[n]
           => \E m \in Node : IsMaster(m)]_vars

\* A node that has left the ghost never goes back to it, whatever its peers'
\* Sentinels still answer to its boots.
GhostStaysGone ==
    [][\A n \in Node : world[n] # Ghost => world'[n] # Ghost]_vars

\* All members end in one world with a live master, unless the primary's stale
\* sentinel.conf could not be moved aside: then it serves as a master its own
\* Sentinel does not name, which the watcher leaves alone.
Recovers ==
    [](\A n \in Node : IsMaster(n) => world[n] # Ghost)
        => <>[](\E m \in Node : IsMaster(m) /\ \A n \in Node : up[n] /\ world[n] = m)
=============================================================================

-------------------------- MODULE GhostMasterProofs --------------------------
(***************************************************************************)
(* What the ghost-master watcher promises for every cluster size, dwell,   *)
(* stagger, cap and window: its own restarts do not get around the cap, no *)
(* boot goes back to the ghost, only a node on the ghost is restarted, and *)
(* without faults, and with the windows opened in order, the primary is    *)
(* the first to be.                                                        *)
(***************************************************************************)
EXTENDS GhostMaster, FiniteSetTheorems, TLAPS

-----------------------------------------------------------------------------
(***************************************************************************)
(* Types.                                                                  *)
(***************************************************************************)

LEMMA NodeFacts ==
    Node \subseteq Nat /\ 1 \in Node /\ Declared \subseteq Node /\ Ghost \notin Node
BY NodeAssumption, GhostAssumption DEF Node

\* The primary holds for the dwell, anyone else for longer.
LEMMA Holds ==
    /\ Hold(1) = Dwell
    /\ \A n \in Node : /\ Rank(n) * Stagger \in Nat /\ Hold(n) = Dwell + Rank(n) * Stagger
                      /\ Hold(n) \in Nat /\ Hold(n) >= Dwell
<1>1. IsFiniteSet(Declared)
  <2>1. IsFiniteSet(Node)
    BY NodeAssumption, FS_Interval DEF Node
  <2> QED BY <2>1, NodeFacts, FS_Subset
<1>2. Rank(1) = 0
  BY DEF Rank
<1>3. ASSUME NEW n \in Node, n # 1 PROVE Rank(n) \in Nat \ {0}
  <2>1. CASE n \in Declared
    <3> DEFINE S == {d \in Declared : d <= n}
    <3>1. S \subseteq Declared /\ n \in S
      BY <2>1, NodeFacts
    <3>2. IsFiniteSet(S) /\ Cardinality(S) \in Nat
      BY <1>1, <3>1, FS_Subset, FS_CardinalityType
    <3>3. Cardinality(S) # 0
      BY <3>1, <3>2, FS_EmptySet
    <3> QED BY <1>3, <2>1, <3>2, <3>3 DEF Rank
  <2>2. CASE n \notin Declared
    BY <1>1, <1>3, <2>2, FS_CardinalityType DEF Rank
  <2> QED BY <2>1, <2>2
<1>4. ASSUME NEW r \in Nat PROVE r * Stagger \in Nat /\ (r # 0 => r * Stagger > 0)
  BY TimeAssumption
<1> QED BY <1>2, <1>3, <1>4, TimeAssumption DEF Hold

\* A boot without local state joins a member: a peer's answer only after its master
\* was vetted, or the environment's.
LEMMA ResolvedIsMember == ASSUME NEW n \in Node PROVE Resolved(n) \subseteq Node
<1>1. ASSUME NEW a, Vetted(a) PROVE a \in Node
  BY <1>1, NodeFacts DEF Vetted, Live
<1> QED BY <1>1, NodeFacts DEF Resolved, EnvMaster

LEMMA RoleTypes == ASSUME NEW n, NEW m PROVE RoleFor(n, m) \in {"master", "replica"}
BY DEF RoleFor

\* Ageing keeps the times of restarts within the window, and counts none twice.
LEMMA AgedShrinks ==
    ASSUME NEW A \in SUBSET (0..Window)
    PROVE  /\ IsFiniteSet(A) /\ Cardinality(A) \in Nat
           /\ Aged(A) \in SUBSET (0..Window)
           /\ Cardinality(Aged(A)) <= Cardinality(A)
<1> DEFINE B == Aged(A)
           f == [b \in B |-> b - 1]
<1>1. IsFiniteSet(A) /\ Cardinality(A) \in Nat
  <2>1. IsFiniteSet(0..Window)
    BY TimeAssumption, FS_Interval
  <2> QED BY <2>1, FS_Subset, FS_CardinalityType
<1>2. B \subseteq Int /\ \A b \in B : b \in 0..Window /\ b - 1 \in A
  BY TimeAssumption DEF Aged
<1>3. f \in Injection(B, A)
  <2>1. f \in [B -> A]
    BY <1>2
  <2>2. ASSUME NEW b \in B, NEW c \in B, f[b] = f[c] PROVE b = c
    BY <1>2, <2>2
  <2> QED BY <2>1, <2>2 DEF Injection, IsInjective
<1>4. Cardinality(B) <= Cardinality(A)
  BY <1>1, <1>3, FS_Injection
<1> QED BY <1>1, <1>2, <1>4

LEMMA TypeInit == Init => TypeOK
<1> SUFFICES ASSUME Init PROVE TypeOK
  OBVIOUS
<1>1. world \in [Node -> Node \cup {Ghost}] /\ role \in [Node -> {"master", "replica"}]
  BY RoleTypes DEF Init
<1>2. since \in [Node -> Int] /\ \A n \in Node : since[n] \in -1..Hold(n)
  <2>1. \A n \in Node : Hold(n) \in Nat
    BY Holds
  <2>2. since \in [Node -> {-1} \cup Leads] /\ \A n \in Node : since[n] <= Hold(n)
    <3>1. CASE since \in [Node -> {None} \cup Leads] /\ \A n \in Node : since[n] <= Hold(n)
      BY <3>1 DEF None
    <3>2. CASE since = [n \in Node |-> None]
      BY <2>1, <3>2 DEF None
    <3> QED BY <3>1, <3>2 DEF Init
  <2>3. ASSUME NEW n \in Node PROVE since[n] \in Int /\ since[n] >= -1
    <3>1. since[n] = -1 \/ since[n] \in Nat
      BY <2>2, LeadsAssumption
    <3> QED BY <3>1
  <2> QED BY <2>1, <2>2, <2>3
<1> QED BY <1>1, <1>2 DEF Init, TypeOK

\* No window is older than its node's hold.
WithinHolds == since \in [Node -> Int] /\ \A n \in Node : since[n] \in -1..Hold(n)

\* What a step of one node writes keeps the types of the watchers and the volumes.
LEMMA OneNode ==
    ASSUME TypeOK, NEW n \in Node
    PROVE  /\ \A v \in {"due", "confirmed", "done"} :
                 [poll EXCEPT ![n] = v] \in [Node -> {"due", "confirmed", "done"}]
           /\ \A t \in -1..Hold(n) : (since' = [since EXCEPT ![n] = t] => WithinHolds')
           /\ \A b \in BOOLEAN : [up EXCEPT ![n] = b] \in [Node -> BOOLEAN]
           /\ \A S \in SUBSET (0..Window) :
                 [marks EXCEPT ![n] = S] \in [Node -> SUBSET (0..Window)]
           /\ [past EXCEPT ![n] = @ \cup {0}] \in [Node -> SUBSET (0..Window)]
           /\ Since(n) \in 0..Hold(n) /\ None \in -1..Hold(n)
<1>1. Since(n) \in 0..Hold(n) /\ None \in -1..Hold(n)
  BY Holds DEF TypeOK, Since, None
<1>2. [past EXCEPT ![n] = @ \cup {0}] \in [Node -> SUBSET (0..Window)]
  <2>1. past[n] \cup {0} \in SUBSET (0..Window)
    BY TimeAssumption DEF TypeOK
  <2> QED BY <2>1 DEF TypeOK
<1>3. \A v \in {"due", "confirmed", "done"} :
         [poll EXCEPT ![n] = v] \in [Node -> {"due", "confirmed", "done"}]
  BY DEF TypeOK
<1>4. /\ \A t \in -1..Hold(n) : (since' = [since EXCEPT ![n] = t] => WithinHolds')
      /\ \A b \in BOOLEAN : [up EXCEPT ![n] = b] \in [Node -> BOOLEAN]
      /\ \A S \in SUBSET (0..Window) :
            [marks EXCEPT ![n] = S] \in [Node -> SUBSET (0..Window)]
  BY DEF TypeOK, WithinHolds
<1> QED BY <1>1, <1>2, <1>3, <1>4

LEMMA TypeNext == TypeOK /\ [Next]_vars => TypeOK'
<1> SUFFICES ASSUME TypeOK, [Next]_vars PROVE TypeOK'
  OBVIOUS
<1>a. ASSUME NEW a, PingsLost(a) PROVE faults' \in Nat
  BY <1>a DEF PingsLost, TypeOK
<1>1. ASSUME NEW n \in Node, Observe(n) PROVE TypeOK'
  <2>1. faults' \in Nat
    BY <1>1, <1>a DEF Observe, TypeOK
  <2>2. poll' \in [Node -> {"due", "confirmed", "done"}] /\ WithinHolds'
    <3>1. \/ poll' = [poll EXCEPT ![n] = "confirmed"] /\ since' = since
          \/ poll' = [poll EXCEPT ![n] = "done"] /\ since' = [since EXCEPT ![n] = None]
      BY <1>1 DEF Observe, Clear
    <3> QED BY <3>1, OneNode DEF WithinHolds, TypeOK
  <2> QED BY <1>1, <2>1, <2>2 DEF Observe, TypeOK, WithinHolds, nodeVars
<1>2. ASSUME NEW n \in Node, ObserveNothing(n) PROVE TypeOK'
  <2>1. poll' \in [Node -> {"due", "confirmed", "done"}] /\ WithinHolds'
    BY <1>2, OneNode DEF WithinHolds, ObserveNothing, Clear
  <2> QED BY <1>2, <2>1 DEF ObserveNothing, TypeOK, WithinHolds, nodeVars
<1>3. ASSUME NEW n \in Node, Wait(n) PROVE TypeOK'
  <2>1. poll' \in [Node -> {"due", "confirmed", "done"}] /\ WithinHolds'
    <3>1. Since(n) \in -1..Hold(n)
      BY OneNode, Holds
    <3> QED BY <1>3, <3>1, OneNode DEF Wait
  <2> QED BY <1>3, <2>1 DEF Wait, TypeOK, WithinHolds, nodeVars
<1>4. ASSUME NEW n \in Node, Restart(n) PROVE TypeOK'
  <2>1. marks' \in [Node -> SUBSET (0..Window)]
    <3>1. marks[n] \cup {0} \in SUBSET (0..Window) /\ marks[n] \in SUBSET (0..Window)
          /\ {} \in SUBSET (0..Window)
      BY TimeAssumption DEF TypeOK
    <3> QED BY <1>4, <3>1 DEF Restart, Marked, TypeOK
  <2>2. unmarked' \in BOOLEAN /\ faults' \in Nat
    <3>1. (unmarked' = unmarked /\ faults' = faults) \/ (unmarked' = TRUE /\ faults' = faults + 1)
      BY <1>4 DEF Restart, Marked
    <3>2. unmarked' \in BOOLEAN BY <3>1, Zenon DEF TypeOK
    <3>3. faults' \in Nat BY <3>1 DEF TypeOK
    <3> QED BY <3>2, <3>3
  <2>3. poll' \in [Node -> {"due", "confirmed", "done"}] /\ WithinHolds'
    BY <1>4, OneNode DEF WithinHolds, Restart
  <2>4. past' \in [Node -> SUBSET (0..Window)] /\ up' \in [Node -> BOOLEAN]
    BY <1>4, OneNode DEF Restart
  <2> QED BY <1>4, <2>1, <2>2, <2>3, <2>4 DEF Restart, TypeOK, WithinHolds
<1>5. ASSUME NEW n \in Node, Boot(n) PROVE TypeOK'
  <2>1. role' \in [Node -> {"master", "replica"}]
    BY <1>5, RoleTypes DEF Boot, TypeOK
  <2>2. world' \in [Node -> Node \cup {Ghost}]
    BY <1>5, ResolvedIsMember DEF Boot, TypeOK
  <2>3. faults' \in Nat
    BY <1>5, <1>a DEF Boot, TypeOK
  <2>4. poll' \in [Node -> {"due", "confirmed", "done"}] /\ WithinHolds'
        /\ up' \in [Node -> BOOLEAN]
    BY <1>5, OneNode DEF WithinHolds, Boot
  <2> QED BY <1>5, <2>1, <2>2, <2>3, <2>4 DEF Boot, TypeOK, WithinHolds
<1>6. ASSUME NEW n \in Node, Crash(n) PROVE TypeOK'
  <2>1. poll' \in [Node -> {"due", "confirmed", "done"}] /\ WithinHolds'
        /\ up' \in [Node -> BOOLEAN]
    BY <1>6, OneNode DEF WithinHolds, Crash
  <2> QED BY <1>6, <2>1 DEF Crash, TypeOK, WithinHolds
<1>7. ASSUME NEW n \in Node, Converge(n) PROVE TypeOK'
  <2>1. role' \in [Node -> {"master", "replica"}] /\ world' \in [Node -> Node \cup {Ghost}]
    BY <1>7, RoleTypes DEF Converge, TypeOK
  <2> QED BY <1>7, <2>1 DEF Converge, TypeOK, watchVars
<1>8. ASSUME NEW a \in Node, NEW x \in Node, Failover(a, x) PROVE TypeOK'
  <2>1. role' \in [Node -> {"master", "replica"}] /\ world' \in [Node -> Node \cup {Ghost}]
    BY <1>8 DEF Failover, TypeOK
  <2> QED BY <1>8, <2>1 DEF Failover, TypeOK, watchVars
<1>9. CASE Tick
  <2>1. WithinHolds'
    <3>1. \A n \in Node : Hold(n) \in Nat /\ since[n] \in Int /\ since[n] \in -1..Hold(n)
      BY Holds DEF TypeOK
    <3>2. since' = [n \in Node |-> IF since[n] \in {-1, Hold(n)} THEN since[n] ELSE since[n] + 1]
      BY <1>9 DEF Tick, None
    <3>3. \A n \in Node : since'[n] \in Int /\ since'[n] \in -1..Hold(n)
      BY <3>1, <3>2
    <3> QED BY <3>2, <3>3 DEF WithinHolds
  <2>2. marks' \in [Node -> SUBSET (0..Window)] /\ past' \in [Node -> SUBSET (0..Window)]
    BY <1>9, AgedShrinks DEF Tick, TypeOK
  <2>3. poll' \in [Node -> {"due", "confirmed", "done"}]
    BY <1>9 DEF Tick
  <2> QED BY <1>9, <2>1, <2>2, <2>3 DEF Tick, TypeOK, WithinHolds, nodeVars
<1>10. CASE UNCHANGED vars
  BY <1>10 DEF vars, nodeVars, watchVars, TypeOK
<1> QED BY <1>1, <1>2, <1>3, <1>4, <1>5, <1>6, <1>7, <1>8, <1>9, <1>10 DEF Next, Watch

\* Every variable keeps its type, for every cluster size and all thresholds: a node's
\* Sentinel names a member or the ghost, and a window never outgrows the longest hold.
THEOREM TypeCorrect == Spec => []TypeOK
BY TypeInit, TypeNext, PTL DEF Spec

-----------------------------------------------------------------------------
(***************************************************************************)
(* The cap.  While no marker was lost, the volume records exactly the      *)
(* restarts asked for: the marker comes before the exit.                   *)
(***************************************************************************)
CapInv == TypeOK /\ CapHolds /\ (~unmarked => marks = past)

LEMMA CapInit == Init => CapInv
<1> SUFFICES ASSUME Init PROVE CapInv
  OBVIOUS
<1>1. \A n \in Node : past[n] = {}
  BY DEF Init
<1> QED BY <1>1, TypeInit, BoundAssumption, FS_EmptySet DEF CapInv, CapHolds, Init

LEMMA CapNext == CapInv /\ [Next]_vars => CapInv'
<1> SUFFICES ASSUME CapInv, [Next]_vars
             PROVE  CapHolds' /\ (~unmarked' => marks' = past')
  BY TypeNext DEF CapInv
<1>1. ASSUME UNCHANGED <<marks, past, unmarked>>
      PROVE  CapHolds' /\ (~unmarked' => marks' = past')
  BY <1>1 DEF CapInv, CapHolds
<1>2. ASSUME NEW n \in Node, Restart(n)
      PROVE  CapHolds' /\ (~unmarked' => marks' = past')
  <2> SUFFICES ASSUME ~unmarked' PROVE CapHolds' /\ marks' = past'
    BY DEF CapHolds
  <2>1. ~unmarked /\ marks' = [marks EXCEPT ![n] = @ \cup {0}]
    BY <1>2 DEF Restart, Marked
  <2>2. marks = past /\ marks' = past'
    BY <1>2, <2>1 DEF Restart, CapInv
  <2>3. Cardinality(past[n]) < MaxRestarts /\ IsFiniteSet(past[n]) /\ Cardinality(past[n]) \in Nat
    BY <1>2, <2>2, AgedShrinks DEF Restart, CapInv, TypeOK
  <2>4. Cardinality(past[n] \cup {0}) <= MaxRestarts
    BY <2>3, FS_AddElement, BoundAssumption
  <2>5. \A m \in Node : past'[m] = IF m = n THEN past[n] \cup {0} ELSE past[m]
    BY <1>2 DEF Restart, CapInv, TypeOK
  <2> QED BY <2>1, <2>2, <2>4, <2>5 DEF CapInv, CapHolds
<1>3. CASE Tick
  <2> SUFFICES ASSUME ~unmarked' PROVE CapHolds' /\ marks' = past'
    BY DEF CapHolds
  <2>1. ~unmarked /\ marks = past
    BY <1>3 DEF Tick, CapInv
  <2>2. marks' = past'
    BY <1>3, <2>1 DEF Tick
  <2>3. ASSUME NEW n \in Node PROVE Cardinality(past'[n]) <= MaxRestarts
    <3>1. past'[n] = Aged(past[n]) /\ past[n] \in SUBSET (0..Window)
      BY <1>3 DEF Tick, CapInv, TypeOK
    <3>2. Cardinality(past[n]) <= MaxRestarts
      BY <2>1 DEF CapInv, CapHolds
    <3>3. past'[n] \in SUBSET (0..Window)
      BY <3>1, AgedShrinks
    <3>4. Cardinality(past'[n]) \in Nat
      BY <3>3, AgedShrinks
    <3> QED BY <3>1, <3>2, <3>4, AgedShrinks, BoundAssumption
  <2> QED BY <2>2, <2>3 DEF CapHolds
<1>4. ASSUME NEW n \in Node,
             Observe(n) \/ ObserveNothing(n) \/ Wait(n) \/ Boot(n) \/ Crash(n) \/ Converge(n)
      PROVE  UNCHANGED <<marks, past, unmarked>>
  BY <1>4 DEF Observe, ObserveNothing, Wait, Boot, Crash, Converge
<1>5. ASSUME NEW a \in Node, NEW x \in Node, Failover(a, x)
      PROVE  UNCHANGED <<marks, past, unmarked>>
  BY <1>5 DEF Failover
<1>6. CASE UNCHANGED vars
  BY <1>1, <1>6 DEF vars
<1> QED BY <1>1, <1>2, <1>3, <1>4, <1>5, <1>6 DEF Next, Watch

\* A node that comes back on the ghost again and again is restarted no more often than
\* the cap allows, for every cap and window and whatever crashes in between, as long
\* as append_restart_marker can write.
THEOREM CapAlwaysHolds == Spec => []CapHolds
<1>1. Spec => []CapInv BY CapInit, CapNext, PTL DEF Spec
<1>2. CapInv => CapHolds BY DEF CapInv
<1> QED BY <1>1, <1>2, PTL

-----------------------------------------------------------------------------
(***************************************************************************)
(* The way out of the dead world is one way.                               *)
(***************************************************************************)
LEMMA GoneStep ==
    ASSUME TypeOK, [Next]_vars, NEW n \in Node, world[n] # Ghost
    PROVE  world'[n] # Ghost
<1>1. ASSUME NEW m \in Node, Boot(m) PROVE world'[n] # Ghost
  BY <1>1, ResolvedIsMember, NodeFacts DEF Boot, TypeOK
<1>2. ASSUME NEW m \in Node, Converge(m) PROVE world'[n] # Ghost
  BY <1>2, NodeFacts DEF Converge, TypeOK
<1>3. ASSUME NEW a \in Node, NEW x \in Node, Failover(a, x) PROVE world'[n] # Ghost
  BY <1>3, NodeFacts DEF Failover, TypeOK
<1>4. ASSUME NEW m \in Node, Watch(m) \/ ObserveNothing(m) \/ Crash(m) PROVE world' = world
  BY <1>4 DEF Watch, Observe, ObserveNothing, Wait, Restart, Crash, nodeVars
<1>5. CASE Tick \/ UNCHANGED vars
  BY <1>5 DEF Tick, vars, nodeVars
<1> QED BY <1>1, <1>2, <1>3, <1>4, <1>5 DEF Next

\* No boot, failover or gossip takes a node back to the dead world, for every cluster
\* size: what boot_master_from_peer_answer adopts was vetted.
THEOREM GhostAlwaysStaysGone == Spec => GhostStaysGone
<1>1. TypeOK /\ [Next]_vars => [\A n \in Node : world[n] # Ghost => world'[n] # Ghost]_vars
  BY GoneStep
<1> QED BY <1>1, TypeCorrect, PTL DEF Spec, GhostStaysGone

-----------------------------------------------------------------------------
(***************************************************************************)
(* Whom the watcher restarts.  A node whose Sentinel names a member        *)
(* confirms a poll only when that member is down or no PING reaches it.    *)
(* Ticks wait for every container to be back, so each tick of its window   *)
(* was paid for with a fault of its own, and a window of a whole dwell with*)
(* one fault more than the dwell has ticks.                                *)
(***************************************************************************)

\* A member the environment does not list, in a living world, is down.
MemberDown == \E a \in Node \ Declared : ~up[a] /\ world[a] # Ghost

\* A node is named as an undeclared master only once it has left the ghost.
NamedHasLeft ==
    \A n \in Node : world[n] \in Node \ Declared => world[world[n]] # Ghost

PaidFor(n) ==
    /\ poll[n] = "due" => Since(n) <= faults /\ (MemberDown => Since(n) + 1 <= faults)
    /\ poll[n] = "confirmed" => Since(n) + 1 <= faults
    /\ poll[n] = "done" => since[n] + 1 <= faults

WindowsArePaid == faults <= Dwell => \A n \in Node : world[n] # Ghost => PaidFor(n)

OnlyInv == TypeOK /\ NamedHasLeft /\ WindowsArePaid

\* A boot takes the name of an undeclared master from a peer, or not at all.
LEMMA ResolvedWasNamed ==
    ASSUME NEW n \in Node, NEW m \in Resolved(n), m \notin Declared
    PROVE  \E p \in Node : world[p] = m
<1>1. 1 \in Declared
  BY NodeAssumption
<1>2. m \in PeerAnswers(n)
  <2>1. CASE PeerAnswers(n) = {}
    BY <1>1, <2>1 DEF Resolved, EnvMaster
  <2>2. CASE PeerAnswers(n) # {}
    <3>1. PICK a \in PeerAnswers(n) : m = IF Vetted(a) /\ a # n THEN a ELSE 1
      BY <2>2 DEF Resolved, EnvMaster
    <3> QED BY <1>1, <3>1
  <2> QED BY <2>1, <2>2
<1> QED BY <1>2, NodeFacts DEF PeerAnswers

LEMMA OnlyInit == Init => OnlyInv
<1> SUFFICES ASSUME Init PROVE NamedHasLeft /\ WindowsArePaid
  BY TypeInit DEF OnlyInv
<1>1. NamedHasLeft
  BY NodeFacts DEF Init, NamedHasLeft
<1>2. ~MemberDown /\ faults = 0 /\ \A n \in Node : poll[n] = "due"
  BY DEF Init, MemberDown
<1>3. ASSUME NEW n \in Node, world[n] # Ghost PROVE Since(n) = 0
  BY <1>3 DEF Init, Since
<1> QED BY <1>1, <1>2, <1>3 DEF WindowsArePaid, PaidFor

LEMMA NamedStep ==
    ASSUME TypeOK, NamedHasLeft, [Next]_vars
    PROVE  NamedHasLeft'
<1> SUFFICES ASSUME NEW n \in Node, world'[n] \in Node \ Declared
             PROVE  world'[world'[n]] # Ghost
  BY DEF NamedHasLeft
<1>1. ASSUME NEW k \in Node, world[k] = world'[n] PROVE world'[world'[n]] # Ghost
  BY <1>1, GoneStep DEF NamedHasLeft
<1>2. ASSUME NEW m \in Node, Boot(m), world'[n] # world[n]
      PROVE  \E k \in Node : world[k] = world'[n]
  <2>1. world'[n] \in Resolved(n)
    BY <1>2 DEF Boot, TypeOK
  <2> QED BY <2>1, ResolvedWasNamed
<1>3. ASSUME NEW m \in Node, Converge(m), world'[n] # world[n]
      PROVE  world'[world'[n]] # Ghost
  <2>1. m = n /\ world[n] # Ghost /\ (Following(world'[n]) # {} \/ world'[n] = n)
    BY <1>3 DEF Converge, TypeOK
  <2>2. CASE world'[n] = n
    BY <2>2, NodeFacts
  <2>3. CASE Following(world'[n]) # {}
    BY <2>3, <1>1 DEF Following
  <2> QED BY <2>1, <2>2, <2>3
<1>4. ASSUME NEW a \in Node, NEW x \in Node, Failover(a, x), world'[n] # world[n]
      PROVE  world'[world'[n]] # Ghost
  <2>1. world'[n] = x /\ world'[x] = x
    BY <1>4 DEF Failover
  <2> QED BY <2>1, NodeFacts
<1>5. ASSUME NEW m \in Node, Watch(m) \/ ObserveNothing(m) \/ Crash(m) PROVE world' = world
  BY <1>5 DEF Watch, Observe, ObserveNothing, Wait, Restart, Crash, nodeVars
<1>6. CASE Tick \/ UNCHANGED vars
  BY <1>1, <1>6 DEF Tick, vars, nodeVars
<1> QED BY <1>1, <1>2, <1>3, <1>4, <1>5, <1>6 DEF Next

\* A step that leaves a node's poll and window alone, and takes no member down
LEMMA PaidKept ==
    ASSUME TypeOK, NEW n \in Node, PaidFor(n), poll'[n] = poll[n], since'[n] = since[n],
           faults' \in {faults, faults + 1}, MemberDown' => MemberDown \/ faults' = faults + 1
    PROVE  PaidFor(n)'
<1>1. Since(n) \in Nat /\ since[n] \in Int /\ faults \in Nat
  BY OneNode, NodeFacts DEF TypeOK
<1>2. Since(n)' = Since(n)
  BY DEF Since
<1> QED BY <1>1, <1>2 DEF PaidFor

\* A node is restarted in a living world only past that many faults.
LEMMA PaidRestart ==
    ASSUME OnlyInv, NEW n \in Node, Restart(n), faults' <= Dwell
    PROVE  world[n] = Ghost
<1> SUFFICES ASSUME world[n] # Ghost PROVE FALSE
  OBVIOUS
<1>1. faults \in Nat /\ Dwell \in Nat /\ Since(n) \in Nat /\ Hold(n) \in Nat
  BY OneNode, NodeFacts, TimeAssumption, Holds DEF OnlyInv, TypeOK
<1>2. faults <= Dwell
  <2>1. faults' \in {faults, faults + 1}
    BY DEF Restart, Marked
  <2> QED BY <1>1, <2>1
<1>3. Since(n) + 1 <= faults
  BY <1>2 DEF OnlyInv, WindowsArePaid, PaidFor, Restart
<1>4. Since(n) >= Dwell
  <2>1. Since(n) >= Hold(n)
    BY DEF Restart
  <2> QED BY <1>1, <2>1, Holds
<1> QED BY <1>1, <1>2, <1>3, <1>4

LEMMA PaidStep ==
    ASSUME OnlyInv, [Next]_vars
    PROVE  WindowsArePaid'
<1> SUFFICES ASSUME faults' <= Dwell, NEW n \in Node, world'[n] # Ghost PROVE PaidFor(n)'
  BY DEF WindowsArePaid
<1> USE DEF OnlyInv
<1>t. /\ TypeOK /\ faults \in Nat /\ Dwell \in Nat /\ None = -1
      /\ since[n] \in Int /\ since[n] >= -1 /\ Since(n) \in Nat
  BY OneNode, NodeFacts, TimeAssumption DEF TypeOK, None
\* the window of a node that is cleared costs nothing
<1>c. ASSUME poll'[n] = "done", since'[n] = None, faults' \in {faults, faults + 1}
      PROVE  PaidFor(n)'
  BY <1>c, <1>t DEF PaidFor
<1>p. ASSUME world[n] # Ghost, faults' \in {faults, faults + 1} PROVE PaidFor(n)
  BY <1>p, <1>t DEF WindowsArePaid
<1>1. ASSUME NEW m \in Node, Observe(m) PROVE PaidFor(n)'
  <2>1. PICK answers \in BOOLEAN :
           /\ IF answers = Live(world[m]) THEN UNCHANGED faults ELSE PingsLost(world[m])
           /\ IF Confirmed(m, answers)
              THEN poll' = [poll EXCEPT ![m] = "confirmed"] /\ UNCHANGED since
              ELSE Clear(m)
    BY <1>1 DEF Observe
  <2>2. faults' \in {faults, faults + 1}
    BY <2>1 DEF PingsLost
  <2>3. world' = world /\ (MemberDown' <=> MemberDown) /\ poll[m] = "due"
    BY <1>1 DEF Observe, nodeVars, MemberDown
  <2>4. PaidFor(n)
    BY <1>p, <2>2, <2>3
  <2>5. CASE m # n
    <3>1. poll'[n] = poll[n] /\ since'[n] = since[n]
      BY <1>t, <2>1, <2>5 DEF Clear, TypeOK
    <3> QED BY <1>t, <2>2, <2>3, <2>4, <3>1, PaidKept
  <2>6. CASE m = n /\ Confirmed(m, answers)
    <3>1. world[n] \in Node \ Declared /\ world[n] # n /\ ~answers
      BY <1>t, <2>3, <2>6 DEF Confirmed, TypeOK
    <3>2. poll'[n] = "confirmed" /\ Since(n)' = Since(n)
      BY <1>t, <2>1, <2>6 DEF TypeOK, Since
    <3>3. Since(n) + 1 <= faults'
      <4>1. CASE Live(world[n])
        <5>1. faults' = faults + 1
          BY <2>1, <2>6, <3>1, <4>1 DEF PingsLost
        <5> QED BY <1>t, <2>3, <2>4, <2>6, <5>1 DEF PaidFor
      <4>2. CASE ~Live(world[n])
        <5>1. MemberDown
          BY <3>1, <4>2 DEF Live, MemberDown, NamedHasLeft
        <5> QED BY <1>t, <2>2, <2>3, <2>4, <2>6, <5>1 DEF PaidFor
      <4> QED BY <4>1, <4>2
    <3> QED BY <3>2, <3>3 DEF PaidFor
  <2>7. CASE m = n /\ ~Confirmed(m, answers)
    <3>1. poll'[n] = "done" /\ since'[n] = None
      BY <1>t, <2>1, <2>7 DEF Clear, TypeOK
    <3> QED BY <1>c, <2>2, <3>1
  <2> QED BY <2>5, <2>6, <2>7
<1>2. ASSUME NEW m \in Node, ObserveNothing(m) PROVE PaidFor(n)'
  <2>1. world' = world /\ (MemberDown' <=> MemberDown) /\ faults' = faults + 1
    BY <1>2 DEF ObserveNothing, nodeVars, MemberDown
  <2>2. CASE m # n
    <3>1. poll'[n] = poll[n] /\ since'[n] = since[n]
      BY <1>t, <1>2, <2>2 DEF ObserveNothing, Clear, TypeOK
    <3> QED BY <1>t, <1>p, <2>1, <3>1, PaidKept
  <2>3. CASE m = n
    <3>1. poll'[n] = "done" /\ since'[n] = None
      BY <1>t, <1>2, <2>3 DEF ObserveNothing, Clear, TypeOK
    <3> QED BY <1>c, <2>1, <3>1
  <2> QED BY <2>2, <2>3
<1>3. ASSUME NEW m \in Node, Wait(m) PROVE PaidFor(n)'
  <2>1. world' = world /\ (MemberDown' <=> MemberDown) /\ faults' = faults
    BY <1>3 DEF Wait, nodeVars, MemberDown
  <2>2. PaidFor(n)
    BY <1>p, <2>1
  <2>3. CASE m # n
    <3>1. poll'[n] = poll[n] /\ since'[n] = since[n]
      BY <1>t, <1>3, <2>3 DEF Wait, TypeOK
    <3> QED BY <1>t, <2>1, <2>2, <3>1, PaidKept
  <2>4. CASE m = n
    <3>1. poll[n] = "confirmed" /\ poll'[n] = "done" /\ since'[n] = Since(n)
      BY <1>t, <1>3, <2>4 DEF Wait, TypeOK
    <3> QED BY <1>t, <2>1, <2>2, <3>1 DEF PaidFor
  <2> QED BY <2>3, <2>4
<1>4. ASSUME NEW m \in Node, Restart(m) PROVE PaidFor(n)'
  <2>1. world[m] = Ghost /\ world' = world /\ m # n
    BY <1>4, PaidRestart DEF Restart
  <2>2. faults' \in {faults, faults + 1}
    BY <1>4 DEF Restart, Marked
  <2>3. MemberDown' => MemberDown
    BY <1>t, <1>4, <2>1 DEF Restart, MemberDown, TypeOK
  <2>4. poll'[n] = poll[n] /\ since'[n] = since[n]
    BY <1>t, <1>4, <2>1 DEF Restart, TypeOK
  <2> QED BY <1>t, <1>p, <2>1, <2>2, <2>3, <2>4, PaidKept
<1>5. ASSUME NEW m \in Node, Boot(m) PROVE PaidFor(n)'
  <2>1. faults' \in {faults, faults + 1}
    BY <1>5 DEF Boot, PingsLost
  <2>2. CASE m = n
    <3>1. poll'[n] = "done" /\ since'[n] = None
      BY <1>t, <1>5, <2>2 DEF Boot, TypeOK
    <3> QED BY <1>c, <2>1, <3>1
  <2>3. CASE m # n
    <3>1. \A a \in Node \ {m} : world'[a] = world[a] /\ up'[a] = up[a]
      BY <1>t, <1>5 DEF Boot, TypeOK
    <3>2. up'[m]
      BY <1>t, <1>5 DEF Boot, TypeOK
    <3>3. MemberDown' => MemberDown
      BY <3>1, <3>2 DEF MemberDown
    <3>4. poll'[n] = poll[n] /\ since'[n] = since[n]
      BY <1>t, <1>5, <2>3 DEF Boot, TypeOK
    <3> QED BY <1>t, <1>p, <2>1, <2>3, <3>1, <3>3, <3>4, PaidKept
  <2> QED BY <2>2, <2>3
<1>6. ASSUME NEW m \in Node, Crash(m) PROVE PaidFor(n)'
  <2>1. world' = world /\ faults' = faults + 1
    BY <1>6 DEF Crash
  <2>2. CASE m = n
    <3>1. poll'[n] = "due" /\ Since(n)' = 0
      BY <1>t, <1>6, <2>2 DEF Crash, TypeOK, Since
    <3> QED BY <1>t, <2>1, <3>1 DEF PaidFor
  <2>3. CASE m # n
    <3>1. poll'[n] = poll[n] /\ since'[n] = since[n]
      BY <1>t, <1>6, <2>3 DEF Crash, TypeOK
    <3> QED BY <1>t, <1>p, <2>1, <3>1, PaidKept
  <2> QED BY <2>2, <2>3
<1>7. ASSUME NEW m \in Node, Converge(m) PROVE PaidFor(n)'
  <2>1. up' = up /\ UNCHANGED watchVars /\ faults' = faults /\ up[m] /\ world[m] # Ghost
        /\ \A a \in Node \ {m} : world'[a] = world[a]
    BY <1>t, <1>7 DEF Converge, TypeOK
  <2>2. (MemberDown' => MemberDown) /\ world[n] # Ghost
    BY <2>1 DEF MemberDown
  <2> QED BY <1>t, <1>p, <2>1, <2>2, PaidKept DEF watchVars
<1>8. ASSUME NEW a \in Node, NEW x \in Node, Failover(a, x) PROVE PaidFor(n)'
  <2>1. /\ up' = up /\ UNCHANGED watchVars /\ faults' = faults
        /\ \A p \in Node : world'[p] = world[p] \/ (up[p] /\ world[p] = a)
    BY <1>8 DEF Failover, Following
  <2>2. (MemberDown' => MemberDown) /\ world[n] # Ghost
    BY <2>1, NodeFacts DEF MemberDown
  <2> QED BY <1>t, <1>p, <2>1, <2>2, PaidKept DEF watchVars
<1>9. CASE Tick
  <2>1. /\ \A p \in Node : up[p] /\ poll[p] = "done"
        /\ up' = up /\ world' = world /\ faults' = faults /\ poll'[n] = "due"
        /\ since'[n] = since[n] \/ (since[n] # None /\ since'[n] = since[n] + 1)
    BY <1>9 DEF Tick, nodeVars
  <2>2. ~MemberDown' /\ since[n] + 1 <= faults
    BY <1>p, <2>1 DEF MemberDown, PaidFor
  <2>3. Since(n)' <= faults
    BY <1>t, <2>1, <2>2 DEF Since
  <2> QED BY <2>1, <2>2, <2>3 DEF PaidFor
<1>10. CASE UNCHANGED vars
  <2>1. UNCHANGED <<world, up, poll, since, faults>>
    BY <1>10 DEF vars, nodeVars, watchVars
  <2> QED BY <1>t, <1>p, <2>1, PaidKept DEF MemberDown
<1> QED BY <1>1, <1>2, <1>3, <1>4, <1>5, <1>6, <1>7, <1>8, <1>9, <1>10 DEF Next, Watch

LEMMA OnlyStep == OnlyInv /\ [Next]_vars => OnlyInv'
BY TypeNext, NamedStep, PaidStep DEF OnlyInv

\* For every cluster size, dwell, stagger and cap: as long as no more faults struck than
\* the dwell has ticks, a node the watcher restarts is on the ghost.  A scaled-up
\* master the environment does not list is never taken for one, nor a member that is
\* down while its failover or its own restart is under way.
THEOREM OnlyGhostsAreRestarted == Spec => OnlyGhostsRestart
<1>1. ASSUME OnlyInv, [Next]_vars, NEW n \in Node, 0 \in past'[n] \ past[n], faults' <= Dwell
      PROVE  world[n] = Ghost
  <2>1. ASSUME NEW m \in Node, Restart(m) PROVE world[n] = Ghost
    <3>1. m = n
      BY <1>1, <2>1 DEF Restart, OnlyInv, TypeOK
    <3> QED BY <1>1, <2>1, <3>1, PaidRestart
  <2>2. ~Tick
    <3> SUFFICES ASSUME Tick PROVE FALSE
      OBVIOUS
    <3>1. past'[n] = Aged(past[n])
      BY DEF Tick
    <3>2. past[n] \subseteq Nat
      BY <1>1, TimeAssumption DEF OnlyInv, TypeOK
    <3>3. 0 \notin Aged(past[n])
      BY <3>2 DEF Aged
    <3> QED BY <1>1, <3>1, <3>3
  <2>3. past' # past
    BY <1>1
  <2>4. ASSUME NEW m \in Node,
               Observe(m) \/ ObserveNothing(m) \/ Wait(m) \/ Boot(m) \/ Crash(m) \/ Converge(m)
        PROVE  past' = past
    BY <2>4 DEF Observe, ObserveNothing, Wait, Boot, Crash, Converge
  <2>5. ASSUME NEW a \in Node, NEW x \in Node, Failover(a, x) PROVE past' = past
    BY <2>5 DEF Failover
  <2> QED BY <1>1, <2>1, <2>2, <2>3, <2>4, <2>5 DEF Next, Watch, vars
<1>2. OnlyInv /\ [Next]_vars =>
        [\A n \in Node : past'[n] # past[n] /\ 0 \in past'[n] \ past[n] /\ faults' <= Dwell
             => world[n] = Ghost]_vars
  BY <1>1
<1> QED BY OnlyInit, OnlyStep, <1>2, PTL DEF Spec, OnlyGhostsRestart

-----------------------------------------------------------------------------
(***************************************************************************)
(* Who restarts first.  While no fault has struck and the windows are in   *)
(* order, either the whole cluster is still on the ghost, every node       *)
(* confirms every poll, the windows keep their distances, and the primary, *)
(* which has the shortest hold, is the first past it; or there is a master *)
(* whose world is the only living one.                                     *)
(***************************************************************************)
Dead ==
    /\ \A n \in Node : world[n] = Ghost /\ role[n] = "replica" /\ (n # 1 => up[n])
    /\ MaxRestarts > 0 => \A n \in Node \ {1} : Since(n) < Hold(n)
    /\ up[1] => /\ marks[1] = {}
                /\ \A n \in Node : poll[n] = "done" => since[n] # None
                /\ MaxRestarts > 0 /\ poll[1] = "done" => Since(1) < Dwell
                /\ \A n \in Node \ {1} :
                     MaxRestarts > 0 => Since(n) - Since(1) < Rank(n) * Stagger

Refounded(m) ==
    /\ IsMaster(m) /\ world[m] = m
    /\ \A n \in Node : world[n] \in {m, Ghost} /\ (world[n] = m => up[n])
    /\ m = 1 \/ \A n, k \in Node : world[n] = Ghost /\ world[k] = Ghost => n = k

FirstInv == OnlyInv /\ (inOrder /\ faults = 0 => Dead \/ \E m \in Node : Refounded(m))

LEMMA DeclaredFinite == IsFiniteSet(Declared) /\ Cardinality(Declared) \in Nat
<1>1. IsFiniteSet(Node)
  BY NodeAssumption, FS_Interval DEF Node
<1> QED BY <1>1, NodeFacts, FS_Subset, FS_CardinalityType

\* Another declared member is there for every node: both hear of a consensus.
LEMMA AnotherDeclared ==
    ASSUME Cardinality(Declared) >= 2, NEW n \in Node
    PROVE  /\ Declared \ {n} # {} /\ IsFiniteSet(Declared \ {n})
           /\ Cardinality(Declared \ {n}) \in Nat \ {0}
<1>1. IsFiniteSet(Declared \ {n})
  BY DeclaredFinite, FS_Subset
<1>2. Cardinality(Declared \ {n}) \in Nat \ {0}
  <2>1. CASE n \in Declared
    <3>1. Cardinality(Declared \ {n}) = Cardinality(Declared) - 1
      BY <2>1, DeclaredFinite, FS_RemoveElement
    <3> QED BY <3>1, DeclaredFinite
  <2>2. CASE n \notin Declared
    <3>1. Declared \ {n} = Declared
      BY <2>2
    <3> QED BY <3>1, DeclaredFinite
  <2> QED BY <2>1, <2>2
<1> QED BY <1>1, <1>2, FS_EmptySet

\* As long as all are on the ghost and up, every poll is confirmed.
LEMMA AllConfirm ==
    ASSUME Cardinality(Declared) >= 2, NEW n \in Node,
           \A p \in Node : world[p] = Ghost /\ role[p] = "replica" /\ up[p]
    PROVE  Confirmed(n, FALSE)
<1>1. Peers(n) = Declared \ {n} /\ Table(n) = {}
  BY DEF Peers, Table
<1>2. {p \in {n} \cup {q \in Peers(n) : up[q]} : world[p] = Ghost} = Peers(n) \cup {n}
  BY <1>1, NodeFacts
<1>3. Votes(n, Ghost) = Cardinality(Peers(n)) + 1
  <2>1. n \notin Peers(n) /\ IsFiniteSet(Peers(n))
    BY <1>1, AnotherDeclared
  <2> QED BY <1>2, <2>1, FS_AddElement DEF Votes
<1>4. Cardinality(Peers(n)) \in Nat \ {0}
  BY <1>1, AnotherDeclared
<1>5. Consensus(n, Ghost)
  BY <1>3, <1>4 DEF Consensus
<1>6. world[n] \notin Declared \cup {n}
  BY NodeFacts
<1> QED BY <1>1, <1>5, <1>6 DEF Confirmed

LEMMA FaultsCount ==
    ASSUME [Next]_vars
    PROVE  faults' \in {faults, faults + 1}
<1>1. ASSUME NEW n \in Node,
             Watch(n) \/ ObserveNothing(n) \/ Boot(n) \/ Crash(n) \/ Converge(n)
      PROVE  faults' \in {faults, faults + 1}
  BY <1>1 DEF Watch, Observe, ObserveNothing, Wait, Restart, Marked, Boot, Crash, Converge,
     PingsLost
<1>2. ASSUME NEW a \in Node, NEW x \in Node, Failover(a, x)
      PROVE  faults' = faults
  BY <1>2 DEF Failover
<1>3. CASE Tick \/ UNCHANGED vars
  BY <1>3 DEF Tick, vars
<1> QED BY <1>1, <1>2, <1>3 DEF Next

LEMMA OrderKept == [Next]_vars => UNCHANGED inOrder
<1> SUFFICES ASSUME [Next]_vars PROVE UNCHANGED inOrder
  OBVIOUS
<1>1. ASSUME NEW n \in Node,
             Watch(n) \/ ObserveNothing(n) \/ Boot(n) \/ Crash(n) \/ Converge(n)
      PROVE  UNCHANGED inOrder
  BY <1>1 DEF Watch, Observe, ObserveNothing, Wait, Restart, Boot, Crash, Converge
<1>2. ASSUME NEW a \in Node, NEW x \in Node, Failover(a, x) PROVE UNCHANGED inOrder
  BY <1>2 DEF Failover
<1>3. CASE Tick \/ UNCHANGED vars
  BY <1>3 DEF Tick, vars
<1> QED BY <1>1, <1>2, <1>3 DEF Next

LEMMA FirstInit == Init => FirstInv
<1> SUFFICES ASSUME Init, inOrder PROVE Dead \/ \E m \in Node : Refounded(m)
  BY OnlyInit DEF FirstInv
<1>1. /\ \A n \in Node : up[n] /\ poll[n] = "due"
      /\ marks[1] = {}
  BY NodeFacts DEF Init
<1>2. CASE world = [n \in Node |-> Ghost] /\ role = [n \in Node |-> "replica"]
  <2>1. Since(1) \in Nat /\ Since(1) <= Dwell
    BY OnlyInit, OneNode, NodeFacts, Holds, TimeAssumption DEF OnlyInv
  <2>2. ASSUME NEW n \in Node \ {1}
        PROVE  Since(n) - Since(1) < Rank(n) * Stagger /\ Since(n) < Hold(n)
    <3>1. Since(n) - Since(1) < Rank(n) * Stagger
      BY DEF Init
    <3>2. Since(n) \in Nat
      BY OnlyInit, OneNode, Holds DEF OnlyInv
    <3> QED BY <2>1, <3>1, <3>2, Holds, TimeAssumption
  <2> QED BY <1>1, <1>2, <2>2, NodeFacts DEF Dead
<1>3. ASSUME NEW m \in Node, NEW g \in Node, m # g,
             world = [n \in Node |-> IF n = g THEN Ghost ELSE m],
             role = [n \in Node |-> RoleFor(n, m)]
      PROVE  Refounded(m)
  BY <1>1, <1>3, NodeFacts DEF Refounded, IsMaster, RoleFor
<1> QED BY <1>2, <1>3 DEF Init

LEMMA DeadStep ==
    ASSUME Cardinality(Declared) >= 2, OnlyInv, Dead, faults = 0, faults' = 0, [Next]_vars
    PROVE  Dead' \/ Refounded(1)'
<1>t. /\ TypeOK /\ Dwell \in Nat /\ MaxRestarts \in Nat /\ None = -1 /\ 1 \in Node
      /\ \A n \in Node : /\ Since(n) \in Nat /\ since[n] \in Int /\ since[n] >= -1
                        /\ Rank(n) * Stagger \in Nat /\ Hold(n) = Dwell + Rank(n) * Stagger
      /\ Hold(1) = Dwell
  <2>1. \A n \in Node : Hold(n) \in Nat /\ Since(n) \in 0..Hold(n)
    BY OneNode, Holds DEF OnlyInv
  <2> QED BY <2>1, Holds, NodeFacts, TimeAssumption, BoundAssumption DEF OnlyInv, TypeOK, None
<1>g. ~Live(Ghost) /\ Ghost \notin Declared /\ \A n \in Node : world[n] = Ghost /\ Ghost # n
  BY NodeFacts DEF Dead, Live
<1>1. ASSUME NEW m \in Node, Observe(m) PROVE Dead'
  <2>1. PICK answers \in BOOLEAN :
           /\ IF answers = Live(world[m]) THEN UNCHANGED faults ELSE PingsLost(world[m])
           /\ IF Confirmed(m, answers)
              THEN poll' = [poll EXCEPT ![m] = "confirmed"] /\ UNCHANGED since
              ELSE Clear(m)
    BY <1>1 DEF Observe
  <2>2. answers = FALSE
    BY <1>g, <2>1 DEF PingsLost
  <2>3. UNCHANGED <<nodeVars, marks>>
    BY <1>1 DEF Observe
  <2>4. CASE up[1]
    <3>1. Confirmed(m, FALSE)
      BY <2>4, AllConfirm DEF Dead
    <3>2. since' = since /\ poll' = [poll EXCEPT ![m] = "confirmed"]
      BY <2>1, <2>2, <3>1
    <3> QED BY <1>t, <2>3, <2>4, <3>2 DEF Dead, Since, TypeOK, nodeVars
  <2>5. CASE ~up[1]
    <3>1. \A n \in Node : since'[n] = since[n] \/ since'[n] = None
      BY <1>t, <2>1 DEF Clear, TypeOK
    <3>2. \A n \in Node : Since(n)' <= Since(n)
      BY <1>t, <3>1 DEF Since
    <3>3. \A n \in Node : Since(n)' \in Nat
      BY <1>t, <3>1 DEF Since
    <3> QED BY <1>t, <2>3, <2>5, <3>2, <3>3 DEF Dead, nodeVars
  <2> QED BY <2>4, <2>5
<1>2. ASSUME NEW m \in Node, Wait(m) PROVE Dead'
  <2>1. /\ poll' = [poll EXCEPT ![m] = "done"] /\ since' = [since EXCEPT ![m] = Since(m)]
        /\ UNCHANGED <<nodeVars, marks>>
    BY <1>2 DEF Wait
  <2>2. \A n \in Node : Since(n)' = Since(n)
    BY <1>t, <2>1 DEF Since, TypeOK
  <2>3. ASSUME up[1], MaxRestarts > 0, poll'[1] = "done" PROVE Since(1) < Dwell
    <3>1. CASE m # 1
      BY <1>t, <2>1, <2>3, <3>1 DEF Dead, TypeOK
    <3>2. CASE m = 1
      <4>1. Cardinality(marks[1]) = 0
        BY <2>3, FS_EmptySet DEF Dead
      <4> QED BY <1>2, <1>t, <2>3, <3>2, <4>1 DEF Wait
    <3> QED BY <3>1, <3>2
  <2>4. ASSUME up[1], NEW n \in Node, poll'[n] = "done" PROVE since'[n] # None
    BY <1>t, <2>1, <2>4 DEF Dead, TypeOK
  <2> QED BY <1>t, <2>1, <2>2, <2>3, <2>4 DEF Dead, nodeVars
<1>3. ASSUME NEW m \in Node, Restart(m) PROVE Dead'
  <2>1. Since(m) >= Hold(m) /\ MaxRestarts > 0
    <3>1. Cardinality(marks[m]) \in Nat
      BY <1>t, AgedShrinks DEF TypeOK
    <3> QED BY <1>3, <1>t, <3>1 DEF Restart
  <2>2. m = 1
    BY <1>t, <2>1 DEF Dead
  <2>3. /\ since' = [since EXCEPT ![1] = None] /\ up' = [up EXCEPT ![1] = FALSE]
        /\ UNCHANGED <<world, role>>
    BY <1>3, <2>2 DEF Restart
  <2>4. \A n \in Node \ {1} : Since(n)' = Since(n)
    BY <1>t, <2>3 DEF Since, TypeOK
  <2> QED BY <1>t, <2>3, <2>4 DEF Dead, TypeOK
<1>4. ASSUME NEW m \in Node, Boot(m) PROVE Refounded(1)'
  <2>1. m = 1
    BY <1>4 DEF Boot, Dead
  <2>2. PICK r \in Resolved(1) : role' = [role EXCEPT ![1] = RoleFor(1, r)]
                                 /\ world' = [world EXCEPT ![1] = r]
    BY <1>4, <1>t, <1>g, <2>1 DEF Boot
  <2>3. r = 1
    <3>1. PeerAnswers(1) \subseteq {Ghost}
      BY <1>g, NodeFacts DEF PeerAnswers
    <3>2. ~Vetted(Ghost)
      BY <1>g DEF Vetted
    <3> QED BY <2>2, <3>1, <3>2 DEF Resolved, EnvMaster
  <2>4. up' = [up EXCEPT ![1] = TRUE]
    BY <1>4, <2>1 DEF Boot
  <2> QED BY <1>t, <1>g, <2>2, <2>3, <2>4 DEF Refounded, IsMaster, RoleFor, TypeOK
<1>5. ASSUME NEW m \in Node PROVE ~ObserveNothing(m) /\ ~Crash(m) /\ ~Converge(m)
  BY <1>g DEF ObserveNothing, Crash, Converge
<1>6. ASSUME NEW a \in Node, NEW x \in Node PROVE ~Failover(a, x)
  BY <1>g DEF Failover, Following
<1>7. ASSUME Tick PROVE Dead'
  <2>1. /\ \A n \in Node : up[n] /\ poll[n] = "done"
        /\ poll' = [n \in Node |-> "due"] /\ UNCHANGED nodeVars
        /\ since' = [n \in Node |-> IF since[n] \in {None, Hold(n)} THEN since[n]
                                    ELSE since[n] + 1]
        /\ marks' = [n \in Node |-> Aged(marks[n])]
    BY <1>7 DEF Tick
  <2>2. \A n \in Node : since[n] = Since(n) /\ since[n] # None
    BY <1>t, <2>1 DEF Dead, Since
  <2>3. \A n \in Node : Since(n)' = IF Since(n) = Hold(n) THEN Since(n) ELSE Since(n) + 1
    BY <1>t, <2>1, <2>2 DEF Since
  <2>4. ASSUME MaxRestarts > 0, NEW n \in Node \ {1}
        PROVE  Since(n)' - Since(1)' < Rank(n) * Stagger /\ Since(n)' < Hold(n)
    <3>1. Since(1) < Dwell /\ Since(n) - Since(1) < Rank(n) * Stagger
      BY <1>t, <2>1, <2>4 DEF Dead
    <3>2. Since(1)' = Since(1) + 1 /\ Since(n)' <= Since(n) + 1 /\ Since(n)' \in Nat
      BY <1>t, <2>3, <3>1
    <3> QED BY <1>t, <3>1, <3>2
  <2>5. marks'[1] = {}
    BY <1>t, <2>1 DEF Dead, Aged
  <2> QED BY <1>t, <2>1, <2>4, <2>5 DEF Dead, nodeVars
<1>8. ASSUME UNCHANGED vars PROVE Dead'
  BY <1>8 DEF vars, nodeVars, watchVars, Dead, Since
<1> QED BY <1>1, <1>2, <1>3, <1>4, <1>5, <1>6, <1>7, <1>8 DEF Next, Watch

LEMMA RefoundedStep ==
    ASSUME Cardinality(Declared) >= 2, OnlyInv, faults = 0, faults' = 0, [Next]_vars,
           NEW m \in Node, Refounded(m)
    PROVE  Refounded(m)'
<1>t. TypeOK /\ 1 \in Declared /\ m # Ghost /\ Dwell \in Nat
  BY NodeAssumption, NodeFacts, TimeAssumption DEF OnlyInv
<1>1. CASE UNCHANGED nodeVars
  BY <1>1 DEF nodeVars, Refounded, IsMaster
<1>2. ASSUME NEW n \in Node, Watch(n) \/ ObserveNothing(n), ~Restart(n) PROVE UNCHANGED nodeVars
  BY <1>2 DEF Watch, Observe, ObserveNothing, Wait
<1>3. ASSUME NEW n \in Node, Restart(n) PROVE Refounded(m)'
  <2>1. world[n] = Ghost
    BY <1>3, <1>t, PaidRestart
  <2> QED BY <1>3, <1>t, <2>1 DEF Restart, Refounded, IsMaster, TypeOK
<1>4. ASSUME NEW n \in Node, Boot(n) PROVE Refounded(m)'
  <2>1. ~up[n] /\ world[n] = Ghost /\ n # m
    BY <1>4, <1>t DEF Boot, Refounded
  <2>2. PICK r \in Resolved(n) : role' = [role EXCEPT ![n] = RoleFor(n, r)]
                                 /\ world' = [world EXCEPT ![n] = r]
    <3>1. ~Live(Ghost) /\ Ghost \notin Declared /\ Ghost # n
      BY NodeFacts DEF Live
    <3> QED BY <1>4, <2>1, <3>1 DEF Boot
  <2>3. \A a \in PeerAnswers(n) : \E p \in Declared \ {n} : up[p] /\ world[p] = a
    BY DEF PeerAnswers
  <2>4. ~Vetted(Ghost) /\ Vetted(m)
    BY <1>t, NodeFacts DEF Vetted, Live, Refounded, IsMaster
  <2>5. r = m
    <3>1. CASE m = 1
      <4>1. PeerAnswers(n) \subseteq {m, Ghost}
        BY <2>3, NodeFacts DEF Refounded
      <4> QED BY <2>2, <2>4, <3>1, <4>1 DEF Resolved, EnvMaster
    <3>2. CASE m # 1
      <4>1. \A p \in Declared \ {n} : up[p] /\ world[p] = m
        BY <2>1, <3>2, NodeFacts DEF Refounded
      <4>2. PeerAnswers(n) = {m}
        <5>1. PICK p \in Declared \ {n} : TRUE
          BY AnotherDeclared
        <5>2. {world[q] : q \in {q \in Declared \ {n} : up[q]}} = {m}
          BY <4>1, <5>1
        <5>3. PeerAnswers(n) \subseteq {m}
          BY <2>3, <4>1
        <5>4. m \in PeerAnswers(n)
          <6> DEFINE P == {q \in Declared \ {n} : up[q]}
                     V(a) == Cardinality({q \in P : world[q] = a})
          <6>1. \A q \in P : V(m) >= V(world[q])
            <7>1. V(m) \in Nat
              <8>1. IsFiniteSet({q \in P : world[q] = m})
                BY DeclaredFinite, FS_Subset
              <8> QED BY <8>1, FS_CardinalityType
            <7> QED BY <4>1, <7>1
          <6> QED BY <5>2, <6>1 DEF PeerAnswers
        <5> QED BY <5>3, <5>4
      <4> QED BY <2>1, <2>2, <2>4, <4>2 DEF Resolved
    <3> QED BY <3>1, <3>2
  <2>6. up' = [up EXCEPT ![n] = TRUE]
    BY <1>4 DEF Boot
  <2> QED BY <1>t, <2>1, <2>2, <2>5, <2>6 DEF Refounded, IsMaster, TypeOK
<1>5. ASSUME NEW n \in Node PROVE ~Crash(n)
  BY DEF Crash
<1>6. ASSUME NEW a \in Node, NEW x \in Node PROVE ~Failover(a, x)
  <2> SUFFICES ASSUME Failover(a, x) PROVE FALSE
    OBVIOUS
  <2>1. world[x] = a /\ a # m
    BY DEF Failover, Following, Refounded
  <2> QED BY <2>1, NodeFacts DEF Refounded
<1>7. ASSUME NEW n \in Node, Converge(n) PROVE Refounded(m)'
  <2>1. PICK k \in Node :
           /\ Following(k) \ {n} # {} \/ k = n
           /\ IF k = world[n] THEN role[n] # RoleFor(n, k) ELSE Prevails(k, world[n])
           /\ world' = [world EXCEPT ![n] = k]
           /\ role' = [role EXCEPT ![n] = RoleFor(n, k)]
    BY <1>7 DEF Converge
  <2>2. world[n] = m
    BY <1>7 DEF Converge, Refounded
  <2>3. ASSUME NEW b \in Node, b # m PROVE Following(b) = {}
    BY <2>3, NodeFacts DEF Following, Refounded
  <2>4. m \in Following(m) /\ Following(m) \subseteq Node
    BY DEF Following, Refounded, IsMaster
  <2>5. k = m
    <3> SUFFICES ASSUME k # m PROVE FALSE
      OBVIOUS
    <3>1. Prevails(k, m) /\ Following(k) = {} /\ k = n
      BY <2>1, <2>2, <2>3
    <3>2. IsFiniteSet(Following(m))
      <4>1. IsFiniteSet(Node)
        BY NodeAssumption, FS_Interval DEF Node
      <4> QED BY <2>4, <4>1, FS_Subset
    <3>3. Cardinality(Following(m)) \in Nat \ {0} /\ Cardinality(Following(k)) = 0
      BY <2>4, <3>1, <3>2, FS_CardinalityType, FS_EmptySet
    <3> QED BY <3>1, <3>3 DEF Prevails
  <2>6. world' = world
    BY <1>t, <2>1, <2>2, <2>5 DEF TypeOK
  <2>7. IsMaster(m)'
    BY <1>7, <1>t, <2>1, <2>5 DEF Converge, Refounded, IsMaster, RoleFor, TypeOK
  <2> QED BY <1>7, <2>6, <2>7 DEF Converge, Refounded
<1>8. CASE Tick \/ UNCHANGED vars
  BY <1>1, <1>8 DEF Tick, vars
<1> QED BY <1>1, <1>2, <1>3, <1>4, <1>5, <1>6, <1>7, <1>8 DEF Next, Watch

LEMMA FirstStep ==
    ASSUME Cardinality(Declared) >= 2
    PROVE  FirstInv /\ [Next]_vars => FirstInv'
<1> SUFFICES ASSUME FirstInv, [Next]_vars, inOrder', faults' = 0
             PROVE  (Dead \/ \E m \in Node : Refounded(m))'
  BY OnlyStep DEF FirstInv
<1>1. faults = 0
  BY FaultsCount DEF FirstInv, OnlyInv, TypeOK
<1>o. inOrder
  BY OrderKept, Zenon
<1>2. CASE Dead
  BY <1>1, <1>2, DeadStep, NodeFacts DEF FirstInv
<1>3. ASSUME NEW m \in Node, Refounded(m) PROVE Refounded(m)'
  BY <1>1, <1>3, RefoundedStep DEF FirstInv
<1> QED BY <1>1, <1>o, <1>2, <1>3 DEF FirstInv

\* For every cluster size, dwell and stagger, with two declared members or more, and
\* wherever the windows start: while no fault has struck, and unless a window was opened
\* its node's stagger or more before the primary's, no replica restarts before there is
\* a master to join.  With one declared member the primary alone hears of no consensus
\* and this fails.
THEOREM RefoundedAlwaysFirst ==
    ASSUME Cardinality(Declared) >= 2
    PROVE  Spec => RefoundedFirst
<1>1. ASSUME FirstInv, [Next]_vars, NEW n \in Node \ {1}, inOrder, faults' = 0,
             up[n], ~up'[n]
      PROVE  \E m \in Node : IsMaster(m)
  <2>1. faults = 0
    BY <1>1, FaultsCount DEF FirstInv, OnlyInv, TypeOK
  <2>2. Restart(n)
    <3>1. ASSUME NEW m \in Node, Restart(m) PROVE m = n
      BY <1>1, <3>1 DEF Restart, FirstInv, OnlyInv, TypeOK
    <3>2. ASSUME NEW m \in Node, Boot(m) PROVE FALSE
      BY <1>1, <3>2 DEF Boot, FirstInv, OnlyInv, TypeOK
    <3>3. ASSUME NEW m \in Node, Crash(m) PROVE FALSE
      BY <1>1, <2>1, <3>3 DEF Crash
    <3>4. ASSUME NEW m \in Node, Observe(m) \/ ObserveNothing(m) \/ Wait(m) \/ Converge(m)
          PROVE  up' = up
      BY <3>4 DEF Observe, ObserveNothing, Wait, Converge, nodeVars
    <3>5. ASSUME NEW a \in Node, NEW x \in Node, Failover(a, x) PROVE up' = up
      BY <3>5 DEF Failover
    <3>6. CASE Tick \/ UNCHANGED vars
      BY <1>1, <3>6 DEF Tick, vars, nodeVars
    <3> QED BY <1>1, <3>1, <3>2, <3>3, <3>4, <3>5, <3>6 DEF Next, Watch
  <2>3. ~Dead
    <3> SUFFICES ASSUME Dead PROVE FALSE
      OBVIOUS
    <3>1. Cardinality(marks[n]) \in Nat /\ Cardinality(marks[n]) < MaxRestarts
          /\ Since(n) >= Hold(n)
      BY <1>1, <2>2, AgedShrinks DEF Restart, FirstInv, OnlyInv, TypeOK
    <3>2. Since(n) < Hold(n)
      BY <1>1, <3>1, BoundAssumption DEF Dead
    <3>3. Since(n) \in Nat /\ Hold(n) \in Nat
      BY <1>1, OneNode, Holds DEF FirstInv, OnlyInv
    <3> QED BY <3>1, <3>2, <3>3
  <2> QED BY <1>1, <2>1, <2>3 DEF FirstInv, Refounded
<1>2. FirstInv /\ [Next]_vars =>
        [\A n \in Node \ {1} : inOrder /\ faults' = 0 /\ up[n] /\ ~up'[n]
             => \E m \in Node : IsMaster(m)]_vars
  BY <1>1
<1>3. FirstInv /\ [Next]_vars => FirstInv'
  BY FirstStep
<1> QED BY FirstInit, <1>2, <1>3, PTL DEF Spec, RefoundedFirst
=============================================================================

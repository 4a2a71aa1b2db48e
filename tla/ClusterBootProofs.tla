------------------------- MODULE ClusterBootProofs -------------------------
(***************************************************************************)
(* Proofs about ClusterBoot for every cluster size, every primary, every   *)
(* state of the reused volumes, every bound on faults, and for faults that *)
(* overlap as well as for faults that do not, markers that cannot be       *)
(* written and boots that hear none of their peers included:               *)
(*   - type correctness, with the fact that a node past its boot never     *)
(*     monitors a ghost of a dead world;                                   *)
(*   - GateCovers, from the inductive invariant GateInv;                   *)
(*   - NoEmptyMaster as long as no volume has been wiped.                  *)
(***************************************************************************)
EXTENDS ClusterBoot, TLAPS

-----------------------------------------------------------------------------
(***************************************************************************)
(* Type correctness.                                                       *)
(***************************************************************************)

\* A node that has resolved its role holds no dead world's state, and one
\* whose sentinel.conf is written monitors a member.
Monitors ==
    \A n \in Node :
        /\ phase[n] = "resolved" => conf[n] \in Node \cup {NoState}
        /\ phase[n] \in {"configured", "prepared", "running"} => conf[n] \in Node

TypeInv == TypeOK /\ Monitors

\* The local state a boot uses is a member of the cluster or nothing.
LEMMA LocalStateType ==
    ASSUME TypeOK, NEW n \in Node
    PROVE  LocalState(n) \in Node \cup {NoState}
BY SentinelValues DEF LocalState, IsMember, Declared, Running, TypeOK

\* Whatever the peers answer, a boot resolves to a member of the cluster.
LEMMA ResolveType ==
    ASSUME TypeOK, NEW n \in Node, NEW local \in Node \cup {NoState}, NEW answer
    PROVE  /\ Resolve(n, local, answer).master \in Node
BY NodeAssumption, SentinelValues
   DEF Resolve, Resolution, IsMember, Declared, Running

LEMMA TypeInit == Init => TypeInv
BY NodeAssumption, SentinelValues, Bounds DEF Init, TypeInv, TypeOK, Monitors

LEMMA TypeStep == TypeInv /\ [Next]_vars => TypeInv'
<1> SUFFICES ASSUME TypeInv, [Next]_vars PROVE TypeInv'
  OBVIOUS
<1> USE NodeAssumption, SentinelValues, Bounds
<1>1. ASSUME NEW n \in Node, ResolveRole(n) PROVE TypeInv'
  <2>1. PICK answer :
          LET local == LocalState(n)
              r     == Resolve(n, local, answer)
          IN /\ conf'  = [conf EXCEPT ![n] = local]
             /\ epoch' = [epoch EXCEPT ![n] = IF local = NoState THEN 0 ELSE @]
             /\ IF Refuses(n, r)
                THEN UNCHANGED <<bootVars, alone>>
                ELSE /\ phase' = [phase EXCEPT ![n] = "resolved"]
                     /\ boot'  = [boot EXCEPT ![n] = r.master]
                     /\ \/ alone' = alone
                        \/ \E k \in {"empty", "holding"} : alone' = alone \cup {k}
    BY <1>1 DEF ResolveRole
  <2>6. slips' \in 0..MaxSlips /\ alone' \in SUBSET {"holding", "empty"}
    <3>1. slips' \in 0..MaxSlips
      BY <1>1 DEF ResolveRole, Slips, MayFault, TypeInv, TypeOK
    <3>2. alone' = alone \/ \E k \in {"empty", "holding"} : alone' = alone \cup {k}
      BY <2>1
    <3> QED BY <3>1, <3>2 DEF TypeInv, TypeOK
  <2>2. LocalState(n) \in Node \cup {NoState}
    BY LocalStateType DEF TypeInv
  <2>3. Resolve(n, LocalState(n), answer).master \in Node
    BY <2>2, ResolveType DEF TypeInv
  <2>4. CASE Refuses(n, Resolve(n, LocalState(n), answer))
    BY <1>1, <2>1, <2>2, <2>4, <2>6
       DEF ResolveRole, TypeInv, TypeOK, Monitors, bootVars, redisVars, pastVars, faultVars
  <2>5. CASE ~Refuses(n, Resolve(n, LocalState(n), answer))
    BY <1>1, <2>1, <2>2, <2>3, <2>5, <2>6
       DEF ResolveRole, TypeInv, TypeOK, Monitors, bootVars, redisVars, pastVars, faultVars
  <2> QED
    BY <2>4, <2>5
<1>2. ASSUME NEW n \in Node, WriteConfs(n) PROVE TypeInv'
  BY <1>2 DEF WriteConfs, MonitorLine, StampedPriority, TypeInv, TypeOK, Monitors, pastVars,
              faultVars
<1>15. ASSUME NEW n \in Node, Arm(n) PROVE TypeInv'
  <2>1. slips' \in 0..MaxSlips
    BY <1>15 DEF Arm, LeaveMarker, Slips, MayFault, TypeInv, TypeOK
  <2>2. unmarked' \in SUBSET Node
    BY <1>15 DEF Arm, LeaveMarker, TypeInv, TypeOK
  <2>3. marker' \in [Node -> BOOLEAN]
    BY <1>15 DEF Arm, LeaveMarker, Gated, TypeInv, TypeOK
  <2>4. /\ phase' = [phase EXCEPT ![n] = "prepared"]
        /\ unsynced' \in [Node -> BOOLEAN]
    BY <1>15 DEF Arm, TypeInv, TypeOK
  <2> QED
    BY <1>15, <2>1, <2>2, <2>3, <2>4 DEF Arm, TypeInv, TypeOK, Monitors, redisVars
<1>3. ASSUME NEW n \in Node, StartRedis(n) PROVE TypeInv'
  BY <1>3 DEF StartRedis, TypeInv, TypeOK, Monitors, pastVars, faultVars
<1>4. ASSUME NEW n \in Node, ReadInfo(n) PROVE TypeInv'
  BY <1>4 DEF ReadInfo, RoleAndLink, GateReads, TypeInv, TypeOK, Monitors, bootVars, volumeVars,
              pastVars, faultVars
<1>5. ASSUME NEW n \in Node, NEW setOk \in BOOLEAN, ActOnInfo(n, setOk) PROVE TypeInv'
  <2>1. slips' \in 0..MaxSlips
    BY <1>5 DEF ActOnInfo, Slips, MayFault, TypeInv, TypeOK
  <2>3. marker' \in [Node -> BOOLEAN]
    BY <1>5 DEF ActOnInfo, TypeInv, TypeOK
  <2>2. prio' \in [Node -> {0, 100}] /\ gate' \in [Node -> {"off", "poll"} \cup GateReads]
    BY <1>5 DEF ActOnInfo, TypeInv, TypeOK
  <2> QED
    BY <1>5, <2>1, <2>2, <2>3 DEF ActOnInfo, TypeInv, TypeOK, Monitors, bootVars, pastVars
<1>6. ASSUME NEW n \in Node, FullSync(n) PROVE TypeInv'
  BY <1>6 DEF FullSync, TypeInv, TypeOK, Monitors, bootVars, pastVars, faultVars
<1>7. ASSUME NEW n \in Node, RefreshInfo(n) PROVE TypeInv'
  BY <1>7 DEF RefreshInfo, TypeInv, TypeOK, Monitors, bootVars, volumeVars, pastVars, faultVars
<1>8. ASSUME NEW n \in Node, NEW s \in Node, Gossip(s, n) PROVE TypeInv'
  BY <1>8 DEF Gossip, CanGossip, Running, TypeInv, TypeOK, Monitors, bootVars, redisVars,
              pastVars, faultVars
<1>9. ASSUME NEW n \in Node, NEW s \in Node, Failover(s, n) PROVE TypeInv'
  BY <1>9 DEF Failover, TypeInv, TypeOK, Monitors, bootVars, pastVars, faultVars
<1>10. ASSUME NEW n \in Node, NEW s \in Node, Repoint(s, n) PROVE TypeInv'
  BY <1>10 DEF Repoint, CanRepoint, TypeInv, TypeOK, Monitors, bootVars, volumeVars,
              pastVars, faultVars
<1>11. ASSUME NEW n \in Node, LinkHeal(n) PROVE TypeInv'
  BY <1>11 DEF LinkHeal, TypeInv, TypeOK, Monitors, bootVars, volumeVars, pastVars, faultVars
<1>12. ASSUME NEW n \in Node, Crash(n) PROVE TypeInv'
  BY <1>12 DEF Crash, MayFault, TypeInv, TypeOK, Monitors, volumeVars
<1>13. ASSUME NEW n \in Node, Wipe(n) PROVE TypeInv'
  <2>1. wipes' \in 0..MaxWipes
    BY <1>13 DEF Wipe, TypeInv, TypeOK
  <2>2. CASE UNCHANGED <<marker, conf, epoch>>
    BY <1>13, <2>1, <2>2 DEF Wipe, TypeInv, TypeOK, Monitors, bootVars, redisVars
  <2>3. CASE /\ marker' = [marker EXCEPT ![n] = FALSE]
             /\ conf'   = [conf EXCEPT ![n] = NoState]
             /\ epoch'  = [epoch EXCEPT ![n] = 0]
    BY <1>13, <2>1, <2>3 DEF Wipe, TypeInv, TypeOK, Monitors, bootVars, redisVars
  <2> QED
    BY <1>13, <2>2, <2>3 DEF Wipe
<1>14. CASE UNCHANGED vars
  BY <1>14 DEF vars, TypeInv, TypeOK, Monitors, bootVars, volumeVars, redisVars, pastVars,
               faultVars
<1> QED
  BY <1>1, <1>2, <1>3, <1>4, <1>5, <1>6, <1>7, <1>8, <1>9, <1>10, <1>11, <1>12, <1>13, <1>14,
     <1>15
     DEF Next, Boot, GateWatch, Sentinel

\* Every variable keeps its type, and past its boot no node monitors a master
\* of a dead world (quarantine_dead_world_state, for every reused volume).
THEOREM TypeCorrect == Spec => [](TypeOK /\ Monitors)
BY TypeInit, TypeStep, PTL DEF Spec, TypeInv

-----------------------------------------------------------------------------
(***************************************************************************)
(* The gate covers every node without a full sync.  GateCovers alone is    *)
(* not inductive: what keeps a restarted replica gated is the marker on    *)
(* its volume, what keeps the watcher honest is that an INFO it has read   *)
(* and not yet acted on stays true of the dataset, and a master role or an *)
(* up link implies a dataset.                                              *)
(***************************************************************************)

\* The volume carries the gate: once redis-server has created its files
\* without a full sync, only the marker tells them from a dataset.
VolumeCarriesGate ==
    \A n \in Node :
        unsynced[n] /\ loadable[n] => marker[n] \/ n \in unmarked \/ n \in exposed

\* A boot that could not write the marker began on a volume without files.
UnmarkedIsBooted ==
    \A n \in unmarked :
        phase[n] = "running" \/ (phase[n] = "prepared" /\ ~loadable[n])

\* The stamp in redis.conf and the marker arm leaves agree, and a node without
\* a full sync past its preparation is a gated replica.
BootCarriesGate ==
    \A n \in Node :
        /\ phase[n] = "configured" => (prio[n] = 0 <=> Gated(n))
        /\ phase[n] = "prepared" /\ unsynced[n] =>
              /\ boot[n] # n
              /\ n \in exposed \/ (prio[n] = 0 /\ (marker[n] \/ n \in unmarked))
        /\ phase[n] = "running" /\ unsynced[n] =>
              /\ follows[n] # NoMaster
              /\ n \in exposed \/ (prio[n] = 0 /\ (marker[n] \/ n \in unmarked))

\* An up link, and an INFO that read one or the role of a master, belong to a running
\* node past its first sync; so does a priority Sentinel has read above 0, unless the
\* node once died mid-sync without its marker.
EvidenceIsSound ==
    \A n \in Node :
        /\ linked[n] \/ gate[n] \in {"slave-up", "master"} =>
              phase[n] = "running" /\ ~unsynced[n]
        /\ seen[n] > 0 => phase[n] = "running" /\ (~unsynced[n] \/ n \in exposed)

GateCarried ==
    VolumeCarriesGate /\ UnmarkedIsBooted /\ BootCarriesGate /\ EvidenceIsSound

GateInv == TypeInv /\ GateCarried

LEMMA GateInit == Init => GateInv
<1> SUFFICES ASSUME Init PROVE GateInv
  OBVIOUS
<1>1. VolumeCarriesGate /\ UnmarkedIsBooted /\ BootCarriesGate
  BY DEF Init, VolumeCarriesGate, UnmarkedIsBooted, BootCarriesGate
<1>2. \A n \in Node : ~linked[n] /\ gate[n] = "off" /\ ~(seen[n] > 0)
  BY DEF Init
<1> QED
  BY TypeInit, <1>1, <1>2 DEF GateInv, GateCarried, EvidenceIsSound

LEMMA GateStepInv == GateInv /\ [Next]_vars => GateInv'
<1> SUFFICES ASSUME GateInv, [Next]_vars PROVE GateCarried'
  BY TypeStep DEF GateInv
<1> USE SentinelValues
    DEF GateInv, TypeInv, TypeOK, Gated, pastVars, GateCarried, VolumeCarriesGate,
        UnmarkedIsBooted, BootCarriesGate, EvidenceIsSound
<1>1. ASSUME NEW n \in Node, ResolveRole(n) PROVE GateCarried'
  <2>1. /\ phase[n] = "down"
        /\ \A p \in Node \ {n} : phase'[p] = phase[p] /\ boot'[p] = boot[p]
        /\ phase'[n] \in {"down", "resolved"}
    BY <1>1 DEF ResolveRole, bootVars
  <2> QED
    BY <1>1, <2>1 DEF ResolveRole, redisVars
<1>2. ASSUME NEW n \in Node, WriteConfs(n) PROVE GateCarried'
  BY <1>2 DEF WriteConfs, StampedPriority, Gated, faultVars
<1>15. ASSUME NEW n \in Node, Arm(n) PROVE GateCarried'
  \* a master role ends the unsynced state; a replica boot without a dataset, or
  \* over a marked one, is gated, and marked unless the write failed
  <2>1. unsynced'[n] => boot[n] # n /\ (n \in exposed \/ Gated(n))
    BY <1>15 DEF Arm
  <2>2. n \notin unmarked
    BY <1>15 DEF Arm
  <2>3. CASE /\ marker' = [marker EXCEPT ![n] = Gated(n)]
             /\ unmarked' = unmarked \ {n}
    BY <1>15, <2>1, <2>3 DEF Arm, redisVars
  <2>4. CASE /\ marker[n] # Gated(n) /\ UNCHANGED marker
             /\ unmarked' = IF Gated(n) THEN unmarked \cup {n} ELSE unmarked
    BY <1>15, <2>1, <2>4 DEF Arm, redisVars
  <2> QED
    BY <1>15, <2>2, <2>3, <2>4 DEF Arm, LeaveMarker
<1>3. ASSUME NEW n \in Node, StartRedis(n) PROVE GateCarried'
  BY <1>3 DEF StartRedis
<1>4. ASSUME NEW n \in Node, ReadInfo(n) PROVE GateCarried'
  BY <1>4 DEF ReadInfo, RoleAndLink, bootVars, volumeVars
<1>5. ASSUME NEW n \in Node, NEW setOk \in BOOLEAN, ActOnInfo(n, setOk) PROVE GateCarried'
  \* both a lift and a stop that drops the marker act on sound evidence
  <2>1. unsynced[n] => marker'[n] = marker[n] /\ prio'[n] = prio[n]
    BY <1>5 DEF ActOnInfo, GateStep
  <2>2. gate'[n] \in {"off", "poll"}
    BY <1>5 DEF ActOnInfo
  <2> QED
    BY <1>5, <2>1, <2>2 DEF ActOnInfo, bootVars
<1>6. ASSUME NEW n \in Node, FullSync(n) PROVE GateCarried'
  BY <1>6 DEF FullSync, bootVars
<1>7. ASSUME NEW n \in Node, RefreshInfo(n) PROVE GateCarried'
  BY <1>7 DEF RefreshInfo, bootVars, volumeVars
<1>8. ASSUME NEW n \in Node, NEW s \in Node, Gossip(s, n) PROVE GateCarried'
  BY <1>8 DEF Gossip, bootVars, redisVars
<1>9. ASSUME NEW n \in Node, NEW s \in Node, Failover(s, n) PROVE GateCarried'
  BY <1>9 DEF Failover, bootVars
<1>10. ASSUME NEW n \in Node, NEW s \in Node, Repoint(s, n) PROVE GateCarried'
  BY <1>10 DEF Repoint, CanRepoint, bootVars, volumeVars
<1>11. ASSUME NEW n \in Node, LinkHeal(n) PROVE GateCarried'
  BY <1>11 DEF LinkHeal, Monitors, bootVars, volumeVars
<1>12. ASSUME NEW n \in Node, Crash(n) PROVE GateCarried'
  BY <1>12 DEF Crash, volumeVars
<1>13. ASSUME NEW n \in Node, Wipe(n) PROVE GateCarried'
  BY <1>13 DEF Wipe, bootVars, redisVars
<1>14. CASE UNCHANGED vars
  BY <1>14 DEF vars, bootVars, volumeVars, redisVars
<1> QED
  BY <1>1, <1>2, <1>3, <1>4, <1>5, <1>6, <1>7, <1>8, <1>9, <1>10, <1>11, <1>12, <1>13, <1>14,
     <1>15
     DEF Next, Boot, GateWatch, Sentinel

\* A running replica that has completed no full sync since its volume was new
\* is never promotable, and the marker gates its next boot too if it could be
\* written, whatever faults overlap and whatever boots hear (sync_gate.rs: decide_gated,
\* arm, decide_step, run).  Only a restart mid-sync without the marker ends it.
THEOREM GateAlwaysCovers == Spec => []GateCovers
<1>1. GateInv => GateCovers
  BY DEF GateInv, GateCarried, BootCarriesGate, GateCovers, Running
<1> QED
  BY GateInit, GateStepInv, <1>1, PTL DEF Spec

\* Sentinel's candidate filter never holds a node without a full sync, on any
\* interleaving of the watcher, the INFO refreshes, the faults and the marker writes
\* that fail, but for a node restarted mid-sync without its marker.
THEOREM CandidatesAlwaysSynced == Spec => []CandidateSynced
<1>1. GateInv => CandidateSynced
  BY DEF GateInv, GateCarried, EvidenceIsSound, CandidateSynced, Running
<1> QED
  BY GateInit, GateStepInv, <1>1, PTL DEF Spec

-----------------------------------------------------------------------------
(***************************************************************************)
(* No empty master, while every volume keeps what is on it.  A conversion  *)
(* starts with one dataset and empty volumes beside it; nodes crash and    *)
(* overlap as they like.  What makes it inductive is that nothing points   *)
(* at a node without a dataset: no sentinel.conf names it and no boot has  *)
(* resolved to it.                                                         *)
(***************************************************************************)

\* Nothing makes a master of n, on any volume or in any boot
Unnamed(n) ==
    /\ n # Primary /\ ~IsMaster(n)
    /\ \A x \in Node : conf[x] # n /\ (phase[x] # "down" => boot[x] # n)

EmptyIsUnsynced == \A n \in Node : data[n] = 0 => unsynced[n]
UnsyncedIsUnnamed == \A n \in Node : unsynced[n] => Unnamed(n)

EmptyInv ==
    GateInv /\ (wipes = 0 /\ exposed = {} => EmptyIsUnsynced /\ UnsyncedIsUnnamed)

LEMMA EmptyInit == Init => EmptyInv
<1> SUFFICES ASSUME Init PROVE EmptyIsUnsynced /\ UnsyncedIsUnnamed
  BY GateInit DEF EmptyInv
<1>1. \A x, n \in Node : conf[x] # n
  BY SentinelValues DEF Init
<1>2. ASSUME NEW n \in Node, n = Primary PROVE data[n] = 1 /\ ~unsynced[n]
  BY <1>2 DEF Init
<1>3. ASSUME NEW n \in Node, n # Primary PROVE unsynced[n]
  BY <1>3 DEF Init
<1>4. \A n \in Node : phase[n] = "down"
  BY DEF Init
<1> QED BY <1>1, <1>2, <1>3, <1>4 DEF EmptyIsUnsynced, UnsyncedIsUnnamed, Unnamed, IsMaster

\* A boot resolves to a node only if the environment, a peer's Sentinel or its own
\* sentinel.conf names that node.
LEMMA ResolveNamed ==
    ASSUME TypeInv, NEW n \in Node, NEW S \in Answering(n), NEW answer \in MajorityAnswers(S),
           NEW e \in Node, e # Primary,
           \A x \in Node : conf[x] # e
    PROVE  /\ LocalState(n) # e
           /\ Resolve(n, LocalState(n), answer).master # e
<1>1. LocalState(n) # e
  BY SentinelValues DEF LocalState
<1>2. answer # e
  <2>1. S \subseteq Node
    BY DEF Answering, Running
  <2> QED BY <2>1, SentinelValues DEF MajorityAnswers
<1> QED BY <1>1, <1>2 DEF Resolve, Resolution

LEMMA EmptyStep == EmptyInv /\ [Next]_vars => EmptyInv'
<1> SUFFICES ASSUME EmptyInv, [Next]_vars, wipes' = 0, exposed' = {}
             PROVE  EmptyIsUnsynced' /\ UnsyncedIsUnnamed'
  BY GateStepInv DEF EmptyInv
<1> USE SentinelValues DEF GateInv, TypeInv, TypeOK, pastVars
<1>0. EmptyInv /\ (wipes = 0 /\ exposed = {} => EmptyIsUnsynced /\ UnsyncedIsUnnamed)
  BY DEF EmptyInv
<1>1. ASSUME NEW n \in Node, ResolveRole(n) PROVE EmptyIsUnsynced' /\ UnsyncedIsUnnamed'
  <2>1. EmptyIsUnsynced /\ UnsyncedIsUnnamed
    BY <1>0, <1>1 DEF ResolveRole
  <2>5. PICK S \in Answering(n) : \E answer \in MajorityAnswers(S) :
          LET local == LocalState(n)
              r     == Resolve(n, local, answer)
          IN /\ conf'  = [conf EXCEPT ![n] = local]
             /\ IF Refuses(n, r)
                THEN UNCHANGED bootVars
                ELSE /\ phase' = [phase EXCEPT ![n] = "resolved"]
                     /\ boot'  = [boot EXCEPT ![n] = r.master]
    BY <1>1 DEF ResolveRole
  <2>2. PICK answer \in MajorityAnswers(S) :
          LET local == LocalState(n)
              r     == Resolve(n, local, answer)
          IN /\ conf'  = [conf EXCEPT ![n] = local]
             /\ IF Refuses(n, r)
                THEN UNCHANGED bootVars
                ELSE /\ phase' = [phase EXCEPT ![n] = "resolved"]
                     /\ boot'  = [boot EXCEPT ![n] = r.master]
    BY <2>5
  <2>3. ASSUME NEW e \in Node, unsynced'[e] PROVE Unnamed(e)'
    <3>1. unsynced[e] /\ Unnamed(e)
      BY <1>1, <2>1, <2>3 DEF ResolveRole, UnsyncedIsUnnamed
    <3>2. /\ LocalState(n) # e
          /\ Resolve(n, LocalState(n), answer).master # e
      BY <3>1, ResolveNamed DEF EmptyInv, Unnamed
    <3>3. \A x \in Node : conf'[x] # e
      BY <2>2, <3>1, <3>2 DEF EmptyInv, Unnamed
    <3>4. \A x \in Node : phase'[x] # "down" => boot'[x] # e
      BY <1>1, <2>2, <3>1, <3>2 DEF EmptyInv, Unnamed, bootVars, ResolveRole
    <3>5. ~IsMaster(e)'
      BY <1>1, <2>2, <3>1 DEF EmptyInv, Unnamed, IsMaster, ResolveRole, bootVars, redisVars
    <3> QED BY <3>1, <3>3, <3>4, <3>5 DEF Unnamed
  <2> QED BY <1>1, <2>1, <2>3 DEF ResolveRole, EmptyIsUnsynced, UnsyncedIsUnnamed
<1>2. ASSUME NEW n \in Node, WriteConfs(n) \/ Arm(n) \/ StartRedis(n)
      PROVE  EmptyIsUnsynced' /\ UnsyncedIsUnnamed'
  BY <1>0, <1>2 DEF WriteConfs, MonitorLine, Arm, StartRedis, redisVars, faultVars,
     EmptyIsUnsynced, UnsyncedIsUnnamed, Unnamed, IsMaster, EmptyInv
<1>3. ASSUME NEW n \in Node, GateWatch(n) \/ RefreshInfo(n)
      PROVE  EmptyIsUnsynced' /\ UnsyncedIsUnnamed'
  BY <1>0, <1>3 DEF GateWatch, ReadInfo, ActOnInfo, RefreshInfo, bootVars, volumeVars,
     faultVars, EmptyIsUnsynced, UnsyncedIsUnnamed, Unnamed, IsMaster
\* a full sync copies a master's dataset, and that master is not empty
<1>4. ASSUME NEW n \in Node, FullSync(n) PROVE EmptyIsUnsynced' /\ UnsyncedIsUnnamed'
  <2>1. EmptyIsUnsynced /\ UnsyncedIsUnnamed
    BY <1>0, <1>4 DEF FullSync, faultVars
  <2>2. data[follows[n]] # 0
    BY <1>4, <2>1 DEF FullSync, EmptyIsUnsynced, UnsyncedIsUnnamed, Unnamed
  <2> QED BY <1>4, <2>1, <2>2 DEF FullSync, bootVars, EmptyInv,
             EmptyIsUnsynced, UnsyncedIsUnnamed, Unnamed, IsMaster
<1>5. ASSUME NEW n \in Node, NEW s \in Node, Gossip(s, n) \/ Repoint(s, n)
      PROVE  EmptyIsUnsynced' /\ UnsyncedIsUnnamed'
  <2>1. CASE Gossip(s, n)
    BY <1>0, <2>1 DEF Gossip, bootVars, redisVars, faultVars, EmptyInv, EmptyIsUnsynced,
       UnsyncedIsUnnamed, Unnamed, IsMaster
  <2>2. CASE Repoint(s, n)
    BY <1>0, <2>2 DEF Repoint, CanRepoint, bootVars, volumeVars, faultVars, EmptyInv,
       EmptyIsUnsynced, UnsyncedIsUnnamed, Unnamed, IsMaster
  <2> QED BY <1>5, <2>1, <2>2
<1>6. ASSUME NEW n \in Node, NEW s \in Node, Failover(s, n)
      PROVE  EmptyIsUnsynced' /\ UnsyncedIsUnnamed'
  <2>1. EmptyIsUnsynced /\ UnsyncedIsUnnamed
    BY <1>0, <1>6 DEF Failover, faultVars
  <2>2. PICK e \in 1..MaxEpoch :
          /\ conf'  = [t \in Node |-> IF t \in Supporters(s) THEN n ELSE conf[t]]
          /\ data'  = [data EXCEPT ![n] = IF @ = 0 THEN 0 ELSE e + 1]
    BY <1>6 DEF Failover
  \* a candidate has completed a full sync, so it is not empty
  <2>3. exposed = {}
    BY <1>6 DEF Failover
  <2>4. ~unsynced[n]
    BY <1>6, <2>3 DEF Failover, CanFailover, Running, EmptyInv, GateCarried,
       EvidenceIsSound
  <2> QED BY <1>6, <2>1, <2>2, <2>4 DEF Failover, bootVars, EmptyInv, EmptyIsUnsynced,
             UnsyncedIsUnnamed, Unnamed, IsMaster
<1>7. ASSUME NEW n \in Node, LinkHeal(n) PROVE EmptyIsUnsynced' /\ UnsyncedIsUnnamed'
  BY <1>0, <1>7 DEF LinkHeal, Monitors, bootVars, volumeVars, faultVars, EmptyInv,
     EmptyIsUnsynced, UnsyncedIsUnnamed, Unnamed, IsMaster
<1>8. ASSUME NEW n \in Node, Crash(n) PROVE EmptyIsUnsynced' /\ UnsyncedIsUnnamed'
  <2>1. exposed = {}
    BY <1>8, exposed' = {} DEF Crash
  <2> QED
    BY <1>0, <1>8, <2>1 DEF Crash, volumeVars, EmptyInv, EmptyIsUnsynced, UnsyncedIsUnnamed,
       Unnamed, IsMaster
<1>9. ASSUME NEW n \in Node, Wipe(n) PROVE FALSE
  BY <1>9 DEF Wipe, EmptyInv
<1>10. CASE UNCHANGED vars
  BY <1>0, <1>10 DEF vars, bootVars, volumeVars, redisVars, faultVars, EmptyIsUnsynced,
     UnsyncedIsUnnamed, Unnamed, IsMaster
<1> QED
  BY <1>1, <1>2, <1>3, <1>4, <1>5, <1>6, <1>7, <1>8, <1>9, <1>10 DEF Next, Boot, Sentinel

\* Until a volume loses its dataset no empty node is ever master, for every cluster,
\* however faults overlap and however many boots hear none of their peers: neither a
\* boot (the answers, their absence, the environment, a reused sentinel.conf), nor a
\* failover, nor link heal makes one of a node that has not synced.  The one exception
\* is a node that died mid-sync without its marker.  After a wipe only the runs speak.
THEOREM NoEmptyMasterUntilWiped ==
    Spec => [](wipes = 0 => NoEmptyMaster /\ (exposed = {} => MastersHoldData))
<1>1. EmptyInv => (wipes = 0 => NoEmptyMaster /\ (exposed = {} => MastersHoldData))
  <2> SUFFICES ASSUME EmptyInv, wipes = 0, exposed = {}, NEW n \in Node, IsMaster(n)
               PROVE  data[n] > 0
    BY DEF NoEmptyMaster, MastersHoldData
  <2>1. data[n] # 0
    BY DEF EmptyInv, EmptyIsUnsynced, UnsyncedIsUnnamed, Unnamed
  <2> QED BY <2>1, Bounds DEF EmptyInv, GateInv, TypeInv, TypeOK
<1> QED
  BY EmptyInit, EmptyStep, <1>1, PTL DEF Spec

=============================================================================

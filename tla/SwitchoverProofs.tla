-------------------------- MODULE SwitchoverProofs --------------------------
(***************************************************************************)
(* For every cluster, any number of requests at any of its nodes and any   *)
(* number of faults:                                                       *)
(*   - every variable keeps its type;                                      *)
(*   - a gated node is never made promotable;                              *)
(*   - a node that carries the election bias has an attempt or a restore   *)
(*     that will take it away, unless a restore itself was lost: refused,  *)
(*     dropped by the timeout or hung up on by the client;                 *)
(*   - an election that an attempt asked for picks a node that was asked.  *)
(***************************************************************************)
EXTENDS Switchover, TLAPS

USE DEF serverVars, redisVars, sentinelVars, historyVars

-----------------------------------------------------------------------------
LEMMA StageNames ==
    Stages = {"none", "check", "read", "set", "wait", "failover", "unbias", "settle", "restore",
              "unsettle"}
  BY DEF Stages, Handling, UnderTimeout

LEMMA TypeInit == Init => TypeOK
  <1> SUFFICES ASSUME Init PROVE TypeOK
    OBVIOUS
  <1>1. prio \in [Node -> Priority]
    BY DEF Init, Priority
  <1>2. seen \in [Node -> [Node -> Priority]]
    BY <1>1 DEF Init
  <1> QED
    BY <1>1, <1>2, StageNames, Members, Bounds DEF Init, TypeOK

\* The ways on and the ways out keep the server's types.
LEMMA ServerTypes ==
    ASSUME TypeOK, NEW n \in Node, NEW s \in Stages,
           Goto(n, s) \/ Restore(n, s) \/ Leave(n)
    PROVE  /\ latch' \in [Node -> BOOLEAN] /\ stage' \in [Node -> Stages]
           /\ stash' \in [Node -> {None, Bias, Default}]
           /\ taken' \in [Node -> {None, Bias, Default}]
  <1>1. CASE Goto(n, s)
    BY <1>1 DEF Goto, TypeOK
  <1>2. CASE Restore(n, s)
    BY <1>2 DEF Restore, TypeOK
  <1>3. CASE Leave(n)
    BY <1>3, StageNames DEF Leave, TypeOK
  <1> QED
    BY <1>1, <1>2, <1>3

\* What a command without an answer may have done.
LEMMA MayHaveSetTypes ==
    ASSUME TypeOK, NEW n \in Node, NEW p \in MayHaveSet(n)
    PROVE  p \in [Node -> Priority]
  BY DEF MayHaveSet, Restoring, TypeOK, Priority, None, Bias, Default

\* So may it have started a failover; and what is lost has a name.
LEMMA MayHaveAskedTypes ==
    ASSUME TypeOK, NEW n \in Node, NEW e \in MayHaveAsked(n)
    PROVE  e \in [Node -> BOOLEAN]
  BY DEF MayHaveAsked, TypeOK

LEMMA LosesTypes ==
    ASSUME TypeOK, NEW n \in Node, NEW how \in {"refused", "dropped", "deserted"},
           Loses(n, how)
    PROVE  lost' \in [Node -> SUBSET {"refused", "dropped", "deserted"}]
  BY DEF Loses, TypeOK

LEMMA LosesMarks ==
    ASSUME TypeOK, NEW n \in Node, NEW how, Loses(n, how)
    PROVE  how \in lost'[n]
  <1>1. DOMAIN lost = Node
    BY DEF TypeOK
  <1>2. lost' = [lost EXCEPT ![n] = lost[n] \cup {how}]
    BY DEF Loses
  <1>3. lost'[n] = lost[n] \cup {how}
    BY <1>1, <1>2
  <1> QED
    BY <1>3

LEMMA TypeStep == TypeOK /\ [Next]_vars => TypeOK'
  <1> SUFFICES ASSUME TypeOK, [Next]_vars PROVE TypeOK'
    OBVIOUS
  <1> DEFINE ServerOK ==
        /\ latch' \in [Node -> BOOLEAN] /\ stage' \in [Node -> Stages]
        /\ stash' \in [Node -> {None, Bias, Default}]
        /\ taken' \in [Node -> {None, Bias, Default}]
  <1>0. Priority = {0, Bias, Default} /\ Bias = 1 /\ Default = 100 /\ None = -1
    BY DEF Priority, Bias, Default, None
  <1>1. ASSUME NEW n \in Node, Post(n) PROVE TypeOK'
    BY <1>1, StageNames, Bounds DEF Post, TypeOK
  <1>2. ASSUME NEW n \in Node, Check(n) PROVE TypeOK'
    <2>1. ServerOK
      BY <1>2, ServerTypes, StageNames DEF Check
    <2> QED
      BY <1>2, <2>1, Bounds DEF Check, Fault, NoFault, TypeOK
  <1>3. ASSUME NEW n \in Node, ReadPriority(n) PROVE TypeOK'
    <2>1. ServerOK
      <3>1. CASE BlocksSwitchover(prio[n])
        BY <1>3, <3>1, ServerTypes, StageNames DEF ReadPriority
      <3>2. CASE ~BlocksSwitchover(prio[n])
        <4>1. prio[n] \in {Bias, Default}
          BY <1>0, <3>2 DEF BlocksSwitchover, TypeOK
        <4> QED
          BY <1>3, <3>2, <4>1, StageNames DEF ReadPriority, TypeOK
      <3> QED
        BY <3>1, <3>2
    <2> QED
      BY <1>3, <2>1 DEF ReadPriority, TypeOK
  <1>4. ASSUME NEW n \in Node, SetBias(n) PROVE TypeOK'
    <2>1. ServerOK
      BY <1>4, ServerTypes, StageNames DEF SetBias
    <2> QED
      BY <1>0, <1>4, <2>1 DEF SetBias, TypeOK
  <1>5. ASSUME NEW n \in Node, SeeBias(n) PROVE TypeOK'
    <2>1. ServerOK
      BY <1>5, ServerTypes, StageNames DEF SeeBias
    <2> QED
      BY <1>5, <2>1 DEF SeeBias, TypeOK
  <1>6. ASSUME NEW n \in Node, WaitExpires(n) PROVE TypeOK'
    <2>1. ServerOK
      BY <1>6, ServerTypes, StageNames DEF WaitExpires
    <2> QED
      BY <1>6, <2>1 DEF WaitExpires, TypeOK
  <1>7. ASSUME NEW n \in Node, AskFailover(n) PROVE TypeOK'
    <2>1. ServerOK
      BY <1>7, ServerTypes, StageNames DEF AskFailover
    <2> QED
      BY <1>7, <2>1 DEF AskFailover, TypeOK
  <1>8. ASSUME NEW n \in Node, FailoverRefused(n) PROVE TypeOK'
    <2>1. ServerOK
      BY <1>8, ServerTypes, StageNames DEF FailoverRefused
    <2> QED
      BY <1>8, <2>1, Bounds DEF FailoverRefused, Fault, NoFault, TypeOK
  <1>9. ASSUME NEW n \in Node, Settle(n) PROVE TypeOK'
    <2>1. ServerOK
      BY <1>9, ServerTypes, StageNames DEF Settle
    <2> QED
      BY <1>9, <2>1 DEF Settle, TypeOK
  <1>10. ASSUME NEW n \in Node, PutBack(n) PROVE TypeOK'
    <2>1. ServerOK
      BY <1>10, ServerTypes, StageNames DEF PutBack
    <2>2. prio' \in [Node -> Priority]
      BY <1>0, <1>10 DEF PutBack, TypeOK
    <2> QED
      BY <1>10, <2>1, <2>2 DEF PutBack, TypeOK
  <1>11. ASSUME NEW n \in Node, RedisFails(n) PROVE TypeOK'
    <2>1. ServerOK
      BY <1>11, ServerTypes, StageNames DEF RedisFails
    <2>2. prio' \in [Node -> Priority]
      BY <1>11, MayHaveSetTypes DEF RedisFails
    <2> QED
      BY <1>11, <2>1, <2>2, Bounds DEF RedisFails, Fault, TypeOK
  <1>19. ASSUME NEW n \in Node, RestoreRefused(n) PROVE TypeOK'
    <2>1. ServerOK
      BY <1>19, ServerTypes, StageNames DEF RestoreRefused
    <2>2. prio' \in [Node -> Priority]
      BY <1>19, MayHaveSetTypes DEF RestoreRefused
    <2>3. lost' \in [Node -> SUBSET {"refused", "dropped", "deserted"}]
      BY <1>19, LosesTypes DEF RestoreRefused
    <2> QED
      BY <1>19, <2>1, <2>2, <2>3, Bounds DEF RestoreRefused, Fault, TypeOK
  <1>12. ASSUME NEW n \in Node, TimesOut(n) PROVE TypeOK'
    <2>1. ServerOK
      BY <1>12, ServerTypes, StageNames DEF TimesOut, TimeoutArm
    <2>2. prio' \in [Node -> Priority]
      BY <1>12, MayHaveSetTypes DEF TimesOut
    <2>3. electing' \in [Node -> BOOLEAN]
      BY <1>12, MayHaveAskedTypes DEF TimesOut
    <2>4. lost' \in [Node -> SUBSET {"refused", "dropped", "deserted"}]
      BY <1>12, LosesTypes DEF TimesOut, NothingLost, TypeOK
    <2> QED
      BY <1>12, <2>1, <2>2, <2>3, <2>4, Bounds DEF TimesOut, Fault, TypeOK
  <1>20. ASSUME NEW n \in Node, HangUp(n) PROVE TypeOK'
    <2>1. ServerOK
      BY <1>20, StageNames DEF HangUp, TypeOK
    <2>2. prio' \in [Node -> Priority]
      BY <1>20, MayHaveSetTypes DEF HangUp
    <2>3. electing' \in [Node -> BOOLEAN]
      BY <1>20, MayHaveAskedTypes DEF HangUp
    <2>4. lost' \in [Node -> SUBSET {"refused", "dropped", "deserted"}]
      BY <1>20, LosesTypes DEF HangUp
    <2> QED
      BY <1>20, <2>1, <2>2, <2>3, <2>4, Bounds DEF HangUp, Fault, TypeOK
  <1>13. ASSUME NEW n \in Node, Restart(n) PROVE TypeOK'
    <2>1. prio' \in [Node -> Priority]
      BY <1>0, <1>13 DEF Restart, TypeOK
    <2>2. ServerOK
      BY <1>13, StageNames DEF Restart, TypeOK
    <2>3. /\ electing' \in [Node -> BOOLEAN] /\ faults' \in 0..MaxFaults
          /\ lost' \in [Node -> SUBSET {"refused", "dropped", "deserted"}]
      BY <1>13, Bounds DEF Restart, Fault, TypeOK
    <2>4. UNCHANGED <<primary, synced, seen, named, asked, posts>>
      BY <1>13 DEF Restart
    <2> QED
      BY <2>1, <2>2, <2>3, <2>4 DEF TypeOK
  <1>14. ASSUME NEW n \in Node, Lift(n) PROVE TypeOK'
    BY <1>0, <1>14 DEF Lift, TypeOK
  <1>15. ASSUME NEW s \in Node, Elect(s) PROVE TypeOK'
    <2>1. Candidates(s) \in SUBSET Node
      BY DEF Candidates
    <2>2. primary' \in Node /\ named' \in [Node -> Node]
      <3>1. CASE Candidates(s) = {}
        BY <1>15, <3>1 DEF Elect, TypeOK
      <3>2. CASE Candidates(s) # {}
        <4>1. PICK n \in Candidates(s) : primary' = n /\ named' = [named EXCEPT ![s] = n]
          BY <1>15, <3>2 DEF Elect
        <4>2. n \in Node
          BY <2>1
        <4> QED
          BY <4>1, <4>2 DEF TypeOK
      <3> QED
        BY <3>1, <3>2
    <2>3. electing' \in [Node -> BOOLEAN]
      BY <1>15 DEF Elect, TypeOK
    <2> QED
      BY <1>15, <2>2, <2>3 DEF Elect, TypeOK
  <1>16. ASSUME NEW s \in Node, Learn(s) PROVE TypeOK'
    BY <1>16 DEF Learn, TypeOK
  <1>17. ASSUME NEW s \in Node, NEW n \in Node, Refresh(s, n) PROVE TypeOK'
    BY <1>17 DEF Refresh, TypeOK
  <1>18. CASE UNCHANGED vars
    BY <1>18 DEF vars, TypeOK
  <1> QED
    BY <1>1, <1>2, <1>3, <1>4, <1>5, <1>6, <1>7, <1>8, <1>9, <1>10, <1>11, <1>12, <1>13,
       <1>14, <1>15, <1>16, <1>17, <1>18, <1>19, <1>20 DEF Next, Attempt, Interruption, Sentinel

\* Every variable keeps its type: no restore ever carries the gated priority.
THEOREM TypeCorrect == Spec => []TypeOK
  BY TypeInit, TypeStep, PTL DEF Spec

-----------------------------------------------------------------------------
(***************************************************************************)
(* The gate.  A node that is not synced carries priority 0, and its        *)
(* attempt never gets past the read: it has nothing stashed or taken.      *)
(***************************************************************************)
NothingToRestore(n) ==
    /\ prio[n] = 0
    /\ stash[n] = None /\ taken[n] = None
    /\ stage[n] \in {"none", "check", "read", "restore"}

GateInv == \A n \in Node : n \notin synced => NothingToRestore(n)

LEMMA GateStep == TypeOK /\ GateInv /\ [Next]_vars => GateInv'
  <1> SUFFICES ASSUME TypeOK, GateInv, [Next]_vars,
                      NEW m \in Node, m \notin synced'
               PROVE  NothingToRestore(m)'
    BY DEF GateInv
  <1> USE DEF NothingToRestore
  <1>0. NothingToRestore(m) /\ m \notin synced
    BY DEF GateInv, Next, Attempt, Interruption, Sentinel, Post, Check, ReadPriority, SetBias,
           SeeBias, WaitExpires, AskFailover, FailoverRefused, Settle, PutBack, RedisFails,
           RestoreRefused, TimesOut, HangUp, Restart, Lift, Elect, Learn, Refresh, vars
  <1>1. ASSUME NEW n \in Node, Post(n) PROVE NothingToRestore(m)'
    BY <1>0, <1>1 DEF Post, TypeOK
  <1>2. ASSUME NEW n \in Node, Check(n) PROVE NothingToRestore(m)'
    BY <1>0, <1>2 DEF Check, Leave, Goto, TypeOK
  <1>3. ASSUME NEW n \in Node, ReadPriority(n) PROVE NothingToRestore(m)'
    BY <1>0, <1>3 DEF ReadPriority, Restore, BlocksSwitchover, TypeOK
  <1>4. ASSUME NEW n \in Node,
               SetBias(n) \/ SeeBias(n) \/ WaitExpires(n) \/ AskFailover(n)
                 \/ FailoverRefused(n) \/ Settle(n)
        PROVE NothingToRestore(m)'
    <2>1. n # m
      BY <1>0, <1>4
         DEF SetBias, SeeBias, WaitExpires, AskFailover, FailoverRefused, Settle
    <2> QED
      BY <1>0, <1>4, <2>1
         DEF SetBias, SeeBias, WaitExpires, AskFailover, FailoverRefused, Settle, Goto,
             Restore, TypeOK
  <1>5. ASSUME NEW n \in Node, PutBack(n) PROVE NothingToRestore(m)'
    BY <1>0, <1>5 DEF PutBack, Leave, TypeOK
  <1>6. ASSUME NEW n \in Node, RedisFails(n) \/ TimesOut(n) PROVE NothingToRestore(m)'
    <2>1. prio' \in MayHaveSet(n) /\ Restore(n, "restore")
      BY <1>6 DEF RedisFails, TimesOut, TimeoutArm
    <2>2. prio'[m] = 0
      BY <1>0, <2>1 DEF MayHaveSet, Restoring, TypeOK
    <2> QED
      BY <1>0, <2>1, <2>2 DEF Restore, TypeOK
  <1>10. ASSUME NEW n \in Node, RestoreRefused(n) \/ HangUp(n) PROVE NothingToRestore(m)'
    <2>1. prio' \in MayHaveSet(n)
      BY <1>10 DEF RestoreRefused, HangUp
    <2>2. prio'[m] = 0
      BY <1>0, <2>1 DEF MayHaveSet, Restoring, TypeOK
    <2> QED
      BY <1>0, <1>10, <2>2 DEF RestoreRefused, HangUp, Leave, TypeOK
  <1>7. ASSUME NEW n \in Node, Restart(n) PROVE NothingToRestore(m)'
    BY <1>0, <1>7 DEF Restart, TypeOK
  <1>8. ASSUME NEW n \in Node, Lift(n) PROVE NothingToRestore(m)'
    BY <1>0, <1>8 DEF Lift, TypeOK
  <1>9. CASE UNCHANGED <<serverVars, prio>>
    BY <1>0, <1>9
  <1> QED
    BY <1>1, <1>2, <1>3, <1>4, <1>5, <1>6, <1>7, <1>8, <1>9, <1>10
       DEF Next, Attempt, Interruption, Sentinel, Elect, Learn, Refresh, vars

\* Whatever requests and faults it meets, a node whose first full sync is
\* outstanding keeps the priority that bars it from election (health_server.rs,
\* initiate_switchover; sync_gate.rs, blocks_switchover).
THEOREM GatedNeverPromotable == Spec => []GatedStaysOut
  <1>1. Init => GateInv
    BY DEF Init, GateInv, NothingToRestore
  <1>2. TypeOK /\ GateInv => GatedStaysOut
    BY DEF GateInv, NothingToRestore, GatedStaysOut
  <1> QED
    BY <1>1, <1>2, TypeInit, TypeStep, GateStep, PTL DEF Spec

-----------------------------------------------------------------------------
(***************************************************************************)
(* The bias.  From the overwrite until the restore, the priority to go     *)
(* back to is in the stash, and then in the hands of the one restorer,     *)
(* until a restore of this node is lost.                                   *)
(***************************************************************************)
Owned(n) ==
    /\ stage[n] = "none" <=> ~latch[n]
    /\ stash[n] # Bias /\ taken[n] # Bias
    /\ stage[n] \in {"none", "check", "read"} => prio[n] # Bias
    /\ stage[n] \in {"set", "wait", "failover", "settle"} => stash[n] = Default
    /\ stage[n] \in Restoring /\ prio[n] = Bias => taken[n] = Default

BiasInv == \A n \in Node : lost[n] = {} => Owned(n)

\* One restorer takes the stash: from then on what it holds is owed to Redis.
LEMMA RestoreOwns ==
    ASSUME TypeOK, NEW n \in Node, NEW s \in Restoring, Owned(n),
           stage[n] \notin Restoring \cup {"none"}, Restore(n, s),
           prio'[n] = Bias => prio[n] = Bias \/ stage[n] = "set"
    PROVE  Owned(n)'
  <1>1. stage'[n] = s /\ taken'[n] = stash[n] /\ stash'[n] = None /\ latch'[n] = latch[n]
    BY DEF Restore, TypeOK
  <1>2. None # Bias /\ stash[n] # Bias
    BY DEF None, Bias, Owned
  <1>3. prio'[n] = Bias => stage[n] \in {"set", "wait", "failover", "settle"}
    BY StageNames DEF Owned, Restoring, TypeOK
  <1> QED
    BY <1>1, <1>2, <1>3 DEF Owned, Restoring

\* A step at one node leaves what the others owe alone, and only a restart finds
\* again what was lost.
LEMMA BiasStep ==
    ASSUME TypeOK, BiasInv, [Next]_vars PROVE BiasInv'
  <1> SUFFICES ASSUME NEW m \in Node, lost'[m] = {} PROVE Owned(m)'
    BY DEF BiasInv
  <1>0. Bias = 1 /\ Default = 100 /\ None = -1
    BY DEF Bias, Default, None
  <1>a. (\E n \in Node : Restart(n)) \/ lost[m] = {}
    BY DEF Next, Attempt, Interruption, Sentinel, Post, Check, ReadPriority, SetBias, SeeBias,
           WaitExpires, AskFailover, FailoverRefused, Settle, PutBack, RedisFails,
           RestoreRefused, TimesOut, HangUp, Loses, NothingLost, Lift, Elect, Learn, Refresh,
           vars, TypeOK
  <1>9. ASSUME NEW n \in Node, Restart(n) PROVE Owned(m)'
    <2>1. CASE n = m
      BY <1>0, <1>9, <2>1 DEF Restart, TypeOK, Owned, Restoring
    <2>2. CASE n # m
      <3>1. Owned(m)
        BY <1>9, <2>2 DEF Restart, TypeOK, BiasInv
      <3> QED
        BY <1>9, <2>2, <3>1 DEF Restart, TypeOK, Owned
    <2> QED
      BY <2>1, <2>2
  <1> SUFFICES ASSUME lost[m] = {} PROVE Owned(m)'
    BY <1>a, <1>9
  <1>b. Owned(m)
    BY DEF BiasInv
  <1>1. ASSUME NEW n \in Node, Post(n) PROVE Owned(m)'
    BY <1>0, <1>b, <1>1 DEF Post, TypeOK, Owned, Restoring
  <1>2. ASSUME NEW n \in Node, Check(n) PROVE Owned(m)'
    BY <1>0, <1>b, <1>2 DEF Check, Leave, Goto, TypeOK, Owned, Restoring
  <1>3. ASSUME NEW n \in Node, ReadPriority(n) PROVE Owned(m)'
    <2>1. CASE BlocksSwitchover(prio[n])
      BY <1>0, <1>b, <1>3, <2>1
         DEF ReadPriority, BlocksSwitchover, Restore, TypeOK, Owned, Restoring
    <2>2. CASE ~BlocksSwitchover(prio[n]) /\ n = m
      <3>1. prio[n] = Default
        BY <1>0, <1>b, <1>3, <2>2 DEF ReadPriority, BlocksSwitchover, TypeOK, Priority, Owned
      <3> QED
        BY <1>0, <1>b, <1>3, <2>2, <3>1 DEF ReadPriority, TypeOK, Owned, Restoring
    <2>3. CASE ~BlocksSwitchover(prio[n]) /\ n # m
      BY <1>0, <1>b, <1>3, <2>3 DEF ReadPriority, TypeOK, Owned
    <2> QED
      BY <2>1, <2>2, <2>3
  <1>4. ASSUME NEW n \in Node, SetBias(n) PROVE Owned(m)'
    BY <1>0, <1>b, <1>4 DEF SetBias, Goto, TypeOK, Owned, Restoring
  <1>5. ASSUME NEW n \in Node, SeeBias(n) \/ AskFailover(n) PROVE Owned(m)'
    BY <1>0, <1>b, <1>5 DEF SeeBias, AskFailover, Goto, TypeOK, Owned, Restoring
  <1>6. ASSUME NEW n \in Node,
               WaitExpires(n) \/ FailoverRefused(n) \/ Settle(n)
        PROVE Owned(m)'
    <2>1. /\ stage[n] \in {"wait", "failover", "settle"} /\ prio' = prio
          /\ \E s \in Restoring : Restore(n, s)
      BY <1>6 DEF WaitExpires, FailoverRefused, Settle, Restoring
    <2>2. CASE n = m
      <3>1. stage[m] \notin Restoring \cup {"none"}
        BY <2>1, <2>2 DEF Restoring
      <3> QED
        BY <1>b, <2>1, <2>2, <3>1, RestoreOwns
    <2>3. CASE n # m
      BY <1>0, <1>b, <2>1, <2>3 DEF Restore, TypeOK, Owned
    <2> QED
      BY <2>2, <2>3
  <1>7. ASSUME NEW n \in Node, PutBack(n) PROVE Owned(m)'
    BY <1>0, <1>b, <1>7 DEF PutBack, Leave, TypeOK, Owned, Restoring
  <1>8. ASSUME NEW n \in Node, RedisFails(n) \/ TimesOut(n) PROVE Owned(m)'
    <2>1. prio' \in MayHaveSet(n) /\ Restore(n, "restore")
      BY <1>8 DEF RedisFails, TimesOut, TimeoutArm
    <2>2. n # m => prio'[m] = prio[m]
      BY <2>1 DEF MayHaveSet, TypeOK
    <2>3. CASE n # m
      BY <1>0, <1>b, <2>1, <2>2, <2>3 DEF Restore, TypeOK, Owned
    <2>4. CASE n = m /\ stage[n] # "unbias"
      <3>1. stage[n] \in {"check", "read", "set", "wait", "failover"}
        BY <1>8, <2>4 DEF RedisFails, TimesOut, UnderTimeout
      <3>2. prio'[n] = prio[n] \/ stage[n] = "set"
        BY <2>1, <3>1 DEF MayHaveSet, Restoring
      <3> QED
        BY <1>b, <2>1, <2>4, <3>1, <3>2, RestoreOwns DEF Restoring
    <2>5. CASE n = m /\ stage[n] = "unbias"
      <3>1. taken[n] = None
        <4>1. TimesOut(n)
          BY <1>8, <2>5 DEF RedisFails
        <4>2. ~Loses(n, "dropped")
          BY <2>5, LosesMarks
        <4> QED
          BY <2>5, <4>1, <4>2 DEF TimesOut
      <3>2. prio' = prio /\ prio[n] # Bias
        BY <1>0, <1>b, <2>1, <2>5, <3>1 DEF MayHaveSet, Owned, Restoring
      <3> QED
        BY <1>0, <1>b, <2>1, <2>5, <3>2 DEF Restore, TypeOK, Owned, Restoring
    <2> QED
      BY <2>3, <2>4, <2>5
  <1>12. ASSUME NEW n \in Node, RestoreRefused(n) \/ HangUp(n) PROVE Owned(m)'
    <2>1. n # m
      <3>1. Loses(n, "refused") \/ Loses(n, "deserted")
        BY <1>12 DEF RestoreRefused, HangUp
      <3>2. lost'[n] # {}
        BY <3>1, LosesMarks
      <3> QED
        BY <3>2
    <2>2. prio'[m] = prio[m]
      BY <1>12, <2>1 DEF RestoreRefused, HangUp, MayHaveSet, TypeOK
    <2> QED
      BY <1>b, <1>12, <2>1, <2>2 DEF RestoreRefused, HangUp, Leave, TypeOK, Owned
  <1>10. ASSUME NEW n \in Node, Lift(n) PROVE Owned(m)'
    BY <1>0, <1>b, <1>10 DEF Lift, TypeOK, Owned
  <1>11. CASE UNCHANGED <<serverVars, prio>>
    BY <1>b, <1>11 DEF Owned
  <1> QED
    BY <1>1, <1>2, <1>3, <1>4, <1>5, <1>6, <1>7, <1>8, <1>9, <1>10, <1>11, <1>12
       DEF Next, Attempt, Interruption, Sentinel, Elect, Learn, Refresh, vars

\* A node that carries the election bias has an attempt or a restore that will take
\* it away, for every cluster and any number of requests, failures, timeouts at any
\* await and restarts, unless a restore of it was refused, dropped by the timeout or
\* hung up on (health_server.rs, bias_restore).
THEOREM BiasAlwaysOwned == Spec => []BiasOwned
  <1>1. Init => BiasInv
    BY DEF Init, BiasInv, Owned, Restoring, None, Bias, Default
  <1>2. TypeOK /\ BiasInv /\ [Next]_vars => BiasInv'
    BY BiasStep
  <1>3. BiasInv => BiasOwned
    BY DEF BiasInv, Owned, BiasOwned
  <1> QED
    BY <1>1, <1>2, <1>3, TypeInit, TypeStep, PTL DEF Spec

-----------------------------------------------------------------------------
(* The election.                                                           *)

\* Only a request brings the bias, to a priority, a stash or a cache.
BiasWasAsked ==
    /\ \A n \in Node : n \in asked \/ (/\ stage[n] = "none" /\ prio[n] # Bias
                                       /\ stash[n] # Bias /\ taken[n] # Bias)
    /\ \A s, n \in Node : seen[s][n] = Bias => n \in asked

\* From SetBias to the end of the settling the priority is the bias, and once it
\* was visible the cache has it too.
BiasStands ==
    \A n \in Node : /\ stage[n] \in {"wait", "failover", "settle"} => prio[n] = Bias
                    /\ stage[n] \in {"failover", "settle"} => seen[n][n] = Bias

ElectionInv == TypeOK /\ BiasWasAsked /\ BiasStands

LEMMA ElectionInit == Init => ElectionInv
  <1> SUFFICES ASSUME Init PROVE ElectionInv
    OBVIOUS
  <1>1. \A n \in Node : prio[n] # Bias
    BY DEF Init, Bias, Default
  <1>2. BiasWasAsked
    BY <1>1 DEF Init, BiasWasAsked, None, Bias
  <1>3. BiasStands
    BY DEF Init, BiasStands
  <1> QED
    BY <1>2, <1>3, TypeInit DEF ElectionInv

\* What a step does to the attempt of one node, and to what Sentinels cached.
Kept(m) ==
    /\ stage'[m] = stage[m] /\ prio'[m] = prio[m]
    /\ stash'[m] = stash[m] /\ taken'[m] = taken[m]

\* A node's own step either ends its attempt with nothing new to put back, or
\* carries the bias of a request that was asked.
Moved(n) ==
    /\ n \in asked' \/ (/\ stage'[n] = "none" /\ prio'[n] # Bias
                         /\ stash'[n] # Bias /\ taken'[n] # Bias)
    /\ stage'[n] \in {"wait", "failover", "settle"} => prio'[n] = Bias
    /\ stage'[n] \in {"failover", "settle"} => seen[n][n] = Bias

LEMMA ElectionHolds ==
    ASSUME ElectionInv, NEW n \in Node, Moved(n), seen' = seen, asked \subseteq asked',
           \A m \in Node \ {n} : Kept(m)
    PROVE  BiasWasAsked' /\ BiasStands'
  BY DEF ElectionInv, BiasWasAsked, BiasStands, Moved, Kept

LEMMA ElectionStep == ElectionInv /\ [Next]_vars => ElectionInv'
  <1> SUFFICES ASSUME ElectionInv, [Next]_vars PROVE BiasWasAsked' /\ BiasStands'
    BY TypeStep DEF ElectionInv
  <1> DEFINE Others(n) == \A m \in Node \ {n} : Kept(m)
  <1>0. TypeOK /\ BiasWasAsked /\ BiasStands /\ None = -1 /\ Bias = 1 /\ Default = 100
    BY DEF ElectionInv, None, Bias, Default
  <1>a. ASSUME NEW n \in Node, NEW s \in Stages, Goto(n, s) \/ Restore(n, s) \/ Leave(n)
        PROVE  \A m \in Node \ {n} : /\ stage'[m] = stage[m]
                                     /\ stash'[m] = stash[m] /\ taken'[m] = taken[m]
    BY <1>0, <1>a DEF Goto, Restore, Leave, TypeOK
  <1>1. ASSUME NEW n \in Node, Post(n) PROVE BiasWasAsked' /\ BiasStands'
    <2>1. Moved(n) /\ Others(n)
      BY <1>0, <1>1 DEF Post, Moved, Kept, TypeOK
    <2> QED
      BY <1>1, <2>1, ElectionHolds DEF Post
  <1>2. ASSUME NEW n \in Node, Check(n) \/ SetBias(n) \/ SeeBias(n) \/ AskFailover(n)
        PROVE  BiasWasAsked' /\ BiasStands'
    <2>1. /\ \E s \in Stages : Goto(n, s) \/ Leave(n)
          /\ seen' = seen /\ asked' = asked
      BY <1>2, StageNames DEF Check, SetBias, SeeBias, AskFailover
    <2>2. \A m \in Node \ {n} : prio'[m] = prio[m]
      BY <1>0, <1>2 DEF Check, SetBias, SeeBias, AskFailover, TypeOK
    <2>3. Others(n)
      BY <1>a, <2>1, <2>2 DEF Kept
    <2>4. n \in asked
      BY <1>0, <1>2 DEF Check, SetBias, SeeBias, AskFailover, BiasWasAsked
    <2>5. Moved(n)
      BY <1>0, <1>2, <2>4 DEF Check, SetBias, SeeBias, AskFailover, BiasVisible, Goto, Leave,
                             Moved, TypeOK, BiasStands
    <2> QED
      BY <2>1, <2>3, <2>5, ElectionHolds
  <1>3. ASSUME NEW n \in Node,
               \/ ReadPriority(n) \/ WaitExpires(n) \/ FailoverRefused(n) \/ Settle(n)
               \/ PutBack(n) \/ RedisFails(n) \/ RestoreRefused(n) \/ TimesOut(n)
               \/ HangUp(n)
        PROVE  BiasWasAsked' /\ BiasStands'
    <2>1. n \in asked /\ seen' = seen /\ asked' = asked
      BY <1>0, <1>3 DEF ReadPriority, WaitExpires, FailoverRefused, Settle, PutBack, RedisFails,
                       RestoreRefused, TimesOut, HangUp, Handling, UnderTimeout, Restoring,
                       BiasWasAsked
    <2>2. stage'[n] \notin {"wait", "failover", "settle"}
      BY <1>0, <1>3 DEF ReadPriority, WaitExpires, FailoverRefused, Settle, PutBack, RedisFails,
                       RestoreRefused, TimesOut, HangUp, TimeoutArm, Restore, Leave, TypeOK
    <2>3. \A m \in Node \ {n} : /\ stage'[m] = stage[m]
                                /\ stash'[m] = stash[m] /\ taken'[m] = taken[m]
      BY <1>0, <1>3 DEF ReadPriority, WaitExpires, FailoverRefused, Settle, PutBack, RedisFails,
                       RestoreRefused, TimesOut, HangUp, TimeoutArm, Restore, Leave, TypeOK
    <2>4. \A m \in Node \ {n} : prio'[m] = prio[m]
      <3>1. CASE ReadPriority(n) \/ WaitExpires(n) \/ FailoverRefused(n) \/ Settle(n)
        BY <3>1 DEF ReadPriority, WaitExpires, FailoverRefused, Settle
      <3>2. CASE PutBack(n)
        BY <1>0, <3>2 DEF PutBack, TypeOK
      <3>3. CASE RedisFails(n) \/ RestoreRefused(n) \/ TimesOut(n) \/ HangUp(n)
        <4>1. prio' \in MayHaveSet(n)
          BY <3>3 DEF RedisFails, RestoreRefused, TimesOut, HangUp
        <4> QED
          BY <1>0, <4>1 DEF MayHaveSet, TypeOK
      <3> QED
        BY <1>3, <3>1, <3>2, <3>3
    <2>5. Moved(n) /\ Others(n)
      BY <2>1, <2>2, <2>3, <2>4 DEF Moved, Kept
    <2> QED
      BY <2>1, <2>5, ElectionHolds
  <1>4. ASSUME NEW n \in Node, Restart(n) \/ Lift(n) PROVE BiasWasAsked' /\ BiasStands'
    <2>1. Others(n) /\ seen' = seen /\ asked' = asked
      BY <1>0, <1>4 DEF Restart, Lift, Kept, TypeOK
    <2>2. Moved(n)
      BY <1>0, <1>4 DEF Restart, Lift, Moved, TypeOK, BiasWasAsked, BiasStands
    <2> QED
      BY <2>1, <2>2, ElectionHolds
  <1>5. ASSUME NEW s \in Node, Sentinel(s) PROVE BiasWasAsked' /\ BiasStands'
    <2>1. UNCHANGED <<serverVars, prio, asked>>
      BY <1>5 DEF Sentinel, Elect, Learn, Refresh
    <2>2. \A t, n \in Node : seen'[t][n] \in {seen[t][n], prio[n]}
      BY <1>0, <1>5 DEF Sentinel, Elect, Learn, Refresh, TypeOK
    <2> QED
      BY <1>0, <2>1, <2>2 DEF BiasWasAsked, BiasStands
  <1>6. CASE UNCHANGED vars
    BY <1>0, <1>6 DEF vars, BiasWasAsked, BiasStands
  <1> QED
    BY <1>1, <1>2, <1>3, <1>4, <1>5, <1>6 DEF Next, Attempt, Interruption

\* A Sentinel that has the bias of its own node cached, and names another, elects
\* a node whose bias it has cached.
LEMMA ElectsBiased ==
    ASSUME ElectionInv, NEW s \in Node, stage[s] = "settle", named[s] # s,
           NEW n \in Candidates(s)
    PROVE  n \in asked
  <1>1. seen[s][s] = Bias /\ n \in Node
    BY DEF ElectionInv, BiasStands, Candidates
  <1>2. s \in Node \ {named[s]} /\ seen[s][s] > 0
    BY <1>1 DEF Bias
  <1>3. seen[s][n] > 0 /\ seen[s][n] <= seen[s][s]
    BY <1>2 DEF Candidates
  <1>4. seen[s][n] \in Priority
    BY <1>1 DEF ElectionInv, TypeOK
  <1>5. seen[s][n] = Bias
    BY <1>1, <1>3, <1>4 DEF Priority, Bias, Default
  <1> QED
    BY <1>1, <1>5 DEF ElectionInv, BiasWasAsked

\* An election that an attempt asked for, and that its Sentinel leads away from
\* another node, promotes a node that a switchover asked for, for every cluster
\* and any number of requests and faults.
THEOREM AlwaysElectsAsked == Spec => ElectsAsked
  <1>1. ASSUME ElectionInv, [Next]_vars, NEW s \in Node,
               electing[s], stage[s] = "settle", named[s] # s, primary' # primary,
               ~electing'[s]
        PROVE  primary' \in asked
    <2>1. PICK t \in Node : Elect(t)
      BY <1>1 DEF Next, Attempt, Interruption, Sentinel, vars, Post, Check, ReadPriority,
         SetBias, SeeBias, WaitExpires, AskFailover, FailoverRefused, Settle, PutBack,
         RedisFails, RestoreRefused, TimesOut, HangUp, Restart, Lift, Learn, Refresh
    <2>2. t = s
      BY <1>1, <2>1 DEF Elect, ElectionInv, TypeOK
    <2>3. primary' \in Candidates(s)
      BY <1>1, <2>1, <2>2 DEF Elect
    <2> QED
      BY <1>1, <2>3, ElectsBiased
  <1>2. ElectionInv /\ [Next]_vars => [\A s \in Node :
          electing[s] /\ stage[s] = "settle" /\ named[s] # s /\ primary' # primary
            /\ ~electing'[s] => primary' \in asked]_vars
    BY <1>1
  <1> QED
    BY <1>2, ElectionInit, ElectionStep, PTL DEF Spec, ElectsAsked

=============================================================================

--------------------------- MODULE HandoverProofs ---------------------------
(***************************************************************************)
(* For every deployment, every deadline, grace and number of faults:       *)
(*   - every variable keeps its type;                                      *)
(*   - a confirmed handover is complete before anything is stopped;        *)
(*   - the closing REPLICAOF only ever points Self at a primary;           *)
(*   - two primaries take writes no longer than the calls last.            *)
(***************************************************************************)
EXTENDS Handover, TLAPS

USE DEF sentinelVars, demoteVars

Step == {"serving", "gone"} \cup Demoting \cup Stopping \cup Reaping

LEMMA StepNames ==
    Step = {"serving", "gone", "role", "pause", "request", "wait", "close",
            "stopSentinel", "stopRedis", "reapSentinel", "reapRedis"}
  BY DEF Step, Demoting, Stopping, Reaping

LEMMA PauseIsCapped == WritePause \in 0 .. MaxPause
  BY BudgetsAreNat DEF WritePause

LEMMA FaultTypes == ASSUME faults \in 0 .. MaxFaults, Fault \/ NoFault
                    PROVE  faults' \in 0 .. MaxFaults
  BY BudgetsAreNat DEF Fault, NoFault

LEMMA AnsweredTypes ==
    ASSUME NEW up, NEW ok, faults \in 0 .. MaxFaults, Answered(up, ok)
    PROVE  (ok => up) /\ faults' \in 0 .. MaxFaults
  BY FaultTypes DEF Answered

LEMMA GotoTypes == ASSUME NEW s \in Step, Goto(s)
                   PROVE  /\ step' \in Step
                          /\ spent' \in 0 .. (Deadline + Call + Grace)
  BY BudgetsAreNat DEF Goto

-----------------------------------------------------------------------------
(* What the failover and the addresses read of it say together.            *)

\* A winner is a replica the Sentinel knew, and a primary from then on.
WinnerLeads == winner # None => winner \in known /\ follows[winner] = None

\* A failover under way has not been won, or is moving the others.
StageTells == /\ failover = "select" => winner = None
              /\ failover = "reconf" => winner # None

\* Whatever names another primary than Self names the winner.
NamesWinner == /\ names # Self => names = winner
               /\ last \notin {None, Self} => winner # None /\ last = winner
               /\ follows[Self] # None => winner # None /\ follows[Self] = winner

\* A failover that was won and is over has told every replica it knew.
FinishedMeansTold ==
    failover = "none" /\ winner # None =>
        /\ names = winner
        /\ \A n \in known \ {winner} : follows[n] = winner

\* The wait is confirmed by such a failover only.
ConfirmedByFinish == confirmed => failover = "none" /\ winner # None

IInv == /\ TypeOK /\ WinnerLeads /\ StageTells /\ NamesWinner
        /\ FinishedMeansTold /\ ConfirmedByFinish

-----------------------------------------------------------------------------
LEMMA TypeInit == Init => TypeOK
  <1> SUFFICES ASSUME Init PROVE TypeOK
    OBVIOUS
  <1>1. follows \in [Node -> Node \cup {None}]
    BY DEF Init, Node
  <1>2. /\ pause \in 0 .. MaxPause /\ spent \in 0 .. (Deadline + Call + Grace)
        /\ tail \in Nat /\ faults \in 0 .. MaxFaults
    BY BudgetsAreNat DEF Init
  <1>3. /\ known \in SUBSET Other
        /\ winner \in Other \cup {None} /\ names \in Node
        /\ last \in Node \cup {None}
    BY DEF Init, Node
  <1>4. /\ failover = "none" /\ redisUp = TRUE /\ sentinelUp = TRUE
        /\ step = "serving" /\ confirmed = FALSE /\ paused = FALSE
    BY DEF Init
  <1> QED
    BY <1>1, <1>2, <1>3, <1>4 DEF TypeOK

LEMMA TypeStep == TypeOK /\ StageTells /\ [Next]_vars => TypeOK'
  <1> SUFFICES ASSUME TypeOK, StageTells, [Next]_vars PROVE TypeOK'
    OBVIOUS
  <1> USE StepNames, BudgetsAreNat DEF TypeOK, Node
  <1>0. /\ step \in Step /\ faults \in 0 .. MaxFaults
        /\ TypeOK' <=>
             /\ follows' \in [Node -> Node \cup {None}]
             /\ known' \in SUBSET Other
             /\ failover' \in {"none", "select", "reconf"}
             /\ winner' \in Other \cup {None} /\ names' \in Node
             /\ redisUp' \in BOOLEAN /\ sentinelUp' \in BOOLEAN
             /\ pause' \in 0 .. MaxPause
             /\ step' \in Step /\ spent' \in 0 .. (Deadline + Call + Grace)
             /\ last' \in Node \cup {None}
             /\ confirmed' \in BOOLEAN /\ paused' \in BOOLEAN
             /\ tail' \in Nat /\ faults' \in 0 .. MaxFaults
    BY DEF Step
  <1> HIDE DEF TypeOK
  <1> USE <1>0 DEF TypeOK
  <1>1. CASE OperatorAsks
    BY <1>1 DEF OperatorAsks, Begun
  <1>2. ASSUME NEW n \in Other, Promote(n) PROVE TypeOK'
    BY <1>2 DEF Promote
  <1>3. CASE Abort
    BY <1>3 DEF Abort
  <1>4. ASSUME NEW n \in Other, Reconf(n) PROVE TypeOK'
    BY <1>4 DEF Reconf
  <1>5. CASE Finish
    <2>1. names' \in Node
      BY <1>5 DEF Finish, StageTells
    <2> QED
      BY <1>5, <2>1 DEF Finish
  <1>6. CASE Converted
    BY <1>6 DEF Converted
  <1>7. ASSUME NEW shouldRun \in BOOLEAN, Signalled(shouldRun) PROVE TypeOK'
    BY <1>7, GotoTypes DEF Signalled
  <1>8. ASSUME NEW ok \in BOOLEAN, ReadRole(ok) PROVE TypeOK'
    BY <1>8, GotoTypes, AnsweredTypes DEF ReadRole
  <1>9. ASSUME NEW ok \in BOOLEAN, PauseWrites(ok) PROVE TypeOK'
    BY <1>9, GotoTypes, AnsweredTypes, PauseIsCapped DEF PauseWrites
  <1>10. CASE Request
    BY <1>10, GotoTypes, FaultTypes
       DEF Request, RequestTaken, RequestInProgress, RequestRefused,
           RequestTimedOut, Begun
  <1>11. CASE Poll
    <2>1. PICK roleOk \in BOOLEAN, fieldsOk \in BOOLEAN :
              /\ Fault \/ NoFault
              /\ Polled(LocalRole(roleOk),
                        IF fieldsOk THEN Inspected ELSE NoFields)
      BY <1>11 DEF Poll
    <2> DEFINE f == IF fieldsOk THEN Inspected ELSE NoFields
    <2>2. f.addr \in Node \cup {None}
      BY DEF Inspected, NoFields
    <2>3. last' \in Node \cup {None}
      BY <2>1, <2>2 DEF Polled
    <2>4. confirmed' \in BOOLEAN
      BY <2>1 DEF Polled, DemoteConfirmed, FailoverFinished, SwitchedAway,
                  LocalRole, Inspected, NoFields
    <2>5. step' \in Step /\ spent' \in 0 .. (Deadline + Call + Grace)
      BY <2>1, GotoTypes DEF Polled
    <2> QED
      BY <1>11, <2>1, <2>3, <2>4, <2>5, FaultTypes DEF Poll
  <1>12. ASSUME NEW ok \in BOOLEAN, Close(ok) PROVE TypeOK'
    <2>1. faults' \in 0 .. MaxFaults
      BY <1>12, AnsweredTypes, FaultTypes DEF Close
    <2>2. follows' \in [Node -> Node \cup {None}]
      BY <1>12 DEF Close, ReplicaofTarget
    <2> QED
      BY <1>12, <2>1, <2>2, GotoTypes DEF Close
  <1>13. CASE SentinelStops
    BY <1>13, GotoTypes DEF SentinelStops
  <1>14. CASE RedisStops
    BY <1>14, GotoTypes DEF RedisStops
  <1>15. CASE RedisDied
    BY <1>15, GotoTypes DEF RedisDied
  <1>16. CASE SentinelDied
    BY <1>16, GotoTypes DEF SentinelDied
  <1>17. CASE Reaped
    BY <1>17, GotoTypes DEF Reaped
  <1>18. CASE RedisDies
    BY <1>18, FaultTypes DEF RedisDies
  <1>19. CASE SentinelDies
    BY <1>19, FaultTypes DEF SentinelDies
  <1>20. CASE Tick
    <2>1. Budget(step) \in 0 .. (Deadline + Call + Grace)
      BY DEF Budget
    <2> QED
      BY <1>20, <2>1 DEF Tick
  <1>21. CASE UNCHANGED vars
    BY <1>21 DEF vars
  <1> QED
    BY <1>1, <1>2, <1>3, <1>4, <1>5, <1>6, <1>7, <1>8, <1>9, <1>10, <1>11,
       <1>12, <1>13, <1>14, <1>15, <1>16, <1>17, <1>18, <1>19, <1>20, <1>21
       DEF Next, Supervise, Sentinel

-----------------------------------------------------------------------------
LEMMA RestInit == Init => IInv
  <1> SUFFICES ASSUME Init PROVE IInv
    OBVIOUS
  <1> QED
    BY TypeInit, SelfIsApart
       DEF Init, IInv, WinnerLeads, StageTells, NamesWinner, FinishedMeansTold,
           ConfirmedByFinish, Node

\* Steps that leave the failover, the addresses and the answer as they are.
LEMMA Untouched ==
    ASSUME IInv, UNCHANGED <<follows, known, sentinelVars, last, confirmed>>
    PROVE  /\ WinnerLeads' /\ StageTells' /\ NamesWinner'
           /\ FinishedMeansTold' /\ ConfirmedByFinish'
  BY DEF IInv, WinnerLeads, StageTells, NamesWinner, FinishedMeansTold,
         ConfirmedByFinish

\* A failover only begins before one was won.
LEMMA BegunKeeps ==
    ASSUME IInv, failover = "none", names = Self, Begun,
           UNCHANGED <<follows, known, last, confirmed>>
    PROVE  /\ WinnerLeads' /\ StageTells' /\ NamesWinner'
           /\ FinishedMeansTold' /\ ConfirmedByFinish'
  <1>1. winner = None
    BY SelfIsApart DEF IInv, TypeOK, FinishedMeansTold
  <1> QED
    BY <1>1 DEF Begun, IInv, WinnerLeads, StageTells, NamesWinner,
                FinishedMeansTold, ConfirmedByFinish

LEMMA RestStep == IInv /\ [Next]_vars => IInv'
  <1> SUFFICES ASSUME IInv, [Next]_vars PROVE IInv'
    OBVIOUS
  <1> DEFINE Rest == /\ WinnerLeads /\ StageTells /\ NamesWinner
                     /\ FinishedMeansTold /\ ConfirmedByFinish
  <1>0. TypeOK'
    BY TypeStep DEF IInv
  <1> SUFFICES Rest'
    BY <1>0 DEF IInv
  <1>1. CASE OperatorAsks
    BY <1>1, BegunKeeps DEF OperatorAsks
  <1>2. ASSUME NEW n \in Other, Promote(n) PROVE Rest'
    <2>1. winner = None /\ names = Self /\ n # Self /\ n # None
      BY <1>2, SelfIsApart
         DEF Promote, IInv, StageTells, NamesWinner, TypeOK, Node
    <2>2. last \in {None, Self} /\ follows[Self] = None /\ ~confirmed
      BY <2>1 DEF IInv, NamesWinner, ConfirmedByFinish
    <2>3. follows'[n] = None /\ follows'[Self] = None
      BY <1>2, <2>1, <2>2 DEF Promote, IInv, TypeOK, Node
    <2> QED
      BY <1>2, <2>1, <2>2, <2>3
         DEF Promote, WinnerLeads, StageTells, NamesWinner, FinishedMeansTold,
             ConfirmedByFinish
  <1>3. CASE Abort
    BY <1>3 DEF Abort, IInv, WinnerLeads, StageTells, NamesWinner,
                FinishedMeansTold, ConfirmedByFinish
  <1>4. ASSUME NEW n \in Other, Reconf(n) PROVE Rest'
    <2>1. n # winner /\ n # Self
      BY <1>4, SelfIsApart DEF Reconf
    <2>2. follows'[winner] = follows[winner] /\ follows'[Self] = follows[Self]
      BY <1>4, <2>1 DEF Reconf
    <2> QED
      BY <1>4, <2>2
         DEF Reconf, IInv, WinnerLeads, StageTells, NamesWinner,
             FinishedMeansTold, ConfirmedByFinish
  <1>5. CASE Finish
    BY <1>5 DEF Finish, IInv, WinnerLeads, StageTells, NamesWinner,
                FinishedMeansTold, ConfirmedByFinish
  <1>6. CASE Converted
    <2>1. names = winner /\ winner # None
      BY <1>6, SelfIsApart DEF Converted, IInv, NamesWinner, TypeOK, Node
    <2>2. winner # Self /\ Self \notin known
      BY SelfIsApart DEF IInv, TypeOK
    <2>3. /\ follows'[Self] = winner
          /\ \A n \in Other : follows'[n] = follows[n]
      BY <1>6, <2>1, SelfIsApart DEF Converted, IInv, TypeOK, Node
    <2>4. winner \in Other /\ known \subseteq Other
      BY <2>1 DEF IInv, TypeOK
    <2> QED
      BY <1>6, <2>1, <2>2, <2>3, <2>4
         DEF Converted, IInv, WinnerLeads, StageTells, NamesWinner,
             FinishedMeansTold, ConfirmedByFinish
  <1>7. ASSUME NEW shouldRun \in BOOLEAN, Signalled(shouldRun) PROVE Rest'
    BY <1>7, Untouched DEF Signalled
  <1>8. ASSUME NEW ok \in BOOLEAN, ReadRole(ok) PROVE Rest'
    BY <1>8, Untouched DEF ReadRole
  <1>9. ASSUME NEW ok \in BOOLEAN, PauseWrites(ok) PROVE Rest'
    BY <1>9, Untouched DEF PauseWrites
  <1>10. CASE Request
    <2>1. \/ UNCHANGED sentinelVars
          \/ failover = "none" /\ names = Self /\ Begun
      BY <1>10 DEF Request, RequestTaken, RequestInProgress, RequestRefused,
                   RequestTimedOut
    <2> QED
      BY <1>10, <2>1, Untouched, BegunKeeps DEF Request
  <1>11. CASE Poll
    <2>1. PICK roleOk \in BOOLEAN, fieldsOk \in BOOLEAN :
              Polled(LocalRole(roleOk),
                     IF fieldsOk THEN Inspected ELSE NoFields)
      BY <1>11 DEF Poll
    <2>2. UNCHANGED <<follows, known, sentinelVars>>
      BY <1>11 DEF Poll
    <2> DEFINE f == IF fieldsOk THEN Inspected ELSE NoFields
    <2>3. last' \in {last, names}
      BY <2>1 DEF Polled, Inspected, NoFields
    <2>4. names # Self => winner # None /\ names = winner
      BY SelfIsApart DEF IInv, NamesWinner, TypeOK, Node
    <2>5. confirmed' => failover = "none" /\ winner # None
      <3> SUFFICES ASSUME confirmed'
                   PROVE  failover = "none" /\ winner # None
        OBVIOUS
      <3>1. FailoverFinished(f) /\ SwitchedAway(LocalRole(roleOk), f)
        BY <2>1 DEF Polled, DemoteConfirmed
      <3>2. fieldsOk /\ f = Inspected
        BY <3>1 DEF FailoverFinished, NoFields
      <3>3. failover = "none"
        BY <3>1, <3>2 DEF FailoverFinished, Inspected
      <3>4. follows[Self] # None \/ names # Self
        BY <3>1, <3>2 DEF SwitchedAway, LocalRole, Inspected
      <3> QED
        BY <2>4, <3>3, <3>4 DEF IInv, NamesWinner
    <2>6. NamesWinner'
      BY <2>2, <2>3, <2>4 DEF IInv, NamesWinner
    <2> QED
      BY <2>2, <2>5, <2>6
         DEF IInv, WinnerLeads, StageTells, FinishedMeansTold,
             ConfirmedByFinish
  <1>12. ASSUME NEW ok \in BOOLEAN, Close(ok) PROVE Rest'
    <2>1. CASE ~ok
      BY <1>12, <2>1, Untouched DEF Close
    <2>2. CASE ok
      <3>1. last \notin {None, Self}
        BY <1>12, <2>2 DEF Close, ReplicaofTarget
      <3>2. winner # None /\ last = winner /\ winner \in Other
            /\ known \subseteq Other
        BY <3>1 DEF IInv, NamesWinner, TypeOK
      <3>3. /\ follows'[Self] = winner
            /\ \A n \in Other : follows'[n] = follows[n]
        BY <1>12, <2>2, <3>1, <3>2, SelfIsApart
           DEF Close, ReplicaofTarget, IInv, TypeOK, Node
      <3> QED
        BY <1>12, <3>2, <3>3
           DEF Close, IInv, WinnerLeads, StageTells, NamesWinner,
               FinishedMeansTold, ConfirmedByFinish
    <2> QED
      BY <2>1, <2>2
  <1>13. CASE SentinelStops \/ RedisStops \/ RedisDied \/ SentinelDied \/ Reaped
    BY <1>13, Untouched
       DEF SentinelStops, RedisStops, RedisDied, SentinelDied, Reaped
  <1>14. CASE RedisDies \/ SentinelDies \/ Tick \/ UNCHANGED vars
    BY <1>14, Untouched DEF RedisDies, SentinelDies, Tick, vars
  <1> QED
    BY <1>1, <1>2, <1>3, <1>4, <1>5, <1>6, <1>7, <1>8, <1>9, <1>10, <1>11,
       <1>12, <1>13, <1>14 DEF Next, Supervise, Sentinel

-----------------------------------------------------------------------------
LEMMA AlwaysIInv == Spec => []IInv
  BY RestInit, RestStep, PTL DEF Spec

(* Every variable keeps its type.                                          *)
THEOREM TypeCorrect == Spec => []TypeOK
  <1>1. IInv => TypeOK
    BY DEF IInv
  <1> QED
    BY <1>1, AlwaysIInv, PTL

(* demote_confirmed holds only once the local Sentinel's failover is over: *)
(* the new primary is one, and every replica it knew follows it.           *)
THEOREM ConfirmedIsHandedOver == Spec => []HandedOver
  <1>1. IInv => HandedOver
    BY DEF IInv, WinnerLeads, FinishedMeansTold, ConfirmedByFinish, HandedOver
  <1> QED
    BY <1>1, AlwaysIInv, PTL

(* Neither a confirmed wait nor one that ran out attaches Self to itself   *)
(* or to a replica.                                                        *)
THEOREM AlwaysClosesOnAPrimary == Spec => []ClosesOnAPrimary
  <1>1. IInv => ClosesOnAPrimary
    BY SelfIsApart
       DEF IInv, TypeOK, WinnerLeads, NamesWinner, ClosesOnAPrimary
  <1> QED
    BY <1>1, AlwaysIInv, PTL

-----------------------------------------------------------------------------
(* The time that may have gone by since the pause was asked for.           *)
Since == IF step = "request" THEN spent
         ELSE IF step = "wait" THEN Call + spent
         ELSE IF step = "close" THEN 2 * Call + Deadline + spent
         ELSE 3 * Call + Deadline

(* Ticks of the tail and of the pause that is used up make up that time.   *)
TailInv ==
    /\ step \in {"serving", "role", "pause"} => ~paused
    /\ step \in {"request", "close"} => spent <= Call
    /\ step = "wait" => spent <= Deadline + Call
    /\ ~paused \/ pause > 0 => tail = 0
    /\ paused => tail + WritePause <= pause + Since

Clock == <<pause, paused, step, spent, tail>>

LEMMA TailInit == Init => TailInv
  BY BudgetsAreNat DEF Init, TailInv

LEMMA MoreTime ==
    ASSUME NEW t \in Nat, NEW w \in Nat, NEW p \in Nat, NEW x \in Nat, NEW y \in Nat,
           t + w <= p + x, x <= y
    PROVE  t + w <= p + y
  OBVIOUS

\* Handing over to a later step leaves the tail as it is.
LEMMA GotoKeepsTail ==
    ASSUME TypeOK, TailInv, NEW s, Goto(s), UNCHANGED <<pause, paused, tail>>,
           \/ s = "role" /\ step = "serving"
           \/ s = "pause" /\ step = "role"
           \/ s = "wait" /\ step = "request"
           \/ s = "close" /\ step = "wait"
           \/ s \in {"stopSentinel", "stopRedis", "reapSentinel", "reapRedis", "gone"}
    PROVE  TailInv'
  <1>1. spent' = 0 /\ step' = s
    BY DEF Goto
  <1>2. /\ spent \in Nat /\ tail \in Nat /\ pause \in Nat
        /\ WritePause \in Nat /\ Since \in Nat
    BY BudgetsAreNat, PauseIsCapped DEF TypeOK, Since
  <1>3. paused => Since <= Since'
    BY <1>1, <1>2, BudgetsAreNat DEF Since, TailInv
  <1>4. Since' \in Nat /\ WritePause' = WritePause
    BY <1>1, BudgetsAreNat DEF Since, WritePause
  <1>5. paused => tail + WritePause <= pause + Since'
    <2> SUFFICES ASSUME paused PROVE tail + WritePause <= pause + Since'
      OBVIOUS
    <2>1. tail + WritePause <= pause + Since /\ Since <= Since'
      BY <1>3 DEF TailInv
    <2> HIDE DEF TailInv
    <2> QED
      BY <1>2, <1>4, <2>1, MoreTime
  <1>6. /\ step' \in {"serving", "role", "pause"} => ~paused
        /\ ~paused \/ pause > 0 => tail = 0
        /\ 0 <= Call /\ 0 <= Deadline + Call
    BY <1>1, BudgetsAreNat DEF TailInv
  <1> QED
    BY <1>1, <1>4, <1>5, <1>6 DEF TailInv

LEMMA TailStep == TypeOK /\ TypeOK' /\ TailInv /\ [Next]_vars => TailInv'
  <1> SUFFICES ASSUME TypeOK, TypeOK', TailInv, [Next]_vars PROVE TailInv'
    OBVIOUS
  <1>1. ASSUME UNCHANGED Clock PROVE TailInv'
    BY <1>1 DEF Clock, TailInv, Since, WritePause
  <1>2. CASE Sentinel \/ RedisDies \/ SentinelDies \/ UNCHANGED vars
    BY <1>2, <1>1
       DEF Sentinel, OperatorAsks, Promote, Reconf, Abort, Finish, Converted,
           RedisDies, SentinelDies, vars, Clock
  <1>3. ASSUME NEW shouldRun \in BOOLEAN, Signalled(shouldRun) PROVE TailInv'
    BY <1>3, GotoKeepsTail DEF Signalled
  <1>4. ASSUME NEW ok \in BOOLEAN, ReadRole(ok) PROVE TailInv'
    BY <1>4, GotoKeepsTail DEF ReadRole
  <1>5. ASSUME NEW ok \in BOOLEAN, PauseWrites(ok) PROVE TailInv'
    <2>1. tail = 0 /\ tail' = 0
      BY <1>5 DEF PauseWrites, TailInv
    <2>2. step' = "request" /\ spent' = 0
      BY <1>5 DEF PauseWrites, Goto
    <2>3. paused' => pause' = WritePause
      BY <1>5 DEF PauseWrites
    <2> QED
      BY <2>1, <2>2, <2>3, BudgetsAreNat, PauseIsCapped
         DEF TailInv, Since, WritePause
  <1>6. CASE Request
    BY <1>6, GotoKeepsTail
       DEF Request, RequestTaken, RequestInProgress, RequestRefused,
           RequestTimedOut
  <1>7. CASE Poll
    <2>1. /\ step = "wait" /\ UNCHANGED <<pause, paused, tail>>
          /\ Goto("close") \/ UNCHANGED <<step, spent>>
      BY <1>7 DEF Poll, Polled
    <2> QED
      BY <2>1, <1>1, GotoKeepsTail DEF Clock
  <1>8. ASSUME NEW ok \in BOOLEAN, Close(ok) PROVE TailInv'
    BY <1>8, GotoKeepsTail DEF Close
  <1>9. CASE SentinelStops \/ RedisStops \/ RedisDied \/ SentinelDied \/ Reaped
    BY <1>9, GotoKeepsTail
       DEF SentinelStops, RedisStops, RedisDied, SentinelDied, Reaped
  <1>10. CASE Tick
    <2>1. /\ spent \in Nat /\ tail \in Nat /\ pause \in Nat
          /\ WritePause \in Nat /\ WritePause' = WritePause
      BY BudgetsAreNat, PauseIsCapped DEF TypeOK, WritePause
    <2>2. /\ spent' = spent + 1 /\ step' = step /\ paused' = paused
          /\ spent < Budget(step)
      BY <1>10 DEF Tick
    <2>3. /\ step' \in {"request", "close"} => spent' <= Call
          /\ step' = "wait" => spent' <= Deadline + Call
      BY <2>1, <2>2, BudgetsAreNat DEF Budget, Stopping
    <2>4. /\ pause = 0 => pause' = 0 /\ tail' \in {tail, tail + 1}
          /\ pause > 0 => pause' = pause - 1 /\ tail' = tail
          /\ ~paused => tail' = tail
          /\ tail' # tail => step \in {"request", "wait", "close"}
      BY <1>10, <2>1 DEF Tick, Writable
    <2>5. /\ step \in {"request", "wait", "close"} => Since' = Since + 1
          /\ step \notin {"request", "wait", "close"} => Since' = Since
          /\ Since \in Nat
      BY <2>1, <2>2, BudgetsAreNat DEF Since
    <2>6. paused => tail' + WritePause <= pause' + Since'
      <3> SUFFICES ASSUME paused PROVE tail' + WritePause <= pause' + Since'
        OBVIOUS
      <3>1. CASE step \in {"request", "wait", "close"}
        BY <3>1, <2>1, <2>4, <2>5 DEF TailInv
      <3>2. CASE step \notin {"request", "wait", "close"}
        <4>1. WritePause <= 3 * Call + Deadline
          BY BudgetsAreNat DEF WritePause
        <4>2. Since = 3 * Call + Deadline
          BY <3>2 DEF Since
        <4> QED
          BY <3>2, <2>1, <2>4, <2>5, <4>1, <4>2, BudgetsAreNat DEF TailInv
      <3> QED
        BY <3>1, <3>2
    <2> QED
      BY <2>1, <2>2, <2>3, <2>4, <2>6 DEF TailInv
  <1> QED
    BY <1>2, <1>3, <1>4, <1>5, <1>6, <1>7, <1>8, <1>9, <1>10
       DEF Next, Supervise

(* However long the deadline is, the time in which Self takes writes       *)
(* beside the new primary under a pause that ran out is the calls'.        *)
THEOREM TailIsBounded == Spec => []TailIsCalls
  <1>1. TypeOK /\ TailInv => TailIsCalls
    <2> SUFFICES ASSUME TypeOK, TailInv PROVE TailIsCalls
      OBVIOUS
    <2>1. Since <= 3 * Call + Deadline /\ Since \in Nat
      BY BudgetsAreNat DEF TypeOK, TailInv, Since
    <2>2. tail = 0 \/ tail + WritePause <= Since
      BY <2>1, PauseIsCapped, BudgetsAreNat DEF TypeOK, TailInv
    <2> QED
      BY <2>1, <2>2, BudgetsAreNat DEF TypeOK, TailIsCalls, WritePause
  <1>2. Spec => []TailInv
    BY TypeCorrect, TailInit, TailStep, PTL DEF Spec
  <1> QED
    BY <1>1, <1>2, TypeCorrect, PTL
=============================================================================

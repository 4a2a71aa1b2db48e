------------------------- MODULE CredentialsProofs -------------------------
(***************************************************************************)
(* What a credential rotation promises, for every number of nodes, every   *)
(* subset of them that is fresh, and any number of rotations, kills, faults*)
(* and stale writers:                                                      *)
(*   - every variable keeps its type;                                      *)
(*   - the members agree on whether Sentinel wants a password;             *)
(*   - once every node is prepared any connection is accepted;             *)
(*   - a verified member holds the target and nothing else, for good.      *)
(*                                                                         *)
(* The last two rest on one invariant about a node, by how far the rotation*)
(* has come: what PREPARE leaves on it (Covered), what MEMBER leaves on it *)
(* (Moved), what its journal, its permit and the stages already done of the*)
(* operation in progress add.  The hard part is that a boot, a restart of  *)
(* Sentinel and the reconcile loop write a node's files from whatever its  *)
(* pin, its journal and the env say: by then all of them name the target,  *)
(* or the node is not yet counted as prepared.                             *)
(***************************************************************************)
EXTENDS Credentials, TLAPS

-----------------------------------------------------------------------------
(***************************************************************************)
(* Types.                                                                  *)
(***************************************************************************)

\* A node past redis.conf has a pin and a sentinel.conf; a Sentinel is only asked to
\* stop where redis-server runs; and an operation runs where redis-server does.
BootOrder ==
    /\ \A n \in Node : /\ RedisRuns(n) => pin[n] \in Password /\ HasConf(n)
                       /\ permit[n] \/ stopped[n] => RedisRuns(n)
                       /\ stopped[n] => up[n] = "up"
                       /\ ~HasConf(n) => n \in Fresh
                       /\ RequiresAuth(n) => HasConf(n)
    /\ ~Idle => /\ op.node \in Node /\ RedisRuns(op.node) /\ phase # "done"
                /\ phase # "database" => op.node = at

TypeInv == TypeOK /\ BootOrder

\* The target and the password it replaces are all there is.
LEMMA TwoPasswords ==
    ASSUME cur \in Password
    PROVE  /\ tgt \in Password /\ tgt # cur /\ Password = {cur, tgt}
           /\ tgt # None /\ cur # None /\ Other(tgt) = cur
BY PasswordAssumption DEF Password, tgt, Other

\* The two postures a first boot gives a Sentinel
LEMMA AuthedType ==
    ASSUME NEW p \in Password
    PROVE  /\ Authed(p) \in SentinelConf /\ OpenConf(p) \in SentinelConf
           /\ Authed(p).auth # None /\ OpenConf(p).auth # None
           /\ Authed(p).accepts = {p} /\ OpenConf(p).accepts = {}
BY PasswordAssumption DEF Authed, OpenConf, SentinelConf

\* The two ways a running node's sentinel.conf is written keep its posture.
LEMMA RewrittenType ==
    ASSUME TypeInv, NEW n \in Node, RedisRuns(n)
    PROVE  /\ Rewritten(n) \in SentinelConf /\ Rewritten(n).auth # None
           /\ Rewritten(n).accepts # {} <=> RequiresAuth(n)
<1>1. pin[n] \in Password
  BY DEF TypeInv, BootOrder
<1> QED BY <1>1, AuthedType DEF Rewritten

LEMMA RepairedType ==
    ASSUME TypeInv, NEW n \in Node, RedisRuns(n), NEW k \in 0..3
    PROVE  /\ Repaired(n, k) \in SentinelConf /\ Repaired(n, k).auth # None
           /\ sent[n].accepts \subseteq Repaired(n, k).accepts
           /\ Repaired(n, k).accepts \subseteq sent[n].accepts \cup {pin[n]}
<1>1. pin[n] \in Password /\ sent[n] \in SentinelConf /\ sent[n].auth # None
  BY DEF TypeInv, BootOrder, TypeOK, HasConf
<1>2. RepairTo(n) \in Password
  BY <1>1 DEF RepairTo, TypeInv, TypeOK
<1>3. RepairTo(n) # None
  BY <1>2, PasswordAssumption
<1> QED BY <1>1, <1>2, <1>3 DEF Repaired, SentinelConf

\* What a response does to the plan and the lock.
LEMMA RespondCases ==
    ASSUME TypeInv, Respond, ~Idle
    PROVE  /\ op' = NoOp /\ cur' = cur /\ rotations' = rotations
           /\ kills' = kills /\ drifts' = drifts /\ deaf' = deaf /\ faults' \in Nat
           /\ \/ phase' = phase /\ at' = at /\ env' = env
              \/ /\ phase # "database" /\ at # N
                 /\ phase' = phase /\ at' = at + 1 /\ env' = env
              \/ /\ at = N \/ phase = "database"
                 /\ phase' = PhaseAfter[phase] /\ at' = 1
                 /\ env' = IF phase' = "done" THEN tgt ELSE env
<1>1. phase # "done"
  BY DEF TypeInv, BootOrder
<1> QED BY <1>1 DEF Respond, faultVars, TypeInv, TypeOK

LEMMA RespondTypes ==
    ASSUME TypeInv, Respond, ~Idle
    PROVE  /\ cur' \in Password /\ env' \in Password
           /\ phase' \in DOMAIN PhaseAfter \cup {"done"}
           /\ at' \in Node /\ rotations' \in Nat
           /\ op' \in [node : 0..N, stage : 0..6] /\ Idle'
           /\ kills' \in Nat /\ faults' \in Nat /\ drifts' \in Nat /\ deaf' \subseteq Node
<1>1. /\ phase' \in DOMAIN PhaseAfter \cup {"done"} /\ at' \in Node
  <2>1. phase \in DOMAIN PhaseAfter
    BY DEF TypeInv, BootOrder, TypeOK
  <2>2. PhaseAfter[phase] \in DOMAIN PhaseAfter \cup {"done"}
    BY <2>1 DEF PhaseAfter
  <2> QED BY <2>1, <2>2, RespondCases, NodeAssumption DEF TypeInv, TypeOK, Node
<1>2. env' \in Password
  BY RespondCases, TwoPasswords DEF TypeInv, TypeOK
<1>3. NoOp \in [node : 0..N, stage : 0..6]
  BY NodeAssumption DEF NoOp
<1> QED BY <1>1, <1>2, <1>3, RespondCases DEF TypeInv, TypeOK, Idle, NoOp

LEMMA TypeInit == Init => TypeInv
<1> SUFFICES ASSUME Init PROVE TypeInv
  OBVIOUS
<1>1. PICK s \in {Authed(Old), OpenConf(Old)} :
         sent = [n \in Node |-> IF n \in Fresh THEN NoConf ELSE s]
  BY DEF Init
<1>2. s \in SentinelConf /\ s.auth # None /\ NoConf \in SentinelConf /\ NoConf.auth = None
      /\ NoConf.accepts = {}
  BY AuthedType DEF Password, NoConf, SentinelConf
<1>3. sent \in [Node -> SentinelConf]
  BY <1>1, <1>2
<1>4. /\ op \in [node : 0..N, stage : 0..6] /\ Idle
      /\ at \in Node /\ master \in Node /\ linked \subseteq Node
  BY NodeAssumption DEF Init, NoOp, Idle, Node
<1>5. TypeOK
  BY <1>3, <1>4 DEF Init, TypeOK, Password, PhaseAfter
<1>6. BootOrder
  BY <1>1, <1>2, <1>4 DEF Init, BootOrder, RedisRuns, HasConf, RequiresAuth, Password
<1> QED BY <1>5, <1>6 DEF TypeInv

\* The parts of the invariant a step keeps when it leaves what they speak of alone.
LEMMA NodesKept ==
    ASSUME TypeInv, UNCHANGED <<procVars, diskVars, dataVars, sent>>,
           /\ cur' \in Password /\ env' \in Password
           /\ phase' \in DOMAIN PhaseAfter \cup {"done"}
           /\ at' \in Node /\ rotations' \in Nat
           /\ op' \in [node : 0..N, stage : 0..6]
           /\ kills' \in Nat /\ faults' \in Nat /\ drifts' \in Nat /\ deaf' \subseteq Node,
           Idle' \/ (op'.node = op.node /\ ~Idle /\ UNCHANGED <<phase, at>>)
    PROVE  TypeInv'
<1>1. TypeOK'
  BY DEF TypeInv, TypeOK, procVars, diskVars, dataVars
<1>2. BootOrder'
  BY DEF TypeInv, BootOrder, procVars, diskVars, dataVars, RedisRuns, HasConf, RequiresAuth, Idle
<1> QED BY <1>1, <1>2 DEF TypeInv

LEMMA OperateTypes == TypeInv /\ Operate => TypeInv'
<1> SUFFICES ASSUME TypeInv, Operate PROVE TypeInv'
  OBVIOUS
<1>a. ASSUME Refuse PROVE TypeInv'
  <2>1. op' \in [node : 0..N, stage : 0..6] /\ Idle'
    BY <1>a, NodeAssumption DEF Refuse, NoOp, Idle
  <2> QED BY <1>a, <2>1, NodesKept DEF Refuse, TypeInv, TypeOK, planVars, faultVars
<1>b. ASSUME Respond, ~Idle, UNCHANGED <<procVars, diskVars, dataVars, sent>> PROVE TypeInv'
  BY <1>b, RespondTypes, NodesKept
<1>c. ASSUME NEW k \in 0..6, ~Idle, GoTo(k)
      PROVE  op' \in [node : 0..N, stage : 0..6] /\ op'.node = op.node /\ ~Idle'
  BY <1>c DEF GoTo, TypeInv, TypeOK, Idle
<1>d. ~Idle => op.node \in Node /\ RedisRuns(op.node)
  BY DEF TypeInv, BootOrder
<1>1. CASE Begin
  <2>1. PICK n \in Node : /\ RedisRuns(n) /\ op' = [node |-> n, stage |-> 1]
                          /\ n = IF phase = "database" THEN master ELSE at
    BY <1>1 DEF Begin, TypeInv, TypeOK
  <2>2. op' \in [node : 0..N, stage : 0..6]
    BY <2>1 DEF Node
  <2>3. TypeOK'
    BY <1>1, <2>2 DEF Begin, TypeInv, TypeOK, planVars, procVars, diskVars, dataVars, faultVars
  <2>4. BootOrder'
    BY <1>1, <2>1 DEF Begin, TypeInv, BootOrder, planVars, procVars, diskVars, dataVars,
       RedisRuns, HasConf, RequiresAuth
  <2> QED BY <2>3, <2>4 DEF TypeInv
<1>2. CASE Preflight \/ Database \/ MemberWait
  BY <1>2, <1>a, <1>b DEF Preflight, Database, MemberWait, Stage
<1>3. CASE PrepareJournal
  <2>1. journal' \in [Node -> Password \cup {None}]
    BY <1>3, TwoPasswords DEF PrepareJournal, TypeInv, TypeOK
  <2>2. TypeOK'
    BY <1>3, <1>c, <2>1 DEF PrepareJournal, Stage, TypeInv, TypeOK, planVars, procVars, dataVars,
       faultVars
  <2>3. BootOrder'
    BY <1>3, <1>c DEF PrepareJournal, Stage, TypeInv, BootOrder, planVars, procVars, dataVars,
       RedisRuns, HasConf, RequiresAuth
  <2> QED BY <2>2, <2>3 DEF TypeInv
<1>4. CASE PrepareData \/ MemberData
  <2>1. /\ accepts' \in [Node -> SUBSET Password] /\ masterauth' \in [Node -> Password]
        /\ pin' \in [Node -> Password \cup {None}]
        /\ \A n \in Node : pin[n] \in Password => pin'[n] \in Password
    <3>1. CASE PrepareData
      BY <3>1, TwoPasswords DEF PrepareData, TypeInv, TypeOK, diskVars
    <3>2. CASE MemberData
      <4>1. CASE Stage("member", 1)
        <5>1. /\ accepts' = [accepts EXCEPT ![op.node] = {tgt}]
              /\ masterauth' = [masterauth EXCEPT ![op.node] = tgt] /\ pin' = pin
          BY <3>2, <4>1 DEF MemberData, Stage, diskVars
        <5> QED BY <5>1, TwoPasswords DEF TypeInv, TypeOK
      <4>2. CASE Stage("member", 2)
        <5>1. /\ pin' = [pin EXCEPT ![op.node] = tgt]
              /\ accepts' = accepts /\ masterauth' = masterauth
          BY <3>2, <4>2 DEF MemberData, Stage, dataVars
        <5> QED BY <5>1, TwoPasswords DEF TypeInv, TypeOK
      <4> QED BY <3>2, <4>1, <4>2 DEF MemberData
    <3> QED BY <1>4, <3>1, <3>2
  <2>2. op' \in [node : 0..N, stage : 0..6] /\ op'.node = op.node /\ ~Idle'
    BY <1>4, <1>c DEF PrepareData, MemberData, Stage
  <2>3. UNCHANGED <<planVars, procVars, journal, master, linked, sent, faultVars>> /\ ~Idle
    <3>1. CASE PrepareData
      BY <3>1 DEF PrepareData, diskVars, Stage
    <3>2. CASE MemberData
      BY <3>2 DEF MemberData, Stage, diskVars, dataVars
    <3> QED BY <1>4, <3>1, <3>2
  <2>4. TypeOK'
    BY <2>1, <2>2, <2>3 DEF TypeInv, TypeOK, planVars, procVars, faultVars
  <2>5. BootOrder'
    BY <2>1, <2>2, <2>3 DEF TypeInv, BootOrder, planVars, procVars, RedisRuns, HasConf,
       RequiresAuth
  <2> QED BY <2>4, <2>5 DEF TypeInv
<1>5. CASE PrepareSentinel
  <2>1. PICK k \in 4..6 :
          /\ Stage("prepare", k)
          /\ IF ~SentinelRuns(op.node) \/ (k = 4 /\ ~RequiresAuth(op.node))
             THEN Refuse
             ELSE /\ sent' = [sent EXCEPT ![op.node] = Prepared(@, k)]
                  /\ IF k < 6 THEN GoTo(k + 1) /\ UNCHANGED <<planVars, faultVars>>
                              ELSE Respond
                  /\ UNCHANGED <<procVars, diskVars, dataVars>>
    BY <1>5 DEF PrepareSentinel
  <2>2. CASE Refuse
    BY <2>2, <1>a
  <2>3. CASE ~Refuse
    <3> DEFINE n == op.node
    <3>1. ~Idle /\ n \in Node /\ sent' = [sent EXCEPT ![n] = Prepared(@, k)]
          /\ UNCHANGED <<procVars, diskVars, dataVars>>
      BY <2>1, <2>3, <1>d DEF Stage
    <3>2. sent[n] \in SentinelConf /\ sent[n].auth # None
          /\ (k = 4 => sent[n].accepts # {})
      BY <2>1, <2>3, <3>1, <1>d DEF TypeInv, TypeOK, BootOrder, HasConf, RequiresAuth
    <3>3. /\ Prepared(sent[n], k) \in SentinelConf /\ Prepared(sent[n], k).auth # None
      BY <3>2, TwoPasswords DEF Prepared, SentinelConf, TypeInv, TypeOK
    <3>4. sent' \in [Node -> SentinelConf] /\ \A m \in Node : HasConf(m) => HasConf(m)'
      BY <3>1, <3>3 DEF TypeInv, TypeOK, HasConf
    <3>5. \A m \in Node : RequiresAuth(m)' => HasConf(m)'
      BY <3>1, <3>3, <3>4 DEF TypeInv, TypeOK, BootOrder, HasConf, RequiresAuth
    <3>6. CASE k < 6
      <4>1. /\ op' \in [node : 0..N, stage : 0..6] /\ op'.node = op.node
            /\ UNCHANGED <<planVars, faultVars>>
        BY <2>1, <2>3, <3>1, <3>6, <1>c
      <4>2. TypeOK'
        BY <3>1, <3>4, <4>1 DEF TypeInv, TypeOK, planVars, procVars, diskVars, dataVars, faultVars
      <4>3. BootOrder'
        BY <3>1, <3>4, <3>5, <4>1
           DEF TypeInv, BootOrder, planVars, procVars, diskVars, RedisRuns, Idle
      <4> QED BY <4>2, <4>3 DEF TypeInv
    <3>7. CASE k = 6
      <4>1. Respond
        BY <2>1, <2>3, <3>7
      <4>2. TypeOK'
        BY <3>1, <3>4, <4>1, RespondTypes DEF TypeInv, TypeOK, procVars, diskVars, dataVars
      <4>3. BootOrder'
        BY <3>1, <3>4, <3>5, <4>1, RespondTypes
           DEF TypeInv, BootOrder, procVars, diskVars, RedisRuns
      <4> QED BY <4>2, <4>3 DEF TypeInv
    <3> QED BY <3>6, <3>7
  <2> QED BY <2>2, <2>3
<1>6. CASE MemberRestart
  <2>1. permit' \in [Node -> BOOLEAN] /\ ~Idle
        /\ \A n \in Node : permit'[n] => permit[n] \/ n = op.node
    BY <1>6 DEF MemberRestart, Stage, TypeInv, TypeOK, procVars
  <2>2. op' \in [node : 0..N, stage : 0..6] /\ op'.node = op.node
    BY <1>6, <2>1, <1>c DEF MemberRestart
  <2>3. UNCHANGED <<planVars, up, boot, adopted, stopped, diskVars, dataVars, sent, faultVars>>
    BY <1>6 DEF MemberRestart, procVars
  <2>4. TypeOK'
    BY <2>1, <2>2, <2>3 DEF TypeInv, TypeOK, planVars, diskVars, dataVars, faultVars
  <2>5. BootOrder'
    BY <2>1, <2>2, <2>3, <1>d DEF TypeInv, BootOrder, planVars, diskVars, RedisRuns, HasConf,
       RequiresAuth
  <2> QED BY <2>4, <2>5 DEF TypeInv
<1>7. CASE MemberReconcile
  <2> DEFINE n == op.node
  <2>1. ~Idle /\ n \in Node /\ RedisRuns(n)
    BY <1>7, <1>d DEF MemberReconcile, Stage
  <2>2. /\ Repaired(n, 3) \in SentinelConf /\ Repaired(n, 3).auth # None
    BY <2>1, RepairedType
  <2>3. /\ sent' \in [Node -> SentinelConf]
        /\ \A m \in Node : /\ HasConf(m) => HasConf(m)'
                           /\ RequiresAuth(m)' => HasConf(m)'
    BY <1>7, <2>1, <2>2 DEF MemberReconcile, TypeInv, TypeOK, HasConf, BootOrder, RequiresAuth
  <2>4. op' \in [node : 0..N, stage : 0..6] /\ op'.node = op.node
    BY <1>7, <2>1, <1>c DEF MemberReconcile
  <2>5. TypeOK'
    BY <1>7, <2>3, <2>4 DEF MemberReconcile, TypeInv, TypeOK, planVars, procVars, diskVars,
       dataVars, faultVars
  <2>6. BootOrder'
    BY <1>7, <2>1, <2>3, <2>4 DEF MemberReconcile, TypeInv, BootOrder, planVars, procVars, diskVars,
       RedisRuns
  <2> QED BY <2>5, <2>6 DEF TypeInv
<1>8. CASE Verify
  <2>1. CASE Refuse
    BY <2>1, <1>a
  <2>2. CASE ~Refuse /\ Stage("verify", 1)
    <3>1. GoTo(2) /\ ~Idle /\ UNCHANGED <<planVars, procVars, diskVars, dataVars, sent, faultVars>>
      BY <1>8, <2>2 DEF Verify, Stage
    <3> QED BY <3>1, <1>c, NodesKept DEF TypeInv, TypeOK, planVars, faultVars
  <2>3. CASE Stage("verify", 2)
    <3>1. journal' = [journal EXCEPT ![op.node] = None] /\ Respond /\ ~Idle
          /\ UNCHANGED <<procVars, pin, dataVars, sent>>
      BY <1>8, <2>3 DEF Verify, Stage
    <3>2. TypeOK'
      BY <3>1, RespondTypes DEF TypeInv, TypeOK, procVars, dataVars
    <3>3. BootOrder'
      BY <3>1, RespondTypes DEF TypeInv, BootOrder, procVars, RedisRuns, HasConf, RequiresAuth
    <3> QED BY <3>2, <3>3 DEF TypeInv
  <2> QED BY <1>8, <2>1, <2>2, <2>3 DEF Verify
<1> QED BY <1>1, <1>2, <1>3, <1>4, <1>5, <1>6, <1>7, <1>8 DEF Operate

LEMMA SupervisionTypes ==
    ASSUME TypeInv, NEW n \in Node,
           Boots(n) \/ Supervise(n) \/ ReconcileTick(n) \/ Link(n) \/ Failover(n)
              \/ Kill(n) \/ Drift(n)
    PROVE  TypeInv'
\* steps that write one sentinel.conf and leave everything BootOrder speaks of alone
<1>s. ASSUME NEW c \in SentinelConf, c.auth # None, sent' = [sent EXCEPT ![n] = c]
      PROVE  /\ sent' \in [Node -> SentinelConf]
             /\ \A m \in Node : /\ HasConf(m) => HasConf(m)'
                                /\ RequiresAuth(m)' => HasConf(m)'
  BY <1>s DEF TypeInv, TypeOK, BootOrder, HasConf, RequiresAuth
<1>1. CASE DecidePassword(n)
  <2>1. PICK b \in BootPasswords(n) :
           boot' = [boot EXCEPT ![n] = b.pass] /\ adopted' = [adopted EXCEPT ![n] = b.adopted]
    BY <1>1 DEF DecidePassword
  <2>2. b.pass \in Password /\ b.adopted \in BOOLEAN
    <3>1. env \in Password /\ pin[n] \in Password \cup {None} /\ Candidate(n) \in Password
      BY DEF Candidate, TypeInv, TypeOK
    <3>2. \/ pin[n] = None /\ b = [pass |-> env, adopted |-> FALSE]
          \/ pin[n] # None /\ b = [pass |-> pin[n], adopted |-> FALSE]
          \/ b = [pass |-> Candidate(n), adopted |-> TRUE]
      BY <2>1 DEF BootPasswords
    <3>3. b.pass \in Password
      BY <3>1, <3>2
    <3>4. b.adopted = TRUE \/ b.adopted = FALSE
      BY <3>2
    <3> QED BY <3>3, <3>4
  <2>3. TypeOK'
    BY <1>1, <2>1, <2>2 DEF DecidePassword, TypeInv, TypeOK, planVars, diskVars, dataVars, faultVars
  <2>4. BootOrder'
    BY <1>1 DEF DecidePassword, TypeInv, TypeOK, BootOrder, planVars, diskVars, RedisRuns, HasConf,
       RequiresAuth, Idle
  <2> QED BY <2>3, <2>4 DEF TypeInv
<1>2. CASE StartRedis(n)
  <2>1. sent' \in [Node -> SentinelConf]
        /\ \A m \in Node : /\ HasConf(m) \/ m = n => HasConf(m)'
                           /\ RequiresAuth(m)' => HasConf(m)'
    <3>1. CASE HasConf(n)
      BY <1>2, <3>1 DEF StartRedis, TypeInv, TypeOK, BootOrder, HasConf, RequiresAuth
    <3>2. CASE ~HasConf(n)
      <4>1. PICK S \in SUBSET {p \in Node \ {n} : SentinelRuns(p)} :
               sent' = [sent EXCEPT ![n] = FirstPosture(n, S)]
        BY <1>2, <3>2 DEF StartRedis, WriteFirstConf
      <4>2. boot[n] \in Password
        BY DEF TypeInv, TypeOK
      <4>3. FirstPosture(n, S) \in {Authed(boot[n]), OpenConf(boot[n])}
        BY DEF FirstPosture
      <4>4. FirstPosture(n, S) \in SentinelConf /\ FirstPosture(n, S).auth # None
        BY <4>2, <4>3, AuthedType
      <4> QED BY <4>1, <4>4, <1>s DEF TypeInv, TypeOK, HasConf
    <3> QED BY <3>1, <3>2
  <2>2. /\ pin' \in [Node -> Password \cup {None}] /\ accepts' \in [Node -> SUBSET Password]
        /\ \A m \in Node : pin[m] \in Password \/ m = n => pin'[m] \in Password
    BY <1>2 DEF StartRedis, TypeInv, TypeOK
  <2>3. masterauth' \in [Node -> Password]
    BY <1>2 DEF StartRedis, Staged, TypeInv, TypeOK
  <2>7. /\ faults' \in Nat /\ deaf' \subseteq Node
        /\ UNCHANGED <<planVars, op, boot, adopted, permit, stopped, journal, master, linked,
                       kills, drifts>>
    BY <1>2 DEF StartRedis, WriteFirstConf, TypeInv, TypeOK
  <2>8. up' \in [Node -> {"down", "decided", "redis", "up"}]
    BY <1>2 DEF StartRedis, TypeInv, TypeOK
  <2>4. TypeOK'
    BY <2>1, <2>2, <2>3, <2>7, <2>8 DEF TypeInv, TypeOK, planVars
  <2>5. \A m \in Node : RedisRuns(m)' <=> RedisRuns(m) \/ m = n
    BY <1>2 DEF StartRedis, RedisRuns, TypeInv, TypeOK
  <2>6. BootOrder'
    BY <1>2, <2>1, <2>2, <2>5 DEF StartRedis, TypeInv, TypeOK, BootOrder, planVars, Idle
  <2> QED BY <2>4, <2>6 DEF TypeInv
<1>3. CASE BootSentinel(n)
  <2>1. sent' \in [Node -> SentinelConf]
        /\ \A m \in Node : /\ HasConf(m) => HasConf(m)'
                           /\ RequiresAuth(m)' => HasConf(m)'
    <3>1. CASE NeedsRewrite(n)
      <4>1. RedisRuns(n)
        BY <1>3 DEF BootSentinel, RedisRuns
      <4> QED BY <1>3, <3>1, <4>1, <1>s, RewrittenType DEF BootSentinel
    <3>2. CASE ~NeedsRewrite(n)
      BY <1>3, <3>2 DEF BootSentinel, TypeInv, TypeOK, BootOrder, HasConf, RequiresAuth
    <3> QED BY <3>1, <3>2
  <2>2. TypeOK'
    BY <1>3, <2>1 DEF BootSentinel, TypeInv, TypeOK, planVars, diskVars, dataVars, faultVars
  <2>3. \A m \in Node : RedisRuns(m)' <=> RedisRuns(m)
    BY <1>3 DEF BootSentinel, RedisRuns, TypeInv, TypeOK
  <2>4. BootOrder'
    BY <1>3, <2>1, <2>3 DEF BootSentinel, TypeInv, TypeOK, BootOrder, planVars, diskVars, Idle
  <2> QED BY <2>2, <2>4 DEF TypeInv
<1>4. CASE StopSentinel(n)
  <2>1. TypeOK'
    BY <1>4 DEF StopSentinel, TypeInv, TypeOK, planVars, diskVars, dataVars, faultVars
  <2>2. BootOrder'
    BY <1>4
       DEF StopSentinel, SentinelRuns, TypeInv, TypeOK, BootOrder, planVars, diskVars, RedisRuns,
       HasConf, RequiresAuth, Idle
  <2> QED BY <2>1, <2>2 DEF TypeInv
<1>5. CASE StartSentinel(n)
  <2>1. RedisRuns(n)
    BY <1>5 DEF StartSentinel, TypeInv, BootOrder
  <2>2. sent' \in [Node -> SentinelConf]
        /\ \A m \in Node : /\ HasConf(m) => HasConf(m)'
                           /\ RequiresAuth(m)' => HasConf(m)'
    BY <1>5, <2>1, <1>s, RewrittenType DEF StartSentinel
  <2>3. TypeOK'
    BY <1>5, <2>2 DEF StartSentinel, TypeInv, TypeOK, planVars, diskVars, dataVars, faultVars
  <2>4. BootOrder'
    BY <1>5, <2>2 DEF StartSentinel, TypeInv, TypeOK, BootOrder, planVars, diskVars, RedisRuns, Idle
  <2> QED BY <2>3, <2>4 DEF TypeInv
<1>6. CASE ReconcileTick(n)
  <2>1. PICK k \in 0..3 : /\ sent' = [sent EXCEPT ![n] = Repaired(n, k)]
                          /\ faults' = faults \/ faults' = faults + 1
    BY <1>6 DEF ReconcileTick
  <2>2. RedisRuns(n)
    BY <1>6 DEF ReconcileTick, Reaches, SentinelRuns, RedisRuns
  <2>3. sent' \in [Node -> SentinelConf]
        /\ \A m \in Node : /\ HasConf(m) => HasConf(m)'
                           /\ RequiresAuth(m)' => HasConf(m)'
    BY <2>1, <2>2, <1>s, RepairedType
  <2>6. faults' \in Nat
    BY <2>1 DEF TypeInv, TypeOK
  <2>4. TypeOK'
    BY <1>6, <2>6, <2>3 DEF ReconcileTick, TypeInv, TypeOK, planVars, procVars, diskVars, dataVars
  <2>5. BootOrder'
    BY <1>6, <2>3
       DEF ReconcileTick, TypeInv, BootOrder, planVars, procVars, diskVars, RedisRuns, Idle
  <2> QED BY <2>4, <2>5 DEF TypeInv
<1>7. CASE Link(n) \/ Failover(n)
  <2>1. linked' \subseteq Node /\ master' \in Node
    BY <1>7 DEF Link, Failover, TypeInv, TypeOK
  <2>2. UNCHANGED <<planVars, op, procVars, diskVars, accepts, masterauth, sent, faultVars>>
    BY <1>7 DEF Link, Failover
  <2>3. TypeOK'
    BY <2>1, <2>2 DEF TypeInv, TypeOK, planVars, procVars, diskVars, faultVars
  <2>4. BootOrder'
    BY <2>2 DEF TypeInv, BootOrder, planVars, procVars, diskVars, RedisRuns, HasConf, RequiresAuth,
       Idle
  <2> QED BY <2>3, <2>4 DEF TypeInv
<1>8. CASE Kill(n)
  <2>1. op' \in [node : 0..N, stage : 0..6] /\ (Idle' \/ (op' = op /\ op.node # n))
    BY <1>8, NodeAssumption DEF Kill, TypeInv, TypeOK, NoOp, Idle
  <2>2. TypeOK'
    BY <1>8, <2>1 DEF Kill, TypeInv, TypeOK, planVars, diskVars
  <2>3. BootOrder'
    BY <1>8, <2>1 DEF Kill, TypeInv, TypeOK, BootOrder, planVars, diskVars, RedisRuns, HasConf,
       RequiresAuth, Idle
  <2> QED BY <2>2, <2>3 DEF TypeInv
<1>9. CASE Drift(n)
  <2>1. sent[n] \in SentinelConf /\ sent[n].auth # None
    BY <1>9 DEF Drift, TypeInv, TypeOK, BootOrder, HasConf
  <2>2. PICK c \in {[sent[n] EXCEPT !.pass = Other(@)], [sent[n] EXCEPT !.auth = Other(@)]} :
           sent' = [sent EXCEPT ![n] = c]
    BY <1>9 DEF Drift
  <2>3. \A p : Other(p) \in Password /\ Other(p) # None
    BY PasswordAssumption DEF Other, Password
  <2>4. c \in SentinelConf /\ c.auth # None
    BY <2>1, <2>2, <2>3 DEF SentinelConf
  <2>5. sent' \in [Node -> SentinelConf]
        /\ \A m \in Node : /\ HasConf(m) => HasConf(m)'
                           /\ RequiresAuth(m)' => HasConf(m)'
    BY <2>2, <2>4, <1>s
  <2>6. TypeOK'
    BY <1>9, <2>5 DEF Drift, TypeInv, TypeOK, planVars, procVars, diskVars, dataVars
  <2>7. BootOrder'
    BY <1>9, <2>5 DEF Drift, TypeInv, BootOrder, planVars, procVars, diskVars, RedisRuns, Idle
  <2> QED BY <2>6, <2>7 DEF TypeInv
<1> QED BY <1>1, <1>2, <1>3, <1>4, <1>5, <1>6, <1>7, <1>8, <1>9 DEF Boots, Supervise

LEMMA TypeNext == TypeInv /\ [Next]_vars => TypeInv'
<1> SUFFICES ASSUME TypeInv, [Next]_vars PROVE TypeInv'
  OBVIOUS
<1>1. CASE CutOff
  <2>1. op' \in [node : 0..N, stage : 0..6] /\ Idle'
    BY <1>1, NodeAssumption DEF CutOff, NoOp, Idle
  <2> QED BY <1>1, <2>1, NodesKept DEF CutOff, TypeInv, TypeOK, planVars
<1>2. CASE Compensate
  <2>1. Idle
    BY <1>2 DEF Compensate, TypeInv, BootOrder
  <2>2. cur' \in Password /\ phase' \in DOMAIN PhaseAfter /\ at' \in Node /\ rotations' \in Nat
    BY <1>2, TwoPasswords, NodeAssumption DEF Compensate, TypeInv, TypeOK, PhaseAfter, Node
  <2> QED BY <1>2, <2>1, <2>2, NodesKept DEF Compensate, TypeInv, TypeOK, faultVars, Idle
<1>3. CASE UNCHANGED vars
  <2>1. TypeOK'
    BY <1>3 DEF vars, planVars, procVars, diskVars, dataVars, faultVars, TypeInv, TypeOK
  <2>2. BootOrder'
    BY <1>3 DEF vars, planVars, procVars, diskVars, TypeInv, BootOrder, RedisRuns, HasConf,
       RequiresAuth, Idle
  <2> QED BY <2>1, <2>2 DEF TypeInv
<1> QED BY <1>1, <1>2, <1>3, OperateTypes, SupervisionTypes DEF Next

\* Every variable keeps its type, through every handler, boot, restart and kill.
THEOREM TypeCorrect == Spec => []TypeOK
<1>1. TypeInv => TypeOK BY DEF TypeInv
<1> QED BY TypeInit, TypeNext, <1>1, PTL DEF Spec

-----------------------------------------------------------------------------
(***************************************************************************)
(* Posture.  An open cluster stays in PREFLIGHT, where no Sentinel is ever *)
(* asked to stop, so a member that joins it finds one that answers.        *)
(***************************************************************************)
\* A Sentinel that answers without a password
Open(n) == HasConf(n) /\ ~RequiresAuth(n)

\* Somebody open means that no rotation has passed PREFLIGHT; and a fresh node has a
\* running Sentinel to copy its posture from, if it can hear it.
OpenIsIdle ==
    (\E p \in Node : Open(p)) =>
        /\ phase = "preflight"
        /\ \A n \in Node : ~permit[n] /\ ~stopped[n]
        /\ (\E f \in Node : ~HasConf(f)) => \E m \in Node : up[m] = "up"

\* Whoever has a sentinel.conf has the same posture
Alike ==
    \A n, m \in Node : HasConf(n) /\ HasConf(m) => (RequiresAuth(n) <=> RequiresAuth(m))

PostureInv == TypeInv /\ Alike /\ OpenIsIdle

LEMMA PostureInit == Init => PostureInv
<1> SUFFICES ASSUME Init PROVE Alike /\ OpenIsIdle
  BY TypeInit DEF PostureInv
<1>1. PICK s \in {Authed(Old), OpenConf(Old)} :
         sent = [n \in Node |-> IF n \in Fresh THEN NoConf ELSE s]
  BY DEF Init
<1>2. \A n \in Node : HasConf(n) => n \notin Fresh /\ sent[n] = s
  BY <1>1 DEF HasConf, NoConf
<1>3. Alike
  BY <1>2 DEF Alike, RequiresAuth
<1>4. OpenIsIdle
  BY <1>2 DEF Init, OpenIsIdle, Open
<1> QED BY <1>3, <1>4

\* A step that changes nobody's posture, asks no Sentinel to stop and leaves one running
LEMMA PostureKept ==
    ASSUME Alike, OpenIsIdle,
           \A m \in Node : (HasConf(m)' <=> HasConf(m)) /\ (RequiresAuth(m)' <=> RequiresAuth(m)),
           (\E p \in Node : Open(p)) =>
               /\ phase' = "preflight"
               /\ \A n \in Node : ~permit'[n] /\ ~stopped'[n]
               /\ (\E f \in Node : ~HasConf(f)) /\ (\E m \in Node : up[m] = "up")
                     => \E m \in Node : up'[m] = "up"
    PROVE  Alike' /\ OpenIsIdle'
BY DEF Alike, OpenIsIdle, Open

LEMMA SameSent ==
    ASSUME sent' = sent
    PROVE  \A m \in Node : (HasConf(m)' <=> HasConf(m)) /\ (RequiresAuth(m)' <=> RequiresAuth(m))
BY DEF HasConf, RequiresAuth

LEMMA OneConf ==
    ASSUME TypeInv, NEW n \in Node, NEW c, sent' = [sent EXCEPT ![n] = c],
           HasConf(n), c.auth # None, c.accepts # {} <=> RequiresAuth(n)
    PROVE  \A m \in Node : (HasConf(m)' <=> HasConf(m)) /\ (RequiresAuth(m)' <=> RequiresAuth(m))
BY DEF TypeInv, TypeOK, HasConf, RequiresAuth

LEMMA OperatePosture == PostureInv /\ Operate => Alike' /\ OpenIsIdle'
<1> SUFFICES ASSUME PostureInv, Operate PROVE Alike' /\ OpenIsIdle'
  OBVIOUS
<1>d. TypeInv /\ (~Idle => op.node \in Node /\ RedisRuns(op.node) /\ HasConf(op.node))
  BY DEF PostureInv, TypeInv, BootOrder
<1>1. \A m \in Node : (HasConf(m)' <=> HasConf(m)) /\ (RequiresAuth(m)' <=> RequiresAuth(m))
  <2>1. CASE PrepareSentinel
    <3> DEFINE n == op.node
    <3>1. CASE sent' = sent
      BY <3>1, SameSent
    <3>2. CASE sent' # sent
      <4>1. PICK k \in 4..6 : /\ Stage("prepare", k)
                              /\ SentinelRuns(n) /\ (k = 4 => RequiresAuth(n))
                              /\ sent' = [sent EXCEPT ![n] = Prepared(@, k)]
        BY <2>1, <3>2 DEF PrepareSentinel, Refuse
      <4>2. n \in Node /\ HasConf(n) /\ sent[n] \in SentinelConf
        BY <4>1, <1>d DEF Stage, TypeInv, TypeOK
      <4>3. sent' = [sent EXCEPT ![n] = Prepared(sent[n], k)]
        BY <4>1, <4>2
      <4>4. /\ Prepared(sent[n], k).auth # None
            /\ Prepared(sent[n], k).accepts # {} <=> RequiresAuth(n)
        BY <4>1, <4>2, <1>d, TwoPasswords
           DEF Prepared, SentinelConf, HasConf, RequiresAuth, TypeInv,
           TypeOK
      <4> QED BY <1>d, <4>2, <4>3, <4>4, OneConf
    <3> QED BY <3>1, <3>2
  <2>2. CASE MemberReconcile
    <3> DEFINE n == op.node
    <3>1. CASE sent' = sent
      BY <3>1, SameSent
    <3>2. CASE sent' # sent
      <4>1. ~Idle /\ Reaches(n) /\ sent' = [sent EXCEPT ![n] = Repaired(n, 3)]
        BY <2>2, <3>2 DEF MemberReconcile, Stage
      <4>2. RequiresAuth(n)
        BY <4>1 DEF Reaches, RequiresAuth
      <4>3. Repaired(n, 3).auth # None /\ Repaired(n, 3).accepts # {}
        BY <1>d, <4>1, <4>2, RepairedType DEF RequiresAuth
      <4> QED BY <1>d, <4>1, <4>2, <4>3, OneConf
    <3> QED BY <3>1, <3>2
  <2>3. ASSUME Begin \/ Preflight \/ PrepareJournal \/ PrepareData \/ Database \/ MemberData
               \/ MemberRestart \/ MemberWait \/ Verify
        PROVE  sent' = sent
    BY <2>3 DEF Begin, Preflight, PrepareJournal, PrepareData, Database, MemberData, MemberRestart,
       MemberWait, Verify, Refuse
  <2> QED BY <2>1, <2>2, <2>3, SameSent DEF Operate
<1>2. ASSUME NEW p \in Node, Open(p) PROVE UNCHANGED <<phase, permit, stopped, up>>
  <2>1. phase = "preflight"
    BY <1>2 DEF PostureInv, OpenIsIdle
  <2>2. \A n \in Node : ~RequiresAuth(n)
    BY <1>2, <1>d DEF PostureInv, Alike, Open, BootOrder, TypeInv
  <2>3. CASE Begin
    BY <2>3 DEF Begin, planVars, procVars
  <2>4. CASE Preflight
    BY <2>2, <2>4, <1>d
       DEF Preflight, Stage, SentinelAccepts, RequiresAuth, Refuse, planVars, procVars
  <2> QED BY <1>d, <2>1, <2>3, <2>4
     DEF Operate, PrepareJournal, PrepareData, PrepareSentinel, Database,
             MemberData, MemberRestart, MemberReconcile, MemberWait, Verify, Stage
<1> QED BY <1>1, <1>2, PostureKept DEF PostureInv, OpenIsIdle

LEMMA SupervisionPosture ==
    ASSUME PostureInv, deaf' = {}, NEW n \in Node,
           Boots(n) \/ Supervise(n) \/ ReconcileTick(n) \/ Link(n) \/ Failover(n)
              \/ Kill(n) \/ Drift(n)
    PROVE  Alike' /\ OpenIsIdle'
<1>d. TypeInv /\ Alike /\ OpenIsIdle
  BY DEF PostureInv
<1>1. CASE DecidePassword(n)
  <2>1. \A m \in Node : up[m] = "up" => up'[m] = "up"
    BY <1>1, <1>d DEF DecidePassword, TypeInv, TypeOK
  <2>2. sent' = sent /\ phase' = phase /\ permit' = permit /\ stopped' = stopped
    BY <1>1 DEF DecidePassword, planVars
  <2> QED BY <1>d, <2>1, <2>2, SameSent, PostureKept DEF OpenIsIdle
<1>2. CASE StartRedis(n)
  <2>1. \A m \in Node : up[m] = "up" => up'[m] = "up" /\ m # n
    BY <1>2, <1>d DEF StartRedis, TypeInv, TypeOK
  <2>2. phase' = phase /\ permit' = permit /\ stopped' = stopped
    BY <1>2 DEF StartRedis, planVars
  <2>3. CASE HasConf(n)
    <3>1. sent' = sent
      BY <1>2, <2>3 DEF StartRedis
    <3> QED BY <1>d, <2>1, <2>2, <3>1, SameSent, PostureKept DEF OpenIsIdle
  <2>4. CASE ~HasConf(n)
    <3> DEFINE peers == {p \in Node \ {n} : SentinelRuns(p)}
    <3>1. PICK S \in SUBSET peers :
             /\ (\E p \in peers : AnswersOpen(p)) => \E p \in S : AnswersOpen(p)
             /\ sent' = [sent EXCEPT ![n] = IF \E p \in S : AnswersOpen(p) THEN OpenConf(boot[n])
                                                                        ELSE Authed(boot[n])]
      <4>1. PICK S \in SUBSET peers :
               /\ sent' = [sent EXCEPT ![n] = FirstPosture(n, S)]
               /\ {p \in peers : AnswersOpen(p)} # {} /\ {p \in peers : AnswersOpen(p)} \cap S = {}
                    => deaf' = deaf \cup {n}
        BY <1>2, <2>4 DEF StartRedis, WriteFirstConf
      <4> QED BY <4>1 DEF FirstPosture
    <3>2. boot[n] \in Password
      BY <1>d DEF TypeInv, TypeOK
    <3>3. \A m \in Node \ {n} : sent'[m] = sent[m]
      BY <1>d, <3>1 DEF TypeInv, TypeOK
    <3>4. \A m \in Node \ {n} : /\ HasConf(m)' <=> HasConf(m)
                                /\ RequiresAuth(m)' <=> RequiresAuth(m)
      BY <3>3 DEF HasConf, RequiresAuth
    <3>5. \A p \in peers : HasConf(p)
      BY <1>d DEF SentinelRuns, RedisRuns, TypeInv, BootOrder
    \* one member is open, so all are, and one of them answers
    <3>6. ASSUME NEW q \in Node, Open(q) PROVE Alike' /\ OpenIsIdle'
      <4>1. \A m \in Node : HasConf(m) => ~RequiresAuth(m)
        BY <1>d, <3>6 DEF Alike, Open
      <4>2. PICK m \in Node : up[m] = "up"
        BY <1>d, <2>4, <3>6 DEF OpenIsIdle
      <4>3. m \in peers
        BY <1>d, <2>1, <3>6, <4>2 DEF OpenIsIdle, SentinelRuns
      <4>4. \E p \in S : AnswersOpen(p)
        <5>1. AnswersOpen(m)
          BY <3>5, <4>1, <4>3 DEF AnswersOpen
        <5> QED BY <3>1, <4>3, <5>1
      <4>5. sent'[n] = OpenConf(boot[n])
        BY <1>d, <3>1, <4>4 DEF TypeInv, TypeOK
      <4>6. ~RequiresAuth(n)'
        BY <3>2, <4>5, AuthedType DEF RequiresAuth
      <4>7. Alike'
        BY <3>4, <4>1, <4>6 DEF Alike
      <4>8. OpenIsIdle'
        BY <1>d, <2>1, <2>2, <3>6, <4>2 DEF OpenIsIdle
      <4> QED BY <4>7, <4>8
    \* none is: every answer asks for a password, and so does no answer
    <3>7. ASSUME \A q \in Node : ~Open(q) PROVE Alike' /\ OpenIsIdle'
      <4>1. ~\E p \in S : AnswersOpen(p)
        BY <3>5, <3>7 DEF AnswersOpen, Open
      <4>2. sent'[n] = Authed(boot[n])
        BY <1>d, <3>1, <4>1 DEF TypeInv, TypeOK
      <4>3. RequiresAuth(n)'
        BY <3>2, <4>2, AuthedType DEF RequiresAuth
      <4>4. \A m \in Node : HasConf(m)' => RequiresAuth(m)'
        BY <3>4, <3>7, <4>3 DEF Open
      <4> QED BY <4>4 DEF Alike, OpenIsIdle, Open
    <3> QED BY <3>6, <3>7
  <2> QED BY <2>3, <2>4
<1>3. CASE BootSentinel(n)
  <2>1. RedisRuns(n) /\ HasConf(n)
    BY <1>3, <1>d DEF BootSentinel, RedisRuns, TypeInv, BootOrder
  <2>2. \A m \in Node : /\ HasConf(m)' <=> HasConf(m)
                        /\ RequiresAuth(m)' <=> RequiresAuth(m)
    <3>1. CASE NeedsRewrite(n)
      BY <1>3, <1>d, <2>1, <3>1, RewrittenType, OneConf DEF BootSentinel
    <3>2. CASE ~NeedsRewrite(n)
      <4>1. sent' = sent
        BY <1>3, <3>2 DEF BootSentinel
      <4> QED BY <4>1, SameSent
    <3> QED BY <3>1, <3>2
  <2>3. \A m \in Node : up[m] = "up" => up'[m] = "up"
    BY <1>3, <1>d DEF BootSentinel, TypeInv, TypeOK
  <2>4. phase' = phase /\ permit' = permit /\ stopped' = stopped
    BY <1>3 DEF BootSentinel, planVars
  <2> QED BY <1>d, <2>2, <2>3, <2>4, PostureKept DEF OpenIsIdle
<1>4. CASE StopSentinel(n)
  <2>1. sent' = sent /\ permit[n]
    BY <1>4 DEF StopSentinel
  <2>2. \A p \in Node : ~Open(p)
    BY <1>d, <2>1 DEF OpenIsIdle
  <2> QED BY <1>d, <2>1, <2>2, SameSent, PostureKept
<1>5. CASE StartSentinel(n)
  <2>1. stopped[n] /\ RedisRuns(n) /\ HasConf(n) /\ sent' = [sent EXCEPT ![n] = Rewritten(n)]
    BY <1>5, <1>d DEF StartSentinel, TypeInv, BootOrder
  <2>2. \A p \in Node : ~Open(p)
    BY <1>d, <2>1 DEF OpenIsIdle
  <2>3. \A m \in Node : /\ HasConf(m)' <=> HasConf(m)
                        /\ RequiresAuth(m)' <=> RequiresAuth(m)
    BY <1>d, <2>1, RewrittenType, OneConf
  <2> QED BY <1>d, <2>2, <2>3, PostureKept
<1>6. CASE ReconcileTick(n)
  <2>1. PICK k \in 0..3 : sent' = [sent EXCEPT ![n] = Repaired(n, k)]
    BY <1>6 DEF ReconcileTick
  <2>2. RedisRuns(n) /\ RequiresAuth(n) /\ HasConf(n)
    BY <1>6, <1>d DEF ReconcileTick, Reaches, SentinelRuns, RedisRuns, TypeInv, BootOrder
  <2>3. Repaired(n, k).auth # None /\ Repaired(n, k).accepts # {}
    BY <1>d, <2>2, RepairedType DEF RequiresAuth
  <2>4. \A m \in Node : /\ HasConf(m)' <=> HasConf(m)
                        /\ RequiresAuth(m)' <=> RequiresAuth(m)
    BY <1>d, <2>1, <2>2, <2>3, OneConf
  <2>5. phase' = phase /\ permit' = permit /\ stopped' = stopped /\ up' = up
    BY <1>6 DEF ReconcileTick, planVars, procVars
  <2> QED BY <1>d, <2>4, <2>5, PostureKept DEF OpenIsIdle
<1>7. CASE Link(n) \/ Failover(n)
  <2>1. sent' = sent /\ phase' = phase /\ permit' = permit /\ stopped' = stopped /\ up' = up
    BY <1>7 DEF Link, Failover, planVars, procVars
  <2> QED BY <1>d, <2>1, SameSent, PostureKept DEF OpenIsIdle
<1>8. CASE Kill(n)
  <2>1. sent' = sent /\ phase' = phase
    BY <1>8 DEF Kill, planVars
  <2>2. (\E f \in Node : ~HasConf(f)) => \E m \in Node : up'[m] = "up"
    BY <1>8, <1>d DEF Kill, TypeInv, TypeOK, BootOrder
  <2>3. \A m \in Node : ~permit[m] /\ ~stopped[m] => ~permit'[m] /\ ~stopped'[m]
    BY <1>8, <1>d DEF Kill, TypeInv, TypeOK
  <2> QED BY <1>d, <2>1, <2>2, <2>3, SameSent, PostureKept DEF OpenIsIdle
<1>9. CASE Drift(n)
  <2>1. HasConf(n) /\ sent[n] \in SentinelConf
    BY <1>9, <1>d DEF Drift, TypeInv, BootOrder, TypeOK
  <2>2. PICK c \in {[sent[n] EXCEPT !.pass = Other(@)], [sent[n] EXCEPT !.auth = Other(@)]} :
           sent' = [sent EXCEPT ![n] = c]
    BY <1>9 DEF Drift
  <2>3. \A p : Other(p) # None
    BY PasswordAssumption DEF Other, Password
  <2>4. c.auth # None /\ c.accepts = sent[n].accepts
    BY <2>1, <2>2, <2>3 DEF SentinelConf, HasConf
  <2>5. \A m \in Node : /\ HasConf(m)' <=> HasConf(m)
                        /\ RequiresAuth(m)' <=> RequiresAuth(m)
    BY <1>d, <2>1, <2>2, <2>4, OneConf DEF RequiresAuth
  <2>6. phase' = phase /\ permit' = permit /\ stopped' = stopped /\ up' = up
    BY <1>9 DEF Drift, planVars, procVars
  <2> QED BY <1>d, <2>5, <2>6, PostureKept DEF OpenIsIdle
<1> QED BY <1>1, <1>2, <1>3, <1>4, <1>5, <1>6, <1>7, <1>8, <1>9 DEF Boots, Supervise

LEMMA PostureNext == PostureInv /\ [Next]_vars /\ deaf' = {} => PostureInv'
<1> SUFFICES ASSUME PostureInv, [Next]_vars, deaf' = {} PROVE Alike' /\ OpenIsIdle'
  BY TypeNext DEF PostureInv
<1>d. TypeInv /\ Alike /\ OpenIsIdle
  BY DEF PostureInv
<1>1. CASE CutOff \/ UNCHANGED vars
  <2>1. sent' = sent /\ phase' = phase /\ permit' = permit /\ stopped' = stopped /\ up' = up
    BY <1>1 DEF CutOff, vars, planVars, procVars
  <2> QED BY <1>d, <2>1, SameSent, PostureKept DEF OpenIsIdle
<1>2. CASE Compensate
  <2>1. sent' = sent /\ phase = "done"
    BY <1>2 DEF Compensate
  <2>2. \A p \in Node : ~Open(p)
    BY <1>d, <2>1 DEF OpenIsIdle
  <2> QED BY <1>d, <2>1, <2>2, SameSent, PostureKept
<1> QED BY <1>1, <1>2, OperatePosture, SupervisionPosture DEF Next

\* Nobody forgets a joiner that heard no open peer.
LEMMA DeafNext == [Next]_vars => (deaf' = {} => deaf = {})
<1> SUFFICES ASSUME [Next]_vars, deaf' = {} PROVE deaf = {}
  OBVIOUS
<1>1. \A n \in Node : WriteFirstConf(n) => deaf = {}
  BY DEF WriteFirstConf
<1>2. \A n \in Node : StartRedis(n) => deaf = {}
  BY <1>1 DEF StartRedis
<1>3. Refuse \/ Respond => deaf = {}
  BY DEF Refuse, Respond, faultVars
<1>4. Operate => deaf = {}
  BY <1>3 DEF Operate, Begin, Preflight, PrepareJournal, PrepareData, PrepareSentinel, Database,
              MemberData, MemberRestart, MemberReconcile, MemberWait, Verify, faultVars
<1> QED BY <1>2, <1>4 DEF Next, vars, CutOff, Compensate, Boots, DecidePassword, BootSentinel,
              Supervise, StopSentinel, StartSentinel, ReconcileTick, Link, Failover, Kill, Drift,
              faultVars

\* Two members that have a sentinel.conf agree on whether it asks for a password: one
\* that joins takes the posture of its peers, whatever rotation, restart or kill is under
\* way and whichever of its probes are lost, as long as one open peer is heard if any runs.
THEOREM PosturesAgree == Spec => []PostureUniform
<1> DEFINE Inv == TypeInv /\ (deaf = {} => PostureInv)
<1>1. Init => Inv
  BY PostureInit DEF PostureInv
<1>2. Inv /\ [Next]_vars => Inv'
  <2> SUFFICES ASSUME Inv, [Next]_vars PROVE Inv'
    OBVIOUS
  <2>1. TypeInv'
    BY TypeNext
  <2>2. deaf' = {} => PostureInv'
    BY PostureNext, DeafNext
  <2> QED BY <2>1, <2>2
<1>3. Inv => PostureUniform
  BY DEF PostureInv, Alike, PostureUniform
<1> QED BY <1>1, <1>2, <1>3, PTL DEF Spec

-----------------------------------------------------------------------------
(***************************************************************************)
(* Rotation.  What each node holds, by how far the rotation has come.      *)
(***************************************************************************)
\* The nodes PREFLIGHT, PREPARE and MEMBER have answered for
Checked == IF phase = "preflight" THEN 1..(at - 1) ELSE IF phase = "prepare" THEN Node ELSE {}
Prepareds ==
    IF phase = "preflight" THEN {} ELSE IF phase = "prepare" THEN 1..(at - 1) ELSE Node
Members ==
    IF phase \in {"verify", "done"} THEN Node ELSE IF phase = "member" THEN 1..(at - 1) ELSE {}

\* A prepared node accepts the target everywhere and dials out with it; its Sentinel
\* is only restarted, and only after an adoption, onto a pin that is the target.
Covered(n) ==
    /\ tgt \in accepts[n] /\ masterauth[n] = tgt /\ tgt \in sent[n].accepts
    /\ drifts = 0 => sent[n].pass = tgt /\ sent[n].auth = tgt
    /\ permit[n] \/ stopped[n] => pin[n] = tgt
    /\ up[n] = "decided" /\ adopted[n] => boot[n] = tgt
    /\ up[n] = "redis" /\ adopted[n] => pin[n] = tgt

\* A node MEMBER has answered for accepts nothing else.
Moved(n) ==
    /\ pin[n] = tgt /\ accepts[n] = {tgt} /\ sent[n].accepts = {tgt}
    /\ up[n] = "decided" => boot[n] = tgt

\* The journal names the target from PREPARE until VERIFY has removed it.
JournalOf(n) ==
    /\ phase \in {"prepare", "database", "member"} /\ n \in Prepareds => journal[n] = tgt
    /\ phase \in {"verify", "done"} => journal[n] \in {None, tgt}
    /\ n \in Verified => journal[n] = None

\* A permit of an earlier rotation is taken before the next operation begins.
PermitOf(n) ==
    n \in Checked => /\ permit[n] => SentinelRuns(n)
                     /\ ~Idle => ~permit[n]

\* What the operation running on the node has already done.
StageOf(n) ==
    op.node = n =>
        /\ phase = "prepare" =>
             /\ op.stage >= 2 => journal[n] = tgt
             /\ op.stage >= 3 => tgt \in accepts[n]
             /\ op.stage >= 4 => masterauth[n] = tgt
             /\ op.stage >= 5 => tgt \in sent[n].accepts /\ SentinelRuns(n)
             /\ op.stage >= 6 => (drifts = 0 => sent[n].pass = tgt)
        /\ phase = "member" =>
             /\ op.stage >= 2 => accepts[n] = {tgt}
             /\ op.stage >= 3 => pin[n] = tgt
             /\ op.stage >= 5 => sent[n].accepts = {tgt}

NodeInv(n) ==
    /\ JournalOf(n) /\ PermitOf(n) /\ StageOf(n)
    /\ n \in Prepareds => Covered(n)
    /\ n \in Members => Moved(n)

\* The control plane gives the new password to the environment when it is done.
EnvInv == env = IF phase = "done" THEN tgt ELSE cur

RotateInv == TypeInv /\ EnvInv /\ \A n \in Node : NodeInv(n)

LEMMA RotateInit == Init => RotateInv
<1> SUFFICES ASSUME Init PROVE EnvInv /\ \A n \in Node : NodeInv(n)
  BY TypeInit DEF RotateInv
<1>1. EnvInv
  BY DEF Init, EnvInv
<1>2. Checked = {} /\ Prepareds = {} /\ Members = {} /\ Verified = {} /\ phase = "preflight"
  BY DEF Init, Checked, Prepareds, Members, Verified
<1>3. \A n \in Node : op.node # n
  BY DEF Init, NoOp, Node
<1> QED BY <1>1, <1>2, <1>3 DEF NodeInv, JournalOf, PermitOf, StageOf

\* A step leaves what a node holds alone.
Untouched(m) ==
    /\ up'[m] = up[m] /\ boot'[m] = boot[m] /\ (adopted'[m] <=> adopted[m])
    /\ (permit'[m] <=> permit[m]) /\ (stopped'[m] <=> stopped[m])
    /\ pin'[m] = pin[m] /\ journal'[m] = journal[m]
    /\ accepts'[m] = accepts[m] /\ masterauth'[m] = masterauth[m] /\ sent'[m] = sent[m]
    /\ drifts' = 0 => drifts = 0

LEMMA UntouchedNode ==
    ASSUME NEW m \in Node, Untouched(m), cur' = cur
    PROVE  /\ Covered(m) => Covered(m)'
           /\ Moved(m) => Moved(m)'
           /\ tgt' = tgt /\ (SentinelRuns(m)' <=> SentinelRuns(m))
BY DEF Untouched, Covered, Moved, tgt, SentinelRuns

LEMMA SamePlan ==
    ASSUME UNCHANGED <<cur, phase, at>>
    PROVE  /\ Checked' = Checked /\ Prepareds' = Prepareds /\ Members' = Members
           /\ Verified' = Verified /\ tgt' = tgt
BY DEF Checked, Prepareds, Members, Verified, tgt

LEMMA NodeFrame ==
    ASSUME NEW m \in Node, NodeInv(m), Untouched(m), UNCHANGED <<cur, phase, at>>,
           op'.node = m => op' = op, Idle => Idle'
    PROVE  NodeInv(m)'
<1>1. JournalOf(m)' /\ PermitOf(m)'
  BY SamePlan, UntouchedNode DEF NodeInv, JournalOf, PermitOf, Untouched
<1>2. StageOf(m)'
  BY SamePlan, UntouchedNode DEF NodeInv, StageOf, Untouched
<1> QED BY <1>1, <1>2, SamePlan, UntouchedNode DEF NodeInv

LEMMA RespondSets ==
    ASSUME TypeInv, Respond, ~Idle, NEW m \in Node
    PROVE  /\ m \in Checked' => m \in Checked \/ (phase = "preflight" /\ m = at)
           /\ m \in Prepareds' => m \in Prepareds \/ (phase = "prepare" /\ m = at)
           /\ m \in Members' => m \in Members \/ (phase = "member" /\ m = at)
           /\ m \in Verified' => m \in Verified \/ (phase = "verify" /\ m = at)
           /\ phase' \in {"prepare", "database", "member"}
                => phase \in {"preflight", "prepare", "database", "member"}
           /\ phase' \in {"verify", "done"} => phase \in {"member", "verify"}
           /\ phase' = "done" => env' = tgt
           /\ phase' # "done" => env' = env
<1>1. at \in Node /\ phase \in DOMAIN PhaseAfter
  BY DEF TypeInv, TypeOK, BootOrder
<1>2. CASE phase' = phase /\ at' = at /\ env' = env
  BY <1>1, <1>2 DEF Checked, Prepareds, Members, Verified, PhaseAfter
<1>3. CASE phase # "database" /\ at # N /\ phase' = phase /\ at' = at + 1 /\ env' = env
  BY <1>1, <1>3 DEF Checked, Prepareds, Members, Verified, PhaseAfter, Node
<1>4. CASE /\ at = N \/ phase = "database"
           /\ phase' = PhaseAfter[phase] /\ at' = 1
           /\ env' = IF phase' = "done" THEN tgt ELSE env
  BY <1>1, <1>4, NodeAssumption DEF Checked, Prepareds, Members, Verified, PhaseAfter, Node
<1> QED BY <1>2, <1>3, <1>4, RespondCases

\* The response moves the plan past the node it was about.
LEMMA RespondFrame ==
    ASSUME TypeInv, NEW m \in Node, NodeInv(m), Respond, ~Idle, Untouched(m),
           phase = "preflight" /\ m = at => SentinelRuns(m),
           phase = "prepare" /\ m = at => journal[m] = tgt /\ Covered(m),
           phase = "member" /\ m = at => Moved(m),
           phase = "verify" /\ m = at => journal[m] = None
    PROVE  NodeInv(m)'
<1>1. cur' = cur /\ op' = NoOp /\ Idle' /\ tgt' = tgt
  BY RespondCases DEF NoOp, Idle, tgt
<1>2. JournalOf(m)'
  BY <1>1, RespondSets DEF NodeInv, JournalOf, Untouched, Prepareds
<1>3. PermitOf(m)' /\ StageOf(m)'
  BY <1>1, RespondSets, UntouchedNode DEF NodeInv, PermitOf, StageOf, Untouched, NoOp, Node
<1>4. /\ m \in Prepareds' => Covered(m)'
      /\ m \in Members' => Moved(m)'
  BY <1>1, RespondSets, UntouchedNode DEF NodeInv
<1> QED BY <1>2, <1>3, <1>4 DEF NodeInv

\* The supervisor and the loop write a prepared node's sentinel.conf from values that
\* are, by then, the target: its journal names it, or its pin does.
LEMMA CoveredFacts ==
    ASSUME RotateInv, NEW n \in Node, n \in Prepareds
    PROVE  /\ RequiresAuth(n) /\ HasConf(n)
           /\ journal[n] = tgt \/ (pin[n] = tgt /\ n \in Members)
           /\ phase \in {"prepare", "database", "member", "verify", "done"}
<1>1. Covered(n) /\ TypeInv
  BY DEF RotateInv, NodeInv
<1>2. RequiresAuth(n) /\ HasConf(n)
  BY <1>1 DEF Covered, RequiresAuth, TypeInv, BootOrder
<1>3. phase \in {"prepare", "database", "member", "verify", "done"}
  BY <1>1 DEF TypeInv, TypeOK, PhaseAfter, Prepareds
<1>4. CASE phase \in {"prepare", "database", "member"}
  BY <1>2, <1>3, <1>4 DEF RotateInv, NodeInv, JournalOf
<1>5. CASE phase \in {"verify", "done"}
  BY <1>2, <1>3, <1>5 DEF RotateInv, NodeInv, Members, Moved
<1> QED BY <1>2, <1>3, <1>4, <1>5

LEMMA MembersPrepared ==
    ASSUME TypeInv
    PROVE  Members \subseteq Prepareds /\ Members \subseteq Node /\ Verified \subseteq Members
<1>1. phase \in {"preflight", "prepare", "database", "member", "verify", "done"} /\ at \in Node
  BY DEF TypeInv, TypeOK, PhaseAfter
<1>2. 1..(at - 1) \subseteq Node
  BY <1>1, NodeAssumption DEF Node
<1> QED BY <1>1, <1>2 DEF Members, Prepareds, Verified

\* A repair never takes a prepared node's target away.
LEMMA RepairKeeps ==
    ASSUME RotateInv, NEW n \in Node, NEW k \in 0..3
    PROVE  /\ n \in Prepareds /\ RedisRuns(n) =>
                /\ tgt \in Repaired(n, k).accepts
                /\ drifts = 0 => Repaired(n, k).pass = tgt /\ Repaired(n, k).auth = tgt
           /\ sent[n].accepts = {tgt} /\ pin[n] = tgt => Repaired(n, k).accepts = {tgt}
<1>1. ASSUME n \in Prepareds, RedisRuns(n)
      PROVE  /\ tgt \in Repaired(n, k).accepts
             /\ drifts = 0 => Repaired(n, k).pass = tgt /\ Repaired(n, k).auth = tgt
  <2>1. Covered(n)
    BY <1>1 DEF RotateInv, NodeInv
  <2>2. tgt # None
    BY TwoPasswords DEF RotateInv, TypeInv, TypeOK
  <2>3. Acceptable(n, tgt)
    BY <1>1, <2>2, CoveredFacts DEF Acceptable
  <2> QED BY <2>1, <2>3 DEF Covered, Repaired
<1>2. ASSUME sent[n].accepts = {tgt}, pin[n] = tgt PROVE Repaired(n, k).accepts = {tgt}
  BY <1>2 DEF Repaired
<1> QED BY <1>1, <1>2

\* While MEMBER's work is verified, no Sentinel accepts the password before: a boot
\* cannot adopt it.
LEMMA AdoptsTarget ==
    ASSUME RotateInv, NEW n \in Node, n \in Prepareds, NEW b \in BootPasswords(n)
    PROVE  /\ b.adopted => b.pass = tgt
           /\ n \in Members => b.pass = tgt
<1>t. TypeInv /\ tgt # None /\ tgt # cur
  BY TwoPasswords DEF RotateInv, TypeInv, TypeOK
<1>1. \/ pin[n] = None /\ b = [pass |-> env, adopted |-> FALSE]
      \/ pin[n] # None /\ b = [pass |-> pin[n], adopted |-> FALSE]
      \/ b = [pass |-> Candidate(n), adopted |-> TRUE] /\ Candidate(n) # pin[n] /\ Proven(n)
  BY DEF BootPasswords
<1>2. n \in Members => pin[n] = tgt
  BY DEF RotateInv, NodeInv, Moved
<1>3. ASSUME Candidate(n) # pin[n], Proven(n) PROVE Candidate(n) = tgt
  <2>1. CASE phase \in {"prepare", "database", "member"}
    <3>1. journal[n] = tgt
      BY <2>1 DEF RotateInv, NodeInv, JournalOf
    <3> QED BY <3>1, <1>t DEF Candidate
  <2>2. CASE phase = "verify"
    <3>1. \A p \in Node : sent[p].accepts = {tgt}
      BY <2>2 DEF RotateInv, NodeInv, Members, Moved
    <3>2. \E p \in Node : Candidate(n) \in sent[p].accepts
      BY <1>3 DEF Proven, SentinelAccepts
    <3> QED BY <3>1, <3>2
  <2>3. CASE phase = "done"
    <3>1. env = tgt /\ journal[n] \in {None, tgt}
      BY <2>3 DEF RotateInv, EnvInv, NodeInv, JournalOf
    <3> QED BY <3>1 DEF Candidate
  <2> QED BY <2>1, <2>2, <2>3, CoveredFacts
<1> QED BY <1>t, <1>1, <1>2, <1>3

LEMMA SupervisionRotate ==
    ASSUME RotateInv, NEW n \in Node,
           Boots(n) \/ Supervise(n) \/ ReconcileTick(n) \/ Link(n) \/ Failover(n)
              \/ Kill(n) \/ Drift(n)
    PROVE  EnvInv' /\ \A m \in Node : NodeInv(m)'
<1>t. TypeInv /\ (\A m \in Node : NodeInv(m)) /\ tgt \in Password /\ tgt # None
  BY TwoPasswords DEF RotateInv, TypeInv, TypeOK
<1>p. UNCHANGED <<cur, phase, at, env>> /\ tgt' = tgt
  BY DEF Boots, Supervise, DecidePassword, StartRedis, BootSentinel, StopSentinel, StartSentinel,
     ReconcileTick, Link, Failover, Kill, Drift, planVars, tgt
<1>e. EnvInv'
  BY <1>p DEF RotateInv, EnvInv
<1>s. /\ Checked' = Checked /\ Prepareds' = Prepareds /\ Members' = Members
      /\ Verified' = Verified
  BY <1>p, SamePlan
<1>q. op.node = n => RedisRuns(n) /\ ~Idle
  BY <1>t DEF TypeInv, TypeOK, BootOrder, Idle, Node
<1>1. CASE DecidePassword(n)
  <2>1. PICK b \in BootPasswords(n) :
           boot' = [boot EXCEPT ![n] = b.pass] /\ adopted' = [adopted EXCEPT ![n] = b.adopted]
    BY <1>1 DEF DecidePassword
  <2>2. up[n] = "down" /\ up' = [up EXCEPT ![n] = "decided"]
        /\ UNCHANGED <<op, permit, stopped, diskVars, dataVars, sent, faultVars>>
    BY <1>1 DEF DecidePassword
  <2>3. \A m \in Node \ {n} : Untouched(m)
    BY <1>t, <2>1, <2>2 DEF Untouched, TypeInv, TypeOK, diskVars, dataVars, faultVars
  <2>4. \A m \in Node \ {n} : NodeInv(m)'
    BY <1>t, <1>p, <2>2, <2>3, NodeFrame DEF Idle
  <2>5. boot'[n] = b.pass /\ (adopted'[n] <=> b.adopted) /\ up'[n] = "decided" /\ ~RedisRuns(n)
    BY <1>t, <2>1, <2>2 DEF TypeInv, TypeOK, RedisRuns
  <2>6. ~permit[n] /\ ~stopped[n] /\ op.node # n
    BY <1>t, <1>q, <2>5 DEF TypeInv, BootOrder
  <2>7. JournalOf(n)' /\ PermitOf(n)' /\ StageOf(n)'
    BY <1>t, <1>p, <1>s, <2>2, <2>6 DEF NodeInv, JournalOf, PermitOf, StageOf, diskVars
  <2>8. n \in Prepareds' => Covered(n)'
    BY <1>t, <1>p, <1>s, <2>2, <2>5, <2>6, AdoptsTarget DEF NodeInv, Covered, diskVars, dataVars,
       faultVars
  <2>9. n \in Members' => Moved(n)'
    BY <1>t, <1>p, <1>s, <2>2, <2>5, AdoptsTarget, MembersPrepared DEF NodeInv, Moved, diskVars,
       dataVars
  <2> QED BY <1>e, <2>4, <2>7, <2>8, <2>9 DEF NodeInv
<1>2. CASE StartRedis(n)
  <2>1. /\ up[n] = "decided" /\ up' = [up EXCEPT ![n] = "redis"]
        /\ pin' = [pin EXCEPT ![n] = boot[n]]
        /\ accepts' = [accepts EXCEPT ![n] = IF Staged(n) THEN Password ELSE {boot[n]}]
        /\ masterauth' = [masterauth EXCEPT ![n] = IF Staged(n) THEN journal[n] ELSE boot[n]]
        /\ UNCHANGED <<op, boot, adopted, permit, stopped, journal, master, linked, drifts>>
    BY <1>2 DEF StartRedis
  <2>2. (HasConf(n) => sent' = sent) /\ \A m \in Node \ {n} : sent'[m] = sent[m]
    BY <1>2, <1>t DEF StartRedis, WriteFirstConf, TypeInv, TypeOK
  <2>3. \A m \in Node \ {n} : Untouched(m)
    BY <1>t, <2>1, <2>2 DEF Untouched, TypeInv, TypeOK, faultVars
  <2>4. \A m \in Node \ {n} : NodeInv(m)'
    BY <1>t, <1>p, <2>1, <2>3, NodeFrame DEF Idle
  <2>5. ~RedisRuns(n) /\ up'[n] = "redis" /\ pin'[n] = boot[n]
        /\ accepts'[n] = (IF Staged(n) THEN Password ELSE {boot[n]})
        /\ masterauth'[n] = (IF Staged(n) THEN journal[n] ELSE boot[n])
    BY <1>t, <2>1 DEF TypeInv, TypeOK, RedisRuns
  <2>6. ~permit[n] /\ ~stopped[n] /\ op.node # n
    BY <1>t, <1>q, <2>5 DEF TypeInv, BootOrder
  <2>7. JournalOf(n)' /\ PermitOf(n)' /\ StageOf(n)'
    BY <1>t, <1>p, <1>s, <2>1, <2>6 DEF NodeInv, JournalOf, PermitOf, StageOf
  <2>8. ASSUME n \in Prepareds PROVE Covered(n)' /\ (n \in Members => Moved(n)')
    <3>1. sent' = sent /\ Covered(n)
      BY <1>t, <2>2, <2>8, CoveredFacts DEF NodeInv
    <3>2. n \in Members => boot[n] = tgt /\ journal[n] \in {None, tgt} /\ sent[n].accepts = {tgt}
      <4>1. n \in Members => phase \in {"member", "verify", "done"}
        BY DEF Members
      <4> QED BY <1>t, <2>1, <2>8, <4>1 DEF NodeInv, JournalOf, Moved
    <3>3. journal[n] = tgt \/ (n \in Members /\ journal[n] = None)
      BY <2>8, <3>2, CoveredFacts
    <3>4. tgt \in accepts'[n] /\ masterauth'[n] = tgt
      BY <1>t, <2>5, <3>2, <3>3 DEF Staged
    <3>5. adopted[n] => boot[n] = tgt
      BY <2>1, <3>1 DEF Covered
    <3>6. Covered(n)'
      BY <1>p, <2>1, <2>5, <2>6, <3>1, <3>4, <3>5 DEF Covered, faultVars
    <3>7. n \in Members => accepts'[n] = {tgt}
      BY <2>5, <3>2 DEF Staged
    <3> QED BY <1>p, <2>5, <3>1, <3>2, <3>6, <3>7 DEF Moved
  <2> QED BY <1>t, <1>e, <1>s, <2>4, <2>7, <2>8, MembersPrepared DEF NodeInv
<1>3. CASE BootSentinel(n)
  <2>1. /\ up[n] = "redis" /\ up' = [up EXCEPT ![n] = "up"]
        /\ sent' = (IF NeedsRewrite(n) THEN [sent EXCEPT ![n] = Rewritten(n)] ELSE sent)
        /\ UNCHANGED <<op, boot, adopted, permit, stopped, diskVars, dataVars, faultVars>>
    BY <1>3 DEF BootSentinel
  <2>2. \A m \in Node \ {n} : Untouched(m)
    BY <1>t, <2>1 DEF Untouched, TypeInv, TypeOK, diskVars, dataVars, faultVars
  <2>3. \A m \in Node \ {n} : NodeInv(m)'
    BY <1>t, <1>p, <2>1, <2>2, NodeFrame DEF Idle
  <2>4. up'[n] = "up" /\ sent'[n] = (IF NeedsRewrite(n) THEN Rewritten(n) ELSE sent[n])
        /\ ~SentinelRuns(n)
    BY <1>t, <2>1 DEF TypeInv, TypeOK, SentinelRuns
  <2>5. n \in Prepareds => /\ NeedsRewrite(n) => pin[n] = tgt
                           /\ tgt \in sent[n].accepts
    <3>1. n \in Prepareds => Covered(n)
      BY <1>t DEF NodeInv
    <3> QED BY <1>t, <2>1, <3>1, CoveredFacts DEF Covered, NeedsRewrite
  <2>6. pin[n] = tgt /\ tgt \in sent[n].accepts
          => tgt \in sent'[n].accepts /\ (NeedsRewrite(n) => sent'[n] = Authed(tgt))
    BY <2>4 DEF Rewritten, RequiresAuth, Authed
  <2>7. JournalOf(n)' /\ PermitOf(n)'
    BY <1>t, <1>p, <1>s, <2>1, <2>4 DEF NodeInv, JournalOf, PermitOf, Idle, SentinelRuns, diskVars
  <2>8. StageOf(n)'
    <3>1. phase = "prepare" /\ op.node = n => ~(op.stage >= 5)
      BY <1>t, <2>4 DEF NodeInv, StageOf
    <3>2. op.node = n /\ phase = "member" /\ op.stage >= 5
            => pin[n] = tgt /\ sent[n].accepts = {tgt}
      BY <1>t DEF NodeInv, StageOf, TypeInv, TypeOK
    <3>3. op.node = n /\ phase = "member" /\ op.stage >= 5 => sent'[n].accepts = {tgt}
      BY <2>4, <2>6, <3>2 DEF Authed
    <3> QED BY <1>t, <1>p, <2>1, <3>1, <3>3
       DEF NodeInv, StageOf, diskVars, dataVars, TypeInv, TypeOK
  <2>9. n \in Prepareds => Covered(n)'
    <3>1. n \in Prepareds => /\ tgt \in sent'[n].accepts
                             /\ drifts = 0 => sent'[n].pass = tgt /\ sent'[n].auth = tgt
      BY <1>t, <2>4, <2>5, <2>6 DEF NodeInv, Covered, Authed
    <3> QED BY <1>t, <1>p, <2>1, <2>4, <3>1 DEF NodeInv, Covered, diskVars, dataVars, faultVars
  <2>10. n \in Members => Moved(n)'
    BY <1>t, <1>p, <2>1, <2>4, <2>6 DEF NodeInv, Moved, diskVars, dataVars, Authed
  <2> QED BY <1>e, <1>s, <2>3, <2>7, <2>8, <2>9, <2>10 DEF NodeInv
<1>4. CASE StopSentinel(n)
  <2>1. /\ permit[n] /\ SentinelRuns(n)
        /\ permit' = [permit EXCEPT ![n] = FALSE] /\ stopped' = [stopped EXCEPT ![n] = TRUE]
        /\ UNCHANGED <<op, up, boot, adopted, diskVars, dataVars, sent, faultVars>>
    BY <1>4 DEF StopSentinel
  <2>2. \A m \in Node \ {n} : Untouched(m)
    BY <1>t, <2>1 DEF Untouched, TypeInv, TypeOK, diskVars, dataVars, faultVars
  <2>3. \A m \in Node \ {n} : NodeInv(m)'
    BY <1>t, <1>p, <2>1, <2>2, NodeFrame DEF Idle
  <2>4. ~permit'[n] /\ up[n] = "up"
    BY <1>t, <2>1 DEF TypeInv, TypeOK, SentinelRuns
  <2>5. JournalOf(n)' /\ PermitOf(n)'
    BY <1>t, <1>p, <1>s, <2>1, <2>4 DEF NodeInv, JournalOf, PermitOf, diskVars
  <2>6. op.node = n => phase # "prepare"
    BY <1>t, <1>q, <2>1 DEF NodeInv, PermitOf, Checked
  <2>7. StageOf(n)'
    BY <1>t, <1>p, <2>1, <2>6 DEF NodeInv, StageOf, diskVars, dataVars
  <2>8. n \in Prepareds => Covered(n)'
    BY <1>t, <1>p, <2>1, <2>4 DEF NodeInv, Covered, diskVars, dataVars, faultVars
  <2>9. n \in Members => Moved(n)'
    BY <1>t, <1>p, <2>1 DEF NodeInv, Moved, diskVars, dataVars
  <2> QED BY <1>e, <1>s, <2>3, <2>5, <2>7, <2>8, <2>9 DEF NodeInv
<1>5. CASE StartSentinel(n)
  <2>1. /\ stopped[n] /\ stopped' = [stopped EXCEPT ![n] = FALSE]
        /\ sent' = [sent EXCEPT ![n] = Rewritten(n)]
        /\ UNCHANGED <<op, up, boot, adopted, permit, diskVars, dataVars, faultVars>>
    BY <1>5 DEF StartSentinel
  <2>2. \A m \in Node \ {n} : Untouched(m)
    BY <1>t, <2>1 DEF Untouched, TypeInv, TypeOK, diskVars, dataVars, faultVars
  <2>3. \A m \in Node \ {n} : NodeInv(m)'
    BY <1>t, <1>p, <2>1, <2>2, NodeFrame DEF Idle
  <2>4. ~stopped'[n] /\ up[n] = "up" /\ sent'[n] = Rewritten(n) /\ ~SentinelRuns(n)
    BY <1>t, <2>1 DEF TypeInv, TypeOK, BootOrder, SentinelRuns
  <2>5. pin[n] = tgt /\ tgt \in sent[n].accepts => sent'[n] = Authed(tgt)
    BY <2>4 DEF Rewritten, RequiresAuth
  <2>6. JournalOf(n)' /\ PermitOf(n)'
    BY <1>t, <1>p, <1>s, <2>1, <2>4 DEF NodeInv, JournalOf, PermitOf, Idle, SentinelRuns, diskVars
  <2>7. StageOf(n)'
    <3>1. phase = "prepare" /\ op.node = n => ~(op.stage >= 5)
      BY <1>t, <2>4 DEF NodeInv, StageOf
    <3>2. op.node = n /\ phase = "member" /\ op.stage >= 5
            => pin[n] = tgt /\ sent[n].accepts = {tgt}
      BY <1>t DEF NodeInv, StageOf, TypeInv, TypeOK
    <3>3. op.node = n /\ phase = "member" /\ op.stage >= 5 => sent'[n].accepts = {tgt}
      BY <2>5, <3>2 DEF Authed
    <3> QED BY <1>t, <1>p, <2>1, <3>1, <3>3
       DEF NodeInv, StageOf, diskVars, dataVars, TypeInv, TypeOK
  <2>8. n \in Prepareds => Covered(n)'
    BY <1>t, <1>p, <2>1, <2>4, <2>5 DEF NodeInv, Covered, Authed, diskVars, dataVars, faultVars
  <2>9. n \in Members => Moved(n)'
    BY <1>t, <1>p, <2>1, <2>5 DEF NodeInv, Moved, Authed, diskVars, dataVars
  <2> QED BY <1>e, <1>s, <2>3, <2>6, <2>7, <2>8, <2>9 DEF NodeInv
<1>6. CASE ReconcileTick(n)
  <2>1. PICK k \in 0..3 : sent' = [sent EXCEPT ![n] = Repaired(n, k)]
    BY <1>6 DEF ReconcileTick
  <2>2. /\ op.node # n /\ SentinelRuns(n) /\ RedisRuns(n)
        /\ UNCHANGED <<op, procVars, diskVars, dataVars, kills, drifts>>
    BY <1>6 DEF ReconcileTick, Reaches, SentinelRuns, RedisRuns
  <2>3. \A m \in Node \ {n} : Untouched(m)
    BY <1>t, <2>1, <2>2 DEF Untouched, TypeInv, TypeOK, procVars, diskVars, dataVars
  <2>4. \A m \in Node \ {n} : NodeInv(m)'
    BY <1>t, <1>p, <2>2, <2>3, NodeFrame DEF Idle
  <2>5. sent'[n] = Repaired(n, k)
    BY <1>t, <2>1 DEF TypeInv, TypeOK
  <2>6. JournalOf(n)' /\ PermitOf(n)' /\ StageOf(n)'
    BY <1>t, <1>p, <1>s, <2>2 DEF NodeInv, JournalOf, PermitOf, StageOf, Idle, SentinelRuns,
       procVars, diskVars
  <2>7. n \in Prepareds => Covered(n)'
    BY <1>t, <1>p, <2>2, <2>5, RepairKeeps DEF NodeInv, Covered, procVars, diskVars, dataVars
  <2>8. n \in Members => Moved(n)'
    BY <1>t, <1>p, <2>2, <2>5, RepairKeeps DEF NodeInv, Moved, procVars, diskVars, dataVars
  <2> QED BY <1>e, <1>s, <2>4, <2>6, <2>7, <2>8 DEF NodeInv
<1>7. CASE Link(n) \/ Failover(n)
  <2>1. UNCHANGED <<op, procVars, diskVars, accepts, masterauth, sent, faultVars>>
    BY <1>7 DEF Link, Failover
  <2>2. \A m \in Node : Untouched(m)
    BY <2>1 DEF Untouched, procVars, diskVars, faultVars
  <2> QED BY <1>t, <1>p, <1>e, <2>1, <2>2, NodeFrame DEF Idle
<1>8. CASE Kill(n)
  <2>1. /\ up' = [up EXCEPT ![n] = "down"] /\ permit' = [permit EXCEPT ![n] = FALSE]
        /\ stopped' = [stopped EXCEPT ![n] = FALSE]
        /\ op' = (IF op.node = n THEN NoOp ELSE op)
        /\ UNCHANGED <<boot, adopted, diskVars, accepts, masterauth, sent, drifts>>
    BY <1>8 DEF Kill
  <2>2. \A m \in Node \ {n} : Untouched(m)
    BY <1>t, <2>1 DEF Untouched, TypeInv, TypeOK, diskVars
  <2>3. op'.node # n /\ (Idle => Idle') /\ \A m \in Node : op'.node = m => op' = op
    BY <2>1 DEF NoOp, Idle, Node
  <2>4. \A m \in Node \ {n} : NodeInv(m)'
    BY <1>t, <1>p, <2>2, <2>3, NodeFrame
  <2>5. ~permit'[n] /\ ~stopped'[n] /\ up'[n] = "down"
    BY <1>t, <2>1 DEF TypeInv, TypeOK
  <2>6. JournalOf(n)' /\ PermitOf(n)' /\ StageOf(n)'
    BY <1>t, <1>p, <1>s, <2>1, <2>3, <2>5 DEF NodeInv, JournalOf, PermitOf, StageOf, diskVars
  <2>7. n \in Prepareds => Covered(n)'
    BY <1>t, <1>p, <2>1, <2>5 DEF NodeInv, Covered, diskVars
  <2>8. n \in Members => Moved(n)'
    BY <1>t, <1>p, <2>1, <2>5 DEF NodeInv, Moved, diskVars
  <2> QED BY <1>e, <1>s, <2>4, <2>6, <2>7, <2>8 DEF NodeInv
<1>9. CASE Drift(n)
  <2>1. /\ drifts' = drifts + 1 /\ UNCHANGED <<op, procVars, diskVars, dataVars>>
        /\ \/ sent' = [sent EXCEPT ![n].pass = Other(@)]
           \/ sent' = [sent EXCEPT ![n].auth = Other(@)]
    BY <1>9 DEF Drift
  <2>2. drifts' # 0 /\ sent'[n].accepts = sent[n].accepts
        /\ \A m \in Node \ {n} : sent'[m] = sent[m]
    BY <1>t, <2>1 DEF TypeInv, TypeOK, SentinelConf
  <2>3. \A m \in Node \ {n} : Untouched(m)
    BY <2>1, <2>2 DEF Untouched, procVars, diskVars, dataVars
  <2>4. \A m \in Node \ {n} : NodeInv(m)'
    BY <1>t, <1>p, <2>1, <2>3, NodeFrame DEF Idle
  <2>5. JournalOf(n)' /\ PermitOf(n)' /\ StageOf(n)'
    BY <1>t, <1>p, <1>s, <2>1, <2>2 DEF NodeInv, JournalOf, PermitOf, StageOf, Idle, SentinelRuns,
       procVars, diskVars, dataVars
  <2>6. n \in Prepareds => Covered(n)'
    BY <1>t, <1>p, <2>1, <2>2 DEF NodeInv, Covered, procVars, diskVars, dataVars
  <2>7. n \in Members => Moved(n)'
    BY <1>t, <1>p, <2>1, <2>2 DEF NodeInv, Moved, procVars, diskVars, dataVars
  <2> QED BY <1>e, <1>s, <2>4, <2>5, <2>6, <2>7 DEF NodeInv
<1> QED BY <1>1, <1>2, <1>3, <1>4, <1>5, <1>6, <1>7, <1>8, <1>9 DEF Boots, Supervise

LEMMA OperateRotate == RotateInv /\ Operate => EnvInv' /\ \A m \in Node : NodeInv(m)'
<1> SUFFICES ASSUME RotateInv, Operate PROVE EnvInv' /\ \A m \in Node : NodeInv(m)'
  OBVIOUS
<1> PICK n : n = op.node
  OBVIOUS
<1>t. TypeInv /\ (\A m \in Node : NodeInv(m)) /\ tgt \in Password /\ tgt # None /\ tgt # cur
      /\ Password = {cur, tgt}
  BY TwoPasswords DEF RotateInv, TypeInv, TypeOK
<1>o. ~Idle => /\ n \in Node /\ RedisRuns(n) /\ phase # "done" /\ env = cur
               /\ phase # "database" => n = at
               /\ op.stage \in 0..6
  BY <1>t DEF RotateInv, EnvInv, TypeInv, TypeOK, BootOrder
\* a step that does not answer leaves the plan alone
<1>s. ASSUME UNCHANGED planVars
      PROVE  /\ EnvInv' /\ UNCHANGED <<cur, phase, at>> /\ tgt' = tgt
             /\ Checked' = Checked /\ Prepareds' = Prepareds /\ Members' = Members
             /\ Verified' = Verified
  BY <1>s, SamePlan DEF RotateInv, EnvInv, planVars, tgt
<1>g. ASSUME NEW k \in 0..6, ~Idle, GoTo(k)
      PROVE  op'.node = n /\ op'.stage = k /\ ~Idle' /\ \A m \in Node \ {n} : op'.node # m
  BY <1>g, <1>t DEF GoTo, TypeInv, TypeOK, Idle
\* one that does moves it past the node
<1>r. ASSUME Respond, ~Idle PROVE EnvInv' /\ \A m \in Node \ {at} : Untouched(m) => NodeInv(m)'
  <2>1. EnvInv'
    BY <1>r, <1>t, <1>o, RespondSets, RespondCases DEF EnvInv, tgt, TypeInv, TypeOK
  <2> QED BY <1>t, <1>r, <2>1, RespondFrame
<1>f. ASSUME Refuse PROVE EnvInv' /\ \A m \in Node : NodeInv(m)'
  <2>1. \A m \in Node : Untouched(m) /\ (op'.node = m => op' = op) /\ (Idle => Idle')
    BY <1>f DEF Refuse, Untouched, procVars, diskVars, dataVars, faultVars, NoOp, Idle, Node
  <2>2. UNCHANGED planVars
    BY <1>f DEF Refuse
  <2> QED BY <1>t, <1>s, <2>1, <2>2, NodeFrame
\* an answer from a node that is as it was
<1>a. ASSUME Respond, ~Idle, UNCHANGED <<procVars, diskVars, dataVars, sent>>,
             phase \in {"preflight", "database", "member"},
             phase = "preflight" => SentinelRuns(n),
             phase = "member" => Moved(n)
      PROVE  EnvInv' /\ \A m \in Node : NodeInv(m)'
  <2>1. \A m \in Node : Untouched(m)
    BY <1>a, RespondCases, <1>t DEF Untouched, procVars, diskVars, dataVars
  <2> QED BY <1>t, <1>o, <1>r, <1>a, <2>1, RespondFrame
<1>1. CASE Begin
  <2>1. /\ Idle /\ \A m \in Node : permit[m] => ~SentinelRuns(m)
        /\ UNCHANGED <<planVars, procVars, diskVars, dataVars, sent, faultVars>>
        /\ op'.stage = 1
    BY <1>1 DEF Begin
  <2>2. \A m \in Node : Untouched(m)
    BY <2>1 DEF Untouched, procVars, diskVars, dataVars, faultVars
  <2>3. ASSUME NEW m \in Node PROVE NodeInv(m)'
    <3>1. JournalOf(m)' /\ StageOf(m)'
      BY <1>t, <1>s, <2>1, <2>2 DEF NodeInv, JournalOf, StageOf, Untouched
    <3>2. PermitOf(m)'
      BY <1>t, <1>s, <2>1, <2>2, UntouchedNode DEF NodeInv, PermitOf, Untouched
    <3> QED BY <1>t, <1>s, <2>1, <2>2, <3>1, <3>2, UntouchedNode DEF NodeInv
  <2> QED BY <1>s, <2>1, <2>3
<1>2. CASE Preflight
  BY <1>2, <1>a, <1>f DEF Preflight, Stage, SentinelAccepts
<1>3. CASE Database
  BY <1>3, <1>a, <1>f DEF Database, Stage
<1>4. CASE MemberWait
  <2>1. CASE Refuse
    BY <2>1, <1>f
  <2>2. CASE ~Refuse
    <3>1. /\ ~Idle /\ Respond /\ phase = "member" /\ op.stage = 6
          /\ UNCHANGED <<procVars, diskVars, dataVars, sent>>
      BY <1>4, <2>2 DEF MemberWait, Stage
    <3>2. Moved(n)
      BY <1>t, <1>o, <3>1 DEF NodeInv, StageOf, Moved, RedisRuns
    <3> QED BY <3>1, <3>2, <1>a
  <2> QED BY <2>1, <2>2
<1>5. CASE PrepareJournal
  <2>1. /\ ~Idle /\ phase = "prepare" /\ GoTo(2) /\ journal' = [journal EXCEPT ![n] = tgt]
        /\ UNCHANGED <<planVars, procVars, pin, dataVars, sent, faultVars>>
    BY <1>5 DEF PrepareJournal, Stage
  <2>2. \A m \in Node \ {n} : Untouched(m)
    BY <1>t, <2>1 DEF Untouched, TypeInv, TypeOK, procVars, dataVars, faultVars
  <2>3. \A m \in Node \ {n} : NodeInv(m)'
    BY <1>t, <1>s, <1>g, <2>1, <2>2, NodeFrame
  <2>4. n \in Node /\ n \notin Prepareds /\ n \notin Members /\ Verified = {} /\ journal'[n] = tgt
    BY <1>t, <1>o, <2>1 DEF Prepareds, Members, Verified, TypeInv, TypeOK
  <2>5. JournalOf(n)' /\ PermitOf(n)'
    BY <1>t, <1>s, <2>1, <2>4 DEF NodeInv, JournalOf, PermitOf, procVars, SentinelRuns
  <2>6. StageOf(n)'
    BY <1>s, <1>g, <2>1, <2>4 DEF StageOf, planVars
  <2> QED BY <1>s, <2>1, <2>3, <2>4, <2>5, <2>6 DEF NodeInv
<1>6. CASE PrepareData
  <2>1. PICK k \in {3, 4} :
          /\ ~Idle /\ phase = "prepare" /\ op.stage = k - 1 /\ GoTo(k)
          /\ k = 3 => /\ accepts' = [accepts EXCEPT ![n] = @ \cup {tgt}] /\ masterauth' = masterauth
          /\ k = 4 => /\ masterauth' = [masterauth EXCEPT ![n] = tgt] /\ accepts' = accepts
          /\ UNCHANGED <<planVars, procVars, diskVars, sent, faultVars>>
    BY <1>6 DEF PrepareData, Stage
  <2>2. \A m \in Node \ {n} : Untouched(m)
    BY <1>t, <2>1 DEF Untouched, TypeInv, TypeOK, procVars, diskVars, faultVars
  <2>3. \A m \in Node \ {n} : NodeInv(m)'
    BY <1>t, <1>s, <1>g, <2>1, <2>2, NodeFrame
  <2>4. n \in Node /\ n \notin Prepareds /\ n \notin Members /\ Verified = {}
    BY <1>t, <1>o, <2>1 DEF Prepareds, Members, Verified, TypeInv, TypeOK
  <2>5. JournalOf(n)' /\ PermitOf(n)'
    BY <1>t, <1>s, <2>1, <2>4 DEF NodeInv, JournalOf, PermitOf, procVars, diskVars, SentinelRuns
  <2>6. /\ journal[n] = tgt /\ tgt \in accepts'[n]
        /\ k = 4 => masterauth'[n] = tgt
    BY <1>t, <2>1, <2>4 DEF NodeInv, StageOf, TypeInv, TypeOK
  <2>7. StageOf(n)'
    BY <1>s, <1>g, <2>1, <2>6 DEF StageOf, planVars, diskVars
  <2> QED BY <1>s, <2>1, <2>3, <2>4, <2>5, <2>7 DEF NodeInv
<1>7. CASE PrepareSentinel
  <2>1. CASE Refuse
    BY <2>1, <1>f
  <2>2. CASE ~Refuse
    <3>1. PICK k \in 4..6 :
            /\ ~Idle /\ phase = "prepare" /\ op.stage = k /\ SentinelRuns(n)
            /\ sent' = [sent EXCEPT ![n] = Prepared(@, k)]
            /\ IF k < 6 THEN GoTo(k + 1) /\ UNCHANGED <<planVars, faultVars>> ELSE Respond
            /\ UNCHANGED <<procVars, diskVars, dataVars>>
      BY <1>7, <2>2 DEF PrepareSentinel, Stage
    <3>2. drifts' = drifts
      BY <1>t, <3>1, RespondCases DEF faultVars
    <3>3. \A m \in Node \ {n} : Untouched(m)
      BY <1>t, <3>1, <3>2 DEF Untouched, TypeInv, TypeOK, procVars, diskVars, dataVars
    <3>4. n \in Node /\ n = at /\ sent'[n] = Prepared(sent[n], k) /\ sent[n] \in SentinelConf
      BY <1>t, <1>o, <3>1 DEF TypeInv, TypeOK
    <3>5. n \notin Prepareds /\ n \notin Members /\ Verified = {} /\ n \in Checked
      BY <1>t, <3>1, <3>4 DEF Prepareds, Members, Verified, Checked, TypeInv, TypeOK
    <3>6. /\ tgt \in sent'[n].accepts /\ tgt \in accepts[n] /\ masterauth[n] = tgt
          /\ journal[n] = tgt
          /\ k >= 5 => (drifts = 0 => sent'[n].pass = tgt)
          /\ k = 6 => sent'[n].auth = tgt
      BY <1>t, <3>1, <3>4 DEF NodeInv, StageOf, Prepared, SentinelConf
    <3>7. CASE k < 6
      <4>1. GoTo(k + 1) /\ UNCHANGED <<planVars, faultVars>> /\ k + 1 \in 0..6
        BY <3>1, <3>7
      <4>2. \A m \in Node \ {n} : NodeInv(m)'
        BY <1>t, <1>s, <1>g, <3>1, <3>3, <4>1, NodeFrame
      <4>3. JournalOf(n)' /\ PermitOf(n)'
        BY <1>t, <1>s, <3>1, <3>4, <3>5, <4>1 DEF NodeInv, JournalOf, PermitOf, procVars, diskVars,
           SentinelRuns
      <4>4. StageOf(n)'
        BY <1>s, <1>g, <3>1, <3>2, <3>6, <4>1 DEF StageOf, planVars, procVars, diskVars, dataVars,
           SentinelRuns
      <4> QED BY <1>s, <3>4, <3>5, <4>1, <4>2, <4>3, <4>4 DEF NodeInv
    <3>8. CASE k = 6
      <4>1. Respond
        BY <3>1, <3>8
      <4>2. EnvInv' /\ \A m \in Node \ {n} : NodeInv(m)'
        BY <1>r, <3>1, <3>3, <3>4, <4>1
      <4>3. ~permit[n] /\ ~stopped[n] /\ up[n] = "up"
        BY <1>t, <3>1, <3>4, <3>5 DEF NodeInv, PermitOf, SentinelRuns
      <4>4. tgt' = tgt /\ op' = NoOp /\ Idle'
        BY <1>t, <3>1, <4>1, RespondCases DEF tgt, NoOp, Idle
      <4>5. Covered(n)'
        BY <3>1, <3>2, <3>6, <3>8, <4>3, <4>4 DEF Covered, procVars, diskVars, dataVars
      <4>6. JournalOf(n)' /\ n \notin Members'
        BY <1>t, <3>1, <3>4, <3>5, <3>6, <4>1, <4>4, RespondSets DEF JournalOf, diskVars
      <4>7. PermitOf(n)' /\ StageOf(n)'
        BY <3>1, <3>4, <4>3, <4>4 DEF PermitOf, StageOf, procVars, NoOp, Node
      <4> QED BY <3>4, <4>2, <4>5, <4>6, <4>7 DEF NodeInv
    <3> QED BY <3>7, <3>8
  <2> QED BY <2>1, <2>2
<1>8. CASE MemberData
  <2>1. PICK k \in {2, 3} :
          /\ ~Idle /\ phase = "member" /\ op.stage = k - 1 /\ GoTo(k)
          /\ k = 2 => /\ accepts' = [accepts EXCEPT ![n] = {tgt}]
                      /\ masterauth' = [masterauth EXCEPT ![n] = tgt] /\ pin' = pin
          /\ k = 3 => /\ pin' = [pin EXCEPT ![n] = tgt]
                      /\ accepts' = accepts /\ masterauth' = masterauth
          /\ UNCHANGED <<planVars, procVars, journal, sent, faultVars>>
    BY <1>8 DEF MemberData, Stage, diskVars, dataVars
  <2>2. \A m \in Node \ {n} : Untouched(m)
    BY <1>t, <2>1 DEF Untouched, TypeInv, TypeOK, procVars, faultVars
  <2>3. \A m \in Node \ {n} : NodeInv(m)'
    BY <1>t, <1>s, <1>g, <2>1, <2>2, NodeFrame
  <2>4. n \in Node /\ n \in Prepareds /\ n \notin Members /\ n \notin Checked
    BY <1>t, <1>o, <2>1 DEF Prepareds, Members, Checked, TypeInv, TypeOK
  <2>5. JournalOf(n)' /\ PermitOf(n)'
    BY <1>t, <1>s, <2>1, <2>4 DEF NodeInv, JournalOf, PermitOf
  <2>6. /\ accepts'[n] = {tgt}
        /\ k = 3 => pin'[n] = tgt
        /\ tgt \in accepts[n] => tgt \in accepts'[n]
        /\ masterauth[n] = tgt => masterauth'[n] = tgt
        /\ pin[n] = tgt => pin'[n] = tgt
    BY <1>t, <2>1, <2>4 DEF NodeInv, StageOf, TypeInv, TypeOK
  <2>7. StageOf(n)'
    BY <1>s, <1>g, <2>1, <2>6 DEF StageOf, planVars
  <2>8. Covered(n)'
    BY <1>t, <1>s, <2>1, <2>4, <2>6 DEF NodeInv, Covered, procVars, faultVars
  <2> QED BY <1>s, <2>1, <2>3, <2>4, <2>5, <2>7, <2>8 DEF NodeInv
<1>9. CASE MemberRestart
  <2>1. PICK k \in {4, 5} :
          /\ ~Idle /\ phase = "member" /\ op.stage >= 3 /\ GoTo(k)
          /\ k = 5 => OnlyTarget(n) /\ permit' = permit
          /\ k = 4 => permit' = [permit EXCEPT ![n] = TRUE]
          /\ UNCHANGED <<planVars, up, boot, adopted, stopped, diskVars, dataVars, sent, faultVars>>
    BY <1>9 DEF MemberRestart, Stage, procVars
  <2>2. \A m \in Node \ {n} : Untouched(m)
    BY <1>t, <2>1 DEF Untouched, TypeInv, TypeOK, diskVars, dataVars, faultVars
  <2>3. \A m \in Node \ {n} : NodeInv(m)'
    BY <1>t, <1>s, <1>g, <2>1, <2>2, NodeFrame
  <2>4. n \in Node /\ n \in Prepareds /\ n \notin Members /\ n \notin Checked
    BY <1>t, <1>o, <2>1 DEF Prepareds, Members, Checked, TypeInv, TypeOK
  <2>5. JournalOf(n)' /\ PermitOf(n)'
    BY <1>t, <1>s, <2>1, <2>4 DEF NodeInv, JournalOf, PermitOf, diskVars
  <2>6. accepts[n] = {tgt} /\ pin[n] = tgt /\ (k = 5 => sent[n].accepts = {tgt})
    <3>1. accepts[n] = {tgt} /\ pin[n] = tgt
      BY <1>t, <1>o, <2>1, <2>4 DEF NodeInv, StageOf
    <3>2. k = 5 => tgt \in sent[n].accepts /\ cur \notin sent[n].accepts
      BY <2>1 DEF OnlyTarget, SentinelAccepts
    <3>3. sent[n].accepts \subseteq {cur, tgt}
      BY <1>t, <2>4 DEF TypeInv, TypeOK, SentinelConf
    <3> QED BY <3>1, <3>2, <3>3
  <2>7. StageOf(n)'
    BY <1>s, <1>g, <2>1, <2>6 DEF StageOf, planVars, diskVars, dataVars
  <2>8. Covered(n)'
    BY <1>t, <1>s, <2>1, <2>4, <2>6 DEF NodeInv, Covered, diskVars, dataVars, faultVars
  <2> QED BY <1>s, <2>1, <2>3, <2>4, <2>5, <2>7, <2>8 DEF NodeInv
<1>10. CASE MemberReconcile
  <2>1. /\ ~Idle /\ phase = "member" /\ op.stage = 5 /\ GoTo(6)
        /\ sent' = (IF Reaches(n) THEN [sent EXCEPT ![n] = Repaired(n, 3)] ELSE sent)
        /\ UNCHANGED <<planVars, procVars, diskVars, dataVars, faultVars>>
    BY <1>10 DEF MemberReconcile, Stage
  <2>2. \A m \in Node \ {n} : Untouched(m)
    BY <1>t, <2>1 DEF Untouched, TypeInv, TypeOK, procVars, diskVars, dataVars, faultVars
  <2>3. \A m \in Node \ {n} : NodeInv(m)'
    BY <1>t, <1>s, <1>g, <2>1, <2>2, NodeFrame
  <2>4. n \in Node /\ n \in Prepareds /\ n \notin Members /\ n \notin Checked /\ RedisRuns(n)
    BY <1>t, <1>o, <2>1 DEF Prepareds, Members, Checked, TypeInv, TypeOK
  <2>5. JournalOf(n)' /\ PermitOf(n)'
    BY <1>t, <1>s, <2>1, <2>4 DEF NodeInv, JournalOf, PermitOf, diskVars
  <2>6. accepts[n] = {tgt} /\ pin[n] = tgt /\ sent[n].accepts = {tgt}
    BY <1>t, <1>o, <2>1, <2>4 DEF NodeInv, StageOf
  <2>7. sent'[n] \in {sent[n], Repaired(n, 3)}
    BY <1>t, <2>1, <2>4 DEF TypeInv, TypeOK
  <2>8. /\ sent'[n].accepts = {tgt}
        /\ drifts = 0 => sent'[n].pass = tgt /\ sent'[n].auth = tgt
    BY <1>t, <2>4, <2>6, <2>7, RepairKeeps DEF NodeInv, Covered
  <2>9. StageOf(n)'
    BY <1>s, <1>g, <2>1, <2>6, <2>8 DEF StageOf, planVars, diskVars, dataVars
  <2>10. Covered(n)'
    BY <1>t, <1>s, <2>1, <2>4, <2>8 DEF NodeInv, Covered, procVars, diskVars, dataVars, faultVars
  <2> QED BY <1>s, <2>1, <2>3, <2>4, <2>5, <2>9, <2>10 DEF NodeInv
<1>11. CASE Verify
  <2>1. CASE Refuse
    BY <2>1, <1>f
  <2>2. CASE ~Refuse /\ Stage("verify", 1)
    <3>1. /\ ~Idle /\ phase = "verify" /\ GoTo(2)
          /\ UNCHANGED <<planVars, procVars, diskVars, dataVars, sent, faultVars>>
      BY <1>11, <2>2 DEF Verify, Stage
    <3>2. \A m \in Node : Untouched(m)
      BY <3>1 DEF Untouched, procVars, diskVars, dataVars, faultVars
    <3>3. \A m \in Node \ {n} : NodeInv(m)'
      BY <1>t, <1>s, <1>g, <3>1, <3>2, NodeFrame
    <3>4. n \in Node
      BY <1>o, <3>1
    <3>5. JournalOf(n)' /\ PermitOf(n)'
      BY <1>t, <1>s, <3>1, <3>4 DEF NodeInv, JournalOf, PermitOf, procVars, diskVars, SentinelRuns
    <3>6. StageOf(n)'
      BY <1>s, <3>1 DEF StageOf, planVars
    <3> QED BY <1>t, <1>s, <3>1, <3>2, <3>3, <3>4, <3>5, <3>6, UntouchedNode DEF NodeInv
  <2>3. CASE Stage("verify", 2)
    <3>1. /\ ~Idle /\ phase = "verify" /\ Respond /\ journal' = [journal EXCEPT ![n] = None]
          /\ UNCHANGED <<procVars, pin, dataVars, sent>>
      BY <1>11, <2>3 DEF Verify, Stage
    <3>2. drifts' = drifts /\ cur' = cur /\ tgt' = tgt /\ op' = NoOp /\ Idle'
      BY <1>t, <3>1, RespondCases DEF tgt, NoOp, Idle
    <3>3. \A m \in Node \ {n} : Untouched(m)
      BY <1>t, <3>1, <3>2 DEF Untouched, TypeInv, TypeOK, procVars, dataVars
    <3>4. n \in Node /\ n = at /\ journal'[n] = None
      BY <1>t, <1>o, <3>1 DEF TypeInv, TypeOK
    <3>5. EnvInv' /\ \A m \in Node \ {n} : NodeInv(m)'
      BY <1>r, <3>1, <3>3, <3>4
    <3>6. n \in Prepareds /\ n \in Members /\ phase' \in {"verify", "done"}
      BY <1>t, <3>1, <3>4, RespondCases DEF Prepareds, Members, PhaseAfter
    <3>7. JournalOf(n)' /\ PermitOf(n)' /\ StageOf(n)'
      BY <3>2, <3>4, <3>6 DEF JournalOf, PermitOf, StageOf, Checked, NoOp, Node
    <3>8. Covered(n)' /\ Moved(n)'
      BY <1>t, <3>1, <3>2, <3>4, <3>6 DEF NodeInv, Covered, Moved, procVars, dataVars
    <3> QED BY <3>4, <3>5, <3>7, <3>8 DEF NodeInv
  <2> QED BY <1>11, <2>1, <2>2, <2>3 DEF Verify
<1> QED BY <1>1, <1>2, <1>3, <1>4, <1>5, <1>6, <1>7, <1>8, <1>9, <1>10, <1>11 DEF Operate

LEMMA RotateNext == RotateInv /\ [Next]_vars => RotateInv'
<1> SUFFICES ASSUME RotateInv, [Next]_vars PROVE EnvInv' /\ \A m \in Node : NodeInv(m)'
  BY TypeNext DEF RotateInv
<1>t. TypeInv /\ EnvInv /\ (\A m \in Node : NodeInv(m))
  BY DEF RotateInv
<1>1. CASE CutOff \/ UNCHANGED vars
  <2>1. UNCHANGED <<planVars, procVars, diskVars, dataVars, sent, drifts>>
        /\ (op' = op \/ op' = NoOp)
    BY <1>1 DEF CutOff, vars, faultVars
  <2>2. \A m \in Node : Untouched(m) /\ (op'.node = m => op' = op) /\ (Idle => Idle')
    BY <2>1 DEF Untouched, procVars, diskVars, dataVars, NoOp, Idle, Node
  <2>3. EnvInv' /\ UNCHANGED <<cur, phase, at>>
    BY <1>t, <2>1 DEF EnvInv, planVars, tgt
  <2> QED BY <1>t, <2>2, <2>3, NodeFrame
\* the next rotation has no node checked, prepared or moved
<1>2. CASE Compensate
  <2>1. /\ phase = "done" /\ cur' = tgt /\ phase' = "preflight" /\ at' = 1 /\ env' = env /\ op' = op
    BY <1>2 DEF Compensate
  <2>2. EnvInv'
    BY <1>t, <2>1 DEF EnvInv
  <2>3. Checked' = {} /\ Prepareds' = {} /\ Members' = {} /\ Verified' = {}
    BY <2>1 DEF Checked, Prepareds, Members, Verified
  <2>4. \A m \in Node : StageOf(m)'
    BY <2>1 DEF StageOf
  <2> QED BY <2>1, <2>2, <2>3, <2>4 DEF NodeInv, JournalOf, PermitOf
<1> QED BY <1>1, <1>2, OperateRotate, SupervisionRotate DEF Next

\* Once every node is prepared, each of the three kinds of connection a member opens to
\* another is accepted, through MEMBER, VERIFY and after, whatever is killed, cut off or
\* retried, unless a stale writer has put an old password back into a sentinel.conf.
THEOREM OverlapHolds == Spec => []OverlapCovers
<1>1. RotateInv => OverlapCovers
  <2> SUFFICES ASSUME RotateInv, phase \in {"database", "member", "verify", "done"}, drifts = 0,
                      NEW n \in Node, NEW m \in Node
               PROVE  Interoperates(n, m)
    BY DEF OverlapCovers
  <2>1. Prepareds = Node
    BY DEF Prepareds
  <2>2. Covered(n) /\ Covered(m)
    BY <2>1 DEF RotateInv, NodeInv
  <2> QED BY <2>2 DEF Covered, Interoperates, SentinelTalks, Monitors, RequiresAuth
<1> QED BY RotateInit, RotateNext, <1>1, PTL DEF Spec

\* A member VERIFY has answered for accepts the target alone in both its processes, has
\* it as its pin and no journal: no later boot, adoption or reconcile brings the old
\* password back, not even after a stale writer.
THEOREM RevokedForGood == Spec => []VerifiedRevoked
<1>1. RotateInv => VerifiedRevoked
  <2> SUFFICES ASSUME RotateInv, NEW n \in Verified
               PROVE  /\ pin[n] = tgt /\ journal[n] = None /\ accepts[n] = {tgt}
                      /\ sent[n].accepts = {tgt}
    BY DEF VerifiedRevoked
  <2>1. n \in Node /\ n \in Members
    BY MembersPrepared DEF RotateInv
  <2> QED BY <2>1 DEF RotateInv, NodeInv, JournalOf, Moved
<1> QED BY RotateInit, RotateNext, <1>1, PTL DEF Spec
=============================================================================

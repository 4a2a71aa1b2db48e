--------------------------- MODULE RoleLinkProofs -----------------------------
(***************************************************************************)
(* What the wrapper of one node promises of its redis-server, in two parts:*)
(* what GET /role says of it, and what link heal does to it.               *)
(*                                                                         *)
(* GET /role, for every set of concurrent probes, every grace, lag and     *)
(* number of events: while Sentinel is silent, shelter only for a node that*)
(* accepts writes, only for the grace, and no refusal of a healthy primary.*)
(*                                                                         *)
(* Link heal, for every set of addresses, every dwell, backoff, cap and    *)
(* window, and any number of faults: the cap on the commands of a rolling  *)
(* window holds, and no two commands are closer than the shortest of the   *)
(* backoff and the dwells.                                                 *)
(***************************************************************************)
EXTENDS RoleProbe, LinkHeal, FiniteSetTheorems, TLAPS

-----------------------------------------------------------------------------
(***************************************************************************)
(* GET /role: types.                                                       *)
(***************************************************************************)
Viewed == [at : {"viewed"}, good : 0..1, age : 0..1]
Answered == [at : {"answered"}, verdict : {"self", "other", "none"}, good : 0..1, age : 0..1]
AtFence == [at : {"fence"}, ago : -1..LongConfirmed, good : 0..1, age : 0..1]

InFlight == Viewed \cup Answered \cup AtFence

Replies == {"nothing", "unknown", "timeout", "replica", "primary", "sheltered", "fenced", "unread"}

\* TypeOK, with the states of a probe named
Types ==
    /\ master \in BOOLEAN /\ lag \in 0..LongLag
    /\ names \in {"self", "other"} /\ mute \in BOOLEAN
    /\ cut \in BOOLEAN /\ replaced \in BOOLEAN
    /\ confirmed \in -1..LongConfirmed
    /\ conns \in [Slot -> {"none", "live", "dead", "stuck"}]
    /\ probe \in [Probe -> {Idle} \cup InFlight]
    /\ vouched \in -1..LongVouched
    /\ healthy \in 0..LongHealthy
    /\ reply \in Replies
    /\ events \in Nat

\* Types is TypeOK.
LEMMA SameTypes == Types <=> TypeOK
<1>1. {Idle} \cup InFlight
      = {Idle} \cup [at : {"viewed"}, good : 0..1, age : 0..1]
         \cup [at : {"answered"}, verdict : {"self", "other", "none"}, good : 0..1, age : 0..1]
         \cup [at : {"fence"}, ago : -1..LongConfirmed, good : 0..1, age : 0..1]
  BY Zenon DEF InFlight, Viewed, Answered, AtFence
<1> QED BY <1>1, Zenon DEF Types, TypeOK, Replies

\* A probe's state tells what it holds.
LEMMA ProbeStates ==
    ASSUME NEW r \in {Idle} \cup InFlight
    PROVE  /\ r = Idle <=> r.at = "idle"
           /\ r.at = "viewed" => r \in Viewed
           /\ r.at = "answered" => r \in Answered
           /\ r.at = "fence" => r \in AtFence
           /\ r # Idle => r \in InFlight /\ r.good \in 0..1 /\ r.age \in 0..1
BY DEF Idle, InFlight, Viewed, Answered, AtFence

\* A tick ages a probe in flight and changes nothing else of it.
LEMMA Ageing ==
    ASSUME NEW r \in InFlight
    PROVE  LET s == [r EXCEPT !.age = 1]
           IN /\ s \in InFlight
              /\ s.age = 1 /\ s.good = r.good /\ s.at = r.at
              /\ r \in Answered => s.verdict = r.verdict
              /\ r \in AtFence => s.ago = r.ago
<1> DEFINE s == [r EXCEPT !.age = 1]
<1>1. CASE r \in Viewed BY <1>1 DEF InFlight, Viewed
<1>2. CASE r \in Answered BY <1>2 DEF InFlight, Answered
<1>3. CASE r \in AtFence BY <1>3 DEF InFlight, AtFence
<1> QED BY <1>1, <1>2, <1>3 DEF InFlight

-----------------------------------------------------------------------------
(***************************************************************************)
(* Types.                                                                  *)
(***************************************************************************)

\* Counters of ticks stay within their bounds.
LEMMA LaterTypes ==
    ASSUME NEW bound \in Nat, NEW t \in -1..bound
    PROVE  /\ Later(t, bound) \in -1..bound
           /\ t \in 0..bound => Later(t, bound) \in 0..bound
           /\ Later(t, bound) <= t + 1
           /\ Later(t, bound) = None <=> t = None
           /\ t # None => Later(t, bound) >= t
           /\ t # None => Later(t, bound) = t + 1 \/ Later(t, bound) = bound
BY DEF Later, None

\* What a step of a probe writes keeps the types of the probes and the answer.
LEMMA OneProbe ==
    ASSUME probe \in [Probe -> {Idle} \cup InFlight], NEW p \in Probe,
           NEW s \in {Idle} \cup InFlight
    PROVE  [probe EXCEPT ![p] = s] \in [Probe -> {Idle} \cup InFlight]
OBVIOUS

\* What a step writes to the connections keeps their types.
LEMMA Connections ==
    ASSUME conns \in [Slot -> {"none", "live", "dead", "stuck"}], NEW slot \in Slot,
           NEW c \in {"none", "live", "dead", "stuck"}
    PROVE  [conns EXCEPT ![slot] = c] \in [Slot -> {"none", "live", "dead", "stuck"}]
OBVIOUS

LEMMA CounterBounds ==
    /\ LongLag \in Nat /\ LongConfirmed \in Nat /\ LongVouched \in Nat /\ LongHealthy \in Nat
BY TimeAssumption DEF LongLag, LongConfirmed, LongVouched, LongHealthy

LEMMA TypesInit == Init => Types
<1> SUFFICES ASSUME Init PROVE Types
  OBVIOUS
<1>1. confirmed \in -1..LongConfirmed /\ vouched \in -1..LongVouched
      /\ lag \in 0..LongLag /\ healthy \in 0..LongHealthy
  BY CounterBounds DEF Init, None
<1>2. conns \in [Slot -> {"none", "live", "dead", "stuck"}]
  BY DEF Init
<1>3. probe \in [Probe -> {Idle} \cup InFlight]
  BY DEF Init
<1> QED BY <1>1, <1>2, <1>3 DEF Init, Types, Replies

LEMMA TypesNext == Types /\ [Next]_vars => Types'
<1> SUFFICES ASSUME Types, [Next]_vars PROVE Types'
  OBVIOUS
<1> USE CounterBounds
<1>1. ASSUME NEW p \in Probe, View(p) PROVE Types'
  <2>1. [at |-> "viewed", good |-> Good(lag), age |-> 0] \in InFlight
    BY DEF InFlight, Viewed, Good
  <2>2. probe' \in [Probe -> {Idle} \cup InFlight]
    BY <1>1, <2>1, OneProbe DEF View, Types, Answer, GoesOn
  <2>3. conns' \in [Slot -> {"none", "live", "dead", "stuck"}]
    BY <1>1, Connections DEF View, Types, Dropped, Opened, Slot
  <2> QED BY <1>1, <2>2, <2>3 DEF View, Types, Answer, GoesOn, Replies, worldVars
<1>2. ASSUME NEW p \in Probe, ViewTimesOut(p) PROVE Types'
  <2>1. probe' \in [Probe -> {Idle} \cup InFlight]
    BY <1>2, OneProbe DEF ViewTimesOut, Types, Answer
  <2>2. conns' \in [Slot -> {"none", "live", "dead", "stuck"}]
    BY <1>2, Connections DEF ViewTimesOut, Types, Dropped, Slot
  <2> QED BY <1>2, <2>1, <2>2 DEF ViewTimesOut, Types, Answer, Replies, Event, worldVars
<1>3. ASSUME NEW p \in Probe, Ask(p) PROVE Types'
  <2> DEFINE answers == ~mute /\ conns["sentinel"] # "stuck" /\ Reached("sentinel")
             s == [at |-> "answered", verdict |-> IF answers THEN names ELSE "none",
                   good |-> probe[p].good, age |-> probe[p].age]
  <2>1. probe[p] \in Viewed
    BY <1>3, ProbeStates DEF Ask, Types
  <2>2. s \in InFlight
    BY <2>1 DEF Types, InFlight, Viewed, Answered
  <2>3. probe' = [probe EXCEPT ![p] = s] /\ reply' = "nothing"
    BY <1>3 DEF Ask, GoesOn
  <2>4. probe' \in [Probe -> {Idle} \cup InFlight]
    BY <2>2, <2>3, OneProbe DEF Types
  <2>5. conns' \in [Slot -> {"none", "live", "dead", "stuck"}]
    BY <1>3, Connections DEF Ask, Types, Opened, Slot
  <2>6. vouched' \in -1..LongVouched
    BY <1>3 DEF Ask, Types
  <2> QED BY <1>3, <2>3, <2>4, <2>5, <2>6 DEF Ask, Types, Replies, worldVars
<1>4. ASSUME NEW p \in Probe, Confirms(p) PROVE Types'
  <2>1. probe' \in [Probe -> {Idle} \cup InFlight]
    BY <1>4, OneProbe DEF Confirms, Types, Answer
  <2> QED BY <1>4, <2>1 DEF Confirms, Types, Answer, Replies, worldVars
<1>5. ASSUME NEW p \in Probe, NamesOther(p) PROVE Types'
  <2>1. probe' \in [Probe -> {Idle} \cup InFlight]
    BY <1>5, OneProbe DEF NamesOther, Types, Answer
  <2> QED BY <1>5, <2>1 DEF NamesOther, Types, Answer, Replies, worldVars, None
<1>6. ASSUME NEW p \in Probe, NoAnswer(p) PROVE Types'
  <2> DEFINE s == [at |-> "fence", ago |-> confirmed,
                   good |-> probe[p].good, age |-> probe[p].age]
  <2>1. probe[p] \in Answered
    BY <1>6, ProbeStates DEF NoAnswer, Types
  <2>2. s \in InFlight
    BY <2>1 DEF Types, InFlight, Answered, AtFence
  <2>3. probe' \in [Probe -> {Idle} \cup InFlight]
    BY <1>6, <2>2, OneProbe DEF NoAnswer, GoesOn, Types
  <2>4. conns' \in [Slot -> {"none", "live", "dead", "stuck"}]
    BY <1>6, Connections DEF NoAnswer, LetGo, Dropped, Slot, Types
  <2> QED BY <1>6, <2>3, <2>4 DEF NoAnswer, GoesOn, Types, Replies, worldVars
<1>7. ASSUME NEW p \in Probe, Decide(p) PROVE Types'
  <2>1. PICK read \in BOOLEAN :
           /\ IF read THEN UNCHANGED events ELSE Event
           /\ conns' = IF read THEN Opened("redis") ELSE Dropped("redis")
           /\ Answer(p, IF KeepsRouting(probe[p].ago, AcceptsWrites(probe[p].good, read))
                        THEN "sheltered" ELSE IF read THEN "fenced" ELSE "unread")
    BY <1>7 DEF Decide
  <2>2. probe' \in [Probe -> {Idle} \cup InFlight]
    BY <2>1, OneProbe DEF Types, Answer
  <2>3. reply' \in Replies
    BY <2>1 DEF Answer, Replies
  <2>4. conns' \in [Slot -> {"none", "live", "dead", "stuck"}]
    BY <2>1, Connections DEF Opened, Dropped, Slot, Types
  <2> QED BY <1>7, <2>1, <2>2, <2>3, <2>4 DEF Decide, Types, Event, worldVars
<1>8. ASSUME NEW p \in Probe, GivenUp(p) PROVE Types'
  <2>1. probe' \in [Probe -> {Idle} \cup InFlight]
    BY <1>8, OneProbe DEF GivenUp, GoesOn, Types
  <2> QED BY <1>8, <2>1 DEF GivenUp, GoesOn, Types, Replies, Event, worldVars, sharedVars
<1>9. CASE Health
  <2>1. conns' \in [Slot -> {"none", "live", "dead", "stuck"}]
    BY <1>9, Connections DEF Health, Opened, Dropped, Slot, Types
  <2> QED BY <1>9, <2>1 DEF Health, Types, Replies, Event, worldVars
<1>10. ASSUME World PROVE reply' \in Replies /\ healthy' \in 0..LongHealthy
                          /\ confirmed' = confirmed /\ probe' = probe /\ vouched' = vouched
  BY <1>10 DEF World, Types, Replies
<1>11. CASE Stall
  <2>1. conns' \in [Slot -> {"none", "live", "dead", "stuck"}]
    BY <1>11, Connections DEF Stall, Slot, Types
  <2> QED BY <1>10, <1>11, <2>1 DEF Stall, Types, Event
<1>12. CASE StallEnds BY <1>10, <1>12 DEF StallEnds, Types
<1>13. CASE Partition BY <1>10, <1>13 DEF Partition, Types, Event
<1>14. CASE PartitionHeals BY <1>10, <1>14 DEF PartitionHeals, Types
<1>15. CASE Replace BY <1>10, <1>15 DEF Replace, Types, Event
<1>16. CASE Learn BY <1>10, <1>16 DEF Learn, Types
<1>17. CASE Reconfigure
  <2>1. conns' \in [Slot -> {"none", "live", "dead", "stuck"}]
    BY <1>17, Connections DEF Reconfigure, Slot, Types
  <2> QED BY <1>10, <1>17, <2>1 DEF Reconfigure, Types
<1>18. ASSUME NEW slot \in Slot, Kill(slot) PROVE Types'
  <2>1. conns' \in [Slot -> {"none", "live", "dead", "stuck"}]
    BY <1>18, Connections DEF Kill, Types
  <2> QED BY <1>10, <1>18, <2>1 DEF Kill, Types, Event, worldVars
<1>19. CASE Tick
  <2>1. ASSUME NEW p \in Probe
        PROVE  (IF probe[p] = Idle THEN Idle ELSE [probe[p] EXCEPT !.age = 1])
                  \in {Idle} \cup InFlight
    BY Ageing, ProbeStates DEF Types
  <2>2. probe' \in [Probe -> {Idle} \cup InFlight]
    BY <1>19, <2>1 DEF Tick
  <2>3. lag' \in 0..LongLag
    BY <1>19, LaterTypes DEF Tick, Types
  <2>4. confirmed' \in -1..LongConfirmed /\ vouched' \in -1..LongVouched
    BY <1>19, LaterTypes DEF Tick, Types
  <2>5. healthy' \in 0..LongHealthy
    BY <1>19, LaterTypes DEF Tick, Types
  <2> QED BY <1>19, <2>2, <2>3, <2>4, <2>5 DEF Tick, Types, Replies
<1>20. CASE UNCHANGED vars BY <1>20 DEF vars, worldVars, sharedVars, Types
<1> QED BY <1>1, <1>2, <1>3, <1>4, <1>5, <1>6, <1>7, <1>8, <1>9, <1>11, <1>12, <1>13, <1>14,
           <1>15, <1>16, <1>17, <1>18, <1>19, <1>20 DEF Next, Progress

\* Every variable keeps its type, for every set of probes, grace, lag and threshold:
\* in particular no probe outlives the tick after the one it began in.
THEOREM TypeCorrect == Spec => []TypeOK
<1>1. Spec => []Types BY TypesInit, TypesNext, PTL DEF Spec
<1> QED BY <1>1, SameTypes, PTL

-----------------------------------------------------------------------------
(***************************************************************************)
(* The counters of ticks that the probes carry, against those of the world.*)
(***************************************************************************)

\* The replicas a probe has seen acknowledge did so within the lag, and its age.
GoodIsRecent ==
    \A p \in Probe : probe[p] # Idle /\ probe[p].good = 1 => lag <= MaxLag + probe[p].age

\* Sentinel named this node when a probe heard it, and one probe ago at most when
\* the confirmation was recorded, whoever recorded it.
ConfirmedIsVouched ==
    /\ \A p \in Probe : probe[p].at = "answered" /\ probe[p].verdict = "self"
                           => vouched # None /\ vouched <= probe[p].age
    /\ confirmed # None /\ confirmed <= Grace => vouched # None /\ vouched <= confirmed + 1
    /\ \A p \in Probe : probe[p].at = "fence" /\ probe[p].ago # None /\ probe[p].ago <= Grace
                           => vouched # None /\ vouched <= probe[p].ago + 1 + probe[p].age

\* A node that was healthy for two ticks is a master whose replica acknowledges, was
\* so when each probe looked, and a probe's confirmation is no older than the one
\* recorded now, unless that was recorded since.
HealthyWasSeen ==
    /\ ~master => replaced /\ healthy = 0
    /\ Good(lag) < Threshold => healthy = 0
    /\ \A p \in Probe : probe[p] # Idle /\ probe[p].good < Threshold => healthy <= probe[p].age
    /\ \A p \in Probe : probe[p].at = "fence"
           => \/ confirmed <= probe[p].age
              \/ probe[p].ago # None /\ probe[p].ago <= confirmed

\* What an answer says of the node, when it is given.
Said ==
    /\ ShelterIsWritable
    /\ ShelterEnds
    /\ StallRidden

Promises == Types /\ GoodIsRecent /\ ConfirmedIsVouched /\ HealthyWasSeen

LEMMA PromisesInit == Init => Promises /\ Said
<1> SUFFICES ASSUME Init PROVE Promises /\ Said
  OBVIOUS
<1>1. Types BY TypesInit
<1>2. \A p \in Probe : probe[p] = Idle BY DEF Init
<1>3. Good(lag) = 1 BY TimeAssumption DEF Init, Good
<1>4. GoodIsRecent BY <1>2 DEF GoodIsRecent
<1>5. ConfirmedIsVouched BY <1>2 DEF ConfirmedIsVouched, Idle, Init
<1>6. HealthyWasSeen BY <1>2, <1>3, FenceAssumption DEF HealthyWasSeen, Idle, Init
<1>7. Said BY DEF Said, ShelterIsWritable, ShelterEnds, StallRidden, Init
<1> QED BY <1>1, <1>4, <1>5, <1>6, <1>7 DEF Promises

\* A step that leaves the world alone and moves one probe keeps the promises if what
\* it makes of that probe does.
LEMMA OneProbeKeeps ==
    ASSUME Promises, Types', NEW p \in Probe, NEW s \in {Idle} \cup InFlight,
           probe' = [probe EXCEPT ![p] = s],
           lag' = lag, master' = master, replaced' = replaced, healthy' = healthy,
           s # Idle /\ s.good = 1 => lag <= MaxLag + s.age,
           s # Idle /\ s.good < Threshold => healthy <= s.age
    PROVE  /\ GoodIsRecent'
           /\ (~master => replaced /\ healthy = 0)'
           /\ (Good(lag) < Threshold => healthy = 0)'
           /\ (\A q \in Probe : probe[q] # Idle /\ probe[q].good < Threshold
                   => healthy <= probe[q].age)'
<1>1. \A q \in Probe : probe'[q] = IF q = p THEN s ELSE probe[q]
  BY DEF Promises, Types
<1>2. GoodIsRecent'
  BY <1>1 DEF GoodIsRecent, Promises, worldVars
<1>3. (~master => replaced /\ healthy = 0)' /\ (Good(lag) < Threshold => healthy = 0)'
  BY DEF Promises, HealthyWasSeen, worldVars, Good
<1>4. (\A q \in Probe : probe[q] # Idle /\ probe[q].good < Threshold
                   => healthy <= probe[q].age)'
  BY <1>1 DEF Promises, HealthyWasSeen, worldVars
<1> QED BY <1>2, <1>3, <1>4

\* Shorthand for what a step has to re-establish.
Held == GoodIsRecent' /\ ConfirmedIsVouched' /\ HealthyWasSeen' /\ Said'

LEMMA ProbeSteps ==
    ASSUME Promises, Types', NEW p \in Probe, Progress(p) \/ ViewTimesOut(p) \/ GivenUp(p)
    PROVE  Held
<1> USE CounterBounds, TimeAssumption, FenceAssumption
<1>0. /\ probe \in [Probe -> {Idle} \cup InFlight] /\ Types
      /\ \A q \in Probe : probe[q] # Idle => probe[q].age \in 0..1 /\ probe[q].good \in 0..1
      /\ \A q \in Probe : probe[q].at = "fence" => probe[q].ago \in -1..LongConfirmed
      /\ confirmed \in -1..LongConfirmed
  BY ProbeStates DEF Promises, Types, AtFence
<1>1. CASE View(p)
  <2> DEFINE s == [at |-> "viewed", good |-> Good(lag), age |-> 0]
  <2>1. reply' \in {"replica", "nothing"} /\ (reply' = "replica" => ~master)
    BY <1>1 DEF View, Reached, Answer, GoesOn
  <2>2. probe' = [probe EXCEPT ![p] = Idle] \/ probe' = [probe EXCEPT ![p] = s]
    BY <1>1 DEF View, Answer, GoesOn
  <2>3. /\ lag' = lag /\ master' = master /\ replaced' = replaced /\ healthy' = healthy
        /\ confirmed' = confirmed /\ vouched' = vouched
    BY <1>1 DEF View, worldVars
  <2>4. s \in InFlight /\ s # Idle /\ s.at = "viewed" /\ s.age = 0 /\ s.good = Good(lag)
        /\ Idle.at = "idle"
    BY DEF InFlight, Viewed, Good, Idle
  <2>5. Good(lag) = 1 => lag <= MaxLag
    BY DEF Good
  <2>6. GoodIsRecent' /\ (~master => replaced /\ healthy = 0)'
        /\ (Good(lag) < Threshold => healthy = 0)'
        /\ (\A q \in Probe : probe[q] # Idle /\ probe[q].good < Threshold
                   => healthy <= probe[q].age)'
    <3>1. CASE probe' = [probe EXCEPT ![p] = Idle]
      BY <2>3, <3>1, OneProbeKeeps
    <3>2. CASE probe' = [probe EXCEPT ![p] = s]
      <4>1. s.good < Threshold => healthy <= s.age
        BY <2>4 DEF Promises, HealthyWasSeen
      <4>2. s.good = 1 => lag <= MaxLag + s.age
        BY <1>0, <2>4, <2>5 DEF Types, LongLag
      <4> HIDE DEF s
      <4> QED BY <2>3, <2>4, <3>2, <4>1, <4>2, OneProbeKeeps
    <3> QED BY <2>2, <3>1, <3>2
  <2>7. \A q \in Probe : probe'[q] = probe[q] \/ probe'[q].at \in {"idle", "viewed"}
    BY <1>0, <2>2, <2>4
  <2>8. ConfirmedIsVouched'
    BY <2>3, <2>7 DEF Promises, ConfirmedIsVouched
  <2>9. HealthyWasSeen'
    BY <2>3, <2>6, <2>7 DEF Promises, HealthyWasSeen
  <2>10. Said'
    BY <2>1, <2>3 DEF Said, ShelterIsWritable, ShelterEnds, StallRidden, LongHealthy,
                      Promises, HealthyWasSeen
  <2> QED BY <2>6, <2>8, <2>9, <2>10 DEF Held
<1>2. CASE ViewTimesOut(p) \/ GivenUp(p)
  <2>1. reply' \in {"timeout", "nothing"} /\ probe' = [probe EXCEPT ![p] = Idle]
        /\ lag' = lag /\ master' = master /\ replaced' = replaced /\ healthy' = healthy
        /\ confirmed' = confirmed /\ vouched' = vouched
    BY <1>2 DEF ViewTimesOut, GivenUp, Answer, GoesOn, sharedVars, worldVars
  <2>2. \A q \in Probe : probe'[q] = probe[q] \/ probe'[q].at = "idle"
    BY <1>0, <2>1 DEF Idle
  <2>3. GoodIsRecent' /\ HealthyWasSeen'
    BY <2>1, <2>2, OneProbeKeeps DEF HealthyWasSeen, Promises
  <2>4. ConfirmedIsVouched'
    BY <2>1, <2>2 DEF Promises, ConfirmedIsVouched
  <2>5. Said'
    BY <2>1 DEF Said, ShelterIsWritable, ShelterEnds, StallRidden
  <2> QED BY <2>3, <2>4, <2>5 DEF Held
<1>3. CASE Ask(p)
  <2> DEFINE answers == ~mute /\ conns["sentinel"] # "stuck" /\ Reached("sentinel")
             s == [at |-> "answered", verdict |-> IF answers THEN names ELSE "none",
                   good |-> probe[p].good, age |-> probe[p].age]
  <2>1. probe[p] \in Viewed /\ probe[p] # Idle
    BY <1>3, ProbeStates DEF Ask, Promises, Types
  <2>2. s \in InFlight /\ s # Idle /\ s.at = "answered" /\ s.age = probe[p].age
        /\ s.good = probe[p].good /\ s.verdict = IF answers THEN names ELSE "none"
    BY <1>0, <2>1 DEF Types, InFlight, Viewed, Answered, Idle
  <2>3. probe' = [probe EXCEPT ![p] = s] /\ reply' = "nothing"
        /\ lag' = lag /\ master' = master /\ replaced' = replaced /\ healthy' = healthy
        /\ confirmed' = confirmed
    BY <1>3 DEF Ask, GoesOn, worldVars
  <2>4. /\ vouched' = vouched \/ vouched' = 0
        /\ s.verdict = "self" => vouched' = 0
    BY <1>3, <2>2 DEF Ask
  <2> HIDE DEF s
  <2>5. GoodIsRecent' /\ (~master => replaced /\ healthy = 0)'
        /\ (Good(lag) < Threshold => healthy = 0)'
        /\ (\A q \in Probe : probe[q] # Idle /\ probe[q].good < Threshold
                   => healthy <= probe[q].age)'
    <3>1. s.good = 1 => lag <= MaxLag + s.age
      BY <2>1, <2>2 DEF Promises, GoodIsRecent
    <3>2. s.good < Threshold => healthy <= s.age
      BY <2>1, <2>2 DEF Promises, HealthyWasSeen
    <3> QED BY <2>2, <2>3, <3>1, <3>2, OneProbeKeeps
  <2>6. \A q \in Probe : probe'[q] = IF q = p THEN s ELSE probe[q]
    BY <1>0, <2>3
  <2>7. \A q \in Probe : probe[q].at \in {"answered", "fence"} => probe[q].age \in 0..1
    BY <1>0 DEF Idle
  <2>8. ConfirmedIsVouched'
    <3>1. ASSUME NEW q \in Probe, probe'[q].at = "answered", probe'[q].verdict = "self"
          PROVE  vouched' # None /\ vouched' <= probe'[q].age
      <4>1. CASE q = p
        BY <1>0, <2>1, <2>2, <2>4, <2>6, <3>1, <4>1 DEF None
      <4>2. CASE q # p
        BY <2>4, <2>6, <2>7, <3>1, <4>2 DEF Promises, ConfirmedIsVouched, None
      <4> QED BY <4>1, <4>2
    <3>2. confirmed' # None /\ confirmed' <= Grace => vouched' # None /\ vouched' <= confirmed' + 1
      BY <1>0, <2>3, <2>4 DEF Promises, ConfirmedIsVouched, None
    <3>3. ASSUME NEW q \in Probe, probe'[q].at = "fence", probe'[q].ago # None,
                 probe'[q].ago <= Grace
          PROVE  vouched' # None /\ vouched' <= probe'[q].ago + 1 + probe'[q].age
      <4>1. q # p /\ probe'[q] = probe[q]
        BY <2>2, <2>6, <3>3
      <4> QED BY <1>0, <2>4, <2>7, <3>3, <4>1 DEF Promises, ConfirmedIsVouched, None
    <3> QED BY <3>1, <3>2, <3>3 DEF ConfirmedIsVouched
  <2>9. HealthyWasSeen'
    BY <2>2, <2>3, <2>5, <2>6 DEF Promises, HealthyWasSeen
  <2>10. Said'
    BY <2>3 DEF Said, ShelterIsWritable, ShelterEnds, StallRidden
  <2> QED BY <2>5, <2>8, <2>9, <2>10 DEF Held
<1>4. CASE Confirms(p) \/ NamesOther(p)
  <2>1. probe[p] \in Answered /\ probe[p] # Idle /\ reply' \in {"primary", "fenced"}
        /\ probe' = [probe EXCEPT ![p] = Idle]
        /\ lag' = lag /\ master' = master /\ replaced' = replaced /\ healthy' = healthy
        /\ vouched' = vouched
    BY <1>4, ProbeStates DEF Confirms, NamesOther, Answer, Promises, Types, worldVars
  <2>2. \/ confirmed' = None
        \/ confirmed' = 0 /\ probe[p].verdict = "self" /\ probe[p].at = "answered"
           /\ reply' = "primary"
    BY <1>4 DEF Confirms, NamesOther, Answer
  <2>3. \A q \in Probe : probe'[q] = probe[q] \/ probe'[q].at = "idle"
    BY <1>0, <2>1 DEF Idle
  <2>4. confirmed' = 0 => vouched # None /\ vouched <= 1
    BY <1>0, <2>1, <2>2 DEF Promises, ConfirmedIsVouched, Types, None
  <2>5. ConfirmedIsVouched'
    BY <2>1, <2>2, <2>3, <2>4 DEF Promises, ConfirmedIsVouched, None
  <2>6. \A q \in Probe : probe[q].at = "fence" => probe[q].age \in 0..1
    BY <1>0 DEF Idle
  <2>61. GoodIsRecent' /\ (~master => replaced /\ healthy = 0)'
        /\ (Good(lag) < Threshold => healthy = 0)'
        /\ (\A q \in Probe : probe[q] # Idle /\ probe[q].good < Threshold
                   => healthy <= probe[q].age)'
    BY <2>1, OneProbeKeeps
  <2>62. \A q \in Probe : probe'[q].at = "fence" => confirmed' <= probe'[q].age
    BY <2>2, <2>3, <2>6 DEF None
  <2>7. GoodIsRecent' /\ HealthyWasSeen'
    BY <2>61, <2>62 DEF HealthyWasSeen
  <2>8. Said'
    BY <2>1, <2>2 DEF Said, ShelterIsWritable, ShelterEnds, StallRidden, None
  <2> QED BY <2>5, <2>7, <2>8 DEF Held
<1>5. CASE NoAnswer(p)
  <2> DEFINE s == [at |-> "fence", ago |-> confirmed,
                   good |-> probe[p].good, age |-> probe[p].age]
  <2>1. probe[p] \in Answered /\ probe[p] # Idle
    BY <1>5, ProbeStates DEF NoAnswer, Promises, Types
  <2>2. s \in InFlight /\ s # Idle /\ s.at = "fence" /\ s.age = probe[p].age
        /\ s.good = probe[p].good /\ s.ago = confirmed
    BY <1>0, <2>1 DEF Types, InFlight, AtFence, Idle
  <2>3. probe' = [probe EXCEPT ![p] = s] /\ reply' = "nothing"
        /\ lag' = lag /\ master' = master /\ replaced' = replaced /\ healthy' = healthy
        /\ confirmed' = confirmed /\ vouched' = vouched
    BY <1>5 DEF NoAnswer, GoesOn, worldVars
  <2> HIDE DEF s
  <2>4. GoodIsRecent' /\ (~master => replaced /\ healthy = 0)'
        /\ (Good(lag) < Threshold => healthy = 0)'
        /\ (\A q \in Probe : probe[q] # Idle /\ probe[q].good < Threshold
                   => healthy <= probe[q].age)'
    <3>1. s.good = 1 => lag <= MaxLag + s.age
      BY <2>1, <2>2 DEF Promises, GoodIsRecent
    <3>2. s.good < Threshold => healthy <= s.age
      BY <2>1, <2>2 DEF Promises, HealthyWasSeen
    <3> QED BY <2>2, <2>3, <3>1, <3>2, OneProbeKeeps
  <2>5. \A q \in Probe : probe'[q] = IF q = p THEN s ELSE probe[q]
    BY <1>0, <2>3
  <2>6. s.age \in 0..1 /\ confirmed \in -1..LongConfirmed /\ vouched \in -1..LongVouched
    BY <1>0, <2>1, <2>2 DEF Types
  <2>7. ConfirmedIsVouched'
    BY <2>2, <2>3, <2>5, <2>6 DEF Promises, ConfirmedIsVouched, None
  <2>8. HealthyWasSeen'
    BY <2>2, <2>3, <2>4, <2>5, <2>6 DEF Promises, HealthyWasSeen, None
  <2>9. Said'
    BY <2>3 DEF Said, ShelterIsWritable, ShelterEnds, StallRidden
  <2> QED BY <2>4, <2>7, <2>8, <2>9 DEF Held
<1>6. CASE Decide(p)
  <2>1. PICK read \in BOOLEAN :
           Answer(p, IF KeepsRouting(probe[p].ago, AcceptsWrites(probe[p].good, read))
                        THEN "sheltered" ELSE IF read THEN "fenced" ELSE "unread")
    BY <1>6 DEF Decide
  <2>2. probe[p] \in AtFence /\ probe[p] # Idle /\ probe[p].at = "fence"
        /\ probe' = [probe EXCEPT ![p] = Idle]
        /\ lag' = lag /\ master' = master /\ replaced' = replaced /\ healthy' = healthy
        /\ confirmed' = confirmed /\ vouched' = vouched
    BY <1>6, <2>1, ProbeStates DEF Decide, Answer, Promises, Types, worldVars
  <2>3. \A q \in Probe : probe'[q] = probe[q] \/ probe'[q].at = "idle"
    BY <1>0, <2>2 DEF Idle
  <2>4. GoodIsRecent' /\ HealthyWasSeen'
    BY <2>2, <2>3, OneProbeKeeps DEF HealthyWasSeen, Promises
  <2>5. ConfirmedIsVouched'
    BY <2>2, <2>3 DEF Promises, ConfirmedIsVouched
  <2>6. probe[p].ago \in -1..LongConfirmed /\ probe[p].good \in 0..1 /\ probe[p].age \in 0..1
        /\ lag \in 0..LongLag /\ confirmed \in -1..LongConfirmed /\ healthy \in 0..LongHealthy
        /\ vouched \in -1..LongVouched
    BY <1>0, <2>2 DEF AtFence, Types
  <2>7. ASSUME reply' = "sheltered"
        PROVE  /\ Threshold = 1 => lag <= MaxLag + 1
               /\ vouched # None /\ vouched <= Grace + 2
    <3>1. KeepsRouting(probe[p].ago, AcceptsWrites(probe[p].good, read))
      BY <2>1, <2>7 DEF Answer
    <3>2. probe[p].ago # None /\ probe[p].ago <= Grace /\ (Threshold = 1 => probe[p].good = 1)
      BY <2>6, <3>1 DEF KeepsRouting, AcceptsWrites
    <3>3. Threshold = 1 => lag <= MaxLag + 1
      BY <2>2, <2>6, <3>2 DEF Promises, GoodIsRecent, LongLag
    <3>4. vouched # None /\ vouched <= probe[p].ago + 1 + probe[p].age
      BY <2>2, <3>2 DEF Promises, ConfirmedIsVouched
    <3> QED BY <2>6, <3>2, <3>3, <3>4 DEF None, LongVouched, LongConfirmed
  <2>8. ASSUME reply' = "fenced", confirmed \in 2..Grace
        PROVE  healthy < LongHealthy
    <3>1. probe[p].ago # None /\ probe[p].ago <= Grace
      BY <2>2, <2>6, <2>8 DEF Promises, HealthyWasSeen
    <3>2. read /\ ~KeepsRouting(probe[p].ago, AcceptsWrites(probe[p].good, read))
      BY <2>1, <2>8 DEF Answer
    <3>3. probe[p].good < Threshold
      BY <2>6, <2>8, <3>1, <3>2 DEF KeepsRouting, AcceptsWrites
    <3> QED BY <2>2, <2>6, <3>3 DEF Promises, HealthyWasSeen, LongHealthy
  <2>9. reply' \in {"sheltered", "fenced", "unread"}
    BY <2>1 DEF Answer
  <2>10. Said'
    BY <2>2, <2>7, <2>8, <2>9 DEF Said, ShelterIsWritable, ShelterEnds, StallRidden
  <2> QED BY <2>4, <2>5, <2>10 DEF Held
<1> QED BY <1>1, <1>2, <1>3, <1>4, <1>5, <1>6 DEF Progress

\* The world moves: no probe does, and nothing is answered.
LEMMA WorldSteps ==
    ASSUME Promises, Types', reply' = "nothing",
           confirmed' = confirmed, probe' = probe, vouched' = vouched, lag' = lag,
           healthy' \in {healthy, 0},
           ~master' => replaced' /\ healthy' = 0
    PROVE  Held
<1>0. \A q \in Probe : probe[q] # Idle => probe[q].age \in 0..1
  BY ProbeStates DEF Promises, Types
<1>1. GoodIsRecent' /\ ConfirmedIsVouched'
  BY DEF Promises, GoodIsRecent, ConfirmedIsVouched
<1>2. HealthyWasSeen'
  BY <1>0 DEF Promises, HealthyWasSeen, Good
<1>3. Said'
  BY DEF Said, ShelterIsWritable, ShelterEnds, StallRidden
<1> QED BY <1>1, <1>2, <1>3 DEF Held

LEMMA TickStep == ASSUME Promises, Types', Tick PROVE Held
<1> USE CounterBounds, TimeAssumption, FenceAssumption
<1>1. \A q \in Probe :
         \/ probe[q] = Idle /\ probe'[q] = Idle
         \/ /\ probe[q] # Idle /\ probe'[q] # Idle
            /\ probe[q].age = 0 /\ probe'[q].age = 1
            /\ probe'[q].good = probe[q].good /\ probe'[q].at = probe[q].at
            /\ probe[q].at = "answered" => probe'[q].verdict = probe[q].verdict
            /\ probe[q].at = "fence" => probe'[q].ago = probe[q].ago
  <2> SUFFICES ASSUME NEW q \in Probe
               PROVE  \/ probe[q] = Idle /\ probe'[q] = Idle
                      \/ /\ probe[q] # Idle /\ probe'[q] # Idle
                         /\ probe[q].age = 0 /\ probe'[q].age = 1
                         /\ probe'[q].good = probe[q].good /\ probe'[q].at = probe[q].at
                         /\ probe[q].at = "answered" => probe'[q].verdict = probe[q].verdict
                         /\ probe[q].at = "fence" => probe'[q].ago = probe[q].ago
    OBVIOUS
  <2>1. probe'[q] = IF probe[q] = Idle THEN Idle ELSE [probe[q] EXCEPT !.age = 1]
    BY DEF Tick
  <2>2. CASE probe[q] = Idle BY <2>1, <2>2
  <2>3. CASE probe[q] # Idle
    <3>1. probe[q] \in InFlight BY <2>3, ProbeStates DEF Promises, Types
    <3>2. probe[q].age = 0 BY <2>3 DEF Tick
    <3>3. probe[q].at # "idle" BY <2>3, ProbeStates DEF Promises, Types
    <3>4. probe'[q] = [probe[q] EXCEPT !.age = 1] BY <2>1, <2>3
    <3>5. /\ probe'[q].age = 1 /\ probe'[q].good = probe[q].good
          /\ probe'[q].at = probe[q].at
          /\ probe[q] \in Answered => probe'[q].verdict = probe[q].verdict
          /\ probe[q] \in AtFence => probe'[q].ago = probe[q].ago
      BY <3>1, <3>4, Ageing
    <3>6. (probe[q].at = "answered" => probe[q] \in Answered)
          /\ (probe[q].at = "fence" => probe[q] \in AtFence)
      BY ProbeStates DEF Promises, Types
    <3>7. probe'[q] # Idle BY <3>3, <3>5 DEF Idle
    <3> QED BY <2>3, <3>2, <3>5, <3>6, <3>7
  <2> QED BY <2>2, <2>3
<1>2. lag' <= lag + 1 /\ lag \in 0..LongLag /\ lag' \in 0..LongLag
  BY LaterTypes DEF Tick, Promises, Types
<1>3. /\ confirmed' = None <=> confirmed = None
      /\ confirmed' <= confirmed + 1
      /\ confirmed' # None => confirmed' >= confirmed
      /\ confirmed' # None /\ confirmed' <= Grace => confirmed' = confirmed + 1
      /\ confirmed \in -1..LongConfirmed /\ confirmed' \in -1..LongConfirmed
  BY LaterTypes DEF Tick, Promises, Types, LongConfirmed
<1>4. /\ vouched' = None <=> vouched = None
      /\ vouched' <= vouched + 1
      /\ vouched \in -1..LongVouched /\ vouched' \in -1..LongVouched
  BY LaterTypes DEF Tick, Promises, Types
<1>5. /\ healthy' <= healthy + 1 /\ healthy \in 0..LongHealthy /\ healthy' \in 0..LongHealthy
      /\ ~master' => healthy' = 0
      /\ Good(lag') < Threshold => healthy' = 0
  BY LaterTypes DEF Tick, Promises, Types, Good
<1>6. \A q \in Probe : probe[q].at = "fence" => probe[q].ago \in -1..LongConfirmed
  BY ProbeStates DEF Promises, Types, AtFence
<1>7. GoodIsRecent'
  BY <1>1, <1>2 DEF Promises, GoodIsRecent
<1>8. ConfirmedIsVouched'
  <2>1. ASSUME NEW q \in Probe, probe'[q].at = "answered", probe'[q].verdict = "self"
        PROVE  vouched' # None /\ vouched' <= probe'[q].age
    BY <1>1, <1>4, <2>1 DEF Promises, ConfirmedIsVouched, Idle
  <2>2. ASSUME confirmed' # None, confirmed' <= Grace
        PROVE  vouched' # None /\ vouched' <= confirmed' + 1
    BY <1>3, <1>4, <2>2 DEF Promises, ConfirmedIsVouched
  <2>3. ASSUME NEW q \in Probe, probe'[q].at = "fence", probe'[q].ago # None,
               probe'[q].ago <= Grace
        PROVE  vouched' # None /\ vouched' <= probe'[q].ago + 1 + probe'[q].age
    BY <1>1, <1>4, <1>6, <2>3 DEF Promises, ConfirmedIsVouched, Idle
  <2> QED BY <2>1, <2>2, <2>3 DEF ConfirmedIsVouched
<1>9. HealthyWasSeen'
  <2>1. (~master => replaced /\ healthy = 0)' /\ (Good(lag) < Threshold => healthy = 0)'
    BY <1>5 DEF Promises, HealthyWasSeen, Tick, Good
  <2>2. ASSUME NEW q \in Probe, probe'[q] # Idle, probe'[q].good < Threshold
        PROVE  healthy' <= probe'[q].age
    BY <1>1, <1>5, <2>2 DEF Promises, HealthyWasSeen
  <2>3. ASSUME NEW q \in Probe, probe'[q].at = "fence"
        PROVE  confirmed' <= probe'[q].age
               \/ (probe'[q].ago # None /\ probe'[q].ago <= confirmed')
    <3>1. /\ probe[q].at = "fence" /\ probe[q].age = 0 /\ probe'[q].age = 1
          /\ probe'[q].ago = probe[q].ago
      BY <1>1, <2>3 DEF Idle
    <3>2. CASE confirmed <= 0
      BY <1>3, <3>1, <3>2
    <3>3. CASE probe[q].ago # None /\ probe[q].ago <= confirmed
      BY <1>3, <1>6, <3>1, <3>3 DEF None
    <3> QED BY <3>1, <3>2, <3>3 DEF Promises, HealthyWasSeen
  <2> QED BY <2>1, <2>2, <2>3 DEF HealthyWasSeen
<1>10. Said'
  BY DEF Tick, Said, ShelterIsWritable, ShelterEnds, StallRidden
<1> QED BY <1>7, <1>8, <1>9, <1>10 DEF Held

LEMMA PromisesNext == Promises /\ Said /\ [Next]_vars => (Promises /\ Said)'
<1> SUFFICES ASSUME Promises, Said, [Next]_vars PROVE (Promises /\ Said)'
  OBVIOUS
<1>0. Types' BY TypesNext DEF Promises
<1> SUFFICES Held
  BY <1>0 DEF Held, Promises
<1>1. ASSUME NEW p \in Probe, Progress(p) \/ ViewTimesOut(p) \/ GivenUp(p) PROVE Held
  BY <1>0, <1>1, ProbeSteps
<1>2. CASE Health
  <2>1. ~master' => replaced' /\ healthy' = 0
    BY <1>2 DEF Health, worldVars, Promises, HealthyWasSeen
  <2>2. /\ reply' = "nothing" /\ confirmed' = confirmed /\ probe' = probe
        /\ vouched' = vouched /\ lag' = lag /\ healthy' = healthy
    BY <1>2 DEF Health, worldVars
  <2> QED BY <1>0, <2>1, <2>2, WorldSteps
<1>3. ASSUME World
      PROVE  /\ reply' = "nothing" /\ UNCHANGED <<confirmed, probe, vouched>>
             /\ healthy' \in {healthy, 0}
             /\ ~master \/ replaced => healthy' = 0
             /\ ~master => replaced
  <2>1. ~master => replaced BY DEF Promises, HealthyWasSeen
  <2>2. Acknowledged => master BY DEF Acknowledged
  <2> QED BY <1>3, <2>1, <2>2 DEF World
<1>4. CASE Stall BY <1>0, <1>3, <1>4, WorldSteps DEF Stall
<1>5. CASE StallEnds BY <1>0, <1>3, <1>5, WorldSteps DEF StallEnds
<1>6. CASE Partition BY <1>0, <1>3, <1>6, WorldSteps DEF Partition
<1>7. CASE PartitionHeals BY <1>0, <1>3, <1>7, WorldSteps DEF PartitionHeals
<1>8. CASE Replace BY <1>0, <1>3, <1>8, WorldSteps DEF Replace
<1>9. CASE Learn BY <1>0, <1>3, <1>9, WorldSteps DEF Learn
<1>10. CASE Reconfigure BY <1>0, <1>3, <1>10, WorldSteps DEF Reconfigure
<1>11. ASSUME NEW slot \in Slot, Kill(slot) PROVE Held
  BY <1>0, <1>3, <1>11, WorldSteps DEF Kill, worldVars
<1>12. CASE Tick BY <1>0, <1>12, TickStep
<1>13. CASE UNCHANGED vars
  BY <1>13 DEF vars, worldVars, sharedVars, Promises, Types, GoodIsRecent, ConfirmedIsVouched,
               HealthyWasSeen, Said, ShelterIsWritable, ShelterEnds, StallRidden, Good, Held
<1> QED BY <1>0, <1>1, <1>2, <1>4, <1>5, <1>6, <1>7, <1>8, <1>9, <1>10, <1>11, <1>12, <1>13
        DEF Next, Promises, Held

LEMMA AllPromises == Spec => [](Promises /\ Said)
BY PromisesInit, PromisesNext, PTL DEF Spec

\* Silence never keeps a node in rotation whose replica stopped acknowledging longer
\* ago than the fence allows: silent_sentinel_decision over the fence it reads.
THEOREM ShelterAlwaysWritable == Spec => []ShelterIsWritable
<1>1. Said => ShelterIsWritable BY DEF Said
<1> QED BY <1>1, AllPromises, PTL

\* The grace bounds the shelter whatever concurrent probes write to
\* sentinel_confirmed_at.
THEOREM ShelterAlwaysEnds == Spec => []ShelterEnds
<1>1. Said => ShelterEnds BY DEF Said
<1> QED BY <1>1, AllPromises, PTL

\* A healthy primary rides out every stall: no probe refuses it within the grace.
THEOREM StallsAlwaysRidden == Spec => []StallRidden
<1>1. Said => StallRidden BY DEF Said
<1> QED BY <1>1, AllPromises, PTL

-----------------------------------------------------------------------------
(***************************************************************************)
(* Link heal: the groups of its variables are expanded from here on.       *)
(***************************************************************************)
USE DEF redisVars, clusterVars, stateVars, watchVars, historyVars, faultVars

-----------------------------------------------------------------------------
(***************************************************************************)
(* Types.                                                                  *)
(***************************************************************************)
LEMMA NoSnapType == NoSnap \in [link : {"up", "sync", "down", "wedged"},
                                attached : Other]
  <1>1. Other # {}
    BY Addresses DEF Other
  <1> QED
    BY <1>1 DEF NoSnap

LEMMA AgesStay ==
    ASSUME NEW cap \in Nat \ {0}, NEW age \in Ages(cap)
    PROVE  /\ Older(age, cap) \in Ages(cap)
           /\ \A b \in BOOLEAN : Accrue(b, age) \in Ages(cap)
           /\ age # NoAge => Older(age, cap) # NoAge
  BY DEF Ages, Older, Accrue, AtMost, NoAge

LEMMA HealTypeInit == HealInit => HealTypeOK
  <1> SUFFICES ASSUME HealInit PROVE HealTypeOK
    OBVIOUS
  <1> QED
    BY NoSnapType, Addresses, Thresholds, Bounds DEF HealInit, HealTypeOK, Ages, Other

LEMMA HealTypeStep == HealTypeOK /\ [HealNext]_healVars => HealTypeOK'
  <1> SUFFICES ASSUME HealTypeOK, [HealNext]_healVars PROVE HealTypeOK'
    OBVIOUS
  <1> USE Addresses, Thresholds, Bounds DEF HealTypeOK
  <1>p. ASSUME PassTime
        PROVE  /\ lastAction' \in Ages(Backoff) /\ attempts' \in SUBSET (0..Window)
               /\ sinceCommand' \in 0..Backoff /\ issued' \in SUBSET (0..Window)
    <2>1. lastAction' \in Ages(Backoff)
      BY <1>p, AgesStay DEF PassTime
    <2>2. sinceCommand' \in 0..Backoff
      BY <1>p DEF PassTime, Older, AtMost, NoAge
    <2> QED
      BY <1>p, <2>1, <2>2 DEF PassTime, StillCounting
  <1>w. /\ Older(stall, StallDwell) \in Ages(StallDwell)
        /\ Older(mismatch, WrongDwell) \in Ages(WrongDwell)
        /\ \A b \in BOOLEAN : /\ Accrue(b, Older(stall, StallDwell)) \in Ages(StallDwell)
                              /\ Accrue(b, mismatch) \in Ages(WrongDwell)
    BY AgesStay
  <1>n. NoAge \in Ages(StallDwell) /\ NoAge \in Ages(WrongDwell) /\ NoAge \in Ages(Backoff)
    BY DEF Ages
  <1>o. ASSUME NEW target \in Addr \cup {Unknown}, Observe(target)
        PROVE  mismatch' \in Ages(WrongDwell) /\ misses' \in 0..MaxMisses
    <2>1. mismatch' \in Ages(WrongDwell)
      BY <1>o, <1>w DEF Observe, WrongMaster
    <2> QED
      BY <1>o, <2>1 DEF Observe
  <1>1. CASE PollFails
    BY <1>1, <1>p, <1>w DEF PollFails
  <1>2. CASE ReadMaster
    BY <1>2, <1>p, <1>n DEF ReadMaster
  <1>3. CASE ReadReplica
    <2>1. snap' \in [link : {"up", "sync", "down", "wedged"}, attached : Other]
      BY <1>3 DEF ReadReplica, PassTime
    <2>2. stall' \in Ages(StallDwell) /\ mismatch' \in Ages(WrongDwell)
      <3>1. Stalled(snap') \in BOOLEAN
        BY DEF Stalled
      <3>2. Accrue(Stalled(snap'), Older(stall, StallDwell)) \in Ages(StallDwell)
        BY <3>1, <1>w
      <3> QED
        BY <1>3, <1>w, <3>2 DEF ReadReplica
    <2>3. link' \in {"up", "sync", "down", "late", "wedged"}
      BY <1>3 DEF ReadReplica
    <2> QED
      BY <1>3, <1>p, <2>1, <2>2, <2>3 DEF ReadReplica
  <1>4. ASSUME NEW target \in Addr \cup {Unknown}, ReportRecovered(target) PROVE HealTypeOK'
    BY <1>4, <1>o, <1>n, NoSnapType DEF ReportRecovered, Observe, EndPoll
  <1>5. ASSUME NEW target \in Addr \cup {Unknown}, Order(target) PROVE HealTypeOK'
    BY <1>5, <1>o DEF Order, Observe, Acts, Ages
  <1>6. ASSUME NEW target \in Addr \cup {Unknown}, KeepWatching(target) PROVE HealTypeOK'
    BY <1>6, <1>o, NoSnapType DEF KeepWatching, Observe, EndPoll
  <1>7. CASE Issue
    BY <1>7, NoSnapType DEF Issue, Execute, EndPoll, Other
  <1>8. CASE CommandFails
    BY <1>8, NoSnapType DEF CommandFails, EndPoll
  <1>9. CASE Redis \/ LinkFault
    <2>1. CASE StartSync
      BY <2>1 DEF StartSync
    <2>2. CASE FinishSync
      BY <2>2 DEF FinishSync
    <2>3. CASE LoseMaster
      BY <2>3 DEF LoseMaster
    <2>4. CASE LinkFault
      BY <2>4 DEF LinkFault
    <2> QED
      BY <1>9, <2>1, <2>2, <2>3, <2>4 DEF Redis
  <1>10. ASSUME NEW p \in Addr, Failover(p) PROVE HealTypeOK'
    BY <1>10 DEF Failover
  <1>11. CASE SentinelLearns \/ Repoint
    BY <1>11 DEF SentinelLearns, Repoint, Other
  <1>12. CASE Restart
    BY <1>12, <1>n, NoSnapType DEF Restart, EndPoll, Other
  <1>13. CASE UNCHANGED healVars
    BY <1>13 DEF healVars
  <1> QED
    BY <1>1, <1>2, <1>3, <1>4, <1>5, <1>6, <1>7, <1>8, <1>9, <1>10, <1>11, <1>12, <1>13
       DEF HealNext, Watch, Sentinel

\* Every variable keeps its type, and no node is ever told to replicate itself
\* (decide_link_heal's PromoteSelf).
THEOREM HealTypeCorrect == HealSpec => []HealTypeOK
  BY HealTypeInit, HealTypeStep, PTL DEF HealSpec

-----------------------------------------------------------------------------
(***************************************************************************)
(* The cap.  What is counted is what the disk records, and the record is   *)
(* written before the command: every command issued is one of the attempts *)
(* on disk, and a command in hand already is.                              *)
(***************************************************************************)
Recorded ==
    /\ issued \subseteq attempts
    /\ step = "act" => 0 \in attempts
    /\ Cardinality(attempts) <= MaxAttempts

CapInv == HealTypeOK /\ Recorded

LEMMA FiniteAges == ASSUME NEW A \in SUBSET (0..Window)
                    PROVE  IsFiniteSet(A) /\ Cardinality(A) \in Nat
  <1>1. IsFiniteSet(0..Window)
    BY Thresholds, FS_Interval
  <1> QED
    BY <1>1, FS_Subset, FS_CardinalityType

\* A poll makes the attempts older and drops some: it never adds one.
LEMMA CountingShrinks ==
    ASSUME NEW A \in SUBSET (0..Window)
    PROVE  Cardinality(StillCounting(A)) <= Cardinality(A)
  <1> DEFINE B == StillCounting(A)
             f == [b \in B |-> b - 1]
  <1>1. f \in Injection(B, A)
    <2>1. B \subseteq Int /\ \A b \in B : b - 1 \in A
      BY Thresholds DEF StillCounting
    <2>2. f \in [B -> A]
      BY <2>1
    <2>3. ASSUME NEW b \in B, NEW c \in B, f[b] = f[c] PROVE b = c
      BY <2>1, <2>3
    <2> QED
      BY <2>2, <2>3 DEF Injection, IsInjective
  <1> QED
    BY <1>1, FiniteAges, FS_Injection

LEMMA CapInit == HealInit => CapInv
  <1> SUFFICES ASSUME HealInit PROVE CapInv
    OBVIOUS
  <1>1. Cardinality(attempts) = 0
    BY FS_EmptySet DEF HealInit
  <1> QED
    BY <1>1, HealTypeInit, Thresholds DEF HealInit, CapInv, Recorded

LEMMA CapStep == CapInv /\ [HealNext]_healVars => CapInv'
  <1> SUFFICES ASSUME CapInv, [HealNext]_healVars PROVE Recorded'
    BY HealTypeStep DEF CapInv
  <1> USE DEF CapInv, Recorded
  <1>p. ASSUME PassTime
        PROVE  issued' \subseteq attempts' /\ Cardinality(attempts') <= MaxAttempts
    <2>1. Cardinality(attempts') <= Cardinality(attempts)
      BY <1>p, CountingShrinks DEF PassTime, HealTypeOK
    <2>2. Cardinality(attempts') \in Nat /\ Cardinality(attempts) \in Nat
      BY HealTypeStep, FiniteAges DEF HealTypeOK
    <2> QED
      BY <1>p, <2>1, <2>2, Thresholds DEF PassTime, StillCounting
  <1>1. CASE PollFails
    BY <1>1, <1>p DEF PollFails
  <1>2. CASE ReadMaster
    BY <1>2, <1>p DEF ReadMaster
  <1>3. CASE ReadReplica
    BY <1>3, <1>p DEF ReadReplica
  <1>4. ASSUME NEW target \in Addr \cup {Unknown}, ReportRecovered(target)
        PROVE  Recorded'
    <2>1. attempts' = {} /\ issued' = {} /\ step' = "idle"
      BY <1>4 DEF ReportRecovered, EndPoll
    <2> QED
      BY <2>1, FS_EmptySet, Thresholds
  <1>5. ASSUME NEW target \in Addr \cup {Unknown}, Order(target) PROVE Recorded'
    <2>1. IsFiniteSet(attempts) /\ Cardinality(attempts) \in Nat
      BY FiniteAges DEF HealTypeOK
    <2>2. Cardinality(attempts) < MaxAttempts
      BY <1>5 DEF Order, Acts, UnderCap
    <2>3. Cardinality(attempts \cup {0}) <= MaxAttempts
      BY <2>1, <2>2, FS_AddElement, Thresholds
    <2> QED
      BY <1>5, <2>3 DEF Order
  <1>6. ASSUME NEW target \in Addr \cup {Unknown}, KeepWatching(target) PROVE Recorded'
    BY <1>6 DEF KeepWatching, EndPoll
  <1>7. CASE Issue \/ CommandFails
    BY <1>7 DEF Issue, CommandFails, EndPoll
  <1>8. CASE Redis \/ LinkFault
    BY <1>8 DEF Redis, StartSync, FinishSync, LoseMaster, LinkFault
  <1>9. CASE Sentinel
    BY <1>9 DEF Sentinel, SentinelLearns, Repoint, Failover
  <1>10. CASE Restart
    BY <1>10 DEF Restart, EndPoll
  <1>11. CASE UNCHANGED healVars
    BY <1>11 DEF healVars
  <1> QED
    BY <1>1, <1>2, <1>3, <1>4, <1>5, <1>6, <1>7, <1>8, <1>9, <1>10, <1>11 DEF HealNext, Watch

\* The commands issued in a rolling window with no recovery reported stay
\* under the cap, for every cap and window and any number of restarts between
\* the record and the command (iteration, "Persist before the call").
THEOREM CapAlwaysHolds == HealSpec => []CapHolds
  <1>1. CapInv => CapHolds
    <2> SUFFICES ASSUME CapInv PROVE CapHolds
      OBVIOUS
    <2>1. IsFiniteSet(attempts) /\ Cardinality(attempts) \in Nat
      BY FiniteAges DEF CapInv, HealTypeOK
    <2>2. Cardinality(issued) \in Nat
      BY FiniteAges DEF CapInv, HealTypeOK
    <2>3. Cardinality(issued) <= Cardinality(attempts)
      BY <2>1, FS_Subset DEF CapInv, Recorded
    <2> QED
      BY <2>1, <2>2, <2>3, Thresholds DEF CapInv, Recorded, CapHolds
  <1> QED
    BY <1>1, CapInit, CapStep, PTL DEF HealSpec

-----------------------------------------------------------------------------
(***************************************************************************)
(* The spacing.  What keeps two commands apart is the record on disk, as   *)
(* long as there is one: it is never older than the last command.  Once a  *)
(* reported recovery has erased it, it is the windows, which the recovery  *)
(* found closed and which have not been open for longer since.             *)
(***************************************************************************)
Spaced ==
    /\ lastAction # NoAge => lastAction <= sinceCommand
    /\ lastAction = NoAge => /\ AtMost(stall, Spacing) <= sinceCommand
                            /\ AtMost(mismatch, Spacing) <= sinceCommand
    /\ step = "act" => lastAction = 0 /\ Spacing <= sinceCommand
    /\ step = "read" /\ snap.link = "up" => stall = NoAge

SpaceInv == HealTypeOK /\ Spaced

LEMMA SpacingBounds ==
    Spacing \in Nat \ {0} /\ Spacing <= Backoff /\ Spacing <= StallDwell
      /\ Spacing <= WrongDwell
  BY Thresholds DEF Spacing, AtMost

LEMMA SpaceInit == HealInit => SpaceInv
  <1> SUFFICES ASSUME HealInit PROVE SpaceInv
    OBVIOUS
  <1> QED
    BY HealTypeInit, SpacingBounds, Thresholds DEF HealInit, SpaceInv, Spaced, AtMost, NoAge

LEMMA SpaceStep == SpaceInv /\ [HealNext]_healVars => SpaceInv'
  <1> SUFFICES ASSUME SpaceInv, [HealNext]_healVars PROVE Spaced'
    BY HealTypeStep DEF SpaceInv
  <1> USE DEF Spaced
  <1>k. /\ Spacing \in Nat /\ 1 <= Spacing
        /\ Spacing <= Backoff /\ Spacing <= StallDwell /\ Spacing <= WrongDwell
        /\ Backoff \in Nat /\ StallDwell \in Nat /\ WrongDwell \in Nat
    BY SpacingBounds, Thresholds
  <1>t. /\ lastAction \in Int /\ -1 <= lastAction /\ lastAction <= Backoff
        /\ sinceCommand \in Nat /\ sinceCommand <= Backoff
        /\ stall \in Int /\ -1 <= stall /\ stall <= StallDwell
        /\ mismatch \in Int /\ -1 <= mismatch /\ mismatch <= WrongDwell
        /\ NoAge = -1
    BY <1>k DEF SpaceInv, HealTypeOK, Ages, NoAge
  <1>s. Spaced
    BY DEF SpaceInv
  <1>p. ASSUME PassTime
        PROVE  /\ lastAction' # NoAge => lastAction' <= sinceCommand'
               /\ lastAction' = NoAge <=> lastAction = NoAge
               /\ sinceCommand' = AtMost(sinceCommand + 1, Backoff)
    BY <1>p, <1>s, <1>t, <1>k DEF PassTime, Older, AtMost
  <1>o. ASSUME lastAction = NoAge
        PROVE  LET since == AtMost(sinceCommand + 1, Backoff)
               IN /\ AtMost(Older(stall, StallDwell), Spacing) <= since
                  /\ AtMost(Older(mismatch, WrongDwell), Spacing) <= since
                  /\ 0 <= since
    BY <1>o, <1>s, <1>t, <1>k DEF Older, AtMost
  <1>c. AtMost(NoAge, Spacing) = -1
    BY <1>k, <1>t DEF AtMost
  <1>1. CASE PollFails
    BY <1>1, <1>p, <1>o DEF PollFails
  <1>2. CASE ReadMaster
    BY <1>2, <1>p, <1>c, <1>t, <1>k DEF ReadMaster, AtMost
  <1>3. CASE ReadReplica
    <2>1. /\ step' = "read" /\ PassTime /\ mismatch' = Older(mismatch, WrongDwell)
          /\ stall' \in {NoAge, 0, Older(stall, StallDwell)}
      BY <1>3 DEF ReadReplica, Accrue
    <2>2. snap'.link = "up" => stall' = NoAge
      BY <1>3 DEF ReadReplica, Accrue, Stalled
    <2>3. lastAction' = NoAge => AtMost(stall', Spacing) <= sinceCommand'
      BY <1>p, <1>o, <1>t, <1>k, <2>1 DEF AtMost
    <2>4. lastAction' = NoAge => AtMost(mismatch', Spacing) <= sinceCommand'
      BY <1>p, <1>o, <2>1
    <2> QED
      BY <1>p, <2>1, <2>2, <2>3, <2>4
  <1>4. ASSUME NEW target \in Addr \cup {Unknown}, ReportRecovered(target)
        PROVE  Spaced'
    <2>1. /\ step' = "idle" /\ lastAction' = NoAge /\ sinceCommand' = sinceCommand
          /\ stall' = NoAge /\ mismatch' = NoAge
      BY <1>4, <1>s DEF ReportRecovered, Recovered, Observe, Accrue, EndPoll
    <2> QED
      BY <2>1, <1>t, <1>k DEF AtMost
  <1>5. ASSUME NEW target \in Addr \cup {Unknown}, Order(target) PROVE Spaced'
    <2>1. /\ step' = "act" /\ lastAction' = 0 /\ sinceCommand' = sinceCommand
      BY <1>5 DEF Order, Observe
    <2>2. BackedOff /\ Fired(target)
      BY <1>5 DEF Order, Acts
    <2>3. Spacing <= sinceCommand
      <3>1. CASE lastAction # NoAge
        BY <2>2, <3>1, <1>s, <1>t, <1>k DEF BackedOff
      <3>2. CASE lastAction = NoAge /\ stall >= StallDwell
        BY <3>2, <1>s, <1>t, <1>k DEF AtMost
      <3>3. CASE lastAction = NoAge /\ Accrue(TRUE, mismatch) >= WrongDwell
        <4>1. mismatch >= WrongDwell
          BY <3>3, <1>t, <1>k DEF Accrue
        <4> QED
          BY <3>3, <4>1, <1>s, <1>t, <1>k DEF AtMost
      <3> QED
        BY <2>2, <3>1, <3>2, <3>3 DEF Fired
    <2> QED
      BY <2>1, <2>3, <1>t, <1>k
  <1>6. ASSUME NEW target \in Addr \cup {Unknown}, KeepWatching(target) PROVE Spaced'
    <2>1. /\ step' = "idle" /\ UNCHANGED <<lastAction, sinceCommand, stall>>
          /\ mismatch' \in {NoAge, 0, mismatch}
      BY <1>6 DEF KeepWatching, Observe, Accrue, EndPoll
    <2> QED
      BY <2>1, <1>s, <1>t, <1>k DEF AtMost
  <1>7. CASE Issue \/ CommandFails
    BY <1>7, <1>s, <1>t DEF Issue, CommandFails, EndPoll
  <1>8. CASE Redis \/ LinkFault
    BY <1>8, <1>s DEF Redis, StartSync, FinishSync, LoseMaster, LinkFault
  <1>9. CASE Sentinel
    BY <1>9, <1>s DEF Sentinel, SentinelLearns, Repoint, Failover
  <1>10. CASE Restart
    BY <1>10, <1>s, <1>t, <1>k DEF Restart, EndPoll, AtMost
  <1>11. CASE UNCHANGED healVars
    BY <1>11, <1>s DEF healVars
  <1> QED
    BY <1>1, <1>2, <1>3, <1>4, <1>5, <1>6, <1>7, <1>8, <1>9, <1>10, <1>11 DEF HealNext, Watch

\* No two commands are closer than the shortest of the backoff and the two
\* dwells, for all their values, across restarts, failed polls and reported
\* recoveries (decide_link_heal, "Backoff: respect minimum interval").
THEOREM CommandsAreSpaced == HealSpec => NeverTooSoon
  <1>1. SpaceInv /\ [HealNext]_healVars
          => [Issue \/ CommandFails => sinceCommand >= Spacing]_healVars
    <2> SUFFICES ASSUME SpaceInv, Issue \/ CommandFails PROVE sinceCommand >= Spacing
      OBVIOUS
    <2>1. step = "act"
      BY DEF Issue, CommandFails
    <2> QED
      BY <2>1, SpacingBounds, Thresholds DEF SpaceInv, Spaced, HealTypeOK
  <1> QED
    BY <1>1, SpaceInit, SpaceStep, PTL DEF HealSpec, NeverTooSoon


=============================================================================

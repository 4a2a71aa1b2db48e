------------------------------ MODULE LinkHeal ------------------------------
(***************************************************************************)
(* link_heal.rs: the watcher that re-issues REPLICAOF on a replica whose   *)
(* link to its master is durably down, or that is durably attached to      *)
(* another master than its own Sentinel names.                             *)
(*                                                                         *)
(* One node, Self, is followed.  A poll of its watcher is three steps, one *)
(* per conversation: INFO replication, Sentinel's answer with everything   *)
(* decided and written to disk on it, and the command; the rest of the     *)
(* cluster moves in between.  Time is counted in polls.  What the volume   *)
(* keeps across a restart is .link_heal_state: the moments of the attempts *)
(* and of the last action.                                                 *)
(***************************************************************************)
EXTENDS Integers, FiniteSets

CONSTANTS
    Addr,           \* the addresses of the members
    Self,           \* this node's
    Unknown,        \* Sentinel did not answer
    StallDwell,     \* polls a link has to stay down (LINK_HEAL_DWELL_SECONDS)
    WrongDwell,     \* polls a mismatch has to hold (.._WRONG_MASTER_DWELL_SECONDS)
    Backoff,        \* polls between two actions (.._ACTION_BACKOFF_SECONDS)
    MaxAttempts,    \* actions per rolling window (.._MAX_ATTEMPTS_PER_WINDOW)
    Window,         \* polls the rolling window spans (LINK_HEAL_WINDOW_SECONDS)
    MaxFailovers, MaxLinkFaults, MaxMisses, MaxRestarts     \* bounds on faults

ASSUME Addresses == Self \in Addr /\ Addr # {Self} /\ Unknown \notin Addr
ASSUME Thresholds ==
    /\ {StallDwell, WrongDwell, Backoff, Window} \subseteq Nat \ {0}
    /\ MaxAttempts \in Nat
ASSUME Bounds == {MaxFailovers, MaxLinkFaults, MaxMisses, MaxRestarts} \subseteq Nat

VARIABLES
    \* the local Redis
    role,      \* "master" | "replica"
    attached,  \* master_host
    link,      \* "up" | "sync" | "down", "late" once a poll has read it down though
               \* it could be retried | "wedged": down, and Redis does not retry
    \* the cluster
    primary,   \* the member that is its master
    alive,     \* the other members that can serve a replica
    answer,    \* what the local Sentinel answers for the master
    \* .link_heal_state
    lastAction,    \* polls since last_action_at, or NoAge
    attempts,      \* polls since each attempt that still counts
    \* the watcher
    step,      \* "idle" | "read" | "act"
    snap,      \* the ReplicationSnapshot of this poll
    stall, mismatch,    \* ages of the two dwell windows, or NoAge
    command,   \* the address the command in hand names
    \* history
    sinceCommand,  \* polls since a command was last issued
    issued,        \* polls since each command, recovery having been reported on none
    failovers, linkFaults, misses, restarts

redisVars   == <<role, attached, link>>
clusterVars == <<primary, alive, answer>>
stateVars   == <<lastAction, attempts>>
watchVars   == <<step, snap, stall, mismatch, command>>
historyVars == <<sinceCommand, issued>>
faultVars   == <<failovers, linkFaults, misses, restarts>>
healVars == <<redisVars, clusterVars, stateVars, watchVars, historyVars, faultVars>>

NoAge == -1
Other == Addr \ {Self}
Dialable == role = "replica" /\ attached \in alive
AtMost(x, y) == IF x <= y THEN x ELSE y

-----------------------------------------------------------------------------
(***************************************************************************)
(* Ages.  Every poll makes each of them one poll older, up to the age from *)
(* which on it makes no difference.                                        *)
(***************************************************************************)
Older(age, cap) == IF age = NoAge THEN NoAge ELSE AtMost(age + 1, cap)

\* recent_action_count: an attempt counts as long as the window spans it
StillCounting(ages) == {a \in 1..Window : a - 1 \in ages}

\* A poll is 15 seconds: Redis has long retried a link that it can
PassTime ==
    /\ role = "replica" => link # "late"
    /\ lastAction'   = Older(lastAction, Backoff)
    /\ attempts'     = StillCounting(attempts)
    /\ sinceCommand' = Older(sinceCommand, Backoff)
    /\ issued'       = StillCounting(issued)

\* Mutant: the window reopens on every poll.
AccrueAfresh(observed, window) == IF observed THEN 0 ELSE NoAge

\* accrue_stall_window
Accrue(observed, window) ==
    IF ~observed THEN NoAge ELSE IF window = NoAge THEN 0 ELSE window

-----------------------------------------------------------------------------
(***************************************************************************)
(* decide_link_heal, on the snapshot and Sentinel's answer.                *)
(***************************************************************************)
Stalled(s) == s.link \in {"down", "wedged"}

\* attached_to_wrong_master: an answer that is missing disagrees with nothing
WrongMaster(target) == target # Unknown /\ snap.attached # target

\* Mutant: a link that is up is all that recovery takes.
RecoveredByLink(target) == lastAction # NoAge /\ snap.link = "up"

\* recovery_seen_after_action; action_pending_recovery is rebuilt from
\* last_action_at, and set and cleared with it
Recovered(target) == lastAction # NoAge /\ snap.link = "up" /\ ~WrongMaster(target)

\* Mutant: the attempts are not counted.
Uncapped == TRUE

UnderCap == Cardinality(attempts) < MaxAttempts
BackedOff == lastAction # NoAge => lastAction >= Backoff

\* One of the dwells has been served
Fired(target) ==
    \/ Stalled(snap) /\ stall >= StallDwell
    \/ WrongMaster(target) /\ Accrue(TRUE, mismatch) >= WrongDwell

\* Reheal, or PromoteSelf where the target is this node
Acts(target) ==
    /\ UnderCap /\ BackedOff
    /\ snap.link # "sync"
    /\ Fired(target)
    /\ target # Unknown

-----------------------------------------------------------------------------
(***************************************************************************)
(* One poll: iteration.                                                    *)
(***************************************************************************)
NoSnap == [link |-> "up", attached |-> CHOOSE a \in Other : TRUE]

EndPoll == step' = "idle" /\ snap' = NoSnap /\ command' = Unknown

\* Redis does not answer: the poll ends, and the windows stay as they are
PollFails ==
    /\ step = "idle"
    /\ misses < MaxMisses
    /\ misses' = misses + 1
    /\ PassTime
    /\ stall' = Older(stall, StallDwell)
    /\ mismatch' = Older(mismatch, WrongDwell)
    /\ UNCHANGED <<redisVars, clusterVars, step, snap, command, failovers, linkFaults,
                   restarts>>

\* INFO replication of a node that is not a replica
ReadMaster ==
    /\ step = "idle"
    /\ role = "master"
    /\ PassTime
    /\ stall' = NoAge /\ mismatch' = NoAge
    /\ UNCHANGED <<redisVars, clusterVars, step, snap, command, faultVars>>

\* INFO replication of a replica
ReadReplica ==
    /\ step = "idle"
    /\ role = "replica"
    /\ PassTime
    /\ step' = "read"
    /\ snap' = [link |-> link, attached |-> attached]
    /\ link' = IF link = "down" /\ Dialable THEN "late" ELSE link
    /\ stall' = Accrue(Stalled(snap'), Older(stall, StallDwell))
    /\ mismatch' = Older(mismatch, WrongDwell)
    /\ UNCHANGED <<role, attached, clusterVars, command, faultVars>>

\* SENTINEL get-master-addr-by-name, answered or not
Observe(target) ==
    /\ step = "read"
    /\ \/ target = answer /\ UNCHANGED misses
       \/ target = Unknown /\ misses < MaxMisses /\ misses' = misses + 1
    /\ mismatch' = Accrue(WrongMaster(target), mismatch)
    /\ UNCHANGED <<redisVars, clusterVars, stall, sinceCommand, failovers, linkFaults,
                   restarts>>

\* EmitRecovered
ReportRecovered(target) ==
    /\ Observe(target)
    /\ Recovered(target)
    /\ lastAction' = NoAge
    /\ attempts' = {}
    /\ issued' = {}
    /\ EndPoll

\* The attempt is on disk before the command is issued
Order(target) ==
    /\ Observe(target)
    /\ ~Recovered(target)
    /\ Acts(target)
    /\ lastAction' = 0
    /\ attempts' = attempts \cup {0}
    /\ step' = "act"
    /\ command' = target
    /\ UNCHANGED <<snap, issued>>

\* NoOp, Wait and EmitGaveUp
KeepWatching(target) ==
    /\ Observe(target)
    /\ ~Recovered(target) /\ ~Acts(target)
    /\ EndPoll
    /\ UNCHANGED <<stateVars, issued>>

\* REPLICAOF NO ONE where the answer is this node, else REPLICAOF, from which
\* Redis restarts the handshake
Execute ==
    IF command = Self THEN role' = "master" /\ UNCHANGED attached
    ELSE role' = "replica" /\ attached' = command

Issue ==
    /\ step = "act"
    /\ Execute
    /\ link' = "down"
    /\ sinceCommand' = 0
    /\ issued' = issued \cup {0}
    /\ EndPoll
    /\ UNCHANGED <<clusterVars, stateVars, stall, mismatch, faultVars>>

\* The command fails, or its answer never comes; it had no effect
CommandFails ==
    /\ step = "act"
    /\ misses < MaxMisses
    /\ misses' = misses + 1
    /\ sinceCommand' = 0
    /\ issued' = issued \cup {0}
    /\ EndPoll
    /\ UNCHANGED <<redisVars, clusterVars, stateVars, stall, mismatch, failovers,
                   linkFaults, restarts>>

-----------------------------------------------------------------------------
(***************************************************************************)
(* External: Redis replication.                                            *)
(***************************************************************************)
StartSync ==
    /\ Dialable /\ link \in {"down", "late"}
    /\ link' = "sync"
    /\ UNCHANGED <<role, attached, clusterVars, stateVars, watchVars, historyVars, faultVars>>

FinishSync ==
    /\ Dialable /\ link = "sync"
    /\ link' = "up"
    /\ UNCHANGED <<role, attached, clusterVars, stateVars, watchVars, historyVars, faultVars>>

\* The link of a node whose master died
LoseMaster ==
    /\ role = "replica" /\ attached \notin alive /\ link \in {"up", "sync", "late"}
    /\ link' = "down"
    /\ UNCHANGED <<role, attached, clusterVars, stateVars, watchVars, historyVars, faultVars>>

\* The link drops, and may come to a state Redis does not retry out of
LinkFault ==
    /\ role = "replica" /\ link \in {"up", "sync"}
    /\ linkFaults < MaxLinkFaults
    /\ linkFaults' = linkFaults + 1
    /\ link' \in {"down", "wedged"}
    /\ UNCHANGED <<role, attached, clusterVars, stateVars, watchVars, historyVars, failovers,
                   misses, restarts>>

-----------------------------------------------------------------------------
(***************************************************************************)
(* External: Sentinel.                                                     *)
(***************************************************************************)

\* The cluster elects a member; the one it replaces is dead or demoted.  The
\* REPLICAOF NO ONE of an elected Self may never reach it.
Failover(p) ==
    /\ p # primary /\ p \in alive \cup {Self}
    /\ failovers < MaxFailovers
    /\ failovers' = failovers + 1
    /\ primary' = p
    /\ alive' \in {alive, alive \ {primary}}
    /\ role' \in {role} \cup (IF p = Self THEN {"master"} ELSE {})
    /\ UNCHANGED <<attached, link, answer, stateVars, watchVars, historyVars, linkFaults,
                   misses, restarts>>

\* The local Sentinel hears of it
SentinelLearns ==
    /\ answer # primary
    /\ answer' = primary
    /\ UNCHANGED <<redisVars, primary, alive, stateVars, watchVars, historyVars, faultVars>>

\* +convert-to-slave and +fix-slave-config; a replica that no master's INFO
\* lists is never repointed
Repoint ==
    /\ primary # Self
    /\ role = "master" \/ attached # primary
    /\ role' = "replica" /\ attached' = primary /\ link' = "down"
    /\ UNCHANGED <<clusterVars, stateVars, watchVars, historyVars, faultVars>>

\* The container restarts, in the role its sentinel.conf names
Restart ==
    /\ restarts < MaxRestarts
    /\ restarts' = restarts + 1
    /\ role' = IF answer = Self THEN "master" ELSE "replica"
    /\ attached' = IF answer = Self THEN attached ELSE answer
    /\ link' = "down"
    /\ EndPoll
    /\ stall' = NoAge /\ mismatch' = NoAge
    /\ UNCHANGED <<clusterVars, stateVars, historyVars, failovers, linkFaults, misses>>

-----------------------------------------------------------------------------
\* A replica that has just booted, of the primary or of another member
HealInit ==
    /\ role = "replica" /\ attached \in Other /\ link = "down"
    /\ primary \in Other /\ alive = Other /\ answer = primary
    /\ lastAction = NoAge /\ attempts = {}
    /\ step = "idle" /\ snap = NoSnap /\ command = Unknown
    /\ stall = NoAge /\ mismatch = NoAge
    /\ sinceCommand = Backoff /\ issued = {}
    /\ failovers = 0 /\ linkFaults = 0 /\ misses = 0 /\ restarts = 0

Watch ==
    \/ ReadMaster \/ ReadReplica \/ Issue
    \/ \E target \in Addr \cup {Unknown} :
          ReportRecovered(target) \/ Order(target) \/ KeepWatching(target)

Redis == StartSync \/ FinishSync \/ LoseMaster

Sentinel == SentinelLearns \/ Repoint \/ \E p \in Addr : Failover(p)

HealNext == Watch \/ PollFails \/ CommandFails \/ Redis \/ LinkFault \/ Sentinel \/ Restart

HealSpec == HealInit /\ [][HealNext]_healVars

\* The watcher polls for ever; Redis retries a link that is merely down and
\* completes its syncs; Sentinel's answer catches up, and Sentinel demotes a
\* master it has replaced.  It need not repoint a replica: that is the gap
\* the watcher fills.
HealFairSpec ==
    /\ HealSpec
    /\ WF_healVars(Watch)
    /\ WF_healVars(StartSync) /\ WF_healVars(FinishSync) /\ WF_healVars(LoseMaster)
    /\ WF_healVars(SentinelLearns) /\ WF_healVars(Repoint /\ role = "master")

-----------------------------------------------------------------------------
\* Every variable keeps its type; in particular no node replicates itself.
Ages(cap) == {NoAge} \cup 0..cap

HealTypeOK ==
    /\ role \in {"master", "replica"} /\ attached \in Other
    /\ link \in {"up", "sync", "down", "late", "wedged"}
    /\ primary \in Addr /\ alive \in SUBSET Other /\ answer \in Addr
    /\ lastAction \in Ages(Backoff) /\ attempts \in SUBSET (0..Window)
    /\ step \in {"idle", "read", "act"}
    /\ snap \in [link : {"up", "sync", "down", "wedged"}, attached : Other]
    /\ stall \in Ages(StallDwell) /\ mismatch \in Ages(WrongDwell)
    /\ command \in Addr \cup {Unknown} /\ (step = "act" => command \in Addr)
    /\ sinceCommand \in 0..Backoff /\ issued \in SUBSET (0..Window)
    /\ failovers \in 0..MaxFailovers /\ linkFaults \in 0..MaxLinkFaults
    /\ misses \in 0..MaxMisses /\ restarts \in 0..MaxRestarts

\* Two commands are never closer than the shortest of the backoff and the two
\* dwells, whatever lies between them: a restart, a failed poll, a command
\* that failed, or a reported recovery, which erases the memory of the first
\* (link_heal.rs, "Backoff between attempts" and "State persistence").
Spacing == AtMost(Backoff, AtMost(StallDwell, WrongDwell))

NeverTooSoon == [][Issue \/ CommandFails => sinceCommand >= Spacing]_healVars

\* As long as no recovery has been reported, the commands issued within a
\* rolling window stay under the cap, restarts between the record and the
\* command included ("so backoff and the per-window cap survive container
\* restarts", link_heal.rs).
CapHolds == Cardinality(issued) <= MaxAttempts

\* Once the faults stop, the node is what its Sentinel says it is: the master,
\* or a replica of the master with its link up, whichever state of the four
\* that Redis "will not retry out of by itself" it was in, and whatever the
\* cluster did between the watcher's reads and its command (link_heal.rs).
Healthy ==
    IF answer = Self THEN role = "master"
    ELSE role = "replica" /\ attached = answer /\ link = "up"

Heals == <>[]Healthy

=============================================================================

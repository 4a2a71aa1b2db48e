------------------------------ MODULE PeerPins ------------------------------
(***************************************************************************)
(* The peer host pins (peer_pins.rs): the refresh loop that asks the       *)
(* resolver for every peer's addresses, the table with its rule of holding *)
(* or expiring an address, and the block of /etc/hosts it is written to in *)
(* place, from the refresh before Sentinel starts (prime) on.              *)
(*                                                                         *)
(* The resolver, the peers' addresses and the membership the local Sentinel*)
(* knows are external.  An address is a record type and a version that     *)
(* every redeploy of the peer changes.  What a failed call leaves is kept  *)
(* apart by the history variables torn and respawned.                      *)
(***************************************************************************)
EXTENDS Integers, FiniteSets

CONSTANTS
    Name,        \* the names and literals that reach the module
    Literal,     \* those pinnable_host refuses: addresses, malformed names
    Static,      \* in SENTINEL_HOSTS, REPLICA_OF or the private domain
    Expiry,      \* PEER_HOST_PINS_ABSENT_EXPIRY_SECONDS, in refresh intervals
    Silent, Absent, Unasked,  \* of a name: no usable answer, "no address", not yet asked
    MaxVersion,  \* bound: addresses a peer may have
    MaxMoves,    \* bound: redeploys, removals, returns, stalls
    MaxFaults    \* bound: lost queries, failed writes, panics

ASSUME NameAssumption == Literal \subseteq Name /\ Static \subseteq Name
ASSUME ExpiryAssumption == Expiry \in Nat \ {0}
ASSUME BoundAssumption == MaxVersion \in Nat \ {0} /\ MaxMoves \in Nat /\ MaxFaults \in Nat

RecordType == {"A", "AAAA"}
Address == RecordType \X (1..MaxVersion)
Gone == 0
None == -1
NoBlock == <<>>

ASSUME LookupAssumption ==
    /\ Silent # Absent /\ Silent # Unasked /\ Absent # Unasked
    /\ \A a \in SUBSET Address : a \notin {Silent, Absent, Unasked}

VARIABLES
    \* the world
    version,   \* the version of each peer's addresses, or Gone
    answering, \* the resolver answers
    members,   \* names the local Sentinel knows
    moves,
    \* the refresh loop
    phase,     \* "due", "lookup", "write", "truncate" or "slept"
    primed,    \* prime is over, the loop runs
    asked,     \* names of this refresh
    results,   \* what the resolver said of each of them
    \* Pins, and last_block
    entries, held, absent, last,
    \* the hosts file: the block, what a shorter block leaves of a longer one
    \* until the truncate, and what a failed truncate left for good
    file, tail, stale,
    \* history and faults
    quiet,     \* refreshes since the resolver last gave an address of the name
    missing,   \* the name was gone when the resolver last gave a usable answer
    torn,      \* the truncate of the last write to touch the file failed
    respawned, \* the loop panicked and began again with an empty table
    faults

worldVars == <<version, answering, members, moves>>
loopVars == <<phase, primed, asked, results>>
tableVars == <<entries, held, absent, last>>
fileVars == <<file, tail, stale>>
historyVars == <<quiet, missing, torn, respawned>>
pinsVars == <<worldVars, loopVars, tableVars, fileVars, historyVars, faults>>

Fault == faults < MaxFaults /\ faults' = faults + 1

-----------------------------------------------------------------------------
(***************************************************************************)
(* The resolver's answer for one name.                                     *)
(***************************************************************************)

\* decode_reply: what the reply to one query says; a name that exists has a
\* record of each type, and no reply within the deadline is Failed
Reply(n, t) ==
    IF ~answering THEN [kind |-> "Failed", records |-> {}]
    ELSE IF version[n] = Gone THEN [kind |-> "NxDomain", records |-> {}]
    ELSE [kind |-> "Records", records |-> {<<t, version[n]>>}]

Lost == [kind |-> "Failed", records |-> {}]
NoData == [kind |-> "NoData", records |-> {}]

\* Mutant: a lookup without records is an authoritative no.
CombineNoRecords(a, aaaa) ==
    IF a.records \cup aaaa.records # {} THEN a.records \cup aaaa.records ELSE Absent

\* combine: records of either type win, then NXDOMAIN, then silence
Combine(a, aaaa) ==
    IF a.records \cup aaaa.records # {} THEN a.records \cup aaaa.records
    ELSE IF "NxDomain" \in {a.kind, aaaa.kind} THEN Absent
    ELSE IF "Failed" \in {a.kind, aaaa.kind} THEN Silent
    ELSE Absent

\* Mutant: what gossip announces is taken as it is.
PinnableAll(names) == names

\* pinnable_host: literals and malformed names have nothing to pin
Pinnable(names) == names \ Literal

-----------------------------------------------------------------------------
(***************************************************************************)
(* One refresh.                                                            *)
(***************************************************************************)

\* The names: static, those of the table, and as much of the membership as the
\* local Sentinel tells; prime asks no Sentinel
Gather ==
    /\ phase = "due" /\ phase' = "lookup"
    /\ \E told \in SUBSET (IF primed THEN members ELSE {}) :
         asked' = Pinnable(Static \cup told) \cup entries
    /\ results' = [n \in Name |-> Unasked]
    /\ UNCHANGED <<worldVars, primed, tableVars, fileVars, historyVars, faults>>

Asking(n) ==
    /\ phase = "lookup" /\ n \in asked /\ results[n] = Unasked
    /\ missing' = [missing EXCEPT ![n] = IF results'[n] = Silent THEN @ ELSE version[n] = Gone]
    /\ UNCHANGED <<worldVars, phase, primed, asked, tableVars, fileVars,
                   quiet, torn, respawned>>

Lookup(n) ==
    /\ results' = [results EXCEPT ![n] = Combine(Reply(n, "A"), Reply(n, "AAAA"))]
    /\ Asking(n)
    /\ UNCHANGED faults

\* One of the two queries is lost, or the type of the other has no record
LookupLossy(n) ==
    /\ \E a \in {Reply(n, "A"), Lost}, aaaa \in {Reply(n, "AAAA"), Lost, NoData} :
         /\ version[n] = Gone => aaaa # NoData
         /\ results' = [results EXCEPT ![n] = Combine(a, aaaa)]
    /\ Asking(n) /\ Fault

Answered(n) == n \in asked /\ results[n] \notin {Silent, Absent, Unasked}
Denied(n) == n \in asked /\ results[n] = Absent

\* absent_since: the first denial starts the clock, an answer clears it, silence
\* leaves it
AbsentFor(n) == IF Denied(n) /\ absent[n] = None THEN 0 ELSE absent[n]


\* The pin is replaced with the addresses of an answer
Addresses(n) == results[n]

Expired(n) == Denied(n) /\ held[n] # {} /\ AbsentFor(n) >= Expiry

\* Pins::observe for every result
Table == [n \in Name |-> IF Answered(n) THEN Addresses(n)
                         ELSE IF Expired(n) THEN {} ELSE held[n]]

\* The table is updated; a block equal to the last one is not written again
Observe ==
    /\ phase = "lookup" /\ \A n \in asked : results[n] # Unasked
    /\ held' = Table
    /\ entries' = (entries \cup asked) \ {n \in Name : Expired(n)}
    /\ absent' = [n \in Name |-> IF Answered(n) \/ Expired(n) THEN None ELSE AbsentFor(n)]
    /\ quiet' = [n \in Name |-> IF Answered(n) THEN 0 ELSE quiet[n]]
    /\ phase' = IF last = Table THEN "slept" ELSE "write"
    /\ asked' = {} /\ results' = [n \in Name |-> Unasked]
    /\ UNCHANGED <<worldVars, primed, last, fileVars, missing, torn, respawned, faults>>

LinesOf(block) == UNION {{<<n, a>> : a \in block[n]} : n \in Name}

\* run and prime each keep their own last_block
Written(block) == last' = IF primed THEN block ELSE NoBlock

\* write_in_place, first half: the new content over the old, whose last lines stay
Write ==
    /\ phase = "write"
    /\ file' = held
    /\ LET old == LinesOf(file)
           short == Cardinality(old) - Cardinality(LinesOf(held))
       IN IF short <= 0 THEN tail' = {}
                        ELSE \E cut \in SUBSET old : Cardinality(cut) = short /\ tail' = cut
    /\ phase' = "truncate"
    /\ UNCHANGED <<worldVars, primed, asked, results, tableVars, stale, historyVars, faults>>

\* Second half
Truncate ==
    /\ phase = "truncate" /\ phase' = "slept"
    /\ tail' = {} /\ torn' = FALSE
    /\ Written(held) /\ primed' = TRUE
    /\ UNCHANGED <<worldVars, asked, results, entries, held, absent, file, stale,
                   quiet, missing, respawned, faults>>

\* Mutant: the block is remembered before it is written.
RememberedAnyway == last' = held

\* A failed write leaves last_block alone, so that the next refresh writes again
Remembered == UNCHANGED last

\* The file cannot be read or opened
WriteFails ==
    /\ phase = "write" /\ phase' = "slept" /\ Fault
    /\ Remembered /\ primed' = TRUE
    /\ UNCHANGED <<worldVars, asked, results, entries, held, absent, fileVars, historyVars>>

\* The new block is in the file and last_block is still the old one.  The old lines
\* past the new block are outside the markers from now on, and splice_block
\* preserves them
TruncateFails ==
    /\ phase = "truncate" /\ phase' = "slept" /\ Fault
    /\ Remembered /\ primed' = TRUE
    /\ stale' = stale \cup tail /\ tail' = {}
    /\ torn' = TRUE
    /\ UNCHANGED <<worldVars, asked, results, entries, held, absent, file,
                   quiet, missing, respawned>>

\* The loop panics, and the respawned one takes no table over
Panic ==
    /\ primed /\ phase \in {"due", "lookup"} /\ Fault
    /\ phase' = "due" /\ asked' = {} /\ results' = [n \in Name |-> Unasked]
    /\ entries' = {} /\ held' = [n \in Name |-> {}] /\ absent' = [n \in Name |-> None]
    /\ last' = NoBlock
    /\ respawned' = TRUE
    /\ UNCHANGED <<worldVars, primed, fileVars, quiet, missing, torn>>

Later(t, bound) == IF t \in {None, bound} THEN t ELSE t + 1

\* The refresh interval
Tick ==
    /\ phase = "slept" /\ phase' = "due"
    /\ absent' = [n \in Name |-> Later(absent[n], Expiry)]
    /\ quiet' = [n \in Name |-> Later(quiet[n], Expiry)]
    /\ UNCHANGED <<worldVars, primed, asked, results, entries, held, last, fileVars,
                   missing, torn, respawned, faults>>

-----------------------------------------------------------------------------
(***************************************************************************)
(* The world.                                                              *)
(***************************************************************************)
Moving ==
    /\ moves < MaxMoves /\ moves' = moves + 1
    /\ UNCHANGED <<loopVars, tableVars, fileVars, historyVars, faults>>

\* A peer goes, or comes back at other addresses
Redeploy(n) ==
    /\ Moving /\ n \notin Literal
    /\ \E v \in (0..MaxVersion) \ {version[n]} : version' = [version EXCEPT ![n] = v]
    /\ UNCHANGED <<answering, members>>

Stall ==
    /\ Moving /\ answering /\ answering' = FALSE
    /\ UNCHANGED <<version, members>>

StallEnds ==
    /\ ~answering /\ answering' = TRUE
    /\ UNCHANGED <<version, members, moves, loopVars, tableVars, fileVars, historyVars, faults>>

\* Gossip names a member, or Sentinel forgets it
Gossip(n) ==
    /\ Moving
    /\ members' = IF n \in members THEN members \ {n} ELSE members \cup {n}
    /\ UNCHANGED <<version, answering>>

PinsInit ==
    /\ version \in {v \in [Name -> {Gone, 1}] : \A n \in Literal : v[n] = Gone}
    /\ answering \in BOOLEAN
    /\ members = Name \ Static
    /\ moves = 0
    /\ phase = "due" /\ primed = FALSE
    /\ asked = {} /\ results = [n \in Name |-> Unasked]
    /\ entries = {} /\ held = [n \in Name |-> {}] /\ absent = [n \in Name |-> None]
    /\ last = NoBlock
    /\ file = [n \in Name |-> {}] /\ tail = {} /\ stale = {}
    /\ quiet = [n \in Name |-> 0] /\ missing = [n \in Name |-> FALSE]
    /\ torn = FALSE /\ respawned = FALSE
    /\ faults = 0

Refresh ==
    \/ Gather
    \/ \E n \in Name : Lookup(n)
    \/ Observe
    \/ Write
    \/ Truncate

PinsNext ==
    \/ Refresh
    \/ \E n \in Name : LookupLossy(n) \/ Redeploy(n) \/ Gossip(n)
    \/ WriteFails \/ TruncateFails \/ Panic
    \/ Tick
    \/ Stall \/ StallEnds

\* The loop goes on, every lookup ends by its deadline, and a stall ends
Fairness == WF_pinsVars(Refresh) /\ WF_pinsVars(Tick) /\ WF_pinsVars(StallEnds)

PinsSpec == PinsInit /\ [][PinsNext]_pinsVars
PinsFairSpec == PinsSpec /\ Fairness

-----------------------------------------------------------------------------
\* What a reader of the hosts file finds for a name, at any moment
Lines(n) == file[n] \cup {line[2] : line \in {l \in tail \cup stale : l[1] = n}}

\* Types of the variables; only pinnable names reach the table.
PinsTypeOK ==
    /\ version \in [Name -> 0..MaxVersion] /\ answering \in BOOLEAN
    /\ members \subseteq Name /\ moves \in Nat
    /\ phase \in {"due", "lookup", "write", "truncate", "slept"} /\ primed \in BOOLEAN
    /\ asked \subseteq Name \ Literal
    /\ results \in [Name -> {Unasked, Silent, Absent} \cup SUBSET Address]
    /\ entries \subseteq Name \ Literal
    /\ held \in [Name -> SUBSET Address] /\ absent \in [Name -> -1..Expiry]
    /\ last \in {NoBlock} \cup [Name -> SUBSET Address]
    /\ file \in [Name -> SUBSET Address]
    /\ tail \subseteq Name \X Address /\ stale \subseteq Name \X Address
    /\ quiet \in [Name -> 0..Expiry] /\ missing \in [Name -> BOOLEAN]
    /\ torn \in BOOLEAN /\ respawned \in BOOLEAN /\ faults \in Nat

\* A refresh that finds the table equal to last_block leaves the file alone, and the
\* block in the file is that table: whatever writes failed to begin, and whatever
\* panicked, last_block is never ahead of the file.  It is behind after a truncate
\* that failed (torn): a table that goes back to the older block is then taken for
\* written, and the file keeps the newer one until the table changes again.
FileIsTable == phase = "slept" /\ last = held /\ ~torn => file = held

\* A name that resolves from the file stops doing so only when the resolver has
\* given no address of it for the whole expiry and last said that it has none: no
\* stall, no lost query and no write half done makes Sentinel wait on DNS.
HeldThroughStalls ==
    [][\A n \in Name : ~respawned' /\ Lines(n) # {} /\ Lines(n)' = {}
           => quiet[n] >= Expiry /\ missing[n]]_pinsVars

\* The addresses that a refresh should find for a name of the table
Current(n) ==
    IF version[n] # Gone /\ n \in Static \cup entries THEN RecordType \X {version[n]} ELSE {}

=============================================================================

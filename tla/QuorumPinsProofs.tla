-------------------------- MODULE QuorumPinsProofs ----------------------------
(***************************************************************************)
(* The two loops that follow the membership the local Sentinel knows: the  *)
(* pins of the peers' addresses, and the watcher that sizes the fence.     *)
(*                                                                         *)
(* The pins, for every set of names, every expiry and any number of faults:*)
(* the file is the table once a refresh is over, and a name leaves the file*)
(* only after a denial that lasted.                                        *)
(*                                                                         *)
(* The fence, for every cluster size, every dwell and any number of faults:*)
(* a partition may strike at any moment, and no two masters accept writes  *)
(* at once unless it found the node unready (its peers not all known, its  *)
(* fence not caught up, a prune due) or a restart met a stale env stamp.   *)
(***************************************************************************)
EXTENDS QuorumSync, PeerPins, FiniteSetTheorems, TLAPS

-----------------------------------------------------------------------------
(***************************************************************************)
(* The pins: what the operators and a lookup return.                       *)
(***************************************************************************)
\* The new table, the ages and the lines of the file are what the variables they go
\* to hold.
LEMMA TableTypes ==
    ASSUME PinsTypeOK
    PROVE  /\ Table \in [Name -> SUBSET Address]
           /\ \A n \in Name : AbsentFor(n) \in -1..Expiry
           /\ LinesOf(file) \subseteq Name \X Address
<1>1. ASSUME NEW n \in Name PROVE IF Answered(n) THEN Addresses(n) \in SUBSET Address
                                  ELSE held[n] \in SUBSET Address
  BY DEF PinsTypeOK, Answered, Addresses
<1>2. Table \in [Name -> SUBSET Address]
  BY <1>1 DEF Table
<1>3. \A n \in Name : AbsentFor(n) \in -1..Expiry
  BY ExpiryAssumption DEF PinsTypeOK, AbsentFor
<1>4. LinesOf(file) \subseteq Name \X Address
  BY DEF LinesOf, PinsTypeOK
<1> QED BY <1>2, <1>3, <1>4

\* What the resolver says of one record type of a name: it denies only a name that is
\* gone, and an answer with records has some.
LEMMA ReplyTypes ==
    ASSUME PinsTypeOK, NEW n \in Name, NEW t \in {"A", "AAAA"}
    PROVE  /\ Reply(n, t).kind \in {"Failed", "NxDomain", "Records"}
           /\ Reply(n, t).records \in SUBSET Address
           /\ Reply(n, t).kind = "NxDomain" => version[n] = Gone
           /\ Reply(n, t).kind = "Records" => Reply(n, t).records # {}
<1>1. version[n] # Gone => <<t, version[n]>> \in Address
  BY DEF PinsTypeOK, Gone, Address, RecordType
<1> QED BY <1>1 DEF Reply

\* What a lookup leaves of a name: addresses, silence, or a denial, and that only of a
\* name that is gone, whichever of its two queries was lost.
LEMMA LookupOutcome ==
    ASSUME PinsTypeOK, NEW n \in Name, Lookup(n) \/ LookupLossy(n)
    PROVE  \E v \in {Silent, Absent} \cup {S \in SUBSET Address : S # {}} :
              /\ results' = [results EXCEPT ![n] = v]
              /\ v = Absent => version[n] = Gone
<1> DEFINE Replies(t) == {Reply(n, t), Lost}
<1>1. PICK a \in Replies("A"), aaaa \in Replies("AAAA") \cup {NoData} :
         /\ version[n] = Gone => aaaa # NoData
         /\ results' = [results EXCEPT ![n] = Combine(a, aaaa)]
  <2>1. CASE Lookup(n)
    <3>1. Reply(n, "AAAA") # NoData
      BY ReplyTypes DEF NoData
    <3> QED BY <2>1, <3>1 DEF Lookup
  <2>2. CASE LookupLossy(n)
    BY <2>2 DEF LookupLossy
  <2> QED BY <2>1, <2>2
<1>2. /\ a.kind \in {"Failed", "NxDomain", "Records"}
      /\ a.records \in SUBSET Address
      /\ a.kind = "NxDomain" => version[n] = Gone
      /\ a.kind = "Records" => a.records # {}
  BY ReplyTypes DEF Lost
<1>3. /\ aaaa.records \in SUBSET Address
      /\ aaaa.kind = "NxDomain" => version[n] = Gone
  BY ReplyTypes DEF Lost, NoData
<1>4. /\ Combine(a, aaaa) \in {Silent, Absent} \cup {S \in SUBSET Address : S # {}}
      /\ Combine(a, aaaa) = Absent => version[n] = Gone
  <2> DEFINE R == a.records \cup aaaa.records
  <2>1. R \in SUBSET Address /\ R # Absent
    BY <1>2, <1>3, LookupAssumption
  <2>2. CASE R # {}
    <3>1. Combine(a, aaaa) = R
      BY <2>2 DEF Combine
    <3>2. Combine(a, aaaa) \in SUBSET Address /\ Combine(a, aaaa) # {}
          /\ Combine(a, aaaa) # Absent
      BY <2>1, <2>2, <3>1
    <3> QED BY <3>2
  <2>3. CASE R = {} /\ "NxDomain" \in {a.kind, aaaa.kind}
    <3>1. version[n] = Gone
      BY <1>2, <1>3, <2>3
    <3> QED BY <2>3, <3>1 DEF Combine
  <2>4. CASE R = {} /\ "NxDomain" \notin {a.kind, aaaa.kind}
    <3>1. "Failed" \in {a.kind, aaaa.kind}
      BY <1>2, <2>4
    <3> QED BY <2>4, <3>1, LookupAssumption DEF Combine
  <2> QED BY <2>2, <2>3, <2>4
<1> QED BY <1>1, <1>4

LEMMA PinsTypeInit == PinsInit => PinsTypeOK
<1> SUFFICES ASSUME PinsInit PROVE PinsTypeOK
  OBVIOUS
<1>1. version \in [Name -> 0..MaxVersion]
  BY BoundAssumption DEF PinsInit, Gone
<1>2. /\ absent \in [Name -> -1..Expiry] /\ quiet \in [Name -> 0..Expiry]
      /\ missing \in [Name -> BOOLEAN]
  BY ExpiryAssumption DEF PinsInit, None
<1>3. /\ results \in [Name -> {Unasked, Silent, Absent} \cup SUBSET Address]
      /\ held \in [Name -> SUBSET Address] /\ file \in [Name -> SUBSET Address]
  BY DEF PinsInit
<1> QED BY <1>1, <1>2, <1>3 DEF PinsInit, PinsTypeOK

\* An age that runs goes on running, and stops at the expiry.
LEMMA LaterType == ASSUME NEW t \in -1..Expiry
                   PROVE  /\ Later(t, Expiry) \in -1..Expiry
                          /\ t \in Nat => Later(t, Expiry) \in 0..Expiry
BY ExpiryAssumption DEF Later, None

LEMMA PinsTypeNext == PinsTypeOK /\ [PinsNext]_pinsVars => PinsTypeOK'
<1> SUFFICES ASSUME PinsTypeOK, [PinsNext]_pinsVars PROVE PinsTypeOK'
  OBVIOUS
<1>1. CASE Gather
  <2>1. asked' \subseteq Name \ Literal
    BY <1>1, NameAssumption DEF Gather, Pinnable, PinsTypeOK
  <2>2. results' \in [Name -> {Unasked, Silent, Absent} \cup SUBSET Address]
    BY <1>1 DEF Gather
  <2> QED BY <1>1, <2>1, <2>2 DEF Gather, PinsTypeOK, worldVars, tableVars, fileVars, historyVars
<1>2. ASSUME NEW n \in Name, Lookup(n) \/ LookupLossy(n) PROVE PinsTypeOK'
  <2>1. Asking(n) /\ faults' \in Nat
    BY <1>2 DEF Lookup, LookupLossy, Fault, PinsTypeOK
  <2>2. results' \in [Name -> {Unasked, Silent, Absent} \cup SUBSET Address]
    BY <1>2, LookupOutcome DEF PinsTypeOK
  <2>3. missing' \in [Name -> BOOLEAN]
    BY <2>1 DEF Asking, PinsTypeOK
  <2> QED BY <2>1, <2>2, <2>3 DEF Asking, PinsTypeOK, worldVars, tableVars, fileVars
<1>3. CASE Observe
  <2>1. held' \in [Name -> SUBSET Address]
    BY <1>3, TableTypes DEF Observe
  <2>2. absent' \in [Name -> -1..Expiry]
    BY <1>3, TableTypes, ExpiryAssumption DEF Observe, None
  <2>3. /\ entries' \subseteq Name \ Literal /\ quiet' \in [Name -> 0..Expiry]
        /\ phase' \in {"slept", "write"} /\ asked' = {}
        /\ results' \in [Name -> {Unasked, Silent, Absent} \cup SUBSET Address]
    BY <1>3, ExpiryAssumption DEF Observe, PinsTypeOK
  <2> QED BY <1>3, <2>1, <2>2, <2>3 DEF Observe, PinsTypeOK, worldVars, fileVars
<1>4. CASE Write
  <2>1. tail' \subseteq Name \X Address
    BY <1>4, TableTypes DEF Write
  <2> QED BY <1>4, <2>1 DEF Write, PinsTypeOK, worldVars, tableVars, historyVars
<1>5. CASE Truncate
  <2>1. last' \in {NoBlock} \cup [Name -> SUBSET Address]
    BY <1>5 DEF Truncate, Written, PinsTypeOK
  <2> QED BY <1>5, <2>1 DEF Truncate, PinsTypeOK, worldVars, historyVars
<1>6. CASE WriteFails \/ TruncateFails
  <2>1. CASE WriteFails
    BY <2>1 DEF WriteFails, Fault, Remembered, PinsTypeOK, worldVars, fileVars, historyVars
  <2>2. CASE TruncateFails
    BY <2>2 DEF TruncateFails, Fault, Remembered, PinsTypeOK, worldVars
  <2> QED BY <1>6, <2>1, <2>2
<1>7. CASE Panic
  <2>1. /\ held' \in [Name -> SUBSET Address] /\ absent' \in [Name -> -1..Expiry]
        /\ results' \in [Name -> {Unasked, Silent, Absent} \cup SUBSET Address]
    BY <1>7, ExpiryAssumption DEF Panic, None
  <2> QED BY <1>7, <2>1 DEF Panic, Fault, PinsTypeOK, worldVars, fileVars
<1>8. CASE Tick
  <2>1. absent' \in [Name -> -1..Expiry]
    BY <1>8, LaterType DEF Tick, PinsTypeOK
  <2>2. quiet' \in [Name -> 0..Expiry]
    BY <1>8, LaterType DEF Tick, PinsTypeOK
  <2> QED BY <1>8, <2>1, <2>2 DEF Tick, PinsTypeOK, worldVars, fileVars
<1>9. ASSUME NEW n \in Name, Redeploy(n) \/ Gossip(n) PROVE PinsTypeOK'
  <2>1. CASE Redeploy(n)
    BY <2>1 DEF Redeploy, Moving, PinsTypeOK, loopVars, tableVars, fileVars, historyVars
  <2>2. CASE Gossip(n)
    BY <2>2 DEF Gossip, Moving, PinsTypeOK, loopVars, tableVars, fileVars, historyVars
  <2> QED BY <1>9, <2>1, <2>2
<1>10. CASE Stall \/ StallEnds
  <2>1. answering' \in BOOLEAN /\ moves' \in Nat
    <3>1. answering' \in BOOLEAN
      BY <1>10 DEF Stall, StallEnds
    <3>2. moves' \in Nat
      BY <1>10 DEF Stall, StallEnds, Moving, PinsTypeOK
    <3> QED BY <3>1, <3>2
  <2>2. UNCHANGED <<version, members, loopVars, tableVars, fileVars, historyVars, faults>>
    BY <1>10 DEF Stall, StallEnds, Moving
  <2> QED BY <2>1, <2>2 DEF PinsTypeOK, loopVars, tableVars, fileVars, historyVars
<1>11. CASE UNCHANGED pinsVars
  BY <1>11 DEF pinsVars, worldVars, loopVars, tableVars, fileVars, historyVars, PinsTypeOK
<1> QED BY <1>1, <1>2, <1>3, <1>4, <1>5, <1>6, <1>7, <1>8, <1>9, <1>10, <1>11 DEF PinsNext, Refresh

\* Every variable keeps its type: no literal is ever asked for or listed, and no age
\* passes the expiry.
THEOREM PinsTypeCorrect == PinsSpec => []PinsTypeOK
BY PinsTypeInit, PinsTypeNext, PTL DEF PinsSpec

-----------------------------------------------------------------------------
(***************************************************************************)
(* The pins.  The inductive invariant says why a refresh that finds the    *)
(* table equal to last_block may skip the write (the file follows          *)
(* last_block except in the middle of a write), and why a name that the    *)
(* table has dropped and the file has not may leave it.                    *)
(***************************************************************************)
\* The name was gone when it was denied; an answer gives an address; and the clock of
\* a denial is never ahead of the time without an answer.
AnswersAreSound ==
    /\ \A n \in Name : results[n] # {} /\ absent[n] <= quiet[n]
    /\ phase = "lookup" => \A n \in Name : Denied(n) => missing[n]

\* What last_block remembers is in the file, but for a write that is half done
FileFollows ==
    /\ phase = "truncate" => file = held
    /\ ~torn /\ phase # "truncate" /\ last # NoBlock => file = last

\* A name the table has dropped and the file has not was denied for long enough
DroppedLate ==
    \A n \in Name : ~respawned /\ held[n] = {} /\ Lines(n) # {}
        => quiet[n] >= Expiry /\ (missing[n] \/ (phase = "lookup" /\ Answered(n)))

PinInv == PinsTypeOK /\ AnswersAreSound /\ FileFollows /\ DroppedLate

LEMMA PinInit == PinsInit => PinInv
<1> SUFFICES ASSUME PinsInit PROVE AnswersAreSound /\ FileFollows /\ DroppedLate
  BY PinsTypeInit DEF PinInv
<1>1. AnswersAreSound
  BY LookupAssumption DEF PinsInit, AnswersAreSound, None
<1>2. DroppedLate
  BY DEF PinsInit, DroppedLate, Lines
<1> QED BY <1>1, <1>2 DEF PinsInit, FileFollows

LEMMA PinNext == PinInv /\ [PinsNext]_pinsVars => PinInv'
<1> SUFFICES ASSUME PinInv, [PinsNext]_pinsVars
             PROVE  (AnswersAreSound /\ FileFollows /\ DroppedLate)'
  BY PinsTypeNext DEF PinInv
<1> USE DEF PinInv
<1>a. LinesOf(file) = {l \in Name \X Address : l[2] \in file[l[1]]}
  BY DEF LinesOf, PinsTypeOK
<1>1. CASE Gather
  <2>1. phase = "due" /\ phase' = "lookup" /\ results' = [n \in Name |-> Unasked]
    BY <1>1 DEF Gather
  <2>2. AnswersAreSound'
    BY <1>1, <2>1, LookupAssumption
       DEF Gather, AnswersAreSound, Denied, tableVars, historyVars
  <2> QED BY <1>1, <2>1, <2>2
          DEF Gather, tableVars, fileVars, historyVars, FileFollows, DroppedLate, Lines
<1>2. ASSUME NEW n \in Name, Lookup(n) \/ LookupLossy(n)
      PROVE  (AnswersAreSound /\ FileFollows /\ DroppedLate)'
  <2>1. Asking(n)
    BY <1>2 DEF Lookup, LookupLossy
  <2>2. PICK v \in {Silent, Absent} \cup {S \in SUBSET Address : S # {}} :
              /\ results' = [results EXCEPT ![n] = v]
              /\ v = Absent => version[n] = Gone
    BY <1>2, LookupOutcome
  <2>5. \A m \in Name : results'[m] # {} /\ absent'[m] <= quiet'[m]
    <3>1. v # {}
      <4>1. {} \in SUBSET Address
        OBVIOUS
      <4>2. {} # Silent /\ {} # Absent
        BY <4>1, LookupAssumption
      <4> QED BY <4>2
    <3>2. \A m \in Name : results'[m] # {}
      BY <2>2, <3>1 DEF AnswersAreSound, PinsTypeOK
    <3> QED BY <2>1, <3>2 DEF Asking, AnswersAreSound, tableVars
  <2>6. ASSUME NEW m \in Name, Denied(m)' PROVE missing'[m]
    <3>1. CASE m = n
      BY <2>1, <2>2, <2>6, <3>1, LookupAssumption DEF Asking, Denied, PinsTypeOK
    <3>2. CASE m # n
      BY <2>1, <2>2, <2>6, <3>2 DEF Asking, Denied, AnswersAreSound, PinsTypeOK
    <3> QED BY <3>1, <3>2
  <2>3. AnswersAreSound'
    BY <2>5, <2>6 DEF AnswersAreSound
  <2>4. ASSUME NEW m \in Name, missing[m] \/ (phase = "lookup" /\ Answered(m))
        PROVE  missing'[m] \/ Answered(m)'
    BY <2>1, <2>2, <2>4, LookupAssumption DEF Asking, Answered, PinsTypeOK
  <2> QED BY <2>1, <2>3, <2>4
          DEF Asking, tableVars, fileVars, FileFollows, DroppedLate, Lines
<1>3. CASE Observe
  <2>1. ASSUME NEW n \in Name, ~respawned, held'[n] = {}, Lines(n) # {}
        PROVE  quiet'[n] >= Expiry /\ missing'[n]
    <3>1. ~Answered(n)
      BY <1>3, <2>1 DEF Observe, Table, Addresses, AnswersAreSound
    <3>2. CASE Expired(n)
      BY <1>3, <3>1, <3>2, ExpiryAssumption
         DEF Observe, Expired, Denied, AbsentFor, AnswersAreSound, PinsTypeOK, None
    <3>3. CASE ~Expired(n)
      <4>1. held[n] = {}
        BY <1>3, <2>1, <3>1, <3>3 DEF Observe, Table
      <4> QED BY <1>3, <2>1, <3>1, <4>1 DEF Observe, DroppedLate
    <3> QED BY <3>2, <3>3
  <2>2. AnswersAreSound'
    BY <1>3, LookupAssumption
       DEF Observe, AnswersAreSound, Answered, AbsentFor, Denied, PinsTypeOK, None
  <2>3. DroppedLate'
    BY <1>3, <2>1 DEF Observe, fileVars, DroppedLate, Lines
  <2> QED BY <1>3, <2>2, <2>3 DEF Observe, fileVars, FileFollows
<1>4. CASE Write
  <2>1. tail' \subseteq LinesOf(file)
    BY <1>4 DEF Write
  <2>2. ASSUME NEW n \in Name, held[n] = {}, Lines(n)' # {} PROVE Lines(n) # {}
    <3>1. file'[n] = {} /\ stale' = stale
      BY <1>4, <2>2 DEF Write
    <3>2. PICK l \in tail' \cup stale : l[1] = n
      BY <2>2, <3>1 DEF Lines
    <3>3. CASE l \in stale
      BY <3>2, <3>3 DEF Lines
    <3>4. CASE l \in tail'
      BY <2>1, <3>2, <3>4, <1>a DEF Lines
    <3> QED BY <3>3, <3>4
  <2> QED BY <1>4, <2>2
          DEF Write, tableVars, historyVars, FileFollows, DroppedLate, AnswersAreSound, Denied
<1>5. CASE Truncate
  <2>1. \A n \in Name : Lines(n)' # {} => Lines(n) # {}
    BY <1>5 DEF Truncate, Lines
  <2>2. FileFollows'
    BY <1>5 DEF Truncate, Written, FileFollows
  <2> QED BY <1>5, <2>1, <2>2 DEF Truncate, DroppedLate, AnswersAreSound, Denied
<1>6. CASE WriteFails
  BY <1>6 DEF WriteFails, Remembered, fileVars, historyVars, FileFollows, DroppedLate, Lines,
     AnswersAreSound, Denied
<1>7. CASE TruncateFails
  <2>1. \A n \in Name : Lines(n)' = Lines(n)
    BY <1>7 DEF TruncateFails, Lines
  <2> QED BY <1>7, <2>1 DEF TruncateFails, FileFollows, DroppedLate, AnswersAreSound, Denied
<1>8. CASE Panic
  <2>1. AnswersAreSound'
    BY <1>8, LookupAssumption DEF Panic, AnswersAreSound, PinsTypeOK, None
  <2> QED BY <1>8, <2>1 DEF Panic, FileFollows, DroppedLate
<1>9. CASE Tick
  <2>1. ASSUME NEW n \in Name
        PROVE  absent'[n] <= quiet'[n] /\ (quiet[n] >= Expiry => quiet'[n] >= Expiry)
    <3>1. absent[n] \in -1..Expiry /\ quiet[n] \in 0..Expiry /\ absent[n] <= quiet[n]
      BY DEF PinsTypeOK, AnswersAreSound
    <3>2. absent'[n] = Later(absent[n], Expiry) /\ quiet'[n] = Later(quiet[n], Expiry)
      BY <1>9 DEF Tick, PinsTypeOK
    <3> QED BY <3>1, <3>2, ExpiryAssumption DEF Later, None
  <2> QED BY <1>9, <2>1 DEF Tick, fileVars, FileFollows, DroppedLate, Lines, AnswersAreSound
<1>10. ASSUME NEW n \in Name, Redeploy(n) \/ Gossip(n)
       PROVE  UNCHANGED <<loopVars, tableVars, fileVars, historyVars>>
  BY <1>10 DEF Redeploy, Gossip, Moving
<1>11. CASE Stall \/ StallEnds
  BY <1>11 DEF Stall, StallEnds, Moving, loopVars, tableVars, fileVars, historyVars, FileFollows,
     DroppedLate, Lines, AnswersAreSound, Denied, Answered
<1>12. CASE UNCHANGED <<loopVars, tableVars, fileVars, historyVars>>
  BY <1>12 DEF loopVars, tableVars, fileVars, historyVars, FileFollows, DroppedLate, Lines,
     AnswersAreSound, Denied, Answered
<1>13. UNCHANGED pinsVars => UNCHANGED <<loopVars, tableVars, fileVars, historyVars>>
  BY DEF pinsVars
<1> QED BY <1>1, <1>2, <1>3, <1>4, <1>5, <1>6, <1>7, <1>8, <1>9, <1>10, <1>11, <1>12, <1>13
        DEF PinsNext, Refresh

\* Where the last write to touch the file completed, a refresh that skips the write
\* finds in the file the very table that last_block remembers, whatever writes failed
\* before it and however often the loop panicked.
THEOREM FileAlwaysTable == PinsSpec => []FileIsTable
<1>1. PinInv => FileIsTable
  <2> SUFFICES ASSUME PinInv, phase = "slept", last = held, ~torn PROVE file = held
    BY DEF FileIsTable
  <2>1. CASE last # NoBlock
    BY <2>1 DEF PinInv, FileFollows
  <2>2. CASE last = NoBlock
    <3>1. DOMAIN held = Name /\ DOMAIN held = {}
      BY <2>2 DEF PinInv, PinsTypeOK, NoBlock
    <3> QED BY <3>1 DEF PinInv, PinsTypeOK
  <2> QED BY <2>1, <2>2
<1> QED BY PinInit, PinNext, <1>1, PTL DEF PinsSpec

\* A step after which a name resolves from the file no more
LEMMA HeldStep ==
    ASSUME PinInv, [PinsNext]_pinsVars, NEW n \in Name, ~respawned', Lines(n) # {}, Lines(n)' = {}
    PROVE  quiet[n] >= Expiry /\ missing[n]
<1>1. CASE Write
  <2>1. held[n] = {} /\ phase = "write" /\ respawned' = respawned
    BY <1>1 DEF Write, Lines, historyVars
  <2> QED BY <2>1 DEF PinInv, DroppedLate
<1>2. CASE Truncate
  <2>1. held[n] = {} /\ phase = "truncate" /\ respawned' = respawned
    BY <1>2 DEF Truncate, Lines, PinInv, FileFollows
  <2> QED BY <2>1 DEF PinInv, DroppedLate
<1>3. CASE TruncateFails
  BY <1>3 DEF TruncateFails, Lines
<1>4. CASE UNCHANGED fileVars
  BY <1>4 DEF fileVars, Lines
<1>5. ASSUME NEW m \in Name, Lookup(m) \/ LookupLossy(m) \/ Redeploy(m) \/ Gossip(m)
      PROVE  UNCHANGED fileVars
  BY <1>5 DEF Lookup, LookupLossy, Asking, Redeploy, Gossip, Moving
<1>6. ASSUME Gather \/ Observe \/ WriteFails \/ Panic \/ Tick \/ Stall \/ StallEnds
      PROVE  UNCHANGED fileVars
  BY <1>6 DEF Gather, Observe, WriteFails, Panic, Tick, Stall, StallEnds, Moving
<1>7. UNCHANGED pinsVars => UNCHANGED fileVars
  BY DEF pinsVars
<1> QED BY <1>1, <1>2, <1>3, <1>4, <1>5, <1>6, <1>7 DEF PinsNext, Refresh

\* A name stops resolving from the file only when the resolver has given no address of
\* it for the whole expiry and last said it has none; never by a stall, a lost query or
\* a write half done, as long as the loop has not been respawned.
THEOREM AlwaysHeldThroughStalls == PinsSpec => HeldThroughStalls
<1>1. PinInv /\ [PinsNext]_pinsVars =>
        [\A n \in Name : ~respawned' /\ Lines(n) # {} /\ Lines(n)' = {}
             => quiet[n] >= Expiry /\ missing[n]]_pinsVars
  BY HeldStep
<1> QED BY PinInit, PinNext, <1>1, PTL DEF PinsSpec, HeldThroughStalls

-----------------------------------------------------------------------------
(***************************************************************************)
(* The fence.                                                              *)
(*                                                                         *)
(* The argument.  The side that may fail over is a majority of the members *)
(* at the cut, so the other side is a minority, and a fence of majority-1  *)
(* cannot be met there.  What remains is that nothing lowers the fence     *)
(* before the network heals.  The watcher sizes it by the peers its        *)
(* Sentinel KNOWS, and those go on to cover the members at the cut: gossip *)
(* adds none (the reachable ones are known), and the prune does not reset. *)
(* Either the poll has seen the whole far side down, and then neither are  *)
(* the live peers a majority of the known ones nor have all the dead ones' *)
(* names been deleted; or it reads flags older than the cut, as the poll in*)
(* progress and the next may, and then no window is past its dwell before  *)
(* the flags have caught up.  A restart keeps the peers and takes the fence*)
(* from a stamp that covers the members.                                   *)
(***************************************************************************)
USE Membership, Windows, Bounds

-----------------------------------------------------------------------------
(***************************************************************************)
(* Counting.                                                               *)
(***************************************************************************)

\* A subset is no larger.
LEMMA SubsetSize ==
    ASSUME NEW B, IsFiniteSet(B), NEW A \in SUBSET B
    PROVE  /\ IsFiniteSet(A)
           /\ Cardinality(A) \in Nat /\ Cardinality(B) \in Nat
           /\ Cardinality(A) <= Cardinality(B)
  BY FS_Subset, FS_CardinalityType

\* Two parts of a set add up to it.
LEMMA PartSize ==
    ASSUME NEW B, IsFiniteSet(B), NEW A \in SUBSET B
    PROVE  /\ Cardinality(A) \in Nat /\ Cardinality(B) \in Nat
           /\ Cardinality(B \ A) = Cardinality(B) - Cardinality(A)
  <1>1. A \cap B = A /\ B \cap A = A
    OBVIOUS
  <1>2. Cardinality(B \ A) = Cardinality(B) - Cardinality(B \cap A)
    BY FS_Difference
  <1> QED
    BY <1>1, <1>2, SubsetSize

\* The peers of a member are one fewer than the members.
LEMMA PeersSize ==
    ASSUME NEW B, IsFiniteSet(B), NEW x \in B
    PROVE  /\ Cardinality(B) \in Nat \ {0}
           /\ Cardinality(B \ {x}) = Cardinality(B) - 1
  BY FS_RemoveElement, FS_CardinalityType, FS_EmptySet

\* The fence of n members is half of them, rounded down (redis_conf.rs,
\* min_replicas_to_write over quorum.rs, desired_quorum).
LEMMA FenceSize ==
    ASSUME NEW n \in Nat, n >= 2
    PROVE  /\ DesiredFence(n - 1) = n \div 2
           /\ MinReplicasToWrite(Majority(n)) = n \div 2
  BY DEF DesiredFence, MinReplicasToWrite, Majority, AtLeast

\* A larger cluster has a fence at least as high.
LEMMA FenceGrows ==
    ASSUME NEW n \in Nat \ {0}, NEW m \in Nat, m <= n
    PROVE  MinReplicasToWrite(Majority(n)) >= m \div 2
  BY DEF MinReplicasToWrite, Majority, AtLeast

\* A Sentinel that knows more peers wants a fence at least as high.
LEMMA DesiredGrows ==
    ASSUME NEW k \in Nat, NEW m \in Nat, m >= 2, m <= k + 1
    PROVE  DesiredFence(k) >= m \div 2
  BY DEF DesiredFence, MinReplicasToWrite, Majority, AtLeast

\* What the decisions return.
LEMMA DecisionTypes ==
    /\ \A n \in Nat \ {0} : Majority(n) \in Nat \ {0, 1}
    /\ \A q \in Nat \ {0, 1} : MinReplicasToWrite(q) \in Nat \ {0}
    /\ \A n \in Nat : DesiredQuorum(n) \in Nat /\ DesiredQuorum(n) # 1
    /\ \A n \in Nat : DesiredFence(n) \in Nat
  <1>1. \A n \in Nat \ {0} : Majority(n) \in Nat \ {0, 1}
    BY DEF Majority, AtLeast
  <1>2. \A q \in Nat \ {0, 1} : MinReplicasToWrite(q) \in Nat \ {0}
    BY DEF MinReplicasToWrite, AtLeast
  <1>3. \A n \in Nat : n + 1 \in Nat \ {0}
    OBVIOUS
  <1>4. \A n \in Nat : DesiredQuorum(n) \in Nat /\ DesiredQuorum(n) # 1
    BY <1>1, <1>3 DEF DesiredQuorum
  <1>5. \A n \in Nat : DesiredFence(n) \in Nat
    BY <1>1, <1>2, <1>3 DEF DesiredFence
  <1> QED
    BY <1>1, <1>2, <1>4, <1>5

\* step_drift keeps its window's type, and serves only a wanted value.
LEMMA DriftTypes ==
    ASSUME NEW current \in Nat, NEW desired \in Nat,
           NEW d \in [desired : Nat, polls : 0..Dwell]
    PROVE  /\ NoDrift \in [desired : Nat, polls : 0..Dwell]
           /\ StepDrift(current, desired, d) \in [desired : Nat, polls : 0..Dwell]
           /\ Served(current, desired, d) => desired # 0
  BY DEF NoDrift, StepDrift, Served, AtMost

\* So do the prune's windows.
LEMMA WindowTypes ==
    ASSUME NEW w \in [Node -> 0..PruneDwell + 1], NEW S
    PROVE  /\ NoWindows \in [Node -> 0..PruneDwell + 1]
           /\ StepWindows(w, S) \in [Node -> 0..PruneDwell + 1]
  BY DEF NoWindows, StepWindows, AtMost

-----------------------------------------------------------------------------
(***************************************************************************)
(* Types.                                                                  *)
(***************************************************************************)

LEMMA TypeInit == Init => TypeOK
  <1> SUFFICES ASSUME Init PROVE TypeOK
    OBVIOUS
  <1>1. Cardinality(Founders) \in Nat \ {0}
    <2>1. IsFiniteSet(Founders)
      BY FS_Subset
    <2> QED
      BY <2>1, PeersSize
  <1>2. quorum \in Nat \ {0, 1} /\ fence \in Nat \ {0} /\ stamp \in Nat \ {0}
    BY <1>1, DecisionTypes DEF Init
  <1>3. /\ drift \in [desired : Nat, polls : 0..Dwell]
        /\ fenceDrift \in [desired : Nat, polls : 0..Dwell]
    BY DEF Init, NoDrift
  <1>4. /\ downFor \in [Node -> 0..PruneDwell + 1]
        /\ goneFor \in [Node -> 0..PruneDwell + 1]
    BY DEF Init, NoWindows
  <1>5. snap \in Peers /\ known \in SUBSET (Node \ {Self}) /\ sdown \in SUBSET known
    BY DEF Init, Peers
  <1>6. /\ sinceReset \in 0..Backoff
        /\ loopholes \subseteq {"memory", "fence", "prune", "stamp"}
        /\ cuts \in 0..MaxCuts /\ restarts \in 0..MaxRestarts /\ misses \in 0..MaxMisses
    BY DEF Init
  <1>7. /\ member \in SUBSET Node /\ near \in SUBSET member /\ Self \in near
        /\ removed \in SUBSET (Node \ member) /\ electorate \in SUBSET Node
    BY DEF Init
  <1> QED
    BY <1>2, <1>3, <1>4, <1>5, <1>6, <1>7 DEF Init, TypeOK

\* What a poll has read counts to a number.
LEMMA SnapCounts ==
    ASSUME TypeOK
    PROVE  /\ IsFiniteSet(member) /\ IsFiniteSet(electorate) /\ IsFiniteSet(known)
           /\ FencedPeersCount(snap) \in Nat
           /\ Cardinality(known \ sdown) \in Nat
  <1>1. member \in SUBSET Node /\ electorate \in SUBSET Node /\ known \in SUBSET Node
        /\ known \ sdown \in SUBSET Node /\ snap.known \in SUBSET Node
    BY DEF TypeOK, Peers
  <1> QED
    BY <1>1, SubsetSize DEF FencedPeersCount

LEMMA TypeStep == TypeOK /\ [Next]_vars => TypeOK'
  <1> SUFFICES ASSUME TypeOK, [Next]_vars PROVE TypeOK'
    OBVIOUS
  <1> USE DEF networkVars, sentinelVars, windowVars, pollVars, faultVars
  <1>0. /\ NoDrift \in [desired : Nat, polls : 0..Dwell]
        /\ NoWindows \in [Node -> 0..PruneDwell + 1]
    BY DEF NoDrift, NoWindows
  <1>1. CASE PollFails
    <2>1. sinceReset' \in 0..Backoff
      BY <1>1, Windows DEF PollFails, AtMost, TypeOK
    <2>2. misses' \in 0..MaxMisses
      BY <1>1, Bounds DEF PollFails, TypeOK
    <2> QED
      BY <1>0, <1>1, <2>1, <2>2 DEF PollFails, ClearObservations, TypeOK
  <1>2. ASSUME NEW setOk \in BOOLEAN, ReadSentinel(setOk) PROVE TypeOK'
    <2> DEFINE desired == DesiredQuorum(Cardinality(known \ sdown))
    <2>1. desired \in Nat /\ desired # 1
      BY SnapCounts, DecisionTypes
    <2>2. /\ StepDrift(quorum, desired, drift) \in [desired : Nat, polls : 0..Dwell]
          /\ Served(quorum, desired, drift) => desired # 0
      BY <2>1, DriftTypes DEF TypeOK
    <2>3. drift' \in [desired : Nat, polls : 0..Dwell]
      BY <1>0, <1>2, <2>2 DEF ReadSentinel
    <2>4. quorum' \in Nat \ {0, 1}
      BY <1>2, <2>1, <2>2 DEF ReadSentinel, TypeOK
    <2>5. snap' \in Peers /\ step' \in {"idle", "fence", "prune"}
          /\ flags' \in {"fresh", "stale", "seen"}
      BY <1>2 DEF ReadSentinel, TypeOK, Peers
    <2>6. misses' \in 0..MaxMisses
      BY <1>2 DEF ReadSentinel, TypeOK
    <2> QED
      BY <1>2, <2>3, <2>4, <2>5, <2>6 DEF ReadSentinel, TypeOK
  <1>3. ASSUME NEW setOk \in BOOLEAN, SyncFence(setOk) PROVE TypeOK'
    <2> DEFINE desired == DesiredFence(FencedPeersCount(snap))
    <2>1. desired \in Nat
      BY SnapCounts, DecisionTypes
    <2>2. /\ StepDrift(fence, desired, fenceDrift) \in [desired : Nat, polls : 0..Dwell]
          /\ Served(fence, desired, fenceDrift) => desired # 0
      BY <2>1, DriftTypes DEF TypeOK
    <2>3. fenceDrift' \in [desired : Nat, polls : 0..Dwell]
      BY <1>0, <1>3, <2>2 DEF SyncFence
    <2>4. fence' \in Nat \ {0}
      BY <1>3, <2>1, <2>2 DEF SyncFence, TypeOK
    <2>5. misses' \in 0..MaxMisses
      BY <1>3 DEF SyncFence, TypeOK
    <2> QED
      BY <1>3, <2>3, <2>4, <2>5 DEF SyncFence, TypeOK
  <1>4. CASE FenceUnread
    BY <1>0, <1>4 DEF FenceUnread, TypeOK
  <1>5. ASSUME NEW answered, NEW calm \in BOOLEAN, NEW resetOk \in BOOLEAN,
               Prune(answered, calm, resetOk)
        PROVE  TypeOK'
    <2>1. /\ StepWindows(downFor, snap.sdown) \in [Node -> 0..PruneDwell + 1]
          /\ StepWindows(goneFor, answered) \in [Node -> 0..PruneDwell + 1]
      BY WindowTypes DEF TypeOK
    <2>2. /\ downFor' \in [Node -> 0..PruneDwell + 1]
          /\ goneFor' \in [Node -> 0..PruneDwell + 1]
      BY <1>0, <1>5, <2>1 DEF Prune
    <2>3. sinceReset' \in 0..Backoff
      BY <1>5 DEF Prune, AtMost, TypeOK
    <2>4. misses' \in 0..MaxMisses
      BY <1>5 DEF Prune, TypeOK
    <2>5. known' \in SUBSET (Node \ {Self}) /\ sdown' \in SUBSET known' /\ snap' \in Peers
      BY <1>5 DEF Prune, TypeOK, Peers
    <2> QED
      BY <1>5, <2>2, <2>3, <2>4, <2>5 DEF Prune, TypeOK
  <1>6. CASE Detect
    BY <1>6 DEF Detect, TypeOK
  <1>7. ASSUME NEW p \in Node, Discover(p) PROVE TypeOK'
    BY <1>7 DEF Discover, TypeOK
  <1>8. CASE Restart
    <2>1. fence' \in Nat \ {0}
      BY <1>8, DecisionTypes DEF Restart, BootFence, FenceOf, TypeOK
    <2>2. snap' \in Peers
      BY <1>8 DEF Restart, Peers
    <2>3. loopholes' \subseteq {"memory", "fence", "prune", "stamp"}
      BY <1>8 DEF Restart, TypeOK
    <2> QED
      BY <1>0, <1>8, <2>1, <2>2, <2>3 DEF Restart, ClearObservations, TypeOK
  <1>9. ASSUME NEW p \in Node, NEW r \in BOOLEAN, Join(p, r) PROVE TypeOK'
    <2>1. member' \in SUBSET Node /\ Self \in member'
      BY <1>9 DEF Join, TypeOK
    <2>2. Cardinality(member') \in Nat \ {0}
      <3>1. IsFiniteSet(member')
        BY <2>1, FS_Subset
      <3> QED
        BY <2>1, <3>1, PeersSize
    <2>3. stamp' \in Nat \ {0}
      BY <1>9, <2>2 DEF Join, TypeOK
    <2> QED
      BY <1>9, <2>1, <2>3 DEF Join, TypeOK
  <1>10. ASSUME NEW p \in Node, NEW r \in BOOLEAN, Remove(p, r) PROVE TypeOK'
    <2>1. member' \in SUBSET Node /\ Self \in member'
      BY <1>10 DEF Remove, TypeOK
    <2>2. Cardinality(member') \in Nat \ {0}
      <3>1. IsFiniteSet(member')
        BY <2>1, FS_Subset
      <3> QED
        BY <2>1, <3>1, PeersSize
    <2>3. stamp' \in Nat \ {0}
      BY <1>10, <2>2 DEF Remove, TypeOK
    <2>4. failedOver' \in BOOLEAN
      BY <1>10 DEF Remove
    <2> QED
      BY <1>10, <2>1, <2>3, <2>4 DEF Remove, TypeOK
  <1>11. ASSUME NEW S \in SUBSET member, Cut(S) PROVE TypeOK'
    <2>1. loopholes' \subseteq {"memory", "fence", "prune", "stamp"}
      BY <1>11 DEF Cut, Unready
    <2> QED
      BY <1>11, <2>1 DEF Cut, TypeOK
  <1>12. CASE FailOver
    BY <1>12 DEF FailOver, TypeOK
  <1>13. CASE Heal
    BY <1>13 DEF Heal, TypeOK
  <1>14. CASE UNCHANGED vars
    BY <1>14 DEF vars, TypeOK
  <1> QED
    BY <1>1, <1>2, <1>3, <1>4, <1>5, <1>6, <1>7, <1>8, <1>9, <1>10, <1>11, <1>12, <1>13,
       <1>14 DEF Next, Poll, Sentinel, Environment

\* Every variable keeps its type, whatever the faults.
THEOREM TypeCorrect == Spec => []TypeOK
  BY TypeInit, TypeStep, PTL DEF Spec

-----------------------------------------------------------------------------
(***************************************************************************)
(* The inductive invariant.                                                *)
(***************************************************************************)

\* A cut leaves no member behind that was not one when it struck, and the far
\* side has a master of its own only while Self's side is a minority.
CutShape ==
    /\ near # member => member \subseteq electorate
    /\ failedOver => near # member /\ 2 * Cardinality(near) < Cardinality(electorate)

\* The far side is, or has been, able to elect a master.
Cutoff ==
    near # member /\ (failedOver \/ 2 * Cardinality(far) > Cardinality(electorate))

\* S holds the whole far side and every peer that was deleted before the cut, and
\* what is left of the members at the cut is a minority.
SeenDown(S) ==
    /\ far \subseteq S /\ known \ S \subseteq electorate
    /\ 2 * Cardinality(electorate \ S) < Cardinality(electorate)

\* No peer is past its dwell within n polls.
NoneDue(n) == \A p \in Node : downFor[p] + n <= PruneDwell

\* The members at the cut, but for Self.
Voters == electorate \ {Self}

\* The cut found the Sentinel's memory whole and no prune near.
QuietMemory == loopholes \cap {"memory", "prune"} = {}

\* Self's Sentinel knows the members at the cut.  Before it has detected the cut, no
\* prune is near; and a poll in progress has seen the far side down, or prunes no one.
MemoryHolds ==
    Cutoff /\ QuietMemory =>
        /\ Voters \subseteq known
        /\ \/ SeenDown(sdown)
           \/ flags = "seen"
           \/ flags = "stale" /\ NoneDue(IF step = "idle" THEN 1 ELSE 2)
        /\ step # "idle" => \/ SeenDown(snap.sdown) /\ SeenDown(sdown) /\ snap.known = known
                           \/ NoneDue(1)

\* The fence is half the members at the cut, and no poll is about to size it by fewer.
FenceHolds ==
    Cutoff /\ loopholes = {} =>
        /\ fence >= Cardinality(electorate) \div 2
        /\ step = "fence" => Voters \subseteq snap.known

FenceInv == TypeOK /\ CutShape /\ MemoryHolds /\ FenceHolds

-----------------------------------------------------------------------------
(***************************************************************************)
(* What a cutoff means.                                                    *)
(***************************************************************************)

\* Self is among at least two members at the cut, its side is a minority of
\* them, and someone is on the other side.
LEMMA CutoffShape ==
    ASSUME TypeOK, CutShape, Cutoff
    PROVE  /\ IsFiniteSet(electorate)
           /\ Cardinality(electorate) \in Nat /\ Cardinality(electorate) >= 2
           /\ Self \in electorate /\ near \subseteq electorate /\ far # {}
           /\ 2 * Cardinality(near) < Cardinality(electorate)
           /\ Cardinality(electorate \ {Self}) = Cardinality(electorate) - 1
  <1>1. /\ member \subseteq electorate /\ near \subseteq member /\ Self \in near
        /\ far # {} /\ far = member \ near
    BY DEF TypeOK, CutShape, Cutoff, far
  <1>2. IsFiniteSet(electorate) /\ IsFiniteSet(member) /\ near \in SUBSET electorate
    BY <1>1, SnapCounts
  <1>3. /\ Cardinality(electorate) \in Nat /\ Cardinality(member) \in Nat
        /\ Cardinality(member) <= Cardinality(electorate)
    BY <1>1, <1>2, SubsetSize
  <1>4. /\ Cardinality(near) \in Nat
        /\ Cardinality(far) = Cardinality(member) - Cardinality(near)
    BY <1>1, <1>2, PartSize
  <1>5. 2 * Cardinality(near) < Cardinality(electorate)
    BY <1>3, <1>4 DEF Cutoff, CutShape
  <1>6. Cardinality(near) \in Nat \ {0}
    <2>1. IsFiniteSet(near)
      BY <1>2, FS_Subset
    <2> QED
      BY <1>1, <2>1, PeersSize
  <1>7. Self \in electorate
    BY <1>1
  <1>8. Cardinality(electorate \ {Self}) = Cardinality(electorate) - 1
    BY <1>2, <1>7, PeersSize
  <1> QED
    BY <1>1, <1>2, <1>3, <1>5, <1>6, <1>7, <1>8

\* What the Sentinel flags down once it has detected the cut.
LEMMA DetectedDown ==
    ASSUME TypeOK, CutShape, Cutoff, Voters \subseteq known
    PROVE  SeenDown(known \ near)
  <1>1. electorate \ (known \ near) = near
    BY CutoffShape DEF TypeOK, Voters
  <1>2. far \subseteq known \ near
    BY DEF TypeOK, CutShape, Cutoff, far, Voters
  <1>3. known \ (known \ near) \subseteq electorate
    BY CutoffShape
  <1> QED
    BY <1>1, <1>2, <1>3, CutoffShape DEF SeenDown

\* A poll that sees no peer past its dwell, or that sees the whole far side down,
\* does not reset: prune_dead_sentinels refuses to run on a minority.
LEMMA PruneRefuses ==
    ASSUME FenceInv, Cutoff, QuietMemory, step # "idle",
           NEW answered \in SUBSET (snap.sdown \cap removed)
    PROVE  ~(/\ Due(StepWindows(downFor, snap.sdown))
             /\ MayForget(StepWindows(goneFor, answered)))
  <1>1. CASE NoneDue(1)
    <2>1. \A p \in Node : StepWindows(downFor, snap.sdown)[p] <= PruneDwell
      BY <1>1 DEF NoneDue, StepWindows, AtMost, FenceInv, TypeOK
    <2> QED
      BY <2>1 DEF Due, PastDwell, StepWindows, AtMost, FenceInv, TypeOK
  <1>2. CASE SeenDown(snap.sdown) /\ snap.known = known
    <2>1. PICK p \in far : TRUE
      BY CutoffShape DEF FenceInv
    <2>2. p \in snap.sdown /\ p \in Node /\ p \notin answered
      BY <1>2, <2>1 DEF SeenDown, FenceInv, TypeOK, far
    <2>3. ~PastDwell(StepWindows(goneFor, answered), p)
      BY <2>2 DEF PastDwell, StepWindows
    <2>4. ~LiveIsMajorityOfKnown(snap)
      <3> DEFINE standing == electorate \ snap.sdown
      <3>1. Voters \subseteq snap.known
        BY <1>2 DEF FenceInv, MemoryHolds
      <3>2. Self \notin snap.sdown /\ Self \in electorate
        BY CutoffShape DEF FenceInv, TypeOK, Peers
      <3>3. snap.known \ snap.sdown \subseteq standing \ {Self} /\ Self \in standing
        BY <1>2, <3>2 DEF SeenDown, FenceInv, TypeOK
      <3>4. IsFiniteSet(standing) /\ IsFiniteSet(standing \ {Self}) /\ IsFiniteSet(snap.known)
        BY <1>2, CutoffShape, SnapCounts, FS_Difference DEF FenceInv
      <3>5. Cardinality(standing) \in Nat
            /\ Cardinality(standing \ {Self}) = Cardinality(standing) - 1
        BY <3>3, <3>4, PeersSize
      <3>6. Cardinality(snap.known \ snap.sdown) <= Cardinality(standing) - 1
            /\ Cardinality(snap.known \ snap.sdown) \in Nat
        BY <3>3, <3>4, <3>5, SubsetSize
      <3>7. 2 * Cardinality(standing) < Cardinality(electorate)
        BY <1>2 DEF SeenDown
      <3>8. Cardinality(electorate) - 1 <= Cardinality(snap.known)
            /\ Cardinality(snap.known) \in Nat /\ Cardinality(electorate) \in Nat
        BY <3>1, <3>4, CutoffShape, SubsetSize DEF Voters, FenceInv
      <3> HIDE DEF standing
      <3> QED
        BY <3>5, <3>6, <3>7, <3>8 DEF LiveIsMajorityOfKnown
    <2> QED
      BY <2>2, <2>3, <2>4 DEF MayForget
  <1> QED
    BY <1>1, <1>2 DEF FenceInv, MemoryHolds

-----------------------------------------------------------------------------
(***************************************************************************)
(* Every step keeps the invariant.                                         *)
(***************************************************************************)

LEMMA FenceInit == Init => FenceInv
  <1> SUFFICES ASSUME Init PROVE FenceInv
    OBVIOUS
  <1> QED
    BY TypeInit DEF Init, FenceInv, CutShape, MemoryHolds, FenceHolds, Cutoff

LEMMA ShapeStep == TypeOK /\ CutShape /\ [Next]_vars => CutShape'
  <1> SUFFICES ASSUME TypeOK, CutShape, [Next]_vars PROVE CutShape'
    OBVIOUS
  <1> USE DEF networkVars, sentinelVars, windowVars, pollVars, faultVars
  <1>1. CASE UNCHANGED networkVars
    BY <1>1 DEF CutShape
  <1>2. ASSUME NEW p \in Node, NEW r \in BOOLEAN, Join(p, r) PROVE CutShape'
    BY <1>2 DEF Join, CutShape, TypeOK
  <1>3. ASSUME NEW p \in Node, NEW r \in BOOLEAN, Remove(p, r) PROVE CutShape'
    <2>1. /\ member' \subseteq member /\ near' \subseteq near
          /\ near' # member' => near # member
          /\ electorate' = electorate
      BY <1>3 DEF Remove, TypeOK
    <2>2. failedOver' => failedOver /\ near' # member'
      BY <1>3 DEF Remove
    <2>3. /\ Cardinality(near') \in Nat /\ Cardinality(near) \in Nat
          /\ Cardinality(near') <= Cardinality(near)
      <3>1. IsFiniteSet(near)
        BY SnapCounts, FS_Subset DEF TypeOK
      <3> QED
        BY <2>1, <3>1, SubsetSize
    <2>4. Cardinality(electorate) \in Nat
      BY SnapCounts, FS_CardinalityType
    <2> QED
      BY <2>1, <2>2, <2>3, <2>4 DEF CutShape
  <1>4. ASSUME NEW S \in SUBSET member, Cut(S) PROVE CutShape'
    BY <1>4 DEF Cut, CutShape
  <1>5. CASE FailOver
    <2>1. Cutoff
      <3>1. far # {}
        <4>1. Cardinality(electorate) \in Nat
          BY SnapCounts, FS_CardinalityType
        <4>2. Cardinality(far) > 0
          <5>1. IsFiniteSet(far)
            BY SnapCounts, FS_Difference DEF far
          <5>2. Cardinality(far) \in Nat
            BY <5>1, FS_CardinalityType
          <5> QED
            BY <1>5, <4>1, <5>2 DEF FailOver
        <4> QED
          BY <4>2, FS_EmptySet
      <3> QED
        BY <1>5, <3>1 DEF FailOver, Cutoff, far, TypeOK
    <2>2. 2 * Cardinality(near) < Cardinality(electorate)
      BY <2>1, CutoffShape
    <2> QED
      BY <1>5, <2>1, <2>2 DEF FailOver, CutShape, Cutoff
  <1>6. CASE Heal
    BY <1>6 DEF Heal, CutShape
  <1>7. CASE Poll
    BY <1>1, <1>7 DEF Poll, PollFails, ReadSentinel, SyncFence, FenceUnread, Prune
  <1>8. CASE Sentinel
    BY <1>1, <1>8 DEF Sentinel, Detect, Discover
  <1>9. CASE Restart
    BY <1>1, <1>9 DEF Restart
  <1>10. CASE UNCHANGED vars
    BY <1>1, <1>10 DEF vars
  <1> QED
    BY <1>2, <1>3, <1>4, <1>5, <1>6, <1>7, <1>8, <1>9, <1>10 DEF Next, Environment

\* Nothing but the steps of a partition touches what the invariant says of it.
LEMMA CutoffKept ==
    ASSUME UNCHANGED <<member, near, electorate, failedOver, known, loopholes>>
    PROVE  /\ Cutoff' <=> Cutoff
           /\ QuietMemory' <=> QuietMemory
           /\ Voters' = Voters
           /\ \A S : SeenDown(S)' <=> SeenDown(S)
  BY DEF Cutoff, QuietMemory, Voters, SeenDown, far

\* The watcher's own steps: what they leave of the Sentinel's memory.
LEMMA MemoryPoll ==
    ASSUME FenceInv, Poll PROVE MemoryHolds'
  <1> USE DEF networkVars, sentinelVars, windowVars, pollVars, faultVars
  <1> SUFFICES ASSUME Cutoff', QuietMemory' PROVE MemoryHolds'
    BY DEF MemoryHolds
  <1>1. UNCHANGED <<networkVars, loopholes>>
    BY DEF Poll, PollFails, ReadSentinel, SyncFence, FenceUnread, Prune
  <1>2. Cutoff /\ QuietMemory
    BY <1>1 DEF Cutoff, QuietMemory, far
  <1>3. /\ Voters \subseteq known
        /\ \/ SeenDown(sdown)
           \/ flags = "seen"
           \/ flags = "stale" /\ NoneDue(IF step = "idle" THEN 1 ELSE 2)
        /\ step # "idle" => \/ SeenDown(snap.sdown) /\ SeenDown(sdown) /\ snap.known = known
                           \/ NoneDue(1)
    BY <1>2 DEF FenceInv, MemoryHolds
  <1>4. \A p \in Node : downFor[p] \in 0..PruneDwell + 1
    BY DEF FenceInv, TypeOK
  <1>5. CASE PollFails
    <2>1. /\ UNCHANGED <<known, sdown, flags, step, snap>> /\ step = "idle"
          /\ downFor' = NoWindows
      BY <1>5 DEF PollFails, ClearObservations
    <2>2. NoneDue(1)'
      BY <2>1 DEF NoneDue, NoWindows
    <2> QED
      BY <1>1, <1>3, <2>1, <2>2, CutoffKept DEF MemoryHolds
  <1>6. ASSUME NEW setOk \in BOOLEAN, ReadSentinel(setOk) PROVE MemoryHolds'
    <2>1. /\ snap'.known = known /\ snap'.sdown = sdown /\ step = "idle" /\ step' = "fence"
          /\ UNCHANGED <<known, sdown, downFor>>
          /\ flags # "seen" /\ flags' = IF flags = "stale" THEN "seen" ELSE flags
      BY <1>6 DEF ReadSentinel
    <2>2. SeenDown(sdown) \/ (flags' = "seen" /\ NoneDue(1)')
      BY <1>3, <2>1 DEF NoneDue
    <2>3. SeenDown(sdown) => SeenDown(sdown)' /\ SeenDown(snap.sdown)'
      BY <1>1, <2>1 DEF SeenDown, far
    <2> QED
      BY <1>1, <1>3, <2>1, <2>2, <2>3, CutoffKept DEF MemoryHolds
  <1>7. CASE FenceUnread \/ \E setOk \in BOOLEAN : SyncFence(setOk)
    <2>1. /\ UNCHANGED <<known, sdown, flags, snap, downFor>>
          /\ step # "idle" /\ step' # "idle"
      BY <1>7 DEF FenceUnread, SyncFence
    <2>2. NoneDue(IF step = "idle" THEN 1 ELSE 2)
            => NoneDue(IF step = "idle" THEN 1 ELSE 2)'
      BY <2>1 DEF NoneDue
    <2>3. NoneDue(1) => NoneDue(1)'
      BY <2>1 DEF NoneDue
    <2> QED
      BY <1>1, <1>3, <2>1, <2>2, <2>3, CutoffKept DEF MemoryHolds
  <1>8. ASSUME NEW answered, NEW calm \in BOOLEAN, NEW resetOk \in BOOLEAN,
               Prune(answered, calm, resetOk)
        PROVE  MemoryHolds'
    <2>1. ~(/\ Due(StepWindows(downFor, snap.sdown))
            /\ MayForget(StepWindows(goneFor, answered)))
      BY <1>2, <1>8, PruneRefuses DEF Prune
    <2>2. /\ UNCHANGED <<known, sdown, flags>> /\ step' = "idle" /\ step # "idle"
          /\ downFor' = StepWindows(downFor, snap.sdown)
      BY <1>8, <2>1 DEF Prune
    <2>3. NoneDue(2) => NoneDue(1)'
      BY <1>4, <2>2 DEF NoneDue, StepWindows, AtMost
    <2> QED
      BY <1>1, <1>3, <2>2, <2>3, CutoffKept DEF MemoryHolds
  <1> QED
    BY <1>5, <1>6, <1>7, <1>8 DEF Poll

\* What they leave of the fence.
LEMMA FencePoll ==
    ASSUME FenceInv, Poll PROVE FenceHolds'
  <1> USE DEF networkVars, sentinelVars, windowVars, pollVars, faultVars
  <1> SUFFICES ASSUME Cutoff', loopholes' = {} PROVE FenceHolds'
    BY DEF FenceHolds
  <1>1. UNCHANGED <<networkVars, loopholes>>
    BY DEF Poll, PollFails, ReadSentinel, SyncFence, FenceUnread, Prune
  <1>2. Cutoff /\ loopholes = {} /\ QuietMemory
    BY <1>1 DEF Cutoff, QuietMemory, far
  <1>3. /\ fence >= Cardinality(electorate) \div 2
        /\ step = "fence" => Voters \subseteq snap.known
        /\ Voters \subseteq known
    BY <1>2 DEF FenceInv, FenceHolds, MemoryHolds
  <1>4. Voters' = Voters /\ electorate' = electorate
    BY <1>1 DEF Voters
  <1>5. CASE PollFails \/ FenceUnread
    BY <1>3, <1>4, <1>5 DEF PollFails, FenceUnread, FenceHolds
  <1>6. ASSUME NEW setOk \in BOOLEAN, ReadSentinel(setOk) PROVE FenceHolds'
    BY <1>3, <1>4, <1>6 DEF ReadSentinel, FenceHolds
  <1>7. ASSUME NEW setOk \in BOOLEAN, SyncFence(setOk) PROVE FenceHolds'
    <2>1. Cardinality(electorate) <= FencedPeersCount(snap) + 1
      <3>1. IsFiniteSet(snap.known) /\ Voters \in SUBSET snap.known
        BY <1>3, <1>7, SubsetSize DEF SyncFence, FenceInv, TypeOK, Peers
      <3> QED
        BY <1>2, <3>1, CutoffShape, SubsetSize DEF FencedPeersCount, Voters, FenceInv
    <2>2. DesiredFence(FencedPeersCount(snap)) >= Cardinality(electorate) \div 2
      BY <1>2, <2>1, CutoffShape, SnapCounts, DesiredGrows DEF FenceInv
    <2>3. fence' \in {fence, DesiredFence(FencedPeersCount(snap))} /\ step' # "fence"
      BY <1>7 DEF SyncFence
    <2> QED
      BY <1>3, <1>4, <2>2, <2>3 DEF FenceHolds
  <1>8. ASSUME NEW answered, NEW calm \in BOOLEAN, NEW resetOk \in BOOLEAN,
               Prune(answered, calm, resetOk)
        PROVE  FenceHolds'
    BY <1>3, <1>4, <1>8 DEF Prune, FenceHolds
  <1> QED
    BY <1>5, <1>6, <1>7, <1>8 DEF Poll

\* A deletion keeps what is cut off cut off.
LEMMA RemoveKeeps ==
    ASSUME FenceInv, NEW p \in Node, NEW r \in BOOLEAN, Remove(p, r), Cutoff'
    PROVE  Cutoff /\ far' \subseteq far
  <1>1. /\ near' # member' => near # member
        /\ far' \subseteq far /\ electorate' = electorate
    BY DEF Remove, TypeOK, FenceInv, far
  <1>2. /\ Cardinality(far') \in Nat /\ Cardinality(far) \in Nat
        /\ Cardinality(far') <= Cardinality(far)
    <2>1. IsFiniteSet(far)
      BY SnapCounts, FS_Difference DEF far, FenceInv
    <2> QED
      BY <1>1, <2>1, SubsetSize
  <1>3. Cardinality(electorate) \in Nat
    BY SnapCounts, FS_CardinalityType DEF FenceInv
  <1>4. near' # member' /\ near # member
    BY <1>1 DEF Cutoff
  <1>5. ASSUME failedOver' PROVE Cutoff
    BY <1>4, <1>5 DEF Remove, Cutoff
  <1>6. ASSUME 2 * Cardinality(far') > Cardinality(electorate) PROVE Cutoff
    BY <1>2, <1>3, <1>4, <1>6 DEF Cutoff
  <1>7. failedOver' \/ 2 * Cardinality(far') > Cardinality(electorate)
    BY <1>1 DEF Cutoff
  <1> QED
    BY <1>1, <1>5, <1>6, <1>7

\* Everyone else's steps: what they leave of the Sentinel's memory.
LEMMA MemoryOthers ==
    ASSUME FenceInv, Sentinel \/ Environment PROVE MemoryHolds'
  <1> USE DEF networkVars, sentinelVars, windowVars, pollVars, faultVars
  <1> SUFFICES ASSUME Cutoff', QuietMemory' PROVE MemoryHolds'
    BY DEF MemoryHolds
  <1>1. ASSUME Cutoff, QuietMemory
        PROVE  /\ Voters \subseteq known
               /\ \/ SeenDown(sdown)
                  \/ flags = "seen"
                  \/ flags = "stale" /\ NoneDue(IF step = "idle" THEN 1 ELSE 2)
               /\ step # "idle" =>
                     \/ SeenDown(snap.sdown) /\ SeenDown(sdown) /\ snap.known = known
                     \/ NoneDue(1)
    BY <1>1 DEF FenceInv, MemoryHolds
  <1>2. CASE Detect
    <2>1. UNCHANGED <<member, near, electorate, failedOver, known, loopholes, step, snap, downFor>>
      BY <1>2 DEF Detect
    <2>2. Cutoff /\ QuietMemory
      BY <2>1, CutoffKept
    <2>3. sdown' = known \ near /\ SeenDown(known \ near)
      BY <1>1, <1>2, <2>2, DetectedDown DEF Detect, FenceInv
    <2>4. SeenDown(sdown)' /\ (SeenDown(snap.sdown) => SeenDown(snap.sdown)')
      BY <2>1, <2>3 DEF SeenDown, far
    <2>5. NoneDue(1) => NoneDue(1)'
      BY <2>1 DEF NoneDue
    <2> QED
      BY <1>1, <2>1, <2>2, <2>4, <2>5 DEF MemoryHolds, Voters
  <1>3. ASSUME NEW p \in Node, Discover(p) PROVE MemoryHolds'
    <2>1. Cutoff /\ QuietMemory
      BY <1>3 DEF Discover, Cutoff, QuietMemory, far
    <2>2. p \in electorate /\ p # Self /\ p \notin known
      BY <1>3, <2>1, CutoffShape DEF Discover, FenceInv
    <2> QED
      BY <1>1, <2>1, <2>2 DEF Voters
  <1>4. CASE Restart
    <2>1. /\ UNCHANGED <<member, near, electorate, failedOver, known>>
          /\ step' = "idle" /\ flags' = "seen"
      BY <1>4 DEF Restart
    <2>2. Cutoff /\ QuietMemory
      BY <1>4, <2>1 DEF Restart, Cutoff, QuietMemory, far
    <2> QED
      BY <1>1, <2>1, <2>2 DEF MemoryHolds, Voters
  <1>5. ASSUME NEW p \in Node, NEW r \in BOOLEAN, Join(p, r) PROVE MemoryHolds'
    BY <1>5 DEF Join, Cutoff
  <1>6. ASSUME NEW p \in Node, NEW r \in BOOLEAN, Remove(p, r) PROVE MemoryHolds'
    <2>1. /\ UNCHANGED <<electorate, known, sdown, loopholes, step, snap, downFor>>
          /\ flags' = IF flags = "seen" THEN "seen" ELSE "stale"
      BY <1>6 DEF Remove
    <2>2. Cutoff /\ QuietMemory /\ far' \subseteq far
      BY <1>6, <2>1, RemoveKeeps DEF QuietMemory
    <2>3. \A S : SeenDown(S) => SeenDown(S)'
      BY <2>1, <2>2 DEF SeenDown
    <2>4. /\ NoneDue(1) => NoneDue(1)'
          /\ NoneDue(IF step = "idle" THEN 1 ELSE 2)
               => NoneDue(IF step = "idle" THEN 1 ELSE 2)'
      BY <2>1 DEF NoneDue
    <2> QED
      BY <1>1, <2>1, <2>2, <2>3, <2>4 DEF MemoryHolds, Voters
  <1>7. ASSUME NEW S \in SUBSET member, Cut(S) PROVE MemoryHolds'
    <2>1. /\ electorate' = member /\ flags' = "stale" /\ loopholes' = Unready
          /\ UNCHANGED <<known, sdown, snap, step, downFor>>
      BY <1>7 DEF Cut
    <2>2. ~MemoryLags /\ ~PruneNear
      BY <2>1 DEF Unready, QuietMemory
    <2>3. Voters' \subseteq known'
      BY <2>1, <2>2 DEF MemoryLags, Others, Voters
    <2>4. \A p \in Node : downFor[p] \in Int
      BY DEF FenceInv, TypeOK
    <2>5. NoneDue(IF step = "idle" THEN 1 ELSE 2)'
      BY <2>1, <2>2, <2>4 DEF PruneNear, NoneDue
    <2>6. NoneDue(1)'
      BY <2>1, <2>4, <2>5 DEF NoneDue
    <2> QED
      BY <2>1, <2>3, <2>5, <2>6 DEF MemoryHolds
  <1>8. CASE FailOver
    <2>1. UNCHANGED <<member, near, electorate, known, sdown, flags, loopholes, step, snap,
                      downFor>>
      BY <1>8 DEF FailOver
    <2>2. Cutoff /\ QuietMemory
      BY <1>8, <2>1 DEF FailOver, Cutoff, QuietMemory, far
    <2>3. \A S : SeenDown(S) => SeenDown(S)'
      BY <2>1 DEF SeenDown, far
    <2>4. /\ NoneDue(1) => NoneDue(1)'
          /\ NoneDue(IF step = "idle" THEN 1 ELSE 2)
               => NoneDue(IF step = "idle" THEN 1 ELSE 2)'
      BY <2>1 DEF NoneDue
    <2> QED
      BY <1>1, <2>1, <2>2, <2>3, <2>4 DEF MemoryHolds, Voters
  <1>9. CASE Heal
    BY <1>9 DEF Heal, Cutoff
  <1> QED
    BY <1>2, <1>3, <1>4, <1>5, <1>6, <1>7, <1>8, <1>9 DEF Sentinel, Environment

\* What they leave of the fence.
LEMMA FenceOthers ==
    ASSUME FenceInv, Sentinel \/ Environment PROVE FenceHolds'
  <1> USE DEF networkVars, sentinelVars, windowVars, pollVars, faultVars
  <1> SUFFICES ASSUME Cutoff', loopholes' = {} PROVE FenceHolds'
    BY DEF FenceHolds
  <1>1. ASSUME Cutoff, loopholes = {}
        PROVE  /\ fence >= Cardinality(electorate) \div 2
               /\ step = "fence" => Voters \subseteq snap.known
    BY <1>1 DEF FenceInv, FenceHolds
  <1>2. CASE Sentinel
    <2>1. UNCHANGED <<networkVars, loopholes, fence, step, snap>>
      BY <1>2 DEF Sentinel, Detect, Discover
    <2> QED
      BY <1>1, <2>1 DEF FenceHolds, Cutoff, Voters, far
  <1>3. CASE Restart
    <2>1. /\ UNCHANGED <<member, near, electorate, failedOver>>
          /\ step' = "idle" /\ fence' = FenceOf(stamp)
      BY <1>3 DEF Restart, BootFence
    <2>2. Cutoff /\ far # {}
      BY <2>1, CutoffShape DEF Cutoff, far, FenceInv
    <2>3. ~(stamp < Cardinality(electorate))
      BY <1>3, <2>2 DEF Restart
    <2>4. stamp \in Nat \ {0} /\ Cardinality(electorate) \in Nat
      BY SnapCounts, FS_CardinalityType DEF FenceInv, TypeOK
    <2>5. fence' >= Cardinality(electorate) \div 2
      BY <2>1, <2>3, <2>4, FenceGrows DEF FenceOf
    <2> QED
      BY <2>1, <2>5 DEF FenceHolds
  <1>4. ASSUME NEW p \in Node, NEW r \in BOOLEAN, Join(p, r) PROVE FenceHolds'
    BY <1>4 DEF Join, Cutoff
  <1>5. ASSUME NEW p \in Node, NEW r \in BOOLEAN, Remove(p, r) PROVE FenceHolds'
    <2>1. UNCHANGED <<electorate, fence, loopholes, step, snap>>
      BY <1>5 DEF Remove
    <2>2. Cutoff
      BY <1>5, RemoveKeeps
    <2> QED
      BY <1>1, <2>1, <2>2 DEF FenceHolds, Voters
  <1>6. ASSUME NEW S \in SUBSET member, Cut(S) PROVE FenceHolds'
    <2>1. /\ electorate' = member /\ loopholes' = Unready
          /\ UNCHANGED <<fence, snap, step>>
      BY <1>6 DEF Cut
    <2>2. ~FenceLags
      BY <2>1 DEF Unready
    <2>3. Cardinality(member) \in Nat \ {0}
      BY SnapCounts, PeersSize DEF FenceInv, TypeOK
    <2>4. FenceOf(Cardinality(member)) >= Cardinality(member) \div 2
      BY <2>3, FenceGrows DEF FenceOf
    <2>5. fence' >= Cardinality(electorate') \div 2
      <3>1. FenceOf(Cardinality(member)) \in Nat /\ fence \in Nat
        BY <2>3, DecisionTypes DEF FenceOf, FenceInv, TypeOK
      <3> QED
        BY <2>1, <2>2, <2>3, <2>4, <3>1 DEF FenceLags
    <2> QED
      BY <2>1, <2>2, <2>5 DEF FenceHolds, FenceLags, Others, Voters
  <1>7. CASE FailOver
    <2>1. Cutoff /\ UNCHANGED <<electorate, fence, loopholes, step, snap>>
      BY <1>7 DEF FailOver, Cutoff, far
    <2> QED
      BY <1>1, <2>1 DEF FenceHolds, Voters
  <1>8. CASE Heal
    BY <1>8 DEF Heal, Cutoff
  <1> QED
    BY <1>2, <1>3, <1>4, <1>5, <1>6, <1>7, <1>8 DEF Environment

LEMMA FenceStep == FenceInv /\ [Next]_vars => FenceInv'
  <1> SUFFICES ASSUME FenceInv, [Next]_vars PROVE FenceInv'
    OBVIOUS
  <1>1. TypeOK' /\ CutShape'
    BY TypeStep, ShapeStep DEF FenceInv
  <1>2. ASSUME UNCHANGED vars PROVE MemoryHolds' /\ FenceHolds'
    BY <1>2 DEF vars, networkVars, sentinelVars, windowVars, pollVars, faultVars, FenceInv,
                MemoryHolds, FenceHolds, Cutoff, QuietMemory, Voters, SeenDown, NoneDue, far
  <1>3. ASSUME Next PROVE MemoryHolds' /\ FenceHolds'
    BY <1>3, MemoryPoll, FencePoll, MemoryOthers, FenceOthers DEF Next
  <1> QED
    BY <1>1, <1>2, <1>3 DEF FenceInv

-----------------------------------------------------------------------------
\* A fence of half the members is beyond a minority's reach.
LEMMA FenceSplits == FenceInv => NoSplitBrain
  <1> SUFFICES ASSUME FenceInv, failedOver, loopholes = {}
               PROVE  ~(Cardinality(near) - 1 >= fence)
    BY DEF NoSplitBrain, Writes, FarWrites
  <1>1. Cutoff
    BY DEF FenceInv, CutShape, Cutoff
  <1>2. /\ fence >= Cardinality(electorate) \div 2
        /\ 2 * Cardinality(near) < Cardinality(electorate)
        /\ Cardinality(electorate) \in Nat /\ near \subseteq electorate
        /\ IsFiniteSet(electorate)
    BY <1>1, CutoffShape DEF FenceInv, FenceHolds
  <1>3. Cardinality(near) \in Nat
    BY <1>2, SubsetSize
  <1>4. fence \in Nat
    BY DEF FenceInv, TypeOK
  <1> QED
    BY <1>2, <1>3, <1>4

\* No two masters accept writes at once, for every cluster size, every dwell and any
\* number of cuts at any moment, deletions, restarts and failed conversations
\* (quorum.rs, "Syncing the split-brain fence"), unless the cut found the node unready
\* or a restart in it met a stamp older than a scale-up: NoSplitBrain names the gaps.
THEOREM FenceHoldsAcrossCuts == Spec => []NoSplitBrain
  BY FenceInit, FenceStep, FenceSplits, PTL DEF Spec

\* While a partition leaves a majority on the far side, no step takes a peer out of
\* the Sentinel's memory, for every instance of the constants and wherever in a poll
\* the cut struck: the prune "refuses to run on a minority" (quorum.rs), unless a
\* member was still unknown at the cut or a prune was due within its last two polls.
THEOREM MinorityKeepsItsPeers == Spec => MinorityNeverForgets
  <1>1. ASSUME FenceInv, Next, 2 * Cardinality(far) > Cardinality(electorate), QuietMemory
        PROVE  known \subseteq known'
    <2> USE DEF networkVars, sentinelVars
    <2>1. near # member
      <3>1. /\ Cardinality(electorate) \in Nat
            /\ (near = member => far = {})
        BY <1>1, SnapCounts, FS_CardinalityType DEF FenceInv, far
      <3> QED
        BY <1>1, <3>1, FS_EmptySet
    <2>2. Cutoff
      BY <1>1, <2>1 DEF Cutoff
    <2>3. ASSUME NEW answered, NEW calm, NEW resetOk, Prune(answered, calm, resetOk)
          PROVE  known' = known
      BY <1>1, <2>2, <2>3, PruneRefuses DEF Prune
    <2>4. CASE Poll
      BY <2>3, <2>4 DEF Poll, PollFails, ReadSentinel, SyncFence, FenceUnread
    <2>5. CASE Sentinel
      BY <2>5 DEF Sentinel, Detect, Discover
    <2>6. CASE Environment
      BY <2>6 DEF Environment, Restart, Join, Remove, Cut, FailOver, Heal
    <2> QED
      BY <1>1, <2>4, <2>5, <2>6 DEF Next
  <1>2. FenceInv /\ [Next]_vars
          => [/\ 2 * Cardinality(far) > Cardinality(electorate)
              /\ loopholes \cap {"memory", "prune"} = {}
              => known \subseteq known']_vars
    BY <1>1 DEF QuietMemory
  <1> QED
    BY <1>2, FenceInit, FenceStep, PTL DEF Spec, MinorityNeverForgets

=============================================================================

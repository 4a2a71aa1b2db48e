--------------------------- MODULE DurableVolume ---------------------------
(***************************************************************************)
(* What a volume promises the service that runs on it, whatever files carry*)
(* it: one user at a time, and a dataset that no stop, crash or restart    *)
(* takes back.  An external image may replace the dataset between two      *)
(* users.  The promise ends when a container goes on without the lock.     *)
(* Volume.tla implements this specification.                               *)
(***************************************************************************)
EXTENDS Integers

CONSTANT Container

VARIABLES
    users,      \* the containers that may touch the volume
    latest,     \* the last version written, by the engine that serves
    kept,       \* the version a boot would find if everything stopped now
    journalled, \* every write is kept when it is made
    trusted     \* no container has gone on without the lock

vars == <<users, latest, kept, journalled, trusted>>

Init ==
    /\ users = {}
    /\ kept \in Nat /\ latest = kept
    /\ journalled = FALSE
    /\ trusted = TRUE

Open(c) ==
    /\ users = {} /\ users' = {c}
    /\ UNCHANGED <<latest, kept, journalled, trusted>>

Write ==
    /\ users # {}
    /\ latest' = latest + 1
    /\ kept' = IF journalled THEN latest' ELSE kept
    /\ UNCHANGED <<users, journalled, trusted>>

\* A snapshot may be older than the last write, never than what was kept
Snapshot ==
    /\ users # {}
    /\ kept' \in kept..latest
    /\ UNCHANGED <<users, latest, journalled, trusted>>

Journal ==
    /\ users # {}
    /\ journalled' = TRUE /\ kept' = latest
    /\ UNCHANGED <<users, latest, trusted>>

\* The engine stops, in order or not: what was kept is what is left
Stop ==
    /\ journalled' = FALSE
    /\ kept' \in kept..latest /\ latest' = kept'
    /\ UNCHANGED <<users, trusted>>

Close ==
    /\ users' = {}
    /\ journalled' = FALSE
    /\ kept' = kept /\ latest' = kept
    /\ trusted' = trusted

Replace ==
    /\ users = {}
    /\ latest' = latest + 1 /\ kept' = latest'
    /\ UNCHANGED <<users, journalled, trusted>>

Unprotected == trusted' = FALSE

Next ==
    \/ \E c \in Container : Open(c)
    \/ Write \/ Snapshot \/ Journal \/ Stop \/ Close \/ Replace
    \/ Unprotected

Spec == Init /\ [][Next]_vars
=============================================================================

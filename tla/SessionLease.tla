---------------------------- MODULE SessionLease ----------------------------
(***************************************************************************)
(* What the registry of online players promises, with no maps, no threads  *)
(* and no pruning: a session holds a lease of Term seconds, every packet   *)
(* heard from it renews the lease, and the lease can only end because the  *)
(* client said goodbye or because it has run out.  A fresh session is      *)
(* never dropped, and a dropped session never comes back without a         *)
(* heartbeat that grants it a new lease.                                   *)
(***************************************************************************)
EXTENDS Integers

CONSTANTS Sessions, Term, None

VARIABLES
    lease,      \* lease[s]: the time the lease of s ends, None without one
    closing,    \* the session that said goodbye and still has its lease
    now

vars == <<lease, closing, now>>

Init ==
    /\ lease = [s \in Sessions |-> None]
    /\ closing = None
    /\ now = 0

Holders == {s \in Sessions : lease[s] # None}

\* A packet of s is heard: its lease, if it has one, runs from now on, and
\* the packet may be its goodbye.
Hear(s) ==
    /\ closing = None
    /\ lease' = IF s \in Holders THEN [lease EXCEPT ![s] = now + Term]
                                 ELSE lease
    /\ closing' \in {None, s}
    /\ UNCHANGED now

Grant(s) ==
    /\ closing = None
    /\ lease' = [lease EXCEPT ![s] = now + Term]
    /\ UNCHANGED <<closing, now>>

Close ==
    /\ closing # None
    /\ lease' = [lease EXCEPT ![closing] = None]
    /\ closing' = None
    /\ UNCHANGED now

\* Leases that have run out may be collected, any number at a time.
Expire ==
    /\ \E S \in SUBSET {s \in Holders : lease[s] <= now} :
            lease' = [s \in Sessions |-> IF s \in S THEN None ELSE lease[s]]
    /\ UNCHANGED <<closing, now>>

Tick ==
    /\ now' = now + 1
    /\ UNCHANGED <<lease, closing>>

Next ==
    \/ \E s \in Sessions : Hear(s) \/ Grant(s)
    \/ Close
    \/ Expire
    \/ Tick

Spec == Init /\ [][Next]_vars
=============================================================================

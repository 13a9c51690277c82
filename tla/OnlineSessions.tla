--------------------------- MODULE OnlineSessions ---------------------------
(***************************************************************************)
(* The registry of online players, src/gamespy_sessions.cpp: two maps with *)
(* the same keys, online_sessions and last_seen, behind one mutex.  Every  *)
(* operation below is one critical section of that mutex, so it is one     *)
(* action.  prune_online_sessions is the exception: it reads the clock     *)
(* BEFORE it takes the lock, so its caller passes a cutoff that may be old *)
(* (module QrDiscovery keeps the two steps apart).                         *)
(*                                                                         *)
(* A session record keeps the fields that decide anything: its id and its  *)
(* profile.  The nickname, game, address and port are carried along by the *)
(* code and never compared.                                                *)
(***************************************************************************)
EXTENDS Integers, Maps

CONSTANTS
    SessionId,      \* the 32-bit session ids the clients draw
    ProfileId,      \* the profile id strings
    MaxAge          \* 61 s: the age at which the callers prune

ASSUME MaxAgeAssumption == MaxAge \in Nat \ {0}

VARIABLES
    online_sessions,    \* session id -> OnlineSession (a partial function)
    last_seen,          \* session id -> time of its last packet
    now                 \* steady_clock::now(), in seconds

registryVars == <<online_sessions, last_seen>>

OnlineSession == [session_id : SessionId, profile_id : ProfileId]

RegistryInit ==
    /\ online_sessions = Empty
    /\ last_seen = Empty

upsert_online_session(session) ==
    /\ online_sessions' = Put(online_sessions, session.session_id, session)
    /\ last_seen' = Put(last_seen, session.session_id, now)

\* A bug RegistryConsistent finds: touching a session that is not online.
BugTouchUnguarded(s) ==
    /\ last_seen' = Put(last_seen, s, now)
    /\ UNCHANGED online_sessions

touch_online_session(s) ==
    /\ last_seen' = IF s \in DOMAIN online_sessions
                    THEN Put(last_seen, s, now)
                    ELSE last_seen
    /\ UNCHANGED online_sessions

remove_online_session(s) ==
    /\ online_sessions' = Erase(online_sessions, {s})
    /\ last_seen' = Erase(last_seen, {s})

\* A bug SearchListsOnlyActive finds: < where the code has <=.
BugStaleStrict(cutoff) ==
    {s \in DOMAIN last_seen : last_seen[s] < cutoff}

Stale(cutoff) == {s \in DOMAIN last_seen : last_seen[s] <= cutoff}

prune_online_sessions(cutoff) ==
    /\ online_sessions' = Erase(online_sessions, Stale(cutoff))
    /\ last_seen' = Erase(last_seen, Stale(cutoff))

\* What a lookup returns: the sessions of the profiles asked for.
online_sessions_for_profiles(profiles) ==
    {s \in DOMAIN online_sessions : online_sessions[s].profile_id \in profiles}

RegistryTypeOK ==
    /\ DOMAIN online_sessions \subseteq SessionId
    /\ \A s \in DOMAIN online_sessions : online_sessions[s] \in OnlineSession
    /\ DOMAIN last_seen \subseteq SessionId
    /\ \A s \in DOMAIN last_seen : last_seen[s] \in 0 .. now

(***************************************************************************)
(* The two maps never drift apart: every session has its own record and    *)
(* one time at which it was last seen.  A touch of a session that was      *)
(* pruned a moment ago, or a prune that reaches one map only, breaks it:   *)
(* src/gamespy_sessions.cpp keeps the pair by hand in four functions.      *)
(***************************************************************************)
RegistryConsistent ==
    /\ DOMAIN online_sessions = DOMAIN last_seen
    /\ \A s \in DOMAIN online_sessions : online_sessions[s].session_id = s
=============================================================================

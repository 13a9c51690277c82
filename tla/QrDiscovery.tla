---------------------------- MODULE QrDiscovery -----------------------------
(***************************************************************************)
(* GameSpy QR registration and Player Search, src/server_discovery.cpp.    *)
(* The main thread runs handle_qr_packet for one datagram at a time; every *)
(* Player Search connection has a worker thread of its own that runs       *)
(* player_search_response once per request.  They meet in the registry of  *)
(* module OnlineSessions and nowhere else.  A datagram may be lost, sent   *)
(* again or overtaken; a challenge on its way to a client is a member of   *)
(* in_flight until it is lost.                                             *)
(***************************************************************************)
EXTENDS OnlineSessions

CONSTANTS
    Challenge,      \* the random challenge texts
    WrongAnswer,    \* an answer that encrypts none of them
    NoValue,        \* an empty or absent field, and an unset register
    DecimalText,    \* [SessionId -> ProfileId]: std::to_string(session_id)
    Worker,         \* the Player Search worker threads
    MaxTime,        \* bound on the clock
    MaxIssued       \* bound on the challenges issued to one session

ASSUME ConstantsAssumption ==
    /\ NoValue \notin ProfileId \cup SessionId \cup Challenge \cup Int
    /\ WrongAnswer \notin Challenge
    /\ DecimalText \in [SessionId -> ProfileId]
    /\ MaxTime \in Nat
    /\ MaxIssued \in Nat

VARIABLES
    qr_pc,          \* where handle_qr_packet is
    packet,         \* its datagram
    qr_cutoff,      \* the cutoff its prune has read
    qr_challenges,  \* session id -> the challenge waiting for its answer
    in_flight,      \* <<session, challenge>>: challenges that can arrive
    issued,         \* history: challenges issued, per session,
    registered,     \* registrations confirmed,
    withdrawn,      \* and challenges dropped by a statechanged=2
    search_pc,      \* where each worker's player_search_response is
    request,        \* the profiles it was asked for
    cutoff,         \* the cutoff its prune has read
    reply           \* the sessions its lookup found

qrVars == <<qr_pc, packet, qr_cutoff>>
challengeVars == <<qr_challenges, in_flight, issued, registered, withdrawn>>
searchVars == <<search_pc, request, cutoff, reply>>
vars == <<registryVars, now, qrVars, challengeVars, searchVars>>

Keepalive == [kind : {"keepalive"}, session : SessionId]
Answer == [kind : {"answer"}, session : SessionId,
           challenge : Challenge \cup {WrongAnswer}]
Heartbeat == [kind : {"heartbeat"}, session : SessionId, leaving : BOOLEAN,
              profileid : ProfileId \cup {NoValue},
              userid : ProfileId \cup {NoValue}]
OtherPacket == [kind : {"other"}, session : SessionId]
\* Availability requests, and datagrams too short to carry a session id.
Untracked == [kind : {"availability", "short"}]
Packet == Keepalive \cup Answer \cup Heartbeat \cup OtherPacket \cup Untracked

NoPacket == [kind |-> "short"]

Init ==
    /\ RegistryInit
    /\ now = 0
    /\ qr_pc = "recv"
    /\ packet = NoPacket
    /\ qr_cutoff = 0
    /\ qr_challenges = Empty
    /\ in_flight = {}
    /\ issued = [s \in SessionId |-> 0]
    /\ registered = [s \in SessionId |-> 0]
    /\ withdrawn = [s \in SessionId |-> 0]
    /\ search_pc = [w \in Worker |-> "idle"]
    /\ request = [w \in Worker |-> {}]
    /\ cutoff = [w \in Worker |-> 0]
    /\ reply = [w \in Worker |-> {}]

-----------------------------------------------------------------------------
(* The main thread: handle_qr_packet.                                      *)

HasSession(p) == p.kind \notin {"availability", "short"}

\* A client answers a challenge that reached it, or sends something wrong.
CanArrive(p) ==
    p.kind = "answer" =>
        p.challenge = WrongAnswer \/ <<p.session, p.challenge>> \in in_flight

Outstanding(s) == s \in DOMAIN qr_challenges

\* The bound MaxIssued: a heartbeat that would need one challenge more stays
\* out of the model.
WithinBound(p) ==
    p.kind = "heartbeat" =>
        \/ issued[p.session] < MaxIssued
        \/ Outstanding(p.session) /\ ~ p.leaving

Receive(p) ==
    /\ qr_pc = "recv"
    /\ CanArrive(p)
    /\ WithinBound(p)
    /\ packet' = p
    /\ IF HasSession(p) THEN touch_online_session(p.session)
                        ELSE UNCHANGED registryVars
    /\ qr_pc' = "cutoff"
    /\ UNCHANGED <<now, qr_cutoff, challengeVars, searchVars>>

\* A bug ImplementsLease finds: the cutoff is the time itself.
BugReadCutoffNow ==
    /\ qr_pc = "cutoff"
    /\ qr_cutoff' = now
    /\ qr_pc' = "prune"
    /\ UNCHANGED <<registryVars, now, packet, challengeVars, searchVars>>

ReadCutoff ==
    /\ qr_pc = "cutoff"
    /\ qr_cutoff' = now - MaxAge
    /\ qr_pc' = "prune"
    /\ UNCHANGED <<registryVars, now, packet, challengeVars, searchVars>>

Prune ==
    /\ qr_pc = "prune"
    /\ prune_online_sessions(qr_cutoff)
    /\ qr_pc' = "dispatch"
    /\ UNCHANGED <<now, packet, qr_cutoff, challengeVars, searchVars>>

\* Every dispatch ends handle_qr_packet.
Done(kinds) ==
    /\ qr_pc = "dispatch"
    /\ packet.kind \in kinds
    /\ qr_pc' = "recv"
    /\ packet' = NoPacket
    /\ qr_cutoff' = 0
    /\ UNCHANGED <<now, searchVars>>

qr_challenge_matches(p) ==
    Outstanding(p.session) /\ p.challenge = qr_challenges[p.session]

\* A bug ChallengeAccounting finds: the answered challenge is kept.
BugRegisterKeeps ==
    /\ Done({"answer"})
    /\ qr_challenge_matches(packet)
    /\ registered' = [registered EXCEPT ![packet.session] = @ + 1]
    /\ UNCHANGED <<registryVars, qr_challenges, in_flight, issued, withdrawn>>

\* The right answer: confirm and forget the challenge.
Register ==
    /\ Done({"answer"})
    /\ qr_challenge_matches(packet)
    /\ registered' = [registered EXCEPT ![packet.session] = @ + 1]
    /\ qr_challenges' = Erase(qr_challenges, {packet.session})
    /\ UNCHANGED <<registryVars, in_flight, issued, withdrawn>>

\* A keepalive has done its work; the rest is answered without any state,
\* or ignored.
Ignore ==
    /\ Done({"keepalive", "answer", "other", "availability", "short"})
    /\ packet.kind = "answer" => ~ qr_challenge_matches(packet)
    /\ UNCHANGED <<registryVars, challengeVars>>

\* qr_challenge_response: the challenge is sent once and remembered.
Issue(s, challenges) ==
    /\ issued' = [issued EXCEPT ![s] = @ + 1]
    /\ \E c \in Challenge :
        /\ qr_challenges' = Put(challenges, s, c)
        /\ in_flight' = in_flight \cup {<<s, c>>}

\* A bug TypeOK finds: no fallback for a heartbeat with neither id.
BugProfileOfTwo(hb) ==
    IF hb.profileid # NoValue THEN hb.profileid ELSE hb.userid

ProfileOf(hb) ==
    CASE hb.profileid # NoValue -> hb.profileid
      [] hb.profileid = NoValue /\ hb.userid # NoValue -> hb.userid
      [] OTHER -> DecimalText[hb.session]

\* A bug RegisteredUnlessLost finds: the test for a challenge is inverted.
BugOnlineInverted ==
    LET s == packet.session IN
    /\ Done({"heartbeat"})
    /\ ~ packet.leaving
    /\ upsert_online_session([session_id |-> s,
                              profile_id |-> ProfileOf(packet)])
    /\ IF Outstanding(s)
       THEN Issue(s, qr_challenges)
       ELSE UNCHANGED <<qr_challenges, in_flight, issued>>
    /\ UNCHANGED <<registered, withdrawn>>

\* statechanged other than 2: the client is online.
HeartbeatOnline ==
    LET s == packet.session IN
    /\ Done({"heartbeat"})
    /\ ~ packet.leaving
    /\ upsert_online_session([session_id |-> s,
                              profile_id |-> ProfileOf(packet)])
    /\ IF Outstanding(s)
       THEN UNCHANGED <<qr_challenges, in_flight, issued>>
       ELSE Issue(s, qr_challenges)
    /\ UNCHANGED <<registered, withdrawn>>

\* statechanged = 2: the client leaves, and is challenged all the same.
HeartbeatLeaving ==
    LET s == packet.session IN
    /\ Done({"heartbeat"})
    /\ packet.leaving
    /\ remove_online_session(s)
    /\ withdrawn' = IF Outstanding(s) THEN [withdrawn EXCEPT ![s] = @ + 1]
                                      ELSE withdrawn
    /\ Issue(s, Erase(qr_challenges, {s}))
    /\ UNCHANGED registered

-----------------------------------------------------------------------------
(* The workers: player_search_response.                                    *)

SearchBegin(w, profiles) ==
    /\ search_pc[w] = "idle"
    /\ request' = [request EXCEPT ![w] = profiles]
    /\ cutoff' = [cutoff EXCEPT ![w] = now - MaxAge]
    /\ search_pc' = [search_pc EXCEPT ![w] = "prune"]
    /\ UNCHANGED <<registryVars, now, qrVars, challengeVars, reply>>

SearchPrune(w) ==
    /\ search_pc[w] = "prune"
    /\ prune_online_sessions(cutoff[w])
    /\ search_pc' = [search_pc EXCEPT ![w] = "lookup"]
    /\ UNCHANGED <<now, qrVars, challengeVars, request, cutoff, reply>>

SearchLookup(w) ==
    /\ search_pc[w] = "lookup"
    /\ reply' = [reply EXCEPT ![w] = online_sessions_for_profiles(request[w])]
    /\ search_pc' = [search_pc EXCEPT ![w] = "send"]
    /\ UNCHANGED <<registryVars, now, qrVars, challengeVars, request, cutoff>>

SearchSend(w) ==
    /\ search_pc[w] = "send"
    /\ search_pc' = [search_pc EXCEPT ![w] = "idle"]
    /\ request' = [request EXCEPT ![w] = {}]
    /\ cutoff' = [cutoff EXCEPT ![w] = 0]
    /\ reply' = [reply EXCEPT ![w] = {}]
    /\ UNCHANGED <<registryVars, now, qrVars, challengeVars>>

-----------------------------------------------------------------------------
(* The clock and the network.                                              *)

Tick ==
    /\ now < MaxTime
    /\ now' = now + 1
    /\ UNCHANGED <<registryVars, qrVars, challengeVars, searchVars>>

Lose(d) ==
    /\ in_flight' = in_flight \ {d}
    /\ UNCHANGED <<registryVars, now, qrVars, qr_challenges, issued,
                   registered, withdrawn, searchVars>>

MainThread ==
    \/ ReadCutoff \/ Prune
    \/ Register \/ Ignore \/ HeartbeatOnline \/ HeartbeatLeaving

Search(w) ==
    \/ \E profiles \in SUBSET ProfileId : SearchBegin(w, profiles)
    \/ SearchPrune(w) \/ SearchLookup(w) \/ SearchSend(w)

Next ==
    \/ \E p \in Packet : Receive(p)
    \/ MainThread
    \/ \E w \in Worker : Search(w)
    \/ Tick
    \/ \E d \in in_flight : Lose(d)

Spec == Init /\ [][Next]_vars

(***************************************************************************)
(* Fairness.  The main thread keeps running, the client of each session    *)
(* repeats its heartbeat and answers a challenge it has received, and a    *)
(* datagram that keeps coming is read in the end: the kernel queues them   *)
(* in order, so other datagrams cannot overtake it for ever (SF).  Nothing *)
(* is assumed about the search workers, the clock or the losses.           *)
(***************************************************************************)
OnlineHeartbeats(s) == {p \in Heartbeat : p.session = s /\ ~ p.leaving}
RightAnswers(s) == {p \in Answer : p.session = s /\ Outstanding(s)
                                     /\ p.challenge = qr_challenges[s]}

Fairness ==
    /\ WF_vars(MainThread)
    /\ \A s \in SessionId :
        /\ SF_vars(\E p \in OnlineHeartbeats(s) : Receive(p))
        /\ SF_vars(\E p \in RightAnswers(s) : Receive(p))

FairSpec == Spec /\ Fairness

-----------------------------------------------------------------------------
(* Properties.                                                             *)

\* Every variable has its type.
TypeOK ==
    /\ RegistryTypeOK
    /\ now \in 0 .. MaxTime
    /\ qr_pc \in {"recv", "cutoff", "prune", "dispatch"}
    /\ packet \in Packet
    /\ qr_cutoff \in Int
    /\ DOMAIN qr_challenges \subseteq SessionId
    /\ \A s \in DOMAIN qr_challenges : qr_challenges[s] \in Challenge
    /\ in_flight \subseteq SessionId \X Challenge
    /\ issued \in [SessionId -> Nat]
    /\ registered \in [SessionId -> Nat]
    /\ withdrawn \in [SessionId -> Nat]
    /\ search_pc \in [Worker -> {"idle", "prune", "lookup", "send"}]
    /\ request \in [Worker -> SUBSET ProfileId]
    /\ cutoff \in [Worker -> Int]
    /\ reply \in [Worker -> SUBSET SessionId]

(***************************************************************************)
(* Player Search lists real active clients only (TODO.md:34): whatever the *)
(* main thread and the other workers did to the registry after this        *)
(* request pruned it, every session its lookup can find was heard from     *)
(* later than the cutoff the request itself read.                          *)
(***************************************************************************)
SearchListsOnlyActive ==
    \A w \in Worker : search_pc[w] = "lookup" =>
        \A s \in online_sessions_for_profiles(request[w]) :
            s \in DOMAIN last_seen /\ last_seen[s] > cutoff[w]

(***************************************************************************)
(* A challenge is answered once: each one issued to a session is either    *)
(* outstanding, or confirmed by one registration, or withdrawn when the    *)
(* client left.  A repeated or late answer registers nobody, and a         *)
(* challenge is never replaced while its answer may be under way.          *)
(***************************************************************************)
ChallengeAccounting ==
    \A s \in SessionId :
        issued[s] = registered[s] + withdrawn[s]
                    + (IF Outstanding(s) THEN 1 ELSE 0)

(***************************************************************************)
(* The registry implements SessionLease: between them, the main thread and *)
(* the search workers, each pruning with a cutoff of its own that may be   *)
(* old when it is used, never drop a session heard from less than MaxAge   *)
(* seconds ago unless its client said goodbye.                             *)
(***************************************************************************)
Goodbye == qr_pc # "recv" /\ packet.kind = "heartbeat" /\ packet.leaving

LeaseEnd == [s \in SessionId |-> IF s \in DOMAIN last_seen
                                 THEN last_seen[s] + MaxAge ELSE NoValue]
Closing == IF Goodbye THEN packet.session ELSE NoValue

Lease == INSTANCE SessionLease WITH
    Sessions <- SessionId, Term <- MaxAge, None <- NoValue,
    lease <- LeaseEnd, closing <- Closing

ImplementsLease == Lease!Spec

(***************************************************************************)
(* A client that repeats its heartbeat and answers the challenges it gets  *)
(* is registered in the end, unless the challenge the server waits for has *)
(* been lost.                                                              *)
(***************************************************************************)
ChallengeLost(s) == Outstanding(s) /\ <<s, qr_challenges[s]>> \notin in_flight

RegisteredUnlessLost ==
    \A s \in SessionId : <>(registered[s] > 0 \/ ChallengeLost(s))
=============================================================================

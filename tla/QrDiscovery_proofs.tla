------------------------- MODULE QrDiscovery_proofs -------------------------
(***************************************************************************)
(* Proofs about the registry of online players and QR registration, for    *)
(* any number of sessions, profiles, challenges and search workers, any    *)
(* MaxAge and any bound on the clock.                                      *)
(***************************************************************************)
EXTENDS QrDiscovery, TLAPS

-----------------------------------------------------------------------------
(* The four operations on the registry keep its two maps together.         *)

RegistryOK == RegistryTypeOK /\ RegistryConsistent

\* prune_online_sessions keeps the maps together, whatever its cutoff, and
\* leaves exactly the entries younger than the cutoff, unchanged.
LEMMA PruneLemma ==
    ASSUME NEW c, RegistryOK, now' = now, prune_online_sessions(c)
    PROVE  /\ RegistryOK'
           /\ DOMAIN last_seen' = DOMAIN last_seen \ Stale(c)
           /\ \A s \in DOMAIN last_seen' : last_seen'[s] = last_seen[s]
<1>1. /\ DOMAIN last_seen' = DOMAIN last_seen \ Stale(c)
      /\ \A s \in DOMAIN last_seen' : last_seen'[s] = last_seen[s]
  BY DEF prune_online_sessions, Erase, Restrict
<1>2. /\ DOMAIN online_sessions' = DOMAIN online_sessions \ Stale(c)
      /\ \A s \in DOMAIN online_sessions' :
            online_sessions'[s] = online_sessions[s]
  BY DEF prune_online_sessions, Erase, Restrict
<1>3. QED
  BY <1>1, <1>2 DEF RegistryOK, RegistryTypeOK, RegistryConsistent

\* upsert_online_session adds one entry, seen now.
LEMMA UpsertLemma ==
    ASSUME NEW session \in OnlineSession, RegistryOK, now \in Nat, now' = now,
           upsert_online_session(session)
    PROVE  /\ RegistryOK'
           /\ DOMAIN last_seen' = DOMAIN last_seen \cup {session.session_id}
           /\ last_seen'[session.session_id] = now
           /\ \A s \in DOMAIN last_seen :
                s # session.session_id => last_seen'[s] = last_seen[s]
<1> DEFINE k == session.session_id
<1>0. k \in SessionId
  BY DEF OnlineSession
<1>1. /\ DOMAIN last_seen' = DOMAIN last_seen \cup {k}
      /\ last_seen'[k] = now
      /\ \A s \in DOMAIN last_seen : s # k => last_seen'[s] = last_seen[s]
  BY DEF upsert_online_session, Put
<1>2. /\ DOMAIN online_sessions' = DOMAIN online_sessions \cup {k}
      /\ online_sessions'[k] = session
      /\ \A s \in DOMAIN online_sessions :
            s # k => online_sessions'[s] = online_sessions[s]
  BY DEF upsert_online_session, Put
<1>3. QED
  BY <1>0, <1>1, <1>2 DEF RegistryOK, RegistryTypeOK, RegistryConsistent

\* touch_online_session changes a time only, and only of an online session.
LEMMA TouchLemma ==
    ASSUME NEW s, RegistryOK, now \in Nat, now' = now, touch_online_session(s)
    PROVE  /\ RegistryOK'
           /\ DOMAIN last_seen' = DOMAIN last_seen
           /\ \A x \in DOMAIN last_seen :
                last_seen'[x] = IF x = s THEN now ELSE last_seen[x]
<1>1. CASE s \in DOMAIN online_sessions
  <2>1. /\ DOMAIN last_seen' = DOMAIN last_seen \cup {s}
        /\ last_seen'[s] = now
        /\ \A x \in DOMAIN last_seen : x # s => last_seen'[x] = last_seen[x]
    BY <1>1 DEF touch_online_session, Put
  <2>2. s \in DOMAIN last_seen /\ online_sessions' = online_sessions
    BY <1>1 DEF touch_online_session, RegistryOK, RegistryConsistent
  <2>3. QED
    BY <2>1, <2>2 DEF RegistryOK, RegistryTypeOK, RegistryConsistent
<1>2. CASE s \notin DOMAIN online_sessions
  BY <1>2 DEF touch_online_session, RegistryOK, RegistryTypeOK,
              RegistryConsistent
<1>3. QED
  BY <1>1, <1>2

\* remove_online_session takes one entry away.
LEMMA RemoveLemma ==
    ASSUME NEW s, RegistryOK, now' = now, remove_online_session(s)
    PROVE  /\ RegistryOK'
           /\ DOMAIN last_seen' = DOMAIN last_seen \ {s}
           /\ \A x \in DOMAIN last_seen' : last_seen'[x] = last_seen[x]
<1>1. /\ DOMAIN last_seen' = DOMAIN last_seen \ {s}
      /\ \A x \in DOMAIN last_seen' : last_seen'[x] = last_seen[x]
  BY DEF remove_online_session, Erase, Restrict
<1>2. /\ DOMAIN online_sessions' = DOMAIN online_sessions \ {s}
      /\ \A x \in DOMAIN online_sessions' :
            online_sessions'[x] = online_sessions[x]
  BY DEF remove_online_session, Erase, Restrict
<1>3. QED
  BY <1>1, <1>2 DEF RegistryOK, RegistryTypeOK, RegistryConsistent

-----------------------------------------------------------------------------
(* The inductive invariant.  SearchListsOnlyActive is not inductive: that  *)
(* the registry holds nothing as old as the cutoff of a worker about to    *)
(* look up must hold of every session, not of those it asks for, and it    *)
(* survives an upsert or a touch only because the cutoff was read in the   *)
(* past, at least MaxAge before the time those operations record.          *)

CutoffsInPast ==
    /\ qr_pc = "prune" => qr_cutoff <= now - MaxAge
    /\ \A w \in Worker :
        search_pc[w] \in {"prune", "lookup"} => cutoff[w] <= now - MaxAge

LookupPruned ==
    \A w \in Worker : search_pc[w] = "lookup" =>
        \A s \in DOMAIN last_seen : last_seen[s] > cutoff[w]

IInv == TypeOK /\ RegistryConsistent /\ CutoffsInPast /\ LookupPruned
        /\ ChallengeAccounting

\* The initial state: no session, no challenge, nobody searching.
LEMMA InitIInv == Init => IInv
<1> SUFFICES ASSUME Init PROVE IInv
  OBVIOUS
<1> USE MaxAgeAssumption, ConstantsAssumption
<1>1. TypeOK
  <2>1. RegistryTypeOK
    BY DEF Init, RegistryInit, Empty, RegistryTypeOK
  <2>2. packet \in Packet
    BY DEF Init, NoPacket, Packet, Untracked
  <2>3. QED
    BY <2>1, <2>2 DEF Init, TypeOK, Empty
<1>2. RegistryConsistent
  BY DEF Init, RegistryInit, Empty, RegistryConsistent
<1>3. CutoffsInPast /\ LookupPruned
  BY DEF Init, CutoffsInPast, LookupPruned
<1>4. ChallengeAccounting
  BY DEF Init, ChallengeAccounting, Outstanding, Empty
<1>5. QED
  BY <1>1, <1>2, <1>3, <1>4 DEF IInv

-----------------------------------------------------------------------------
(* Each action preserves it.                                               *)

\* A datagram is read: at most one entry of last_seen moves to now.
LEMMA ReceiveIInv == ASSUME IInv, NEW p \in Packet, Receive(p) PROVE IInv'
<1> USE MaxAgeAssumption, ConstantsAssumption DEF IInv
<1>0. now \in Nat /\ now' = now /\ UNCHANGED searchVars
  BY DEF TypeOK, Receive
<1>1. /\ RegistryOK'
      /\ DOMAIN last_seen' = DOMAIN last_seen
      /\ \A s \in DOMAIN last_seen : last_seen'[s] \in {now, last_seen[s]}
  <2>1. CASE HasSession(p)
    <3>1. touch_online_session(p.session) /\ RegistryOK
      BY <2>1 DEF Receive, TypeOK, RegistryOK
    <3>2. QED
      BY <3>1, <1>0, TouchLemma
  <2>2. CASE ~ HasSession(p)
    BY <2>2, <1>0 DEF Receive, TypeOK, RegistryOK, RegistryTypeOK,
                      RegistryConsistent, registryVars
  <2>3. QED
    BY <2>1, <2>2
<1>2. TypeOK'
  BY <1>0, <1>1 DEF Receive, TypeOK, RegistryOK, challengeVars, searchVars
<1>3. CutoffsInPast'
  BY <1>0 DEF Receive, TypeOK, CutoffsInPast, searchVars
<1>4. LookupPruned'
  <2> SUFFICES ASSUME NEW w \in Worker, search_pc[w] = "lookup",
                      NEW s \in DOMAIN last_seen
               PROVE  last_seen'[s] > cutoff[w]
    BY <1>0, <1>1 DEF LookupPruned, searchVars
  <2>1. last_seen[s] > cutoff[w]
    BY DEF LookupPruned
  <2>2. cutoff[w] <= now - MaxAge /\ cutoff[w] \in Int
    BY DEF CutoffsInPast, TypeOK
  <2>3. QED
    BY <1>0, <1>1, <2>1, <2>2
<1>5. ChallengeAccounting'
  BY DEF Receive, ChallengeAccounting, Outstanding, challengeVars
<1>6. QED
  BY <1>1, <1>2, <1>3, <1>4, <1>5 DEF RegistryOK

\* The main thread reads the clock for its prune.
LEMMA ReadCutoffIInv == ASSUME IInv, ReadCutoff PROVE IInv'
<1> USE MaxAgeAssumption, ConstantsAssumption DEF IInv
<1>1. TypeOK' /\ RegistryConsistent'
  BY DEF ReadCutoff, TypeOK, RegistryTypeOK, RegistryConsistent, registryVars,
         challengeVars, searchVars
<1>2. CutoffsInPast'
  BY DEF ReadCutoff, TypeOK, CutoffsInPast, searchVars
<1>3. LookupPruned' /\ ChallengeAccounting'
  BY DEF ReadCutoff, LookupPruned, ChallengeAccounting, Outstanding,
         registryVars, challengeVars, searchVars
<1>4. QED
  BY <1>1, <1>2, <1>3

\* The main thread prunes: what is left was there before.
LEMMA PruneIInv == ASSUME IInv, Prune PROVE IInv'
<1> USE MaxAgeAssumption, ConstantsAssumption DEF IInv
<1>0. now' = now /\ UNCHANGED <<challengeVars, searchVars>>
  BY DEF Prune
<1>1. /\ RegistryOK'
      /\ DOMAIN last_seen' = DOMAIN last_seen \ Stale(qr_cutoff)
      /\ \A s \in DOMAIN last_seen' : last_seen'[s] = last_seen[s]
  BY <1>0, PruneLemma DEF Prune, TypeOK, RegistryOK
<1>2. TypeOK'
  BY <1>0, <1>1 DEF Prune, TypeOK, RegistryOK, challengeVars, searchVars
<1>3. CutoffsInPast' /\ LookupPruned'
  BY <1>0, <1>1 DEF Prune, CutoffsInPast, LookupPruned, searchVars
<1>4. ChallengeAccounting'
  BY <1>0 DEF ChallengeAccounting, Outstanding, challengeVars
<1>5. QED
  BY <1>1, <1>2, <1>3, <1>4 DEF RegistryOK

\* The right answer: one challenge less outstanding, one registration more.
LEMMA RegisterIInv == ASSUME IInv, Register PROVE IInv'
<1> USE MaxAgeAssumption, ConstantsAssumption DEF IInv
<1>0. /\ UNCHANGED <<registryVars, now, searchVars>>
      /\ packet.session \in SessionId
      /\ packet.session \in DOMAIN qr_challenges
  BY DEF Register, Done, qr_challenge_matches, Outstanding, TypeOK
<1>1. qr_challenges' = Erase(qr_challenges, {packet.session})
  BY DEF Register
<1>2. /\ DOMAIN qr_challenges' = DOMAIN qr_challenges \ {packet.session}
      /\ \A s \in DOMAIN qr_challenges' : qr_challenges'[s] = qr_challenges[s]
  BY <1>1 DEF Erase, Restrict
<1>3. NoPacket \in Packet
  BY DEF NoPacket, Packet, Untracked
<1>4. TypeOK' /\ RegistryConsistent'
  <2>1. RegistryTypeOK' /\ RegistryConsistent'
    BY <1>0 DEF TypeOK, RegistryTypeOK, RegistryConsistent, registryVars
  <2>2. registered' \in [SessionId -> Nat]
    BY <1>0 DEF Register, TypeOK
  <2>3. /\ DOMAIN qr_challenges' \subseteq SessionId
        /\ \A s \in DOMAIN qr_challenges' : qr_challenges'[s] \in Challenge
    BY <1>2 DEF TypeOK
  <2>4. /\ UNCHANGED <<now, search_pc, request, cutoff, reply>>
        /\ UNCHANGED <<in_flight, issued, withdrawn>>
        /\ qr_pc' = "recv" /\ packet' = NoPacket /\ qr_cutoff' = 0
    BY DEF Register, Done, searchVars
  <2>5. QED
    BY <1>3, <2>1, <2>2, <2>3, <2>4 DEF TypeOK
<1>5. CutoffsInPast' /\ LookupPruned'
  BY <1>0 DEF Register, Done, CutoffsInPast, LookupPruned, registryVars,
              searchVars
<1>6. ChallengeAccounting'
  <2> SUFFICES ASSUME NEW s \in SessionId
               PROVE  issued'[s] = registered'[s] + withdrawn'[s]
                                   + (IF Outstanding(s)' THEN 1 ELSE 0)
    BY DEF ChallengeAccounting
  <2>1. issued[s] = registered[s] + withdrawn[s]
                    + (IF Outstanding(s) THEN 1 ELSE 0)
    BY DEF ChallengeAccounting
  <2>2. /\ issued' = issued /\ withdrawn' = withdrawn
        /\ registered' = [registered EXCEPT ![packet.session] = @ + 1]
    BY DEF Register
  <2>3. QED
    BY <1>0, <1>2, <2>1, <2>2 DEF Outstanding, TypeOK
<1>7. QED
  BY <1>4, <1>5, <1>6

\* A datagram that changes nothing more.
LEMMA IgnoreIInv == ASSUME IInv, Ignore PROVE IInv'
<1> USE MaxAgeAssumption, ConstantsAssumption DEF IInv
<1>1. NoPacket \in Packet
  BY DEF NoPacket, Packet, Untracked
<1>2. TypeOK' /\ RegistryConsistent'
  BY <1>1 DEF Ignore, Done, TypeOK, RegistryTypeOK, RegistryConsistent,
              registryVars, challengeVars, searchVars
<1>3. CutoffsInPast' /\ LookupPruned' /\ ChallengeAccounting'
  BY DEF Ignore, Done, CutoffsInPast, LookupPruned, ChallengeAccounting,
         Outstanding, registryVars, challengeVars, searchVars
<1>4. QED
  BY <1>2, <1>3

\* Issuing a challenge to a session that has none among the given ones.
LEMMA IssueLemma ==
    ASSUME TypeOK, NEW s \in SessionId, NEW challenges,
           DOMAIN challenges \subseteq SessionId,
           \A x \in DOMAIN challenges : challenges[x] \in Challenge,
           Issue(s, challenges)
    PROVE  /\ DOMAIN qr_challenges' = DOMAIN challenges \cup {s}
           /\ \A x \in DOMAIN qr_challenges' : qr_challenges'[x] \in Challenge
           /\ in_flight' \subseteq SessionId \X Challenge
           /\ issued' = [issued EXCEPT ![s] = @ + 1]
           /\ issued' \in [SessionId -> Nat]
<1>1. PICK c \in Challenge : /\ qr_challenges' = Put(challenges, s, c)
                             /\ in_flight' = in_flight \cup {<<s, c>>}
  BY DEF Issue
<1>2. issued' = [issued EXCEPT ![s] = @ + 1] /\ issued' \in [SessionId -> Nat]
  BY DEF Issue, TypeOK
<1>3. in_flight' \subseteq SessionId \X Challenge
  BY <1>1 DEF TypeOK
<1>4. /\ DOMAIN qr_challenges' = DOMAIN challenges \cup {s}
      /\ \A x \in DOMAIN qr_challenges' : qr_challenges'[x] \in Challenge
  BY <1>1 DEF Put
<1>5. QED
  BY <1>2, <1>3, <1>4

\* A heartbeat names one of the profiles.
LEMMA ProfileOfType ==
    ASSUME NEW hb \in Heartbeat PROVE ProfileOf(hb) \in ProfileId
<1> USE ConstantsAssumption
<1>1. CASE hb.profileid # NoValue
  BY <1>1 DEF ProfileOf, Heartbeat
<1>2. CASE hb.profileid = NoValue /\ hb.userid # NoValue
  BY <1>2 DEF ProfileOf, Heartbeat
<1>3. CASE hb.profileid = NoValue /\ hb.userid = NoValue
  BY <1>3 DEF ProfileOf, Heartbeat
<1>4. QED
  BY <1>1, <1>2, <1>3

\* An online client: its session is recorded, seen now, and challenged
\* unless a challenge is outstanding.
LEMMA OnlineIInv == ASSUME IInv, HeartbeatOnline PROVE IInv'
<1> USE MaxAgeAssumption, ConstantsAssumption DEF IInv
<1> DEFINE s == packet.session
           session == [session_id |-> s, profile_id |-> ProfileOf(packet)]
<1>0. /\ packet \in Heartbeat
      /\ s \in SessionId
      /\ now' = now /\ now \in Nat
      /\ UNCHANGED <<search_pc, request, cutoff, reply, registered, withdrawn>>
      /\ qr_pc' = "recv" /\ packet' = NoPacket /\ qr_cutoff' = 0
  <2>1. packet \in Heartbeat
    BY DEF HeartbeatOnline, Done, TypeOK, Packet, Keepalive, Answer,
           OtherPacket, Untracked
  <2>2. QED
    BY <2>1 DEF HeartbeatOnline, Done, TypeOK, Heartbeat, searchVars
<1>1. /\ RegistryOK'
      /\ DOMAIN last_seen' = DOMAIN last_seen \cup {s}
      /\ last_seen'[s] = now
      /\ \A x \in DOMAIN last_seen : x # s => last_seen'[x] = last_seen[x]
  <2>1. session \in OnlineSession /\ session.session_id = s
    BY <1>0, ProfileOfType DEF OnlineSession
  <2>2. RegistryOK /\ upsert_online_session(session)
    BY DEF HeartbeatOnline, TypeOK, RegistryOK
  <2> HIDE DEF session
  <2>3. QED
    BY <1>0, <2>1, <2>2, UpsertLemma
<1>2. /\ DOMAIN qr_challenges' = DOMAIN qr_challenges \cup {s}
      /\ \A x \in DOMAIN qr_challenges' : qr_challenges'[x] \in Challenge
      /\ in_flight' \subseteq SessionId \X Challenge
      /\ issued' \in [SessionId -> Nat]
      /\ issued' = IF Outstanding(s) THEN issued
                                     ELSE [issued EXCEPT ![s] = @ + 1]
  <2>1. CASE Outstanding(s)
    <3>1. UNCHANGED <<qr_challenges, in_flight, issued>>
      BY <2>1 DEF HeartbeatOnline
    <3>2. DOMAIN qr_challenges = DOMAIN qr_challenges \cup {s}
      BY <2>1 DEF Outstanding
    <3>3. QED
      BY <2>1, <3>1, <3>2 DEF TypeOK
  <2>2. CASE ~ Outstanding(s)
    <3>1. Issue(s, qr_challenges)
      BY <2>2 DEF HeartbeatOnline
    <3>2. QED
      BY <1>0, <2>2, <3>1, IssueLemma DEF TypeOK
  <2>3. QED
    BY <2>1, <2>2
<1>3. NoPacket \in Packet
  BY DEF NoPacket, Packet, Untracked
<1>4. TypeOK'
  BY <1>0, <1>1, <1>2, <1>3 DEF TypeOK, RegistryOK
<1>5. CutoffsInPast'
  BY <1>0 DEF CutoffsInPast
<1>6. LookupPruned'
  <2> SUFFICES ASSUME NEW w \in Worker, search_pc[w] = "lookup",
                      NEW x \in DOMAIN last_seen'
               PROVE  last_seen'[x] > cutoff[w]
    BY <1>0 DEF LookupPruned
  <2>1. cutoff[w] <= now - MaxAge /\ cutoff[w] \in Int
    BY DEF CutoffsInPast, TypeOK
  <2>2. x # s => last_seen[x] > cutoff[w]
    BY <1>1 DEF LookupPruned
  <2>3. QED
    BY <1>0, <1>1, <2>1, <2>2
<1>7. ChallengeAccounting'
  <2> SUFFICES ASSUME NEW x \in SessionId
               PROVE  issued'[x] = registered'[x] + withdrawn'[x]
                                   + (IF Outstanding(x)' THEN 1 ELSE 0)
    BY DEF ChallengeAccounting
  <2>1. issued[x] = registered[x] + withdrawn[x]
                    + (IF Outstanding(x) THEN 1 ELSE 0)
    BY DEF ChallengeAccounting
  <2>2. QED
    BY <1>0, <1>2, <2>1 DEF Outstanding, TypeOK
<1>8. QED
  BY <1>1, <1>4, <1>5, <1>6, <1>7 DEF RegistryOK

\* A client that leaves: its session goes, an outstanding challenge is
\* withdrawn and another one issued.
LEMMA LeavingIInv == ASSUME IInv, HeartbeatLeaving PROVE IInv'
<1> USE MaxAgeAssumption, ConstantsAssumption DEF IInv
<1> DEFINE s == packet.session
           rest == Erase(qr_challenges, {s})
<1>0. /\ packet \in Heartbeat
      /\ s \in SessionId
      /\ now' = now
      /\ UNCHANGED <<search_pc, request, cutoff, reply, registered>>
      /\ qr_pc' = "recv" /\ packet' = NoPacket /\ qr_cutoff' = 0
  <2>1. packet \in Heartbeat
    BY DEF HeartbeatLeaving, Done, TypeOK, Packet, Keepalive, Answer,
           OtherPacket, Untracked
  <2>2. QED
    BY <2>1 DEF HeartbeatLeaving, Done, Heartbeat, searchVars
<1>1. /\ RegistryOK'
      /\ DOMAIN last_seen' = DOMAIN last_seen \ {s}
      /\ \A x \in DOMAIN last_seen' : last_seen'[x] = last_seen[x]
  BY <1>0, RemoveLemma DEF HeartbeatLeaving, TypeOK, RegistryOK
<1>2. /\ DOMAIN rest = DOMAIN qr_challenges \ {s}
      /\ \A x \in DOMAIN rest : rest[x] \in Challenge
  BY DEF Erase, Restrict, TypeOK
<1>3. /\ DOMAIN qr_challenges' = DOMAIN qr_challenges \cup {s}
      /\ \A x \in DOMAIN qr_challenges' : qr_challenges'[x] \in Challenge
      /\ in_flight' \subseteq SessionId \X Challenge
      /\ issued' \in [SessionId -> Nat]
      /\ issued' = [issued EXCEPT ![s] = @ + 1]
  <2>1. Issue(s, rest)
    BY DEF HeartbeatLeaving
  <2>2. DOMAIN rest \subseteq SessionId
    BY <1>2 DEF TypeOK
  <2> HIDE DEF rest
  <2>3. QED
    BY <1>0, <1>2, <2>1, <2>2, IssueLemma
<1>4. /\ withdrawn' \in [SessionId -> Nat]
      /\ withdrawn' = IF Outstanding(s) THEN [withdrawn EXCEPT ![s] = @ + 1]
                                        ELSE withdrawn
  BY <1>0 DEF HeartbeatLeaving, TypeOK
<1>5. NoPacket \in Packet
  BY DEF NoPacket, Packet, Untracked
<1>6. TypeOK'
  BY <1>0, <1>1, <1>3, <1>4, <1>5 DEF TypeOK, RegistryOK
<1>7. CutoffsInPast' /\ LookupPruned'
  BY <1>0, <1>1 DEF CutoffsInPast, LookupPruned
<1>8. ChallengeAccounting'
  <2> SUFFICES ASSUME NEW x \in SessionId
               PROVE  issued'[x] = registered'[x] + withdrawn'[x]
                                   + (IF Outstanding(x)' THEN 1 ELSE 0)
    BY DEF ChallengeAccounting
  <2>1. issued[x] = registered[x] + withdrawn[x]
                    + (IF Outstanding(x) THEN 1 ELSE 0)
    BY DEF ChallengeAccounting
  <2>2. QED
    BY <1>0, <1>3, <1>4, <2>1 DEF Outstanding, TypeOK
<1>9. QED
  BY <1>1, <1>6, <1>7, <1>8 DEF RegistryOK

\* A search reads the clock: its cutoff is MaxAge before now.
LEMMA SearchBeginIInv ==
    ASSUME IInv, NEW w \in Worker, NEW profiles \in SUBSET ProfileId,
           SearchBegin(w, profiles)
    PROVE  IInv'
<1> USE MaxAgeAssumption, ConstantsAssumption DEF IInv
<1>0. /\ UNCHANGED <<registryVars, now, qrVars, challengeVars, reply>>
      /\ request' = [request EXCEPT ![w] = profiles]
      /\ cutoff' = [cutoff EXCEPT ![w] = now - MaxAge]
      /\ search_pc' = [search_pc EXCEPT ![w] = "prune"]
  BY DEF SearchBegin
<1>1. TypeOK' /\ RegistryConsistent'
  BY <1>0 DEF TypeOK, RegistryTypeOK, RegistryConsistent, registryVars, qrVars,
              challengeVars
<1>2. CutoffsInPast' /\ LookupPruned' /\ ChallengeAccounting'
  BY <1>0 DEF TypeOK, CutoffsInPast, LookupPruned, ChallengeAccounting,
              Outstanding, registryVars, qrVars, challengeVars
<1>3. QED
  BY <1>1, <1>2

\* A search prunes: nothing as old as its cutoff is left.
LEMMA SearchPruneIInv ==
    ASSUME IInv, NEW w \in Worker, SearchPrune(w) PROVE IInv'
<1> USE MaxAgeAssumption, ConstantsAssumption DEF IInv
<1>0. /\ UNCHANGED <<now, qrVars, challengeVars, request, cutoff, reply>>
      /\ search_pc' = [search_pc EXCEPT ![w] = "lookup"]
      /\ search_pc[w] = "prune"
  BY DEF SearchPrune
<1>1. /\ RegistryOK'
      /\ DOMAIN last_seen' = DOMAIN last_seen \ Stale(cutoff[w])
      /\ \A s \in DOMAIN last_seen' : last_seen'[s] = last_seen[s]
  BY <1>0, PruneLemma DEF SearchPrune, TypeOK, RegistryOK
<1>2. TypeOK'
  BY <1>0, <1>1 DEF TypeOK, RegistryOK, qrVars, challengeVars
<1>3. CutoffsInPast' /\ ChallengeAccounting'
  BY <1>0 DEF TypeOK, CutoffsInPast, ChallengeAccounting, Outstanding, qrVars,
              challengeVars
<1>4. LookupPruned'
  <2> SUFFICES ASSUME NEW v \in Worker, search_pc'[v] = "lookup",
                      NEW s \in DOMAIN last_seen'
               PROVE  last_seen'[s] > cutoff'[v]
    BY DEF LookupPruned
  <2>1. CASE v = w
    <3>1. s \in DOMAIN last_seen /\ ~ (last_seen[s] <= cutoff[w])
      BY <1>1 DEF Stale
    <3>2. last_seen[s] \in Int /\ cutoff[w] \in Int
      BY <3>1 DEF TypeOK, RegistryTypeOK
    <3>3. QED
      BY <1>0, <1>1, <2>1, <3>1, <3>2
  <2>2. CASE v # w
    BY <1>0, <1>1, <2>2 DEF TypeOK, LookupPruned
  <2>3. QED
    BY <2>1, <2>2
<1>5. QED
  BY <1>1, <1>2, <1>3, <1>4 DEF RegistryOK

\* A search looks up and answers: the registry stays as it is.
LEMMA SearchEndIInv ==
    ASSUME IInv, NEW w \in Worker, SearchLookup(w) \/ SearchSend(w) PROVE IInv'
<1> USE MaxAgeAssumption, ConstantsAssumption DEF IInv
<1>0. UNCHANGED <<registryVars, now, qrVars, challengeVars>>
  BY DEF SearchLookup, SearchSend
<1>1. RegistryTypeOK' /\ RegistryConsistent' /\ ChallengeAccounting'
  BY <1>0 DEF TypeOK, RegistryTypeOK, RegistryConsistent, ChallengeAccounting,
              Outstanding, registryVars, challengeVars
<1>2. CASE SearchLookup(w)
  <2>1. online_sessions_for_profiles(request[w]) \subseteq SessionId
    BY DEF online_sessions_for_profiles, TypeOK, RegistryTypeOK
  <2>2. TypeOK'
    BY <1>0, <1>1, <1>2, <2>1 DEF SearchLookup, TypeOK, qrVars, challengeVars
  <2>3. CutoffsInPast' /\ LookupPruned'
    BY <1>0, <1>2 DEF SearchLookup, TypeOK, CutoffsInPast, LookupPruned,
                      registryVars, qrVars
  <2>4. QED
    BY <1>1, <2>2, <2>3
<1>3. CASE SearchSend(w)
  <2>1. TypeOK'
    BY <1>0, <1>1, <1>3 DEF SearchSend, TypeOK, qrVars, challengeVars
  <2>2. CutoffsInPast' /\ LookupPruned'
    BY <1>0, <1>3 DEF SearchSend, TypeOK, CutoffsInPast, LookupPruned,
                      registryVars, qrVars
  <2>3. QED
    BY <1>1, <2>1, <2>2
<1>4. QED
  BY <1>2, <1>3

\* Time only makes the cutoffs older; a lost challenge changes no more than
\* what can still arrive.
LEMMA EnvironmentIInv ==
    ASSUME IInv, Tick \/ (\E d \in in_flight : Lose(d)) PROVE IInv'
<1> USE MaxAgeAssumption, ConstantsAssumption DEF IInv
<1>1. CASE Tick
  <2>1. /\ now \in Nat /\ now' = now + 1 /\ now' \in 0 .. MaxTime
        /\ UNCHANGED <<registryVars, qrVars, challengeVars, searchVars>>
    BY <1>1 DEF Tick, TypeOK
  <2>2. TypeOK' /\ RegistryConsistent'
    BY <2>1 DEF TypeOK, RegistryTypeOK, RegistryConsistent, registryVars,
                qrVars, challengeVars, searchVars
  <2>3. CutoffsInPast'
    BY <2>1 DEF TypeOK, CutoffsInPast, qrVars, searchVars
  <2>4. LookupPruned' /\ ChallengeAccounting'
    BY <2>1 DEF LookupPruned, ChallengeAccounting, Outstanding, registryVars,
                challengeVars, searchVars
  <2>5. QED
    BY <2>2, <2>3, <2>4
<1>2. CASE \E d \in in_flight : Lose(d)
  <2>1. /\ in_flight' \subseteq in_flight
        /\ UNCHANGED <<registryVars, now, qrVars, qr_challenges, issued,
                       registered, withdrawn, searchVars>>
    BY <1>2 DEF Lose
  <2>2. TypeOK' /\ RegistryConsistent'
    BY <2>1 DEF TypeOK, RegistryTypeOK, RegistryConsistent, registryVars,
                qrVars, searchVars
  <2>3. CutoffsInPast' /\ LookupPruned' /\ ChallengeAccounting'
    BY <2>1 DEF CutoffsInPast, LookupPruned, ChallengeAccounting, Outstanding,
                registryVars, qrVars, searchVars
  <2>4. QED
    BY <2>2, <2>3
<1>3. QED
  BY <1>1, <1>2

-----------------------------------------------------------------------------
\* IInv is inductive.
LEMMA NextIInv == IInv /\ [Next]_vars => IInv'
<1> SUFFICES ASSUME IInv, [Next]_vars PROVE IInv'
  OBVIOUS
<1>1. CASE \E p \in Packet : Receive(p)
  BY <1>1, ReceiveIInv
<1>2. CASE MainThread
  BY <1>2, ReadCutoffIInv, PruneIInv, RegisterIInv, IgnoreIInv, OnlineIInv,
     LeavingIInv DEF MainThread
<1>3. CASE \E w \in Worker : Search(w)
  BY <1>3, SearchBeginIInv, SearchPruneIInv, SearchEndIInv DEF Search
<1>4. CASE Tick \/ (\E d \in in_flight : Lose(d))
  BY <1>4, EnvironmentIInv
<1>5. CASE UNCHANGED vars
  BY <1>5 DEF IInv, TypeOK, RegistryTypeOK, RegistryConsistent, CutoffsInPast,
              LookupPruned, ChallengeAccounting, Outstanding, vars,
              registryVars, qrVars, challengeVars, searchVars
<1>6. QED
  BY <1>1, <1>2, <1>3, <1>4, <1>5 DEF Next

\* The inductive invariant holds in every reachable state.
THEOREM InductiveInvariant == Spec => []IInv
BY InitIInv, NextIInv, PTL DEF Spec

\* Type correctness, for every value of the constants.
THEOREM TypeCorrect == Spec => []TypeOK
<1>1. IInv => TypeOK
  BY DEF IInv
<1>2. QED
  BY <1>1, InductiveInvariant, PTL

\* The two maps of the registry never drift apart, however the main thread
\* and any number of search workers interleave.
THEOREM RegistryStaysConsistent == Spec => []RegistryConsistent
<1>1. IInv => RegistryConsistent
  BY DEF IInv
<1>2. QED
  BY <1>1, InductiveInvariant, PTL

\* Player Search lists only sessions heard from after the cutoff its own
\* request read.
THEOREM SearchSeesOnlyActive == Spec => []SearchListsOnlyActive
<1>1. IInv => SearchListsOnlyActive
  BY DEF IInv, RegistryConsistent, LookupPruned, SearchListsOnlyActive,
         online_sessions_for_profiles
<1>2. QED
  BY <1>1, InductiveInvariant, PTL

\* Every challenge is answered at most once, whatever the network repeats.
THEOREM ChallengesAnsweredOnce == Spec => []ChallengeAccounting
<1>1. IInv => ChallengeAccounting
  BY DEF IInv
<1>2. QED
  BY <1>1, InductiveInvariant, PTL

-----------------------------------------------------------------------------
(* Refinement: every step of the registry is a step of SessionLease or     *)
(* leaves its variables alone.                                             *)

\* The lease of a session and who holds one, by the refinement mapping.
LEMMA LeaseLemma ==
    ASSUME IInv
    PROVE  /\ Lease!Holders = DOMAIN last_seen
           /\ \A s \in DOMAIN last_seen : LeaseEnd[s] = last_seen[s] + MaxAge
           /\ \A s \in SessionId \ DOMAIN last_seen : LeaseEnd[s] = NoValue
<1> USE MaxAgeAssumption, ConstantsAssumption
<1>1. /\ DOMAIN last_seen \subseteq SessionId
      /\ \A s \in DOMAIN last_seen : last_seen[s] + MaxAge \in Int
  BY DEF IInv, TypeOK, RegistryTypeOK
<1>2. QED
  BY <1>1 DEF Lease!Holders, LeaseEnd

\* A datagram read is a packet heard.
LEMMA ReceiveRefines ==
    ASSUME IInv, NEW p \in Packet, Receive(p), IInv'
    PROVE  [Lease!Next]_(Lease!vars)
<1> USE MaxAgeAssumption, ConstantsAssumption
<1>1. Closing = NoValue /\ now' = now /\ packet' = p /\ qr_pc' = "cutoff"
  BY DEF Receive, Closing, Goodbye
<1>2. CASE HasSession(p)
  <2> DEFINE s == p.session
  <2>1. s \in SessionId
    BY <1>2 DEF HasSession, Packet, Keepalive, Answer, Heartbeat, OtherPacket,
                Untracked
  <2>2. Closing' \in {NoValue, s}
    BY <1>1 DEF Closing, Goodbye
  <2>3. /\ DOMAIN last_seen' = DOMAIN last_seen
        /\ \A x \in DOMAIN last_seen :
              last_seen'[x] = IF x = s THEN now ELSE last_seen[x]
    <3>1. /\ RegistryOK /\ now \in Nat /\ now' = now
          /\ touch_online_session(s)
      BY <1>2 DEF Receive, IInv, TypeOK, RegistryOK
    <3>2. QED
      BY <3>1, TouchLemma
  <2>4. LeaseEnd' = IF s \in DOMAIN last_seen
                    THEN [LeaseEnd EXCEPT ![s] = now + MaxAge] ELSE LeaseEnd
    BY <2>1, <2>3 DEF LeaseEnd
  <2>5. Lease!Hear(s)
    BY <1>1, <2>2, <2>4, LeaseLemma DEF Lease!Hear
  <2>6. QED
    BY <2>1, <2>5 DEF Lease!Next
<1>3. CASE ~ HasSession(p)
  <2>1. Closing' = NoValue
    BY <1>1, <1>3 DEF Closing, Goodbye, HasSession
  <2>2. LeaseEnd' = LeaseEnd
    BY <1>3 DEF Receive, LeaseEnd, registryVars
  <2>3. QED
    BY <1>1, <2>1, <2>2 DEF Lease!vars
<1>4. QED
  BY <1>2, <1>3

\* A prune only collects leases that have run out: its cutoff is at least
\* MaxAge old, however late it is used.
LEMMA PruneRefines ==
    ASSUME IInv, NEW c \in Int, c <= now - MaxAge, prune_online_sessions(c),
           now' = now, Closing' = Closing
    PROVE  Lease!Next
<1> USE MaxAgeAssumption, ConstantsAssumption
<1>1. /\ DOMAIN last_seen' = DOMAIN last_seen \ Stale(c)
      /\ \A s \in DOMAIN last_seen' : last_seen'[s] = last_seen[s]
  BY PruneLemma DEF IInv, TypeOK, RegistryOK
<1>2. \A s \in Stale(c) : /\ s \in DOMAIN last_seen
                          /\ s \in SessionId
                          /\ last_seen[s] + MaxAge <= now
  BY DEF Stale, IInv, TypeOK, RegistryTypeOK
<1>3. LeaseEnd' = [s \in SessionId |-> IF s \in Stale(c) THEN NoValue
                                                       ELSE LeaseEnd[s]]
  BY <1>1, <1>2 DEF LeaseEnd
<1>4. Stale(c) \in SUBSET {s \in Lease!Holders : LeaseEnd[s] <= now}
  BY <1>2, LeaseLemma
<1>5. Lease!Expire
  BY <1>3, <1>4 DEF Lease!Expire
<1>6. QED
  BY <1>5 DEF Lease!Next

\* An online heartbeat grants a lease, a goodbye ends one.
LEMMA HeartbeatRefines ==
    ASSUME IInv, HeartbeatOnline \/ HeartbeatLeaving
    PROVE  Lease!Next
<1> USE MaxAgeAssumption, ConstantsAssumption
<1> DEFINE s == packet.session
           session == [session_id |-> s, profile_id |-> ProfileOf(packet)]
<1>0. /\ packet \in Heartbeat /\ s \in SessionId /\ packet.kind = "heartbeat"
      /\ now' = now /\ now \in Nat /\ RegistryOK
      /\ qr_pc = "dispatch" /\ Closing' = NoValue
  <2>1. packet \in Heartbeat
    BY DEF HeartbeatOnline, HeartbeatLeaving, Done, IInv, TypeOK, Packet,
           Keepalive, Answer, OtherPacket, Untracked
  <2>2. QED
    BY <2>1 DEF HeartbeatOnline, HeartbeatLeaving, Done, IInv, TypeOK,
                Heartbeat, RegistryOK, Closing, Goodbye
<1>1. CASE HeartbeatOnline
  <2>1. Closing = NoValue
    BY <1>1 DEF HeartbeatOnline, Closing, Goodbye
  <2>2. session \in OnlineSession /\ session.session_id = s
    BY <1>0, ProfileOfType DEF OnlineSession
  <2>3. upsert_online_session(session)
    BY <1>1 DEF HeartbeatOnline
  <2>4. /\ DOMAIN last_seen' = DOMAIN last_seen \cup {s}
        /\ last_seen'[s] = now
        /\ \A x \in DOMAIN last_seen : x # s => last_seen'[x] = last_seen[x]
    <3> HIDE DEF session
    <3>1. QED
      BY <1>0, <2>2, <2>3, UpsertLemma
  <2>5. LeaseEnd' = [LeaseEnd EXCEPT ![s] = now + MaxAge]
    BY <1>0, <2>4 DEF LeaseEnd
  <2>6. Lease!Grant(s)
    BY <1>0, <2>1, <2>5 DEF Lease!Grant
  <2>7. QED
    BY <1>0, <2>6 DEF Lease!Next
<1>2. CASE HeartbeatLeaving
  <2>1. Closing = s /\ s # NoValue
    BY <1>0, <1>2 DEF HeartbeatLeaving, Closing, Goodbye
  <2>2. /\ DOMAIN last_seen' = DOMAIN last_seen \ {s}
        /\ \A x \in DOMAIN last_seen' : last_seen'[x] = last_seen[x]
    BY <1>0, <1>2, RemoveLemma DEF HeartbeatLeaving
  <2>3. LeaseEnd' = [LeaseEnd EXCEPT ![s] = NoValue]
    BY <1>0, <2>2 DEF LeaseEnd
  <2>4. Lease!Close
    BY <1>0, <2>1, <2>3 DEF Lease!Close
  <2>5. QED
    BY <2>4 DEF Lease!Next
<1>3. QED
  BY <1>1, <1>2

\* The other steps leave every lease alone or are the tick of its clock.
LEMMA OtherRefines ==
    ASSUME IInv,
           \/ ReadCutoff \/ Register \/ Ignore
           \/ \E w \in Worker : \/ \E profiles \in SUBSET ProfileId :
                                        SearchBegin(w, profiles)
                                \/ SearchLookup(w) \/ SearchSend(w)
           \/ \E d \in in_flight : Lose(d)
           \/ UNCHANGED vars
    PROVE  UNCHANGED (Lease!vars)
<1>1. UNCHANGED registryVars /\ now' = now
  BY DEF ReadCutoff, Register, Ignore, Done, SearchBegin, SearchLookup,
         SearchSend, Lose, vars
<1>2. Goodbye' = Goodbye /\ (Goodbye => packet' = packet)
  BY DEF ReadCutoff, Register, Ignore, Done, SearchBegin, SearchLookup,
         SearchSend, Lose, vars, qrVars, Goodbye
<1>3. QED
  BY <1>1, <1>2 DEF LeaseEnd, Closing, registryVars, Lease!vars

\* The registry, run by the main thread and any number of search workers,
\* implements SessionLease: no session heard from less than MaxAge ago is
\* dropped unless its client said goodbye.
THEOREM RegistryImplementsLease == Spec => ImplementsLease
<1>1. Init => Lease!Init
  BY ConstantsAssumption DEF Init, RegistryInit, Empty, Lease!Init, LeaseEnd,
     Closing, Goodbye
<1>2. ASSUME IInv, IInv', [Next]_vars PROVE [Lease!Next]_(Lease!vars)
  <2>1. CASE \E p \in Packet : Receive(p)
    BY <1>2, <2>1, ReceiveRefines
  <2>2. CASE Prune
    <3>1. qr_cutoff \in Int /\ qr_cutoff <= now - MaxAge
      BY <1>2, <2>2 DEF IInv, TypeOK, CutoffsInPast, Prune
    <3>2. Closing' = Closing /\ now' = now
      BY <2>2 DEF Prune, Closing, Goodbye
    <3>3. QED
      BY <1>2, <2>2, <3>1, <3>2, PruneRefines DEF Prune
  <2>3. CASE \E w \in Worker : SearchPrune(w)
    <3>1. PICK w \in Worker : SearchPrune(w)
      BY <2>3
    <3>2. cutoff[w] \in Int /\ cutoff[w] <= now - MaxAge
      BY <1>2, <3>1 DEF IInv, TypeOK, CutoffsInPast, SearchPrune
    <3>3. Closing' = Closing /\ now' = now
      BY <3>1 DEF SearchPrune, Closing, Goodbye, qrVars
    <3>4. QED
      BY <1>2, <3>1, <3>2, <3>3, PruneRefines DEF SearchPrune
  <2>4. CASE HeartbeatOnline \/ HeartbeatLeaving
    BY <1>2, <2>4, HeartbeatRefines
  <2>5. CASE Tick
    <3>1. Lease!Tick
      BY <2>5 DEF Tick, Lease!Tick, LeaseEnd, Closing, Goodbye, registryVars,
                  qrVars
    <3>2. QED
      BY <3>1 DEF Lease!Next
  <2>6. QED
    BY <1>2, <2>1, <2>2, <2>3, <2>4, <2>5, OtherRefines
       DEF Next, MainThread, Search
<1>3. QED
  BY <1>1, <1>2, InductiveInvariant, PTL DEF Spec, ImplementsLease, Lease!Spec
=============================================================================

---------------------------- MODULE NatNeg_proofs -----------------------------
(***************************************************************************)
(* Proofs about NAT negotiation, for any sessions, client indices,         *)
(* endpoints and timeout, and with no bound on the retries.                *)
(***************************************************************************)
EXTENDS NatNeg, TLAPS

(***************************************************************************)
(* The inductive invariant is the property PairsAgree itself, with types:  *)
(* a session of two was last changed by an NN_INIT, and that NN_INIT sent  *)
(* both NN_CONNECTs from the state it left.                                *)
(***************************************************************************)
IInv == TypeOK /\ PairsAgree

\* The cleanup keeps the active sessions as they are, and no other.
LEMMA CleanedLemma ==
    /\ DOMAIN Cleaned = {s \in DOMAIN natneg_sessions : Active(natneg_sessions[s])}
    /\ \A s \in DOMAIN Cleaned : Cleaned[s] = natneg_sessions[s]
BY DEF Cleaned, Erase, Restrict

\* How an NN_INIT changes the sessions: its own gains the client or has it
\* replaced.
Gains(new, old, s, i, e) ==
    /\ DOMAIN new = DOMAIN old \cup {s}
    /\ \A r \in DOMAIN old : r # s => new[r] = old[r]
    /\ DOMAIN new[s] = {i} \cup (IF s \in DOMAIN old THEN DOMAIN old[s] ELSE {})
    /\ new[s][i] = [endpoint |-> e, age |-> 0]
    /\ s \in DOMAIN old => \A j \in DOMAIN old[s] : j # i => new[s][j] = old[s][j]

LEMMA StoredLemma ==
    ASSUME NEW sessions, NEW s, NEW i, NEW e
    PROVE  Gains(Stored(sessions, s, i, e), sessions, s, i, e)
<1> DEFINE session == IF s \in DOMAIN sessions THEN sessions[s] ELSE Empty
           put == Put(session, i, [endpoint |-> e, age |-> 0])
<1>1. /\ DOMAIN put = DOMAIN session \cup {i}
      /\ put[i] = [endpoint |-> e, age |-> 0]
      /\ \A j \in DOMAIN session : j # i => put[j] = session[j]
  BY DEF Put
<1>2. DOMAIN session = IF s \in DOMAIN sessions THEN DOMAIN sessions[s] ELSE {}
  BY DEF Empty
<1>3. /\ DOMAIN Put(sessions, s, put) = DOMAIN sessions \cup {s}
      /\ Put(sessions, s, put)[s] = put
      /\ \A r \in DOMAIN sessions : r # s => Put(sessions, s, put)[r] = sessions[r]
  <2> HIDE DEF put
  <2>1. QED
    BY DEF Put
<1>4. Stored(sessions, s, i, e) = Put(sessions, s, put)
  BY DEF Stored
<1> HIDE DEF put, session
<1>5. QED
  BY <1>1, <1>2, <1>3, <1>4 DEF session, Gains

\* The NN_CONNECT to a client of a pair names its peer, and only a pair has
\* any.
LEMMA ConnectsLemma ==
    ASSUME NEW s, NEW session
    PROVE  /\ \A i \in DOMAIN Connects(s, session) :
                \E j \in DOMAIN session : Pair(session, i, j)
           /\ \A i, j \in DOMAIN session : Pair(session, i, j) =>
                /\ i \in DOMAIN Connects(s, session)
                /\ Connects(s, session)[i] =
                    [kind |-> "connect", session |-> s,
                     to |-> session[i].endpoint, peer |-> session[j].endpoint]
<1>1. DOMAIN Connects(s, session) =
        {k \in DOMAIN session : \E j \in DOMAIN session : Pair(session, k, j)}
  BY DEF Connects
<1>2. ASSUME NEW i \in DOMAIN session, NEW j \in DOMAIN session, Pair(session, i, j)
      PROVE  Connects(s, session)[i] =
                [kind |-> "connect", session |-> s,
                 to |-> session[i].endpoint, peer |-> session[j].endpoint]
  <2>1. (CHOOSE k \in DOMAIN session : k # i) = j
    BY <1>2 DEF Pair
  <2>2. i \in DOMAIN Connects(s, session)
    BY <1>1, <1>2
  <2>3. QED
    BY <1>1, <1>2, <2>1, <2>2 DEF Connects
<1>3. QED
  BY <1>1, <1>2

\* The sessions after an NN_INIT have their types.
LEMMA InitSessions ==
    ASSUME TypeOK, NEW s \in SessionId, NEW i \in ClientIndex, NEW e \in Endpoint,
           natneg_sessions' = Stored(Cleaned, s, i, e)
    PROVE  /\ DOMAIN natneg_sessions' \subseteq SessionId
           /\ s \in DOMAIN natneg_sessions'
           /\ \A r \in DOMAIN natneg_sessions' :
                /\ DOMAIN natneg_sessions'[r] \subseteq ClientIndex
                /\ \A j \in DOMAIN natneg_sessions'[r] :
                        natneg_sessions'[r][j] \in NatNegSessionClient
           /\ \A r \in DOMAIN natneg_sessions' : r # s =>
                /\ r \in DOMAIN natneg_sessions
                /\ natneg_sessions'[r] = natneg_sessions[r]
<1> DEFINE client == [endpoint |-> e, age |-> 0]
<1>1. client \in NatNegSessionClient
  BY TimeoutAssumption DEF NatNegSessionClient
<1>2. /\ DOMAIN Cleaned \subseteq DOMAIN natneg_sessions
      /\ \A r \in DOMAIN Cleaned : Cleaned[r] = natneg_sessions[r]
  BY CleanedLemma
<1>0. Gains(natneg_sessions', Cleaned, s, i, e)
  BY StoredLemma
<1>3. /\ DOMAIN natneg_sessions' = DOMAIN Cleaned \cup {s}
      /\ \A r \in DOMAIN Cleaned : r # s => natneg_sessions'[r] = Cleaned[r]
      /\ DOMAIN natneg_sessions'[s] = {i} \cup (IF s \in DOMAIN Cleaned
                                               THEN DOMAIN Cleaned[s] ELSE {})
      /\ natneg_sessions'[s][i] = client
      /\ s \in DOMAIN Cleaned =>
            \A j \in DOMAIN Cleaned[s] :
                j # i => natneg_sessions'[s][j] = Cleaned[s][j]
  BY <1>0 DEF Gains
<1> HIDE DEF client
<1>4. /\ DOMAIN natneg_sessions'[s] \subseteq ClientIndex
      /\ \A j \in DOMAIN natneg_sessions'[s] :
            natneg_sessions'[s][j] \in NatNegSessionClient
  BY <1>1, <1>2, <1>3 DEF TypeOK
<1>5. QED
  BY <1>2, <1>3, <1>4 DEF TypeOK

\* A pair stays in agreement whoever of the two sends again, and from where.
LEMMA HandleInitIInv ==
    ASSUME IInv, NEW s \in SessionId, NEW i \in ClientIndex, NEW e \in Endpoint,
           HandleInit(s, i, e)
    PROVE  IInv'
<1> USE DEF IInv
<1> DEFINE connects == Connects(s, natneg_sessions'[s])
<1>1. /\ natneg_sessions' = Stored(Cleaned, s, i, e)
      /\ sent' = {[kind |-> "init_ack", to |-> e]} \cup Range(connects)
      /\ told' = [c \in DOMAIN told |->
                    IF c[1] = s /\ c[2] \in DOMAIN connects
                    THEN connects[c[2]] ELSE told[c]]
  BY DEF HandleInit
<1>2. /\ DOMAIN natneg_sessions' \subseteq SessionId
      /\ s \in DOMAIN natneg_sessions'
      /\ \A r \in DOMAIN natneg_sessions' :
            /\ DOMAIN natneg_sessions'[r] \subseteq ClientIndex
            /\ \A j \in DOMAIN natneg_sessions'[r] :
                    natneg_sessions'[r][j] \in NatNegSessionClient
      /\ \A r \in DOMAIN natneg_sessions' : r # s =>
            /\ r \in DOMAIN natneg_sessions
            /\ natneg_sessions'[r] = natneg_sessions[r]
  BY <1>1, InitSessions
<1>3. /\ \A k \in DOMAIN connects :
            \E j \in DOMAIN natneg_sessions'[s] : Pair(natneg_sessions'[s], k, j)
      /\ \A k, j \in DOMAIN natneg_sessions'[s] :
            Pair(natneg_sessions'[s], k, j) =>
                /\ k \in DOMAIN connects
                /\ connects[k] = [kind |-> "connect", session |-> s,
                                  to |-> natneg_sessions'[s][k].endpoint,
                                  peer |-> natneg_sessions'[s][j].endpoint]
  BY ConnectsLemma
<1> HIDE DEF connects
<1>4. \A k \in DOMAIN connects : connects[k] \in Connect
  <2> SUFFICES ASSUME NEW k \in DOMAIN connects PROVE connects[k] \in Connect
    OBVIOUS
  <2>1. PICK j \in DOMAIN natneg_sessions'[s] : Pair(natneg_sessions'[s], k, j)
    BY <1>3
  <2>2. k \in DOMAIN natneg_sessions'[s]
    BY <2>1 DEF Pair
  <2>3. /\ natneg_sessions'[s][k].endpoint \in Endpoint
        /\ natneg_sessions'[s][j].endpoint \in Endpoint
    BY <1>2, <2>1, <2>2 DEF NatNegSessionClient
  <2>4. connects[k] = [kind |-> "connect", session |-> s,
                       to |-> natneg_sessions'[s][k].endpoint,
                       peer |-> natneg_sessions'[s][j].endpoint]
    BY <1>3, <2>1, <2>2
  <2>5. QED
    BY <2>3, <2>4 DEF Connect
<1>5. sent' \subseteq Connect \cup Reply
  BY <1>1, <1>4 DEF Range, Reply
<1>6. told' \in [SessionId \X ClientIndex -> Connect \cup {Nothing}]
  BY <1>1, <1>4 DEF TypeOK
<1>7. TypeOK'
  BY <1>2, <1>5, <1>6 DEF TypeOK
<1>8. PairsAgree'
  <2> SUFFICES ASSUME NEW r \in DOMAIN natneg_sessions',
                      NEW k \in DOMAIN natneg_sessions'[r],
                      NEW j \in DOMAIN natneg_sessions'[r],
                      Pair(natneg_sessions'[r], k, j)
               PROVE  told'[<<r, k>>] =
                        [kind |-> "connect", session |-> r,
                         to |-> natneg_sessions'[r][k].endpoint,
                         peer |-> natneg_sessions'[r][j].endpoint]
    BY DEF PairsAgree, Pair
  <2>1. <<r, k>> \in DOMAIN told
    BY <1>2 DEF TypeOK
  <2>2. CASE r = s
    BY <1>1, <1>3, <2>1, <2>2
  <2>3. CASE r # s
    <3>1. told'[<<r, k>>] = told[<<r, k>>]
      BY <1>1, <2>1, <2>3
    <3>2. natneg_sessions'[r] = natneg_sessions[r] /\ r \in DOMAIN natneg_sessions
      BY <1>2, <2>3
    <3>3. QED
      BY <3>1, <3>2 DEF PairsAgree
  <2>4. QED
    BY <2>2, <2>3
<1>9. QED
  BY <1>7, <1>8

\* A tick changes ages only.
LEMMA TickIInv == ASSUME IInv, Tick PROVE IInv'
<1> USE DEF IInv
<1>1. /\ DOMAIN natneg_sessions' = DOMAIN natneg_sessions
      /\ \A s \in DOMAIN natneg_sessions :
            /\ DOMAIN natneg_sessions'[s] = DOMAIN natneg_sessions[s]
            /\ \A i \in DOMAIN natneg_sessions[s] :
                natneg_sessions'[s][i] =
                    [natneg_sessions[s][i] EXCEPT
                        !.age = IF @ < Timeout THEN @ + 1 ELSE @]
  BY DEF Tick
<1>2. \A s \in DOMAIN natneg_sessions : \A i \in DOMAIN natneg_sessions[s] :
        /\ natneg_sessions'[s][i] \in NatNegSessionClient
        /\ natneg_sessions'[s][i].endpoint = natneg_sessions[s][i].endpoint
  <2> SUFFICES ASSUME NEW s \in DOMAIN natneg_sessions,
                      NEW i \in DOMAIN natneg_sessions[s]
               PROVE  /\ natneg_sessions'[s][i] \in NatNegSessionClient
                      /\ natneg_sessions'[s][i].endpoint =
                            natneg_sessions[s][i].endpoint
    OBVIOUS
  <2> DEFINE client == natneg_sessions[s][i]
  <2>1. client \in NatNegSessionClient
    BY DEF TypeOK
  <2>2. natneg_sessions'[s][i] =
            [client EXCEPT !.age = IF @ < Timeout THEN @ + 1 ELSE @]
    BY <1>1
  <2> HIDE DEF client
  <2>3. [client EXCEPT !.age = IF @ < Timeout THEN @ + 1 ELSE @]
            = [endpoint |-> client.endpoint,
               age |-> IF client.age < Timeout THEN client.age + 1 ELSE client.age]
    BY <2>1 DEF NatNegSessionClient
  <2>4. (IF client.age < Timeout THEN client.age + 1 ELSE client.age) \in 0 .. Timeout
    BY <2>1, TimeoutAssumption DEF NatNegSessionClient
  <2>5. QED
    BY <2>1, <2>2, <2>3, <2>4 DEF client, NatNegSessionClient
<1>3. TypeOK'
  BY <1>1, <1>2 DEF Tick, TypeOK
<1>4. PairsAgree'
  <2> SUFFICES ASSUME NEW r \in DOMAIN natneg_sessions',
                      NEW k \in DOMAIN natneg_sessions'[r],
                      NEW j \in DOMAIN natneg_sessions'[r],
                      Pair(natneg_sessions'[r], k, j)
               PROVE  told'[<<r, k>>] =
                        [kind |-> "connect", session |-> r,
                         to |-> natneg_sessions'[r][k].endpoint,
                         peer |-> natneg_sessions'[r][j].endpoint]
    BY DEF PairsAgree, Pair
  <2>1. Pair(natneg_sessions[r], k, j)
    BY <1>1 DEF Pair
  <2>2. QED
    BY <1>1, <1>2, <2>1 DEF PairsAgree, Tick
<1>5. QED
  BY <1>3, <1>4

\* The other datagrams change nothing but what is sent.
LEMMA ReplyIInv ==
    ASSUME IInv, NEW e \in Endpoint, HandleConnectAck(e) \/ HandleAddressCheck(e)
    PROVE  IInv'
<1>1. sent' \subseteq Reply /\ UNCHANGED <<natneg_sessions, told>>
  BY DEF HandleConnectAck, HandleAddressCheck, Reply
<1>2. QED
  BY <1>1 DEF IInv, TypeOK, PairsAgree, Pair

\* What an NN_INIT carries.
LEMMA InitsLemma ==
    ASSUME NEW m \in Inits, HandleInit(m[1], m[2], m[3])
    PROVE  \E s \in SessionId, i \in ClientIndex, e \in Endpoint :
                HandleInit(s, i, e)
<1>1. m[1] \in SessionId /\ m[2] \in ClientIndex /\ m[3] \in Endpoint
  BY InitsAssumption
<1>2. QED
  BY <1>1

\* The inductive invariant holds in every reachable state.
THEOREM InductiveInvariant == Spec => []IInv
<1>1. Init => IInv
  BY DEF Init, IInv, TypeOK, PairsAgree, Empty
<1>2. ASSUME IInv, [Next]_vars PROVE IInv'
  <2>1. CASE \E s \in SessionId, i \in ClientIndex, e \in Endpoint :
                HandleInit(s, i, e)
    BY <1>2, <2>1, HandleInitIInv
  <2>2. CASE \E e \in Endpoint : HandleConnectAck(e) \/ HandleAddressCheck(e)
    BY <1>2, <2>2, ReplyIInv
  <2>3. CASE Tick
    BY <1>2, <2>3, TickIInv
  <2>4. CASE UNCHANGED vars
    BY <1>2, <2>4 DEF IInv, TypeOK, PairsAgree, Pair, vars
  <2>5. QED
    BY <1>2, <2>1, <2>2, <2>3, <2>4, InitsLemma DEF Next
<1>3. QED
  BY <1>1, <1>2, PTL DEF Spec

\* Type correctness, for every value of the constants.
THEOREM TypeCorrect == Spec => []TypeOK
<1>1. IInv => TypeOK
  BY DEF IInv
<1>2. QED
  BY <1>1, InductiveInvariant, PTL

\* The two clients of a session always have each other's latest endpoint.
THEOREM PairsAlwaysAgree == Spec => []PairsAgree
<1>1. IInv => PairsAgree
  BY DEF IInv
<1>2. QED
  BY <1>1, InductiveInvariant, PTL

\* The cleanup an NN_INIT runs spares every session heard from in time.
THEOREM CleanupSparesLiveSessions == Spec => LiveSessionsKept
<1> DEFINE Kept ==
        \A s \in DOMAIN natneg_sessions : Active(natneg_sessions[s]) =>
            /\ s \in DOMAIN natneg_sessions'
            /\ DOMAIN natneg_sessions[s] \subseteq DOMAIN natneg_sessions'[s]
<1>1. ASSUME NEW s \in SessionId, NEW i \in ClientIndex, NEW e \in Endpoint,
             HandleInit(s, i, e)
      PROVE  Kept
  <2> SUFFICES ASSUME NEW r \in DOMAIN natneg_sessions, Active(natneg_sessions[r])
               PROVE  /\ r \in DOMAIN natneg_sessions'
                      /\ DOMAIN natneg_sessions[r] \subseteq DOMAIN natneg_sessions'[r]
    OBVIOUS
  <2>1. r \in DOMAIN Cleaned /\ Cleaned[r] = natneg_sessions[r]
    BY CleanedLemma
  <2>2. natneg_sessions' = Stored(Cleaned, s, i, e)
    BY <1>1 DEF HandleInit
  <2>3. Gains(natneg_sessions', Cleaned, s, i, e)
    BY <2>2, StoredLemma
  <2>4. QED
    BY <2>1, <2>3 DEF Gains
<1>2. ASSUME Tick PROVE Kept
  BY <1>2 DEF Tick
<1>3. ASSUME NEW e \in Endpoint, HandleConnectAck(e) \/ HandleAddressCheck(e)
      PROVE  Kept
  BY <1>3 DEF HandleConnectAck, HandleAddressCheck
<1>4. [Next]_vars => [Kept]_vars
  BY <1>1, <1>2, <1>3, InitsLemma DEF Next
<1>5. QED
  BY <1>4, PTL DEF Spec, LiveSessionsKept

\* A session that fell silent introduces nobody to whoever reuses its id.
THEOREM NoGhostIsIntroduced == Spec => NoGhostPeer
<1> DEFINE NoGhost ==
        \A s \in DOMAIN natneg_sessions : ~ Active(natneg_sessions[s]) =>
            \A m \in sent' : m.kind = "connect" => m.session # s
<1>1. ASSUME NEW s \in SessionId, NEW i \in ClientIndex, NEW e \in Endpoint,
             HandleInit(s, i, e)
      PROVE  NoGhost
  <2> DEFINE connects == Connects(s, natneg_sessions'[s])
  <2> SUFFICES ASSUME NEW r \in DOMAIN natneg_sessions,
                      ~ Active(natneg_sessions[r]),
                      NEW m \in sent', m.kind = "connect", m.session = r
               PROVE  FALSE
    OBVIOUS
  <2>1. /\ natneg_sessions' = Stored(Cleaned, s, i, e)
        /\ sent' = {[kind |-> "init_ack", to |-> e]} \cup Range(connects)
    BY <1>1 DEF HandleInit
  <2>2. PICK k \in DOMAIN connects : m = connects[k]
    BY <2>1 DEF Range
  <2>3. PICK j \in DOMAIN natneg_sessions'[s] : Pair(natneg_sessions'[s], k, j)
    BY <2>2, ConnectsLemma
  <2>4. k \in DOMAIN natneg_sessions'[s]
    BY <2>3 DEF Pair
  <2>5. m.session = s
    <3>1. connects[k] = [kind |-> "connect", session |-> s,
                         to |-> natneg_sessions'[s][k].endpoint,
                         peer |-> natneg_sessions'[s][j].endpoint]
      BY <2>3, <2>4, ConnectsLemma
    <3> HIDE DEF connects
    <3>2. QED
      BY <2>2, <3>1
  <2>6. s \notin DOMAIN Cleaned
    BY <2>5, CleanedLemma
  <2>7. DOMAIN natneg_sessions'[s] = {i}
    <3>1. Gains(natneg_sessions', Cleaned, s, i, e)
      BY <2>1, StoredLemma
    <3>2. QED
      BY <2>6, <3>1 DEF Gains
  <2>8. QED
    BY <2>3, <2>7 DEF Pair
<1>2. ASSUME Tick PROVE NoGhost
  BY <1>2 DEF Tick
<1>3. ASSUME NEW e \in Endpoint, HandleConnectAck(e) \/ HandleAddressCheck(e)
      PROVE  NoGhost
  BY <1>3 DEF HandleConnectAck, HandleAddressCheck
<1>4. [Next]_vars => [NoGhost]_vars
  BY <1>1, <1>2, <1>3, InitsLemma DEF Next
<1>5. QED
  BY <1>4, PTL DEF Spec, NoGhostPeer
=============================================================================

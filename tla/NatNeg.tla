------------------------------- MODULE NatNeg --------------------------------
(***************************************************************************)
(* NAT negotiation, handle_natneg_packet of src/server_game.cpp with the   *)
(* packets of src/gamespy_natneg.cpp.  Two clients that want to play send  *)
(* NN_INIT with the same session id and different client indices; as soon  *)
(* as the server holds two, every further NN_INIT of the session makes it  *)
(* send each of them an NN_CONNECT that names the other's public endpoint. *)
(* The main thread handles one datagram at a time, so a datagram is one    *)
(* action.  Datagrams may be lost, repeated or overtaken: any NN_INIT may  *)
(* arrive at any time, from any port of its client.                        *)
(*                                                                         *)
(* The code compares last_seen only with now, and the difference only with *)
(* Timeout; the model keeps that difference, an age in seconds that stops  *)
(* at Timeout, so it needs no bound on the clock.                          *)
(***************************************************************************)
EXTENDS Integers, FiniteSets, Maps

CONSTANTS
    SessionId,      \* NATNEG session ids
    ClientIndex,    \* client indices, one byte of the packet
    Endpoint,       \* public address and port a datagram comes from
    Inits,          \* the NN_INITs there may be: <<session, index, endpoint>>
    Timeout,        \* 30 s
    Retry,          \* the seconds a punctual client lets pass between inits
    Punctual        \* the clients that keep retrying

ASSUME TimeoutAssumption == Timeout \in Nat \ {0}
ASSUME RetryAssumption == Retry \in Nat \ {0}
ASSUME InitsAssumption == Inits \subseteq SessionId \X ClientIndex \X Endpoint
ASSUME PunctualAssumption == Punctual \subseteq SessionId \X ClientIndex

VARIABLES
    natneg_sessions,    \* session id -> (client index -> client)
    sent,               \* what the last datagram made the server send
    told                \* history: the last NN_CONNECT sent to each client

vars == <<natneg_sessions, sent, told>>

NatNegSessionClient == [endpoint : Endpoint, age : 0 .. Timeout]

\* An NN_CONNECT goes to an endpoint and names the endpoint of the peer.
Connect == [kind : {"connect"}, session : SessionId, to : Endpoint,
            peer : Endpoint]
Reply == [kind : {"init_ack", "connect_ack", "empty", "address_reply"},
          to : Endpoint]
Nothing == [kind |-> "nothing"]

Init ==
    /\ natneg_sessions = Empty
    /\ sent = {}
    /\ told = [c \in SessionId \X ClientIndex |-> Nothing]

Active(session) == \E i \in DOMAIN session : session[i].age < Timeout

\* Bugs LiveSessionsKept, NoGhostPeer and PunctualPairsMeet find: one silent
\* client ends the session; there is no cleanup; it spares nobody.
BugCleanedEager ==
    Erase(natneg_sessions,
          {s \in DOMAIN natneg_sessions :
                \E i \in DOMAIN natneg_sessions[s] :
                    natneg_sessions[s][i].age >= Timeout})
BugCleanedNever == natneg_sessions
BugCleanedAlways == Empty

\* The sessions that outlive the cleanup.
Cleaned ==
    Erase(natneg_sessions,
          {s \in DOMAIN natneg_sessions : ~ Active(natneg_sessions[s])})

\* A bug TypeOK finds: the client is stored under its session id.
BugStoredUnderSession(sessions, s, i, e) ==
    LET session == IF s \in DOMAIN sessions THEN sessions[s] ELSE Empty
    IN  Put(sessions, s, Put(session, s, [endpoint |-> e, age |-> 0]))

\* natneg_sessions[s][i] = {client, packet, client_address, now}
Stored(sessions, s, i, e) ==
    LET session == IF s \in DOMAIN sessions THEN sessions[s] ELSE Empty
    IN  Put(sessions, s, Put(session, i, [endpoint |-> e, age |-> 0]))

Pair(session, i, j) == i # j /\ DOMAIN session = {i, j}

\* A bug PairsAgree finds: each client is told its own endpoint.
BugConnectsSelf(s, session) ==
    [i \in {k \in DOMAIN session : \E j \in DOMAIN session : Pair(session, k, j)}
        |-> [kind |-> "connect", session |-> s, to |-> session[i].endpoint,
             peer |-> session[i].endpoint]]

\* The two NN_CONNECTs of a session of two, by the index they go to.
Connects(s, session) ==
    [i \in {k \in DOMAIN session : \E j \in DOMAIN session : Pair(session, k, j)}
        |-> [kind |-> "connect", session |-> s, to |-> session[i].endpoint,
             peer |-> session[CHOOSE j \in DOMAIN session : j # i].endpoint]]

HandleInit(s, i, e) ==
    /\ natneg_sessions' = Stored(Cleaned, s, i, e)
    /\ LET connects == Connects(s, natneg_sessions'[s]) IN
        /\ sent' = {[kind |-> "init_ack", to |-> e]} \cup Range(connects)
        /\ told' = [c \in DOMAIN told |->
                        IF c[1] = s /\ c[2] \in DOMAIN connects
                        THEN connects[c[2]] ELSE told[c]]

\* NN_CONNECT_ACK is echoed; one without a NATNEG header is answered by an
\* empty datagram, for the code does not look before it sends.
HandleConnectAck(e) ==
    /\ \E kind \in {"connect_ack", "empty"} : sent' = {[kind |-> kind, to |-> e]}
    /\ UNCHANGED <<natneg_sessions, told>>

\* An address check is answered if it is long enough.
HandleAddressCheck(e) ==
    /\ sent' \in {{}, {[kind |-> "address_reply", to |-> e]}}
    /\ UNCHANGED <<natneg_sessions, told>>

\* A second passes, unless a punctual client has to send first.
Tick ==
    /\ \A s \in DOMAIN natneg_sessions : \A i \in DOMAIN natneg_sessions[s] :
            <<s, i>> \in Punctual => natneg_sessions[s][i].age < Retry
    /\ natneg_sessions' =
        [s \in DOMAIN natneg_sessions |->
            [i \in DOMAIN natneg_sessions[s] |->
                [natneg_sessions[s][i] EXCEPT
                    !.age = IF @ < Timeout THEN @ + 1 ELSE @]]]
    /\ sent' = {}
    /\ UNCHANGED told

Next ==
    \/ \E m \in Inits : HandleInit(m[1], m[2], m[3])
    \/ \E e \in Endpoint : HandleConnectAck(e) \/ HandleAddressCheck(e)
    \/ Tick

Spec == Init /\ [][Next]_vars

\* The main thread reads what a punctual client keeps sending.
FairSpec ==
    Spec /\ \A c \in Punctual :
                WF_vars(\E m \in Inits : /\ <<m[1], m[2]>> = c
                                       /\ HandleInit(m[1], m[2], m[3]))

-----------------------------------------------------------------------------
(* Properties.                                                             *)

\* Every variable has its type.
TypeOK ==
    /\ DOMAIN natneg_sessions \subseteq SessionId
    /\ \A s \in DOMAIN natneg_sessions :
        /\ DOMAIN natneg_sessions[s] \subseteq ClientIndex
        /\ \A i \in DOMAIN natneg_sessions[s] :
                natneg_sessions[s][i] \in NatNegSessionClient
    /\ sent \subseteq Connect \cup Reply
    /\ told \in [SessionId \X ClientIndex -> Connect \cup {Nothing}]

(***************************************************************************)
(* Whenever the server holds exactly two clients of a session, the last    *)
(* NN_CONNECT each was sent went to the endpoint it used last and named    *)
(* the one its peer used last, after any retries from other ports, session *)
(* ids used again, silences and cleanups.                                  *)
(***************************************************************************)
PairsAgree ==
    \A s \in DOMAIN natneg_sessions :
        LET session == natneg_sessions[s] IN
        \A i, j \in DOMAIN session : Pair(session, i, j) =>
            told[<<s, i>>] = [kind |-> "connect", session |-> s,
                              to |-> session[i].endpoint,
                              peer |-> session[j].endpoint]

(***************************************************************************)
(* The cleanup that every NN_INIT runs over all the sessions, whoever sent *)
(* it, drops no client of a session that was heard from in time.           *)
(***************************************************************************)
LiveSessionsKept ==
    [][\A s \in DOMAIN natneg_sessions : Active(natneg_sessions[s]) =>
            /\ s \in DOMAIN natneg_sessions'
            /\ DOMAIN natneg_sessions[s] \subseteq DOMAIN natneg_sessions'[s]]_vars

(***************************************************************************)
(* A session that has been silent for Timeout is over: the NN_INIT that    *)
(* reuses its id introduces nobody to a client it left behind.  The        *)
(* cleanup has to run before the new client is stored.                     *)
(***************************************************************************)
NoGhostPeer ==
    [][\A s \in DOMAIN natneg_sessions : ~ Active(natneg_sessions[s]) =>
            \A m \in sent' : m.kind = "connect" => m.session # s]_vars

(***************************************************************************)
(* The two clients of a session of two that both keep retrying, more often *)
(* than the timeout, are introduced to each other for good, whatever the   *)
(* clients of other sessions send.                                         *)
(***************************************************************************)
Introduced(s) == s \in DOMAIN natneg_sessions /\
    \E i, j \in ClientIndex : Pair(natneg_sessions[s], i, j)

PunctualPair(s) ==
    LET indices == {m[2] : m \in {n \in Inits : n[1] = s}} IN
    Cardinality(indices) = 2 /\ {s} \X indices \subseteq Punctual

PunctualPairsMeet == \A s \in SessionId : PunctualPair(s) => <>[]Introduced(s)
=============================================================================

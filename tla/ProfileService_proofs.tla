----------------------- MODULE ProfileService_proofs ------------------------
(***************************************************************************)
(* Proofs about the profile server, for any number of connections,         *)
(* descriptors and profiles and any socket buffer, while every client logs *)
(* in once and before anything else (LoginFirst).  Without that assumption *)
(* ActiveSocketsOpen and PushReachesAddressee do not hold.                 *)
(***************************************************************************)
EXTENDS ProfileService, SequenceTheorems, TLAPS

\* A socket through which a worker may push to p.
SpeaksFor(d, fd, p) == Owner(d, fd) /\ logged_in[d] /\ credentials[d] = p

(***************************************************************************)
(* The inductive invariant.  A worker that pushes holds the mutex, so no   *)
(* connection is torn down and the socket it looked up still speaks for    *)
(* the profile; a client that has something to read is logged in, so its   *)
(* profile id does not change any more.                                    *)
(***************************************************************************)
MutexHeld ==
    \A c \in Conn : /\ pc[c] = "pushing" <=> buddy_mutex = c
                    /\ pc[c] = "pushing" => push[c] \in PendingPush

SocketsDistinct ==
    /\ \A c \in Conn : pc[c] # "none" => client_socket[c] \in Fd
    /\ \A c, d \in Conn :
            pc[c] # "none" /\ pc[d] # "none" /\ client_socket[c] = client_socket[d]
                => c = d

ActiveSpeaks ==
    \A p \in DOMAIN active_profiles :
        \E d \in Conn : SpeaksFor(d, active_profiles[p], p)

PushSpeaks ==
    \A c \in Conn : pc[c] = "pushing" =>
        \E d \in Conn : SpeaksFor(d, push[c].fd, push[c].message.target)

ReadersLoggedIn ==
    \A c \in Conn : inbox[c] # <<>> => logged_in[c] /\ ~ hung_up[c] /\ pc[c] # "none"

IInv == /\ TypeOK /\ MutexHeld /\ SocketsDistinct /\ ActiveSpeaks
        /\ PushSpeaks /\ ReadersLoggedIn /\ PushReachesAddressee

\* The initial state: no connection.
LEMMA InitIInv == Init => IInv
<1> SUFFICES ASSUME Init PROVE IInv
  OBVIOUS
<1>1. TypeOK
  <2>1. <<>> \in Seq(Message)
    OBVIOUS
  <2>2. QED
    BY <2>1, ConstantsAssumption DEF Init, TypeOK, Empty
<1>2. MutexHeld /\ SocketsDistinct /\ ActiveSpeaks /\ PushSpeaks /\ ReadersLoggedIn
  BY ConstantsAssumption DEF Init, MutexHeld, SocketsDistinct, ActiveSpeaks,
     PushSpeaks, ReadersLoggedIn, Empty
<1>3. PushReachesAddressee
  BY DEF Init, PushReachesAddressee
<1>4. QED
  BY <1>1, <1>2, <1>3 DEF IInv

\* A new connection takes a descriptor nobody has.
LEMMA AcceptIInv ==
    ASSUME IInv, NEW c \in Conn, NEW fd \in Fd, Accept(c, fd) PROVE IInv'
<1> USE DEF IInv
<1>1. TypeOK'
  BY DEF Accept, TypeOK
<1>2. MutexHeld' /\ SocketsDistinct'
  BY ConstantsAssumption DEF Accept, TypeOK, MutexHeld, SocketsDistinct
<1>3. \A d \in Conn, f \in Fd, p \in Profile :
            SpeaksFor(d, f, p) => SpeaksFor(d, f, p)'
  BY DEF Accept, TypeOK, SpeaksFor, Owner
<1>4. ActiveSpeaks' /\ PushSpeaks'
  BY <1>3 DEF Accept, TypeOK, MutexHeld, PendingPush, Message, ActiveSpeaks, PushSpeaks
<1>5. ReadersLoggedIn' /\ PushReachesAddressee'
  BY DEF Accept, TypeOK, ReadersLoggedIn, PushReachesAddressee
<1>6. QED
  BY <1>1, <1>2, <1>4, <1>5

\* A login changes the profile id of a connection nobody refers to yet.
LEMMA LoginIInv ==
    ASSUME IInv, LoginFirst, NEW c \in Conn, NEW p \in Profile, Login(c, p)
    PROVE  IInv'
<1> USE DEF IInv
<1>1. TypeOK'
  BY DEF Login, TypeOK
<1>2. MutexHeld' /\ SocketsDistinct'
  BY DEF Login, TypeOK, MutexHeld, SocketsDistinct
<1>3. \A d \in Conn, f \in Fd, q \in Profile :
            SpeaksFor(d, f, q) => SpeaksFor(d, f, q)'
  BY DEF Login, TypeOK, SpeaksFor, Owner
<1>4. ActiveSpeaks' /\ PushSpeaks'
  BY <1>3 DEF Login, TypeOK, MutexHeld, PendingPush, Message, ActiveSpeaks, PushSpeaks
<1>5. inbox[c] = <<>>
  BY DEF Login, ReadersLoggedIn
<1>6. ReadersLoggedIn' /\ PushReachesAddressee'
  BY <1>5 DEF Login, TypeOK, ReadersLoggedIn, PushReachesAddressee
<1>7. QED
  BY <1>1, <1>2, <1>4, <1>6

\* A status records the socket of a connection that is logged in.
LEMMA StatusIInv == ASSUME IInv, LoginFirst, NEW c \in Conn, Status(c) PROVE IInv'
<1> USE DEF IInv
<1>1. /\ pc[c] = "reading" /\ logged_in[c] /\ buddy_mutex = None
      /\ client_socket[c] \in Fd /\ credentials[c] \in Profile
  BY DEF Status, Reading, SocketsDistinct, TypeOK
<1>2. /\ DOMAIN active_profiles' = DOMAIN active_profiles \cup {credentials[c]}
      /\ active_profiles'[credentials[c]] = client_socket[c]
      /\ \A p \in DOMAIN active_profiles :
            p # credentials[c] => active_profiles'[p] = active_profiles[p]
  BY DEF Status, Put
<1>3. UNCHANGED <<pc, client_socket, credentials, logged_in, hung_up, inbox, push,
                  pending_requests, buddy_mutex>>
  BY DEF Status, connVars
<1>4. TypeOK'
  BY <1>1, <1>2, <1>3 DEF TypeOK
<1>5. \A d \in Conn, f \in Fd, p \in Profile :
            SpeaksFor(d, f, p)' <=> SpeaksFor(d, f, p)
  BY <1>3 DEF SpeaksFor, Owner
<1>6. ActiveSpeaks'
  <2> SUFFICES ASSUME NEW p \in DOMAIN active_profiles'
               PROVE  \E d \in Conn : SpeaksFor(d, active_profiles[p], p)'
    BY DEF ActiveSpeaks
  <2>1. CASE p = credentials[c]
    BY <1>1, <1>2, <1>3, <2>1 DEF SpeaksFor, Owner
  <2>2. CASE p # credentials[c]
    BY <1>2, <1>5, <2>2 DEF ActiveSpeaks, TypeOK
  <2>3. QED
    BY <2>1, <2>2
<1>7. PushSpeaks'
  BY <1>3, <1>5 DEF PushSpeaks, MutexHeld, PendingPush, Message
<1>8. MutexHeld' /\ SocketsDistinct' /\ ReadersLoggedIn' /\ PushReachesAddressee'
  BY <1>3 DEF MutexHeld, SocketsDistinct, ReadersLoggedIn, PushReachesAddressee
<1>9. QED
  BY <1>4, <1>6, <1>7, <1>8

\* A request that may start a push, by what it has in common with the others.
LEMMA PushToIInv ==
    ASSUME IInv, NEW c \in Conn, NEW p \in Profile, NEW command \in {"2", "4"},
           pc[c] = "reading", buddy_mutex = None, PushTo(c, p, command),
           pending_requests' \in [Profile -> SUBSET Profile],
           UNCHANGED <<client_socket, credentials, logged_in, hung_up, inbox,
                       active_profiles>>
    PROVE  IInv'
<1> USE DEF IInv
<1> DEFINE pending == [fd |-> active_profiles[p],
                       message |-> [command |-> command,
                                    source |-> credentials[c], target |-> p]]
<1>1. CASE p \notin DOMAIN active_profiles
  <2>1. UNCHANGED <<pc, push, buddy_mutex>>
    BY <1>1 DEF PushTo
  <2>2. QED
    BY <2>1 DEF TypeOK, MutexHeld, SocketsDistinct, ActiveSpeaks, PushSpeaks,
                SpeaksFor, Owner, ReadersLoggedIn, PushReachesAddressee
<1>2. CASE p \in DOMAIN active_profiles
  <2>1. /\ push' = [push EXCEPT ![c] = pending]
        /\ pc' = [pc EXCEPT ![c] = "pushing"]
        /\ buddy_mutex' = c
    BY <1>2 DEF PushTo
  <2>2. pending \in PendingPush
    BY <1>2 DEF TypeOK, PendingPush, Message
  <2>3. pending.fd = active_profiles[p] /\ pending.message.target = p
    OBVIOUS
  <2> HIDE DEF pending
  <2>4. TypeOK'
    BY <2>1, <2>2 DEF TypeOK
  <2>5. MutexHeld' /\ SocketsDistinct'
    BY <2>1, <2>2, ConstantsAssumption DEF TypeOK, MutexHeld, SocketsDistinct
  <2>6. \A d \in Conn, f \in Fd, q \in Profile :
            SpeaksFor(d, f, q) => SpeaksFor(d, f, q)'
    BY <2>1 DEF TypeOK, SpeaksFor, Owner
  <2>7. ActiveSpeaks'
    BY <2>6 DEF ActiveSpeaks, TypeOK
  <2>8. PushSpeaks'
    <3> SUFFICES ASSUME NEW e \in Conn, pc'[e] = "pushing"
                 PROVE  \E d \in Conn :
                            SpeaksFor(d, push[e].fd, push[e].message.target)'
      BY DEF PushSpeaks
    <3>1. e = c
      BY <2>1, ConstantsAssumption DEF MutexHeld, TypeOK
    <3>2. push'[e] = pending
      BY <2>1, <3>1 DEF TypeOK
    <3>3. PICK d \in Conn : SpeaksFor(d, active_profiles[p], p)
      BY <1>2 DEF ActiveSpeaks
    <3>4. SpeaksFor(d, active_profiles[p], p)'
      BY <1>2, <2>6, <3>3 DEF TypeOK
    <3>5. QED
      BY <2>3, <3>2, <3>4
  <2>9. ReadersLoggedIn' /\ PushReachesAddressee'
    BY <2>1 DEF TypeOK, ReadersLoggedIn, PushReachesAddressee
  <2>10. QED
    BY <2>4, <2>5, <2>7, <2>8, <2>9
<1>3. QED
  BY <1>1, <1>2

\* The requests about friends.
LEMMA BuddyIInv ==
    ASSUME IInv, NEW c \in Conn, NEW p \in Profile,
           AddBuddy(c, p) \/ AuthAdd(c, p) \/ DelBuddy(c, p)
    PROVE  IInv'
<1>1. TypeOK /\ credentials[c] \in Profile
  BY DEF IInv, TypeOK
<1>2. CASE AddBuddy(c, p)
  <2>1. pending_requests' \in [Profile -> SUBSET Profile]
    BY <1>1, <1>2 DEF AddBuddy, TypeOK
  <2>2. /\ pc[c] = "reading" /\ buddy_mutex = None /\ PushTo(c, p, "2")
        /\ UNCHANGED <<client_socket, credentials, logged_in, hung_up, inbox,
                       active_profiles>>
    BY <1>2 DEF AddBuddy, Reading, connVars
  <2>3. QED
    BY <2>1, <2>2, PushToIInv
<1>3. CASE AuthAdd(c, p)
  <2>1. pending_requests' \in [Profile -> SUBSET Profile]
    BY <1>1, <1>3 DEF AuthAdd, TypeOK
  <2>2. /\ pc[c] = "reading" /\ buddy_mutex = None /\ PushTo(c, p, "4")
        /\ UNCHANGED <<client_socket, credentials, logged_in, hung_up, inbox,
                       active_profiles>>
    BY <1>3 DEF AuthAdd, Reading, connVars
  <2>3. QED
    BY <2>1, <2>2, PushToIInv
<1>4. CASE DelBuddy(c, p)
  <2>1. pending_requests' \in [Profile -> SUBSET Profile]
    BY <1>1, <1>4 DEF DelBuddy, TypeOK
  <2>2. QED
    BY <1>4, <2>1 DEF DelBuddy, connVars, IInv, TypeOK, MutexHeld,
       SocketsDistinct, ActiveSpeaks, PushSpeaks, SpeaksFor, Owner,
       ReadersLoggedIn, PushReachesAddressee
<1>5. QED
  BY <1>2, <1>3, <1>4

\* The push arrives at the connection that speaks for the addressee.
LEMMA PushIInv == ASSUME IInv, NEW c \in Conn, Push(c) PROVE IInv'
<1> USE DEF IInv
<1> DEFINE fd == push[c].fd
           m == push[c].message
           receivers == {d \in Conn : Owner(d, fd) /\ ~ hung_up[d]}
<1>1. /\ pc[c] = "pushing" /\ push[c] \in PendingPush
      /\ fd \in Fd /\ m \in Message
  BY DEF Push, MutexHeld, PendingPush
<1>2. /\ inbox' = [d \in Conn |-> IF d \in receivers THEN Append(inbox[d], m)
                                  ELSE inbox[d]]
      /\ push' = [push EXCEPT ![c] = None]
      /\ pc' = [pc EXCEPT ![c] = "reading"]
      /\ buddy_mutex' = None
      /\ UNCHANGED <<client_socket, credentials, logged_in, hung_up,
                     active_profiles, pending_requests>>
  BY DEF Push, connVars
<1>3. PICK d \in Conn : SpeaksFor(d, fd, m.target)
  BY <1>1 DEF PushSpeaks
<1>4. \A e \in receivers : e = d
  BY <1>3 DEF SpeaksFor, Owner, SocketsDistinct
<1>5. /\ Owner(d, fd) /\ logged_in[d] /\ credentials[d] = m.target
      /\ \A e \in receivers : ~ hung_up[e]
  BY <1>3 DEF SpeaksFor
<1> HIDE DEF receivers, fd, m
<1>6. \A e \in Conn : inbox'[e] \in Seq(Message)
  <2> SUFFICES ASSUME NEW e \in Conn PROVE inbox'[e] \in Seq(Message)
    OBVIOUS
  <2>1. inbox[e] \in Seq(Message)
    BY DEF TypeOK
  <2>2. Append(inbox[e], m) \in Seq(Message)
    BY <1>1, <2>1
  <2>3. QED
    BY <1>2, <2>1, <2>2
<1>7. TypeOK'
  <2>1. inbox' \in [Conn -> Seq(Message)]
    BY <1>2, <1>6
  <2>2. QED
    BY <1>2, <2>1 DEF TypeOK
<1>8. MutexHeld' /\ SocketsDistinct'
  BY <1>1, <1>2, ConstantsAssumption DEF TypeOK, MutexHeld, SocketsDistinct
<1>9. \A e \in Conn, f \in Fd, p \in Profile :
            SpeaksFor(e, f, p) => SpeaksFor(e, f, p)'
  BY <1>2 DEF TypeOK, SpeaksFor, Owner
<1>10. ActiveSpeaks'
  BY <1>2, <1>9 DEF ActiveSpeaks, TypeOK
<1>11. PushSpeaks'
  BY <1>1, <1>2 DEF PushSpeaks, MutexHeld, TypeOK
<1>12. ReadersLoggedIn'
  <2>1. pc[d] # "none"
    BY <1>5 DEF Owner
  <2>2. QED
    BY <1>2, <1>4, <1>5, <2>1 DEF ReadersLoggedIn, TypeOK
<1>13. PushReachesAddressee'
  <2> SUFFICES ASSUME NEW e \in Conn, NEW i \in 1 .. Len(inbox'[e])
               PROVE  inbox'[e][i].target = credentials[e]
    BY <1>2 DEF PushReachesAddressee
  <2>1. inbox[e] \in Seq(Message)
    BY DEF TypeOK
  <2>2. CASE e \notin receivers
    BY <1>2, <2>2 DEF PushReachesAddressee
  <2>3. CASE e \in receivers
    <3>1. inbox'[e] = Append(inbox[e], m) /\ credentials[e] = m.target
      BY <1>2, <1>4, <1>5, <2>3
    <3>2. CASE i \in 1 .. Len(inbox[e])
      BY <2>1, <3>1, <3>2 DEF PushReachesAddressee
    <3>3. CASE i = Len(inbox[e]) + 1
      BY <2>1, <3>1, <3>3
    <3>4. QED
      BY <2>1, <3>1, <3>2, <3>3
  <2>4. QED
    BY <2>2, <2>3
<1>14. QED
  BY <1>7, <1>8, <1>10, <1>11, <1>12, <1>13

\* A connection ends while nobody pushes: every profile that stays active is
\* spoken for by another connection.
LEMMA DisconnectIInv == ASSUME IInv, NEW c \in Conn, Disconnect(c) PROVE IInv'
<1> USE DEF IInv
<1>1. /\ pc[c] = "reading" /\ hung_up[c] /\ buddy_mutex = None
      /\ pc' = [pc EXCEPT ![c] = "none"]
      /\ client_socket' = [client_socket EXCEPT ![c] = None]
      /\ credentials' = [credentials EXCEPT ![c] = DefaultProfile]
      /\ logged_in' = [logged_in EXCEPT ![c] = FALSE]
      /\ hung_up' = [hung_up EXCEPT ![c] = FALSE]
      /\ UNCHANGED <<inbox, push, pending_requests, buddy_mutex>>
  BY DEF Disconnect
<1>2. /\ DOMAIN active_profiles' = DOMAIN active_profiles \ {credentials[c]}
      /\ \A p \in DOMAIN active_profiles' : active_profiles'[p] = active_profiles[p]
  BY DEF Disconnect, Erase, Restrict
<1>3. TypeOK'
  <2>1. /\ pc' \in [Conn -> {"none", "reading", "pushing"}]
        /\ client_socket' \in [Conn -> Fd \cup {None}]
        /\ credentials' \in [Conn -> Profile]
        /\ logged_in' \in [Conn -> BOOLEAN]
        /\ hung_up' \in [Conn -> BOOLEAN]
    BY <1>1, ConstantsAssumption DEF TypeOK
  <2>2. /\ DOMAIN active_profiles' \subseteq Profile
        /\ \A p \in DOMAIN active_profiles' : active_profiles'[p] \in Fd
    BY <1>2 DEF TypeOK
  <2>3. QED
    BY <1>1, <2>1, <2>2 DEF TypeOK
<1>4. \A d \in Conn : pc[d] # "pushing"
  BY <1>1, ConstantsAssumption DEF MutexHeld
<1>5. MutexHeld' /\ SocketsDistinct' /\ PushSpeaks'
  BY <1>1, <1>4, ConstantsAssumption
     DEF TypeOK, MutexHeld, SocketsDistinct, PushSpeaks
<1>6. ActiveSpeaks'
  <2> SUFFICES ASSUME NEW p \in DOMAIN active_profiles'
               PROVE  \E d \in Conn : SpeaksFor(d, active_profiles[p], p)'
    BY DEF ActiveSpeaks
  <2>1. p \in DOMAIN active_profiles /\ p # credentials[c]
    BY <1>2
  <2>2. PICK d \in Conn : SpeaksFor(d, active_profiles[p], p)
    BY <2>1 DEF ActiveSpeaks
  <2>3. d # c
    BY <2>1, <2>2 DEF SpeaksFor
  <2>4. SpeaksFor(d, active_profiles[p], p)'
    BY <1>1, <1>2, <2>2, <2>3 DEF TypeOK, SpeaksFor, Owner
  <2>5. QED
    BY <2>4
<1>7. inbox[c] = <<>>
  BY <1>1 DEF ReadersLoggedIn
<1>8. ReadersLoggedIn' /\ PushReachesAddressee'
  BY <1>1, <1>7 DEF TypeOK, ReadersLoggedIn, PushReachesAddressee
<1>9. QED
  BY <1>3, <1>5, <1>6, <1>8

\* What the clients do: read, or go away.
LEMMA ClientIInv == ASSUME IInv, NEW c \in Conn, Drain(c) \/ HangUp(c) PROVE IInv'
<1> USE DEF IInv
<1>1. UNCHANGED <<pc, client_socket, credentials, logged_in, push,
                  active_profiles, pending_requests, buddy_mutex>>
  BY DEF Drain, HangUp, connVars
<1>2. MutexHeld' /\ SocketsDistinct' /\ ActiveSpeaks' /\ PushSpeaks'
  BY <1>1 DEF MutexHeld, SocketsDistinct, ActiveSpeaks, PushSpeaks, SpeaksFor, Owner
<1>3. CASE Drain(c)
  <2>1. /\ inbox[c] # <<>> /\ inbox' = [inbox EXCEPT ![c] = Tail(@)]
        /\ hung_up' = hung_up /\ inbox[c] \in Seq(Message)
    BY <1>3 DEF Drain, TypeOK
  <2>2. /\ Tail(inbox[c]) \in Seq(Message)
        /\ Len(Tail(inbox[c])) = Len(inbox[c]) - 1
        /\ \A i \in 1 .. Len(Tail(inbox[c])) : Tail(inbox[c])[i] = inbox[c][i + 1]
        /\ Len(inbox[c]) \in Nat
    BY <2>1, HeadTailProperties
  <2>3. TypeOK'
    BY <1>1, <2>1, <2>2 DEF TypeOK
  <2>4. ReadersLoggedIn'
    BY <1>1, <2>1 DEF TypeOK, ReadersLoggedIn
  <2>5. PushReachesAddressee'
    BY <1>1, <2>1, <2>2 DEF TypeOK, PushReachesAddressee
  <2>6. QED
    BY <1>2, <2>3, <2>4, <2>5
<1>4. CASE HangUp(c)
  <2>1. /\ inbox' = [inbox EXCEPT ![c] = <<>>]
        /\ hung_up' = [hung_up EXCEPT ![c] = TRUE]
    BY <1>4 DEF HangUp
  <2>2. <<>> \in Seq(Message)
    OBVIOUS
  <2>3. TypeOK'
    BY <1>1, <2>1, <2>2 DEF TypeOK
  <2>4. ReadersLoggedIn' /\ PushReachesAddressee'
    BY <1>1, <2>1 DEF TypeOK, ReadersLoggedIn, PushReachesAddressee
  <2>5. QED
    BY <1>2, <2>3, <2>4
<1>5. QED
  BY <1>3, <1>4

\* The inductive invariant holds in every reachable state if clients log in
\* first.
THEOREM InductiveInvariant == ASSUME LoginFirst PROVE Spec => []IInv
<1>1. IInv /\ [Next]_vars => IInv'
  <2> SUFFICES ASSUME IInv, [Next]_vars PROVE IInv'
    OBVIOUS
  <2>1. CASE UNCHANGED vars
    BY <2>1 DEF vars, connVars, IInv, TypeOK, MutexHeld, SocketsDistinct,
       ActiveSpeaks, PushSpeaks, SpeaksFor, Owner, ReadersLoggedIn,
       PushReachesAddressee
  <2>2. CASE Next
    <3>1. PICK c \in Conn :
            \/ \E fd \in Fd : Accept(c, fd)
            \/ \E p \in Profile : Login(c, p) \/ AddBuddy(c, p) \/ AuthAdd(c, p)
                                  \/ DelBuddy(c, p)
            \/ Status(c) \/ Push(c) \/ Disconnect(c)
            \/ Drain(c) \/ HangUp(c)
      BY <2>2 DEF Next
    <3>2. QED
      BY <3>1, AcceptIInv, LoginIInv, StatusIInv, BuddyIInv, PushIInv,
         DisconnectIInv, ClientIInv
  <2>3. QED
    BY <2>1, <2>2
<1>2. QED
  BY <1>1, InitIInv, PTL DEF Spec

\* Type correctness.
THEOREM TypeCorrect == ASSUME LoginFirst PROVE Spec => []TypeOK
<1>1. IInv => TypeOK
  BY DEF IInv
<1>2. QED
  BY <1>1, InductiveInvariant, PTL

\* active_profiles holds open sockets only, each of a connection logged in as
\* the profile.
THEOREM ActiveSocketsAlwaysOpen == ASSUME LoginFirst PROVE Spec => []ActiveSocketsOpen
<1>1. IInv => ActiveSocketsOpen
  BY DEF IInv, ActiveSpeaks, SpeaksFor, ActiveSocketsOpen
<1>2. QED
  BY <1>1, InductiveInvariant, PTL

\* No push reaches anybody but its addressee.
THEOREM PushesReachAddressee ==
    ASSUME LoginFirst PROVE Spec => []PushReachesAddressee
<1>1. IInv => PushReachesAddressee
  BY DEF IInv
<1>2. QED
  BY <1>1, InductiveInvariant, PTL
=============================================================================

------------------------ MODULE ProfileStream_proofs ------------------------
(***************************************************************************)
(* Proofs about the bytes on the sockets of the profile server, for any    *)
(* number of connections, descriptors, profiles and pieces, while clients  *)
(* log in first.  The pieces refine ProfileService, so what is proved      *)
(* there of a push that takes one step holds of one written in pieces.     *)
(***************************************************************************)
EXTENDS ProfileStream, ProfileService_proofs

\* Every step here is a step of ProfileService or leaves its variables alone.
LEMMA StreamStep == [StreamNext]_allVars => [Next]_vars
<1> SUFFICES ASSUME [StreamNext]_allVars PROVE [Next]_vars
  OBVIOUS
<1>1. CASE UNCHANGED allVars
  BY <1>1 DEF allVars
<1>2. CASE StreamNext
  <2>1. PICK c \in Conn :
            \/ \E fd \in Fd : StreamAccept(c, fd)
            \/ \E p \in Profile : StreamLogin(c, p) \/ StreamBuddy(c, p)
            \/ KeepaliveOrGetProfile(c) \/ StreamStatus(c)
            \/ WritePiece(c) \/ StreamDisconnect(c)
            \/ ReadPiece(c) \/ StreamHangUp(c)
    BY <1>2 DEF StreamNext
  <2>2. \/ UNCHANGED vars
        \/ \E fd \in Fd : Accept(c, fd)
        \/ \E p \in Profile : Login(c, p) \/ AddBuddy(c, p) \/ AuthAdd(c, p)
                              \/ DelBuddy(c, p)
        \/ Status(c) \/ Push(c) \/ Disconnect(c) \/ Drain(c) \/ HangUp(c)
    BY <2>1 DEF StreamAccept, StreamLogin, StreamBuddy, KeepaliveOrGetProfile,
       StreamStatus, WritePiece, StreamDisconnect, ReadPiece, StreamHangUp
  <2>3. QED
    BY <2>2 DEF Next
<1>3. QED
  BY <1>1, <1>2

\* The server that writes in pieces implements the one that pushes at once.
THEOREM StreamImplementsService == StreamSpec => Spec
<1>1. StreamInit => Init
  BY DEF StreamInit
<1>2. QED
  BY <1>1, StreamStep, PTL DEF StreamSpec, Spec

\* So the invariant of ProfileService holds here.
LEMMA ServiceInvariant == ASSUME LoginFirst PROVE StreamSpec => []IInv
BY StreamImplementsService, InductiveInvariant, PTL

-----------------------------------------------------------------------------
(***************************************************************************)
(* The inductive invariant of the pieces: a worker counts pieces only of a *)
(* message it is sending, one at a time, and pushes only to clients whose  *)
(* status has been handled.                                                *)
(***************************************************************************)
Writers ==
    \A c \in Conn : /\ pc[c] # "reading" => ~ replying[c]
                    /\ ~ replying[c] /\ pc[c] # "pushing" => written[c] = 0

StatusSent ==
    /\ \A p \in DOMAIN active_profiles : \A d \in Conn :
            Owner(d, active_profiles[p]) => status_sent[d]
    /\ \A c, d \in Conn :
            pc[c] = "pushing" /\ Owner(d, push[c].fd) => status_sent[d]

\* What was written last to the client of a push that has begun.
BegunPush ==
    \A c, d \in Conn :
        /\ pc[c] = "pushing" /\ written[c] > 0
        /\ Owner(d, push[c].fd) /\ ~ hung_up[d]
        => /\ last[d] # None
           /\ last[d].push => last[d] = [from |-> c, push |-> TRUE, piece |-> written[c]]

SInv == StreamTypeOK /\ Writers /\ StatusSent /\ BegunPush /\ LoginsNotTorn

\* There is one pusher, and one owner of a descriptor.
LEMMA Alone ==
    ASSUME IInv
    PROVE  /\ \A c, e \in Conn : pc[c] = "pushing" /\ pc[e] = "pushing" => c = e
           /\ \A d, e \in Conn, fd \in Fd : Owner(d, fd) /\ Owner(e, fd) => d = e
BY ConstantsAssumption DEF IInv, MutexHeld, SocketsDistinct, Owner

LEMMA InitSInv == StreamInit => SInv
<1> SUFFICES ASSUME StreamInit PROVE SInv
  OBVIOUS
<1>1. StreamTypeOK
  <2>1. <<>> \in Seq(Piece)
    OBVIOUS
  <2>2. QED
    BY <2>1, PiecesAssumption DEF StreamInit, StreamTypeOK
<1>2. Writers /\ StatusSent /\ BegunPush /\ LoginsNotTorn
  BY DEF StreamInit, Init, Writers, StatusSent, BegunPush, LoginsNotTorn, Empty
<1>3. QED
  BY <1>1, <1>2 DEF SInv

\* A new connection has a descriptor nobody pushes to.
LEMMA AcceptSInv ==
    ASSUME IInv, SInv, NEW c \in Conn, NEW fd \in Fd, StreamAccept(c, fd)
    PROVE  SInv'
<1> USE DEF SInv
<1>1. /\ pc[c] = "none" /\ pc' = [pc EXCEPT ![c] = "reading"]
      /\ client_socket' = [client_socket EXCEPT ![c] = fd]
      /\ \A d \in Conn : client_socket[d] # fd
      /\ UNCHANGED <<hung_up, push, active_profiles, written, wire, status_sent>>
      /\ replying' = [replying EXCEPT ![c] = TRUE]
      /\ last' = [last EXCEPT ![c] = None]
  BY DEF StreamAccept, Accept, Answer
<1> USE DEF IInv, TypeOK, StreamTypeOK
<1>2. StreamTypeOK'
  BY <1>1
<1>3. Writers'
  BY <1>1 DEF Writers
<1>4. \A p \in DOMAIN active_profiles : active_profiles[p] # fd
  BY <1>1 DEF ActiveSpeaks, SpeaksFor, Owner
<1>5. \A e \in Conn : pc[e] = "pushing" => push[e].fd # fd
  BY <1>1 DEF PushSpeaks, SpeaksFor, Owner
<1>6. StatusSent'
  BY <1>1, <1>4, <1>5 DEF StatusSent, Owner
<1>7. BegunPush'
  BY <1>1, <1>5 DEF BegunPush, Owner
<1>8. LoginsNotTorn'
  BY <1>1 DEF LoginsNotTorn
<1>9. QED
  BY <1>2, <1>3, <1>6, <1>7, <1>8

\* Starting to answer, after a login or at once.
LEMMA AnswerSInv ==
    ASSUME IInv, SInv, NEW c \in Conn,
           (\E p \in Profile : StreamLogin(c, p)) \/ KeepaliveOrGetProfile(c)
    PROVE  SInv'
<1> USE DEF SInv
<1>1. /\ pc[c] = "reading"
      /\ replying' = [replying EXCEPT ![c] = TRUE]
      /\ UNCHANGED <<pc, client_socket, hung_up, push, active_profiles, written,
                     wire, last, status_sent>>
  BY DEF StreamLogin, Login, KeepaliveOrGetProfile, Answer, vars, connVars
<1>2. StreamTypeOK' /\ Writers'
  BY <1>1 DEF StreamTypeOK, Writers
<1>3. StatusSent' /\ BegunPush' /\ LoginsNotTorn'
  BY <1>1 DEF StatusSent, BegunPush, LoginsNotTorn, Owner
<1>4. QED
  BY <1>2, <1>3

\* A status makes its own client one that is pushed to.
LEMMA StatusSInv ==
    ASSUME IInv, SInv, NEW c \in Conn, StreamStatus(c) PROVE SInv'
<1> USE DEF SInv
<1>1. /\ pc[c] = "reading" /\ client_socket[c] \in Fd
      /\ active_profiles' = Put(active_profiles, credentials[c], client_socket[c])
      /\ status_sent' = [status_sent EXCEPT ![c] = TRUE]
      /\ UNCHANGED <<pc, client_socket, hung_up, push, replying, written, wire, last>>
  BY DEF StreamStatus, Status, Reading, connVars, IInv, SocketsDistinct
<1>2. /\ DOMAIN active_profiles' = DOMAIN active_profiles \cup {credentials[c]}
      /\ active_profiles'[credentials[c]] = client_socket[c]
      /\ \A p \in DOMAIN active_profiles :
            p # credentials[c] => active_profiles'[p] = active_profiles[p]
  BY <1>1 DEF Put
<1>3. StreamTypeOK' /\ Writers'
  BY <1>1 DEF StreamTypeOK, Writers
<1>4. \A d \in Conn : status_sent[d] => status_sent'[d]
  BY <1>1 DEF StreamTypeOK
<1>5. \A d \in Conn : Owner(d, client_socket[c]) => status_sent'[d]
  BY <1>1, Alone DEF Owner, StreamTypeOK
<1>6. StatusSent'
  BY <1>1, <1>2, <1>4, <1>5 DEF StatusSent, Owner
<1>7. BegunPush' /\ LoginsNotTorn'
  BY <1>1, <1>4 DEF BegunPush, LoginsNotTorn, Owner
<1>8. QED
  BY <1>3, <1>6, <1>7

\* A request that may start a push.
LEMMA BuddySInv ==
    ASSUME IInv, SInv, NEW c \in Conn, NEW p \in Profile, StreamBuddy(c, p)
    PROVE  SInv'
<1> USE DEF SInv
<1>1. /\ pc[c] = "reading" /\ ~ replying[c]
      /\ UNCHANGED <<client_socket, hung_up, active_profiles, streamVars>>
  BY DEF StreamBuddy, AddBuddy, AuthAdd, DelBuddy, Reading, connVars
<1>2. StreamTypeOK'
  BY <1>1 DEF StreamTypeOK, streamVars
<1>3. CASE UNCHANGED <<pc, push>>
  BY <1>1, <1>2, <1>3 DEF streamVars, Writers, StatusSent, BegunPush,
     LoginsNotTorn, Owner
<1>4. CASE ~ UNCHANGED <<pc, push>>
  <2>1. PICK command \in {"2", "4"} : PushTo(c, p, command)
    BY <1>4 DEF StreamBuddy, AddBuddy, AuthAdd, DelBuddy
  <2>2. /\ p \in DOMAIN active_profiles
        /\ pc' = [pc EXCEPT ![c] = "pushing"]
        /\ push'[c].fd = active_profiles[p]
        /\ \A e \in Conn : e # c => push'[e] = push[e]
    BY <1>4, <2>1 DEF PushTo, IInv, TypeOK
  <2>3. written[c] = 0
    BY <1>1 DEF Writers
  <2>4. \A d \in Conn, fd \in Fd : Owner(d, fd)' <=> Owner(d, fd)
    BY <1>1, <2>2 DEF Owner, IInv, TypeOK
  <2>5. Writers'
    BY <1>1, <2>2 DEF Writers, streamVars, IInv, TypeOK
  <2>6. \A e \in Conn : e # c => (pc'[e] = "pushing" <=> pc[e] = "pushing")
    BY <2>2 DEF IInv, TypeOK
  <2>7. /\ \A q \in DOMAIN active_profiles : active_profiles[q] \in Fd
        /\ \A e \in Conn : pc[e] = "pushing" => push[e].fd \in Fd
    BY DEF IInv, TypeOK, MutexHeld, PendingPush
  <2>8. StatusSent'
    BY <1>1, <2>2, <2>4, <2>6, <2>7 DEF StatusSent, streamVars
  <2>9. BegunPush'
    BY <1>1, <2>2, <2>3, <2>4, <2>6, <2>7 DEF BegunPush, streamVars
  <2>10. LoginsNotTorn'
    BY <1>1, <2>2 DEF LoginsNotTorn, streamVars, IInv, TypeOK
  <2>11. QED
    BY <1>2, <2>5, <2>8, <2>9, <2>10
<1>5. QED
  BY <1>3, <1>4

\* What the pieces on the wires and the history become.
LEMMA WriteType ==
    ASSUME IInv, SInv, NEW c \in Conn, WritePiece(c) PROVE StreamTypeOK'
<1> DEFINE reached == {d \in Target(c) : ~ hung_up[d]}
           piece == [from |-> c, push |-> ~ replying[c], piece |-> written[c] + 1]
<1>1. /\ wire' = [d \in Conn |-> IF d \in reached THEN Append(wire[d], piece) ELSE wire[d]]
      /\ last' = [d \in Conn |-> IF d \in reached THEN piece ELSE last[d]]
      /\ UNCHANGED status_sent
      /\ \/ /\ written' = [written EXCEPT ![c] = 0]
            /\ replying' = [replying EXCEPT ![c] = FALSE]
         \/ /\ ~ Finished(c)
            /\ written' = [written EXCEPT ![c] = @ + 1]
            /\ UNCHANGED replying
  BY DEF WritePiece
<1>2. piece \in Piece
  BY PiecesAssumption DEF SInv, StreamTypeOK, Piece
<1> HIDE DEF piece, reached
<1>3. wire' \in [Conn -> Seq(Piece)] /\ last' \in [Conn -> Piece \cup {None}]
  BY <1>1, <1>2 DEF SInv, StreamTypeOK
<1>4. written' \in [Conn -> 0 .. Pieces - 1] /\ replying' \in [Conn -> BOOLEAN]
  <2>1. written[c] \in 0 .. Pieces - 1 /\ written \in [Conn -> 0 .. Pieces - 1]
        /\ replying \in [Conn -> BOOLEAN]
    BY DEF SInv, StreamTypeOK
  <2>2. ~ Finished(c) => written[c] + 1 \in 0 .. Pieces - 1
    BY <2>1, PiecesAssumption DEF Finished
  <2>3. 0 \in 0 .. Pieces - 1
    BY PiecesAssumption
  <2>4. QED
    BY <1>1, <2>1, <2>2, <2>3
<1>5. QED
  BY <1>1, <1>3, <1>4 DEF SInv, StreamTypeOK

\* A piece of a reply goes to the worker's own client, one of a push to the
\* owner of the descriptor, and there it is the last.
LEMMA WriteSInv ==
    ASSUME IInv, SInv, NEW c \in Conn, WritePiece(c) PROVE SInv'
<1> DEFINE reached == {d \in Target(c) : ~ hung_up[d]}
           piece == [from |-> c, push |-> ~ replying[c], piece |-> written[c] + 1]
<1>1. StreamTypeOK'
  BY WriteType
<1>2. /\ last' = [d \in Conn |-> IF d \in reached THEN piece ELSE last[d]]
      /\ replying[c] \/ pc[c] = "pushing"
      /\ UNCHANGED <<client_socket, hung_up, active_profiles, status_sent>>
      /\ \A e \in Conn : e # c => /\ written'[e] = written[e]
                                  /\ replying'[e] = replying[e]
                                  /\ pc'[e] = pc[e] /\ push'[e] = push[e]
      /\ \/ /\ written'[c] = 0 /\ replying'[c] = FALSE
            /\ pc'[c] = "reading"
         \/ /\ written'[c] = written[c] + 1
            /\ UNCHANGED <<pc, push, replying>>
  <2>1. CASE Finished(c) /\ replying[c]
    <3>1. pc[c] = "reading"
      BY <2>1 DEF SInv, Writers
    <3>2. QED
      BY <2>1, <3>1 DEF WritePiece, vars, connVars, SInv, StreamTypeOK, IInv, TypeOK
  <2>2. CASE Finished(c) /\ ~ replying[c]
    BY <2>2 DEF WritePiece, Push, connVars, SInv, StreamTypeOK, IInv, TypeOK
  <2>3. CASE ~ Finished(c)
    BY <2>3 DEF WritePiece, vars, connVars, SInv, StreamTypeOK, IInv, TypeOK
  <2>4. QED
    BY <2>1, <2>2, <2>3
<1>3. /\ piece # None /\ piece \in Piece
      /\ piece.push = ~ replying[c]
      /\ piece = [from |-> c, push |-> ~ replying[c], piece |-> written[c] + 1]
  <2>1. replying[c] \in BOOLEAN /\ written[c] + 1 \in 1 .. Pieces
    BY PiecesAssumption DEF SInv, StreamTypeOK
  <2>2. piece \in Piece
    BY <2>1 DEF Piece
  <2>3. piece.push = ~ replying[c]
    OBVIOUS
  <2>4. QED
    BY <2>2, <2>3, PiecesAssumption
<1>4. \A d \in Conn, fd \in Fd : Owner(d, fd)' <=> Owner(d, fd)
  BY <1>2 DEF Owner, SInv, Writers
<1>5. /\ \A q \in DOMAIN active_profiles : active_profiles[q] \in Fd
      /\ \A e \in Conn : pc[e] = "pushing" => push[e].fd \in Fd
  BY DEF IInv, TypeOK, MutexHeld, PendingPush
<1>6. ~ replying[c] => reached = {d \in Conn : Owner(d, push[c].fd) /\ ~ hung_up[d]}
  BY DEF Target
<1>7. replying[c] => reached \subseteq {c}
  BY DEF Target
<1> HIDE DEF piece, reached
<1>8. Writers'
  BY <1>2 DEF SInv, Writers
<1>9. StatusSent'
  BY <1>2, <1>4, <1>5 DEF SInv, StatusSent
<1>10. LoginsNotTorn'
  <2> SUFFICES ASSUME NEW d \in Conn, last'[d] # None, last'[d].push
               PROVE  status_sent[d] \/ hung_up[d] \/ pc'[d] = "none"
    BY <1>2 DEF LoginsNotTorn
  <2>1. CASE d \in reached
    <3>1. ~ replying[c] /\ Owner(d, push[c].fd)
      BY <1>2, <1>3, <1>6, <2>1
    <3>2. pc[c] = "pushing"
      BY <1>2, <3>1
    <3>3. QED
      BY <3>1, <3>2 DEF SInv, StatusSent
  <2>2. CASE d \notin reached
    <3>1. status_sent[d] \/ hung_up[d] \/ pc[d] = "none"
      BY <1>2, <2>2 DEF SInv, LoginsNotTorn
    <3>2. pc[d] = "none" => pc'[d] = "none"
      BY <1>2 DEF SInv, Writers
    <3>3. QED
      BY <3>1, <3>2
  <2>3. QED
    BY <2>1, <2>2
<1>11. BegunPush'
  <2> SUFFICES ASSUME NEW e \in Conn, NEW d \in Conn, pc'[e] = "pushing",
                      written'[e] > 0, Owner(d, push[e].fd)', ~ hung_up[d]
               PROVE  /\ last'[d] # None
                      /\ last'[d].push =>
                            last'[d] = [from |-> e, push |-> TRUE, piece |-> written'[e]]
    BY <1>2 DEF BegunPush
  <2>1. pc[e] = "pushing" /\ push'[e] = push[e]
    BY <1>2
  <2>2. Owner(d, push[e].fd)
    BY <1>4, <1>5, <2>1
  <2>3. CASE e = c
    <3>1. ~ replying[c] /\ written'[c] = written[c] + 1
      BY <1>2, <2>1, <2>3 DEF SInv, Writers
    <3>2. d \in reached
      BY <1>6, <2>2, <2>3, <3>1
    <3>3. last'[d] = piece
      BY <1>2, <3>2
    <3>4. QED
      BY <1>3, <2>3, <3>1, <3>3
  <2>4. CASE e # c
    <3>1. replying[c]
      BY <1>2, <2>1, <2>4, Alone
    <3>2. CASE d \in reached
      BY <1>2, <1>3, <3>1, <3>2
    <3>3. CASE d \notin reached
      <4>1. last'[d] = last[d] /\ written'[e] = written[e]
        BY <1>2, <2>4, <3>3
      <4>2. QED
        BY <2>1, <2>2, <4>1 DEF SInv, BegunPush
    <3>4. QED
      BY <3>2, <3>3
  <2>5. QED
    BY <2>3, <2>4
<1>12. QED
  BY <1>1, <1>8, <1>9, <1>10, <1>11 DEF SInv

\* Nobody pushes while a connection is torn down.
LEMMA DisconnectSInv ==
    ASSUME IInv, SInv, NEW c \in Conn, StreamDisconnect(c) PROVE SInv'
<1> USE DEF SInv
<1>1. /\ pc[c] = "reading" /\ ~ replying[c] /\ buddy_mutex = None
      /\ pc' = [pc EXCEPT ![c] = "none"]
      /\ client_socket' = [client_socket EXCEPT ![c] = None]
      /\ hung_up' = [hung_up EXCEPT ![c] = FALSE]
      /\ status_sent' = [status_sent EXCEPT ![c] = FALSE]
      /\ active_profiles' = Erase(active_profiles, {credentials[c]})
      /\ UNCHANGED <<push, replying, written, wire, last>>
  BY DEF StreamDisconnect, Disconnect
<1>2. \A e \in Conn : pc[e] # "pushing"
  BY <1>1, ConstantsAssumption DEF IInv, MutexHeld
<1>3. /\ DOMAIN active_profiles' \subseteq DOMAIN active_profiles
      /\ \A p \in DOMAIN active_profiles' : active_profiles'[p] = active_profiles[p]
  BY <1>1 DEF Erase, Restrict
<1>4. StreamTypeOK' /\ Writers' /\ BegunPush' /\ LoginsNotTorn'
  BY <1>1, <1>2 DEF StreamTypeOK, Writers, BegunPush, LoginsNotTorn, IInv, TypeOK
<1>5. \A d \in Conn, fd \in Fd : Owner(d, fd)' => d # c /\ Owner(d, fd)
  BY <1>1 DEF Owner, IInv, TypeOK
<1>6. \A p \in DOMAIN active_profiles : active_profiles[p] \in Fd
  BY DEF IInv, TypeOK
<1>7. \A e \in Conn : pc'[e] # "pushing"
  BY <1>1, <1>2 DEF IInv, TypeOK
<1>8. StatusSent'
  BY <1>1, <1>3, <1>5, <1>6, <1>7 DEF StatusSent, StreamTypeOK
<1>9. QED
  BY <1>4, <1>8

\* The clients: reading, and hanging up.
LEMMA ClientSInv ==
    ASSUME IInv, SInv, NEW c \in Conn, ReadPiece(c) \/ StreamHangUp(c) PROVE SInv'
<1> USE DEF SInv
<1>1. /\ UNCHANGED <<pc, client_socket, push, active_profiles, replying, written,
                     last, status_sent>>
      /\ hung_up' = hung_up \/ hung_up' = [hung_up EXCEPT ![c] = TRUE]
  BY DEF ReadPiece, StreamHangUp, Drain, HangUp, vars, connVars
<1>2. wire' \in [Conn -> Seq(Piece)]
  <2>1. CASE ReadPiece(c)
    <3>1. wire[c] # <<>> /\ wire[c] \in Seq(Piece)
      BY <2>1 DEF ReadPiece, StreamTypeOK
    <3>2. Tail(wire[c]) \in Seq(Piece)
      BY <3>1
    <3>3. QED
      BY <2>1, <3>2 DEF ReadPiece, StreamTypeOK
  <2>2. CASE StreamHangUp(c)
    <3>1. <<>> \in Seq(Piece)
      OBVIOUS
    <3>2. QED
      BY <2>2, <3>1 DEF StreamHangUp, StreamTypeOK
  <2>3. QED
    BY <2>1, <2>2
<1>3. \A d \in Conn : hung_up[d] => hung_up'[d]
  BY <1>1 DEF IInv, TypeOK
<1>4. QED
  BY <1>1, <1>2, <1>3 DEF StreamTypeOK, Writers, StatusSent, BegunPush,
     LoginsNotTorn, Owner

LEMMA StreamInvariant == ASSUME LoginFirst PROVE StreamSpec => [](IInv /\ SInv)
<1>1. IInv /\ SInv /\ [StreamNext]_allVars => SInv'
  <2> SUFFICES ASSUME IInv, SInv, [StreamNext]_allVars PROVE SInv'
    OBVIOUS
  <2>1. CASE UNCHANGED allVars
    BY <2>1 DEF allVars, streamVars, vars, connVars, SInv, StreamTypeOK, Writers,
       StatusSent, BegunPush, LoginsNotTorn, Owner
  <2>2. CASE StreamNext
    BY <2>2, AcceptSInv, AnswerSInv, StatusSInv, BuddySInv, WriteSInv,
       DisconnectSInv, ClientSInv DEF StreamNext
  <2>3. QED
    BY <2>1, <2>2
<1>2. QED
  BY <1>1, InitSInv, ServiceInvariant, PTL DEF StreamSpec

-----------------------------------------------------------------------------
\* The variables of the pieces keep their types.
THEOREM StreamTypeCorrect == ASSUME LoginFirst PROVE StreamSpec => []StreamTypeOK
<1>1. SInv => StreamTypeOK
  BY DEF SInv
<1>2. QED
  BY <1>1, StreamInvariant, PTL

\* A friend message written in pieces reaches its addressee and nobody else.
THEOREM PiecesReachAddressee ==
    ASSUME LoginFirst PROVE StreamSpec => []PushReachesAddressee
<1>1. IInv => PushReachesAddressee
  BY DEF IInv
<1>2. QED
  BY <1>1, StreamInvariant, PTL

\* The pieces of two pushes never mix on a socket.
THEOREM PushesNeverMix == ASSUME LoginFirst PROVE StreamSpec => []PushesDoNotMix
<1>1. IInv /\ SInv => PushesDoNotMix
  <2> SUFFICES ASSUME IInv, SInv PROVE PushesDoNotMix
    OBVIOUS
  <2>1. \A c, e \in Conn : pc[c] = "pushing" /\ pc[e] = "pushing" => c = e
    BY Alone
  <2>2. QED
    BY <2>1 DEF SInv, BegunPush, PushesDoNotMix
<1>2. QED
  BY <1>1, StreamInvariant, PTL

\* No push tears the challenge or the login of a client.
THEOREM LoginsNeverTorn == ASSUME LoginFirst PROVE StreamSpec => []LoginsNotTorn
<1>1. SInv => LoginsNotTorn
  BY DEF SInv
<1>2. QED
  BY <1>1, StreamInvariant, PTL
=============================================================================

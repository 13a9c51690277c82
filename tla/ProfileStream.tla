---------------------------- MODULE ProfileStream ----------------------------
(***************************************************************************)
(* The bytes on the sockets of the profile server.  ProfileService takes a *)
(* push for one step and leaves out what a worker answers its own client;  *)
(* here every message is written in pieces, as send_all does when send()   *)
(* takes only a part, and read in pieces.  A worker sends its replies (the *)
(* challenge, the login, keepalives and profiles) with send_all, under no  *)
(* mutex, while another worker may push to the same socket under           *)
(* buddy_mutex and, inside it, profile_write_mutex.                        *)
(*                                                                         *)
(* The module adds the pieces to ProfileService: each step here is a step  *)
(* of it, the last piece of a push being its Push, or leaves its variables *)
(* alone.                                                                  *)
(***************************************************************************)
EXTENDS ProfileService

CONSTANT Pieces     \* the pieces of a message

Piece == [from : Conn, push : BOOLEAN, piece : 1 .. Pieces]

ASSUME PiecesAssumption == Pieces \in Nat \ {0} /\ None \notin Piece

VARIABLES
    replying,       \* whether a worker is sending a reply of its own
    written,        \* pieces of its present message a worker has written
    wire,           \* pieces on their way to each client
    last,           \* history: the last piece written to each connection
    status_sent     \* history: whether a status has been handled

streamVars == <<replying, written, wire, last, status_sent>>
allVars == <<vars, streamVars>>

StreamInit ==
    /\ Init
    /\ replying = [c \in Conn |-> FALSE]
    /\ written = [c \in Conn |-> 0]
    /\ wire = [c \in Conn |-> <<>>]
    /\ last = [c \in Conn |-> None]
    /\ status_sent = [c \in Conn |-> FALSE]

-----------------------------------------------------------------------------
\* The challenge, and the answer to a login, a keepalive or a getprofile.
Answer(c) ==
    /\ replying' = [replying EXCEPT ![c] = TRUE]
    /\ UNCHANGED <<written, wire>>

StreamAccept(c, fd) ==
    /\ Accept(c, fd)
    /\ Answer(c)
    /\ last' = [last EXCEPT ![c] = None]
    /\ UNCHANGED status_sent

StreamLogin(c, p) ==
    /\ ~ replying[c]
    /\ Login(c, p)
    /\ Answer(c)
    /\ UNCHANGED <<last, status_sent>>

KeepaliveOrGetProfile(c) ==
    /\ ~ replying[c]
    /\ pc[c] = "reading" /\ ~ hung_up[c]
    /\ Answer(c)
    /\ UNCHANGED <<vars, last, status_sent>>

StreamStatus(c) ==
    /\ ~ replying[c]
    /\ Status(c)
    /\ status_sent' = [status_sent EXCEPT ![c] = TRUE]
    /\ UNCHANGED <<replying, written, wire, last>>

StreamBuddy(c, p) ==
    /\ ~ replying[c]
    /\ AddBuddy(c, p) \/ AuthAdd(c, p) \/ DelBuddy(c, p)
    /\ UNCHANGED streamVars

\* The connections the descriptor it sends to belongs to now.
Target(c) == IF replying[c] THEN {c} ELSE {d \in Conn : Owner(d, push[c].fd)}

\* A bug StreamTypeOK finds: the bytes of a failed send are still counted.
BugFinished(c) == written[c] = Pieces

\* send_all returns after the last piece, or when the client is gone.
Finished(c) == written[c] = Pieces - 1 \/ \A d \in Target(c) : hung_up[d]

\* One send() of send_all: it waits for room, and fails if the client is gone.
WritePiece(c) ==
    LET reached == {d \in Target(c) : ~ hung_up[d]}
        piece == [from |-> c, push |-> ~ replying[c], piece |-> written[c] + 1]
    IN
    /\ replying[c] \/ pc[c] = "pushing"
    /\ \A d \in reached : Len(wire[d]) < SocketBuffer
    /\ wire' = [d \in Conn |-> IF d \in reached THEN Append(wire[d], piece) ELSE wire[d]]
    /\ last' = [d \in Conn |-> IF d \in reached THEN piece ELSE last[d]]
    /\ IF Finished(c)
       THEN /\ written' = [written EXCEPT ![c] = 0]
            /\ replying' = [replying EXCEPT ![c] = FALSE]
            /\ IF replying[c] THEN UNCHANGED vars ELSE Push(c)
       ELSE /\ written' = [written EXCEPT ![c] = @ + 1]
            /\ UNCHANGED <<vars, replying>>
    /\ UNCHANGED status_sent

StreamDisconnect(c) ==
    /\ ~ replying[c]
    /\ Disconnect(c)
    /\ status_sent' = [status_sent EXCEPT ![c] = FALSE]
    /\ UNCHANGED <<replying, written, wire, last>>

\* A client has read a push when it has read its last piece.
ReadPiece(c) ==
    /\ wire[c] # <<>>
    /\ wire' = [wire EXCEPT ![c] = Tail(@)]
    /\ IF Head(wire[c]).push /\ Head(wire[c]).piece = Pieces
       THEN Drain(c) ELSE UNCHANGED vars
    /\ UNCHANGED <<replying, written, last, status_sent>>

StreamHangUp(c) ==
    /\ HangUp(c)
    /\ wire' = [wire EXCEPT ![c] = <<>>]
    /\ UNCHANGED <<replying, written, last, status_sent>>

StreamNext ==
    \E c \in Conn :
        \/ \E fd \in Fd : StreamAccept(c, fd)
        \/ \E p \in Profile : StreamLogin(c, p) \/ StreamBuddy(c, p)
        \/ KeepaliveOrGetProfile(c) \/ StreamStatus(c)
        \/ WritePiece(c) \/ StreamDisconnect(c)
        \/ ReadPiece(c) \/ StreamHangUp(c)

StreamSpec == StreamInit /\ [][StreamNext]_allVars

\* As in ProfileService; a send waits again and again for room that the
\* worker of the client may take first.
StreamFairSpec ==
    StreamSpec /\ \A c \in Conn :
        /\ SF_allVars(WritePiece(c))
        /\ SF_allVars(StreamDisconnect(c))
        /\ WF_allVars(ReadPiece(c))

-----------------------------------------------------------------------------
(* Properties.                                                             *)

\* The variables of this module have their types.
StreamTypeOK ==
    /\ replying \in [Conn -> BOOLEAN]
    /\ written \in [Conn -> 0 .. Pieces - 1]
    /\ wire \in [Conn -> Seq(Piece)]
    /\ last \in [Conn -> Piece \cup {None}]
    /\ status_sent \in [Conn -> BOOLEAN]

(***************************************************************************)
(* Two pushes to one client do not mix: whoever pushes there and has begun *)
(* is the only one, and what was written there last is its last piece or a *)
(* piece of a reply of the client's own worker.                            *)
(***************************************************************************)
PushesDoNotMix ==
    \A c, d \in Conn :
        /\ pc[c] = "pushing" /\ written[c] > 0
        /\ Owner(d, push[c].fd) /\ ~ hung_up[d]
        => /\ \A e \in Conn \ {c} : pc[e] = "pushing" => push[e].fd # push[c].fd
           /\ last[d] # None
           /\ last[d].push => last[d] = [from |-> c, push |-> TRUE, piece |-> written[c]]

(***************************************************************************)
(* A reply can be torn by a push, for it is sent under no mutex, but only  *)
(* once the client has sent its status: nobody pushes to a client in the   *)
(* middle of the challenge or the login, whose connection before it on the *)
(* same descriptor may have been a friend of everybody.                    *)
(***************************************************************************)
LoginsNotTorn ==
    \A d \in Conn : last[d] # None /\ last[d].push =>
        status_sent[d] \/ hung_up[d] \/ pc[d] = "none"
=============================================================================

---------------------------- MODULE TcpServices -----------------------------
(***************************************************************************)
(* One connection to one of the TCP services other than the profile        *)
(* server, from accept() to the end of its worker thread:                  *)
(*   nas        handle_nas_connection, a header and Content-Length bytes;  *)
(*   dns        handle_dns_tcp_connection,  \ a length of two bytes, then  *)
(*   browser    handle_game_connection,     / that many;                   *)
(*   search     handle_player_search_connection, \ messages that end in a  *)
(*   gamestats  handle_gamestats_connection,     / marker;                 *)
(*   relay      handle_relay_connection, one packet, perhaps over TLS.     *)
(* Connections to these services share no state, so one at a time is the   *)
(* general case.  The client may send its bytes in any pieces, stop, stop  *)
(* reading, or hang up at any point.                                       *)
(*                                                                         *)
(* The bytes received and not yet handled are always the part of the       *)
(* client's stream from start + 1 to taken: request_text and               *)
(* request_buffer are appended to at the end and erased from the front.    *)
(***************************************************************************)
EXTENDS Integers, Sequences

CONSTANTS
    Service,        \* the services a connection may be made to
    Marker,         \* "\r\n\r\n" or "\final\", in bytes of the two kinds below
    Declared,       \* the sizes a client may declare
    Prefix,         \* 2, the bytes of a length
    Limit,          \* 8192, 4096 or 2048 bytes
    Chunk,          \* 1024 or 4096, what one recv() takes
    SizeMod,        \* 2^64, where std::size_t wraps
    SocketBuffer,   \* replies a client may leave unread
    MaxSent         \* bound on the bytes a client sends

Byte == {"separator", "text"}

ASSUME ConstantsAssumption ==
    /\ Service \subseteq {"nas", "dns", "browser", "search", "gamestats", "relay"}
    /\ Marker \in Seq(Byte) /\ Marker # <<>>
    /\ Declared \subseteq 0 .. SizeMod - 1
    /\ {Prefix, Limit, Chunk, SocketBuffer} \subseteq Nat \ {0}
    /\ Prefix <= Limit
    /\ MaxSent \in Nat
    /\ SizeMod \in Nat /\ SizeMod > MaxSent

VARIABLES
    service,        \* which service this is
    declared,       \* Content-Length or the length in front of the request
    client_open,    \* whether the client has the connection open
    stream,         \* history: the bytes the client has sent
    pc,             \* what the worker does
    start,          \* bytes of the stream erased from the buffer
    taken,          \* bytes of the stream received
    handled,        \* history: the requests processed, as parts of the stream
    cut,            \* history: whether recv() failed or timed out
    unread,         \* replies the client has not read
    client_socket,  \* whether the descriptor is open
    ssl             \* whether an SSL object is allocated

connection == <<service, declared>>
client == <<client_open, stream>>
vars == <<connection, client, pc, start, taken, handled, cut, unread,
          client_socket, ssl>>

\* Bug EveryWorkerEnds finds: the browser sets no receive timeout.
BugTimed == {"nas", "search", "relay"}
Timed == {"nas", "browser", "search", "relay"}
Framed == {"search", "gamestats"}
Prefixed == {"dns", "browser"}

\* What a worker does first.
Entry == [nas |-> "recv", dns |-> "length", browser |-> "length",
          search |-> "recv", gamestats |-> "greet", relay |-> "peek"]

Init ==
    /\ service \in Service
    /\ declared \in IF service \in Prefixed \cup {"nas"} THEN Declared ELSE {0}
    /\ client_open = TRUE
    /\ stream = <<>>
    /\ pc = "accept"
    /\ start = 0
    /\ taken = 0
    /\ handled = <<>>
    /\ cut = FALSE
    /\ unread = 0
    /\ client_socket = FALSE
    /\ ssl = FALSE

-----------------------------------------------------------------------------
(* Requests.                                                               *)

MarkerEnds(s) ==
    {i \in Len(Marker) .. Len(s) : SubSeq(s, i - Len(Marker) + 1, i) = Marker}

\* find(): the end of the first marker.  Bug TypeOK finds: one byte more.
BugMarkerEnd(s) == (CHOOSE i \in MarkerEnds(s) : \A j \in MarkerEnds(s) : i <= j) + 1
MarkerEnd(s) == CHOOSE i \in MarkerEnds(s) : \A j \in MarkerEnds(s) : i <= j

\* Bugs WholeRequests and NoWholeRequestWaits find: the body is not waited
\* for; one byte too many is.
BugCompleteHeader(s) == MarkerEnds(s) # {}
BugCompleteLate(s) ==
    MarkerEnds(s) # {} /\ Len(s) > (MarkerEnd(s) + declared) % SizeMod

\* The test that ends the NAS reader's loop; the sum may wrap.
Complete(s) ==
    MarkerEnds(s) # {} /\ Len(s) >= (MarkerEnd(s) + declared) % SizeMod

\* The length of a DNS message does not count itself, that of a browser
\* request does.
Sizes == IF service = "dns" THEN 1 .. Limit ELSE Prefix + 1 .. Limit
BodySize == IF service = "dns" THEN declared ELSE declared - Prefix

Buffer == SubSeq(stream, start + 1, taken)
Available == Len(stream) - taken

-----------------------------------------------------------------------------
(* The worker.                                                             *)

\* Every return closes the socket, after SSL_free if there is an SSL object.
\* A bug DescriptorsReturned finds: it leaves the socket open.
BugReturn ==
    /\ pc' = "ended"
    /\ ssl' = FALSE
    /\ UNCHANGED client_socket
Return ==
    /\ pc' = "ended"
    /\ client_socket' = FALSE
    /\ ssl' = FALSE

\* accept() may fail; gamestats speaks first.
Accept ==
    /\ pc = "accept"
    /\ \/ /\ client_socket' = TRUE
          /\ pc' = Entry[service]
       \/ /\ client_socket' = FALSE
          /\ pc' = "ended"
    /\ UNCHANGED <<connection, client, start, taken, handled, cut, unread, ssl>>

\* send_all returns: there is room, or the client is gone.
Send(answer) ==
    IF answer /\ client_open
    THEN unread < SocketBuffer /\ unread' = unread + 1
    ELSE UNCHANGED unread

Greet ==
    /\ pc = "greet"
    /\ Send(TRUE)
    /\ \/ pc' = "recv" /\ UNCHANGED <<client_socket, ssl>>
       \/ ~ client_open /\ Return
    /\ UNCHANGED <<connection, client, start, taken, handled, cut>>

\* Bug RequestsBounded finds: the size is not looked at.
BugOverLimit(size) == FALSE
OverLimit(size) == size > Limit

\* recv() of what is there, then the test of the NAS loop, if it is that one.
Recv ==
    /\ pc = "recv"
    /\ \E n \in 1 .. Chunk : n <= Available /\ taken' = taken + n
    /\ pc' = IF service = "nas" /\ ~ Complete(SubSeq(stream, 1, taken'))
                                /\ ~ OverLimit(taken')
             THEN "recv" ELSE "handle"
    /\ UNCHANGED <<connection, client, start, handled, cut, unread,
                   client_socket, ssl>>

\* recv() with MSG_WAITALL of the length, and of as much as it says.
ReadLength ==
    /\ pc = "length"
    /\ Available >= Prefix
    /\ taken' = Prefix
    /\ start' = IF service = "dns" THEN Prefix ELSE 0
    /\ IF declared \in Sizes THEN pc' = "body" /\ UNCHANGED <<client_socket, ssl>>
                             ELSE Return
    /\ UNCHANGED <<connection, client, handled, cut, unread>>

ReadBody ==
    /\ pc = "body"
    /\ Available >= BodySize
    /\ taken' = taken + BodySize
    /\ pc' = "handle"
    /\ UNCHANGED <<connection, client, start, handled, cut, unread,
                   client_socket, ssl>>

\* The bytes the recv() it is in waits for.
Wanted == IF pc = "length" THEN Prefix ELSE IF pc = "body" THEN BodySize ELSE 1

\* recv() gives up: the client is gone, or has been silent too long.  Only
\* the NAS reader goes on with what it has.
RecvEnds ==
    /\ pc \in {"recv", "length", "body", "peek"}
    /\ ~ client_open \/ (service \in Timed /\ Available < Wanted)
    /\ cut' = TRUE
    /\ IF service = "nas" THEN pc' = "handle" /\ UNCHANGED <<client_socket, ssl>>
                          ELSE Return
    /\ UNCHANGED <<connection, client, start, taken, handled, unread>>

\* A request is processed, and answered unless it makes no sense.
Process(last, answer) ==
    /\ handled' = Append(handled, [first |-> start + 1, last |-> last])
    /\ Send(answer)

\* NAS, DNS and the browser serve one request.
HandleOne ==
    /\ pc = "handle"
    /\ service \in Prefixed \cup {"nas"}
    /\ \E answer \in BOOLEAN : (service = "nas" => answer) /\ Process(taken, answer)
    /\ Return
    /\ UNCHANGED <<connection, client, start, taken, cut>>

\* Player Search answers every message, gamestats keepalives only; either
\* goes back to recv() when no whole message is left.
HandleMessage ==
    /\ pc = "handle"
    /\ service \in Framed
    /\ MarkerEnds(Buffer) # {}
    /\ start' = start + MarkerEnd(Buffer)
    /\ \E answer \in BOOLEAN : (service = "search" => answer) /\ Process(start', answer)
    /\ UNCHANGED <<connection, client, pc, taken, cut, client_socket, ssl>>

MessagesDone ==
    /\ pc = "handle"
    /\ service \in Framed
    /\ MarkerEnds(Buffer) = {}
    /\ pc' = "recv"
    /\ UNCHANGED <<connection, client, start, taken, handled, cut, unread,
                   client_socket, ssl>>

\* The relay looks at the first byte: TLS, which may not get an SSL object,
\* or a packet to read.
Peek ==
    /\ pc = "peek"
    /\ Available > 0
    /\ \/ \E allocated \in BOOLEAN : ssl' = allocated
          /\ pc' = "handshake"
          /\ UNCHANGED taken
       \/ /\ \E n \in 0 .. Chunk :
                /\ n <= Available /\ taken' = taken + n
                /\ n > 0 \/ ~ client_open
          /\ pc' = "handle"
          /\ UNCHANGED ssl
    /\ UNCHANGED <<connection, client, start, handled, cut, unread, client_socket>>

\* SSL_accept fails or times out, or SSL_read follows it.
Handshake ==
    /\ pc = "handshake"
    /\ \/ Return /\ UNCHANGED taken
       \/ /\ ssl
          /\ \E n \in 0 .. Chunk : n <= Available /\ taken' = taken + n
          /\ pc' = "handle"
          /\ UNCHANGED <<client_socket, ssl>>
    /\ UNCHANGED <<connection, client, start, handled, cut, unread>>

\* The packet, if any, is logged.
RelayDone ==
    /\ pc = "handle"
    /\ service = "relay"
    /\ handled' = IF taken > 0 THEN <<[first |-> 1, last |-> taken]>> ELSE handled
    /\ Return
    /\ UNCHANGED <<connection, client, start, taken, cut, unread>>

Worker ==
    \/ Accept \/ Greet \/ Recv \/ ReadLength \/ ReadBody \/ RecvEnds
    \/ HandleOne \/ HandleMessage \/ MessagesDone
    \/ Peek \/ Handshake \/ RelayDone

-----------------------------------------------------------------------------
(* The client, for as long as there is somebody to talk to.                *)

\* Only markers are told from other bytes.
ClientSends ==
    /\ client_open /\ pc # "ended"
    /\ Len(stream) < MaxSent
    /\ \E b \in IF service \in Framed \cup {"nas"} THEN Byte ELSE {"text"} :
            stream' = Append(stream, b)
    /\ UNCHANGED <<connection, client_open, pc, start, taken, handled, cut,
                   unread, client_socket, ssl>>

ClientReads ==
    /\ unread > 0
    /\ unread' = unread - 1
    /\ UNCHANGED <<connection, client, pc, start, taken, handled, cut,
                   client_socket, ssl>>

ClientCloses ==
    /\ client_open
    /\ client_open' = FALSE
    /\ unread' = 0
    /\ UNCHANGED <<connection, stream, pc, start, taken, handled, cut,
                   client_socket, ssl>>

Next == Worker \/ ClientSends \/ ClientReads \/ ClientCloses

Spec == Init /\ [][Next]_vars

(***************************************************************************)
(* Fairness.  The worker is scheduled, a receive timeout expires, and a    *)
(* client reads its replies: no send() has a timeout.  A client may be     *)
(* silent for ever.                                                        *)
(***************************************************************************)
FairSpec == Spec /\ WF_vars(Worker) /\ WF_vars(ClientReads)

-----------------------------------------------------------------------------
(* Properties.                                                             *)

\* Every variable has its type; the buffer is a part of the stream.
TypeOK ==
    /\ service \in Service
    /\ declared \in Declared \cup {0}
    /\ client_open \in BOOLEAN
    /\ stream \in Seq(Byte)
    /\ pc \in {"accept", "greet", "length", "body", "recv", "peek", "handshake",
               "handle", "ended"}
    /\ start \in Nat /\ taken \in Nat
    /\ start <= taken /\ taken <= Len(stream)
    /\ handled \in Seq([first : Nat, last : Nat])
    /\ cut \in BOOLEAN
    /\ unread \in Nat
    /\ client_socket \in BOOLEAN
    /\ ssl \in BOOLEAN

\* What a request is, whatever the reader does.
WholeMessage(s) == MarkerEnds(s) = {Len(s)}
WholeHttp(s) == MarkerEnds(s) # {} /\ Len(s) >= MarkerEnd(s) + declared
WholeRequest(s) ==
    /\ service \in Framed => WholeMessage(s)
    /\ service = "dns" => Len(s) = declared
    /\ service = "browser" => Len(s) = Prefix + BodySize
    /\ service = "nas" => \/ WholeHttp(s) \/ cut \/ Len(s) > Limit
                          \/ MarkerEnd(s) + declared >= SizeMod
    /\ service = "relay" => s # <<>>

(***************************************************************************)
(* Requests are processed in the order they were sent, nothing left out    *)
(* between them, each of them whole: one message and no part of the next,  *)
(* as many bytes as declared.  The exceptions are those of the NAS reader: *)
(* it goes on after a timeout, at its limit, and with a length that wraps. *)
(***************************************************************************)
WholeRequests ==
    \A i \in DOMAIN handled :
        LET request == SubSeq(stream, handled[i].first, handled[i].last) IN
        /\ i > 1 => handled[i].first = handled[i - 1].last + 1
        /\ WholeRequest(request)

(***************************************************************************)
(* A worker does not wait for more when it has a whole request: the client *)
(* is waiting for the answer then, and both would, until the timeout or    *)
(* for ever.                                                               *)
(***************************************************************************)
NoWholeRequestWaits ==
    pc = "recv" =>
        IF service \in Framed THEN MarkerEnds(Buffer) = {} ELSE ~ WholeHttp(Buffer)

(***************************************************************************)
(* What the services that take one request buffer is bounded, whatever is  *)
(* declared or sent.  The two with markers have no such bound.             *)
(***************************************************************************)
RequestsBounded ==
    service \notin Framed => taken - start <= Limit + Chunk

\* However a worker ends, its socket is closed and its SSL object freed, and
\* not before.
DescriptorsReturned ==
    /\ pc = "ended" => ~ client_socket /\ ~ ssl
    /\ pc \notin {"accept", "ended"} => client_socket

(***************************************************************************)
(* A worker ends when its client has gone, and when its client has fallen  *)
(* silent unless it is one of DNS and gamestats, which set no timeout.     *)
(***************************************************************************)
EveryWorkerEnds ==
    service \notin {"dns", "gamestats"} \/ ~ client_open ~> pc = "ended"
=============================================================================

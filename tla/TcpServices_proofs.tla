------------------------- MODULE TcpServices_proofs --------------------------
(***************************************************************************)
(* Proofs about a connection to a TCP service, for any marker, limits,     *)
(* declared sizes and stream of the client.                                *)
(***************************************************************************)
EXTENDS TcpServices, SequenceTheorems, FiniteSetTheorems, TLAPS

(***************************************************************************)
(* Streams and markers.                                                    *)
(***************************************************************************)
\* What is in a part of the stream does not change when more arrives.
LEMMA PartStays ==
    ASSUME NEW s \in Seq(Byte), NEW b \in Byte,
           NEW first \in Nat \ {0}, NEW end \in 0 .. Len(s)
    PROVE  SubSeq(Append(s, b), first, end) = SubSeq(s, first, end)
<1>1. CASE first > end
  BY <1>1, SubSeqEmpty
<1>2. CASE first <= end
  <2>1. first \in 1 .. Len(s) /\ end \in 1 .. Len(s)
    BY <1>2
  <2>2. <<b>> \in Seq(Byte) /\ Append(s, b) = s \o <<b>>
    OBVIOUS
  <2>3. QED
    BY <2>1, <2>2, SubSeqOfConcat1
<1>3. QED
  BY <1>1, <1>2

\* The length of a part.
LEMMA PartLength ==
    ASSUME NEW s \in Seq(Byte), NEW first \in Nat \ {0}, NEW end \in Nat,
           end <= Len(s), first <= end + 1
    PROVE  SubSeq(s, first, end) \in Seq(Byte) /\ Len(SubSeq(s, first, end)) = end - first + 1
<1>1. \A i \in first .. end : s[i] \in Byte
  OBVIOUS
<1>2. QED
  BY <1>1, SubSeqProperties

LEMMA BeginningLength ==
    ASSUME NEW s \in Seq(Byte), NEW end \in Nat, end <= Len(s)
    PROVE  SubSeq(s, 1, end) \in Seq(Byte) /\ Len(SubSeq(s, 1, end)) = end
<1>1. 1 \in Nat \ {0} /\ 1 <= end + 1 /\ end - 1 + 1 = end
  OBVIOUS
<1>2. QED
  BY <1>1, PartLength

\* The beginning of a part.
LEMMA PartOfPart ==
    ASSUME NEW s \in Seq(Byte), NEW i \in 1 .. Len(s), NEW j \in 1 .. Len(s),
           NEW n \in 1 .. j - i + 1
    PROVE  SubSeq(SubSeq(s, i, j), 1, n) = SubSeq(s, i, i + n - 1)
<1>1. 1 \in 1 .. j - i + 1 /\ i + 1 - 1 = i
  OBVIOUS
<1>2. SubSeq(SubSeq(s, i, j), 1, n) = SubSeq(s, i + 1 - 1, i + n - 1)
  BY <1>1, SubSeqOfSubSeq
<1>3. QED
  BY <1>1, <1>2

\* Ends of markers are where a sequence has that many bytes.
LEMMA EndsInside ==
    ASSUME NEW s \in Seq(Byte)
    PROVE  MarkerEnds(s) \subseteq 1 .. Len(s)
<1>1. Len(Marker) \in Nat /\ Len(Marker) > 0
  BY ConstantsAssumption, EmptySeq
<1>2. QED
  BY <1>1 DEF MarkerEnds

\* A set of naturals has a smallest element: among the intervals up to its
\* elements one contains no other.
LEMMA Smallest ==
    ASSUME NEW M, M \subseteq Nat, M # {}
    PROVE  \E i \in M : \A j \in M : i <= j
<1> DEFINE T == {1 .. i : i \in M}
<1>1. \A i \in M : IsFiniteSet(1 .. i)
  BY FS_Interval
<1>2. T \subseteq FiniteSubsetsOf(Nat) /\ T # {}
  <2>1. ASSUME NEW i \in M PROVE 1 .. i \in FiniteSubsetsOf(Nat)
    <3>1. 1 .. i \subseteq Nat
      OBVIOUS
    <3>2. QED
      BY <1>1, <3>1 DEF FiniteSubsetsOf
  <2>2. QED
    BY <2>1
<1>3. PICK x \in T : \A y \in T : ~ (<<y, x>> \in StrictSubsetOrdering(Nat))
  <2> HIDE DEF T
  <2>1. QED
    BY <1>2, FS_StrictSubsetOrderingWellFounded, WFMin
<1>4. PICK i \in M : x = 1 .. i
  OBVIOUS
<1>5. ASSUME NEW j \in M, j < i PROVE FALSE
  <2>1. 1 .. j \subseteq 1 .. i /\ i \in 1 .. i /\ i \notin 1 .. j
    BY <1>5
  <2>2. <<1 .. j, 1 .. i>> \in StrictSubsetOrdering(Nat)
    BY <2>1 DEF StrictSubsetOrdering
  <2>3. QED
    BY <1>3, <1>4, <2>2
<1>6. QED
  BY <1>5

\* find() returns the end of the first marker.
LEMMA FirstMarker ==
    ASSUME NEW s \in Seq(Byte), MarkerEnds(s) # {}
    PROVE  MarkerEnd(s) \in MarkerEnds(s) /\ \A j \in MarkerEnds(s) : MarkerEnd(s) <= j
<1>1. MarkerEnds(s) \subseteq Nat
  BY EndsInside
<1>2. \E i \in MarkerEnds(s) : \A j \in MarkerEnds(s) : i <= j
  BY <1>1, Smallest
<1>3. QED
  BY <1>2 DEF MarkerEnd

\* The markers of the beginning of a sequence are markers of the sequence.
LEMMA MarkersOfBeginning ==
    ASSUME NEW s \in Seq(Byte), NEW k \in 1 .. Len(s)
    PROVE  MarkerEnds(SubSeq(s, 1, k)) = {i \in MarkerEnds(s) : i <= k}
<1>1. Len(Marker) \in Nat /\ Len(Marker) > 0
  BY ConstantsAssumption, EmptySeq
<1>2. Len(SubSeq(s, 1, k)) = k
  BY PartLength
<1>3. ASSUME NEW i \in Len(Marker) .. k
      PROVE  SubSeq(SubSeq(s, 1, k), i - Len(Marker) + 1, i) =
                SubSeq(s, i - Len(Marker) + 1, i)
  <2>1. /\ i - Len(Marker) + 1 \in 1 .. k - 1 + 1 /\ i \in 1 .. k - 1 + 1
        /\ 1 \in 1 .. Len(s)
    BY <1>1, <1>3
  <2>2. QED
    BY <2>1, SubSeqOfSubSeq
<1>4. QED
  BY <1>1, <1>2, <1>3 DEF MarkerEnds

\* The first message of a buffer is whole, and nothing else.
LEMMA FirstMessageWhole ==
    ASSUME NEW s \in Seq(Byte), MarkerEnds(s) # {}
    PROVE  WholeMessage(SubSeq(s, 1, MarkerEnd(s)))
<1>1. MarkerEnd(s) \in 1 .. Len(s)
  BY FirstMarker, EndsInside
<1>2. MarkerEnds(SubSeq(s, 1, MarkerEnd(s))) = {i \in MarkerEnds(s) : i <= MarkerEnd(s)}
  BY <1>1, MarkersOfBeginning
<1>3. {i \in MarkerEnds(s) : i <= MarkerEnd(s)} = {MarkerEnd(s)}
  BY FirstMarker, EndsInside
<1>4. QED
  BY <1>1, <1>2, <1>3, PartLength DEF WholeMessage

-----------------------------------------------------------------------------
(***************************************************************************)
(* The inductive invariant: where in the stream the worker is at each of   *)
(* its steps, what made the NAS reader stop, and that the requests of the  *)
(* services with markers end where the buffer starts.                      *)
(***************************************************************************)
Size == IF service = "dns" THEN declared ELSE Prefix + BodySize

Stages ==
    /\ pc = "accept" => start = 0 /\ taken = 0 /\ ~ ssl
    /\ pc = "greet" => service = "gamestats" /\ start = 0 /\ taken = 0
    /\ pc = "length" => service \in Prefixed /\ start = 0 /\ taken = 0
    /\ pc = "body" => /\ service \in Prefixed /\ declared \in Sizes /\ taken = Prefix
                      /\ start = IF service = "dns" THEN Prefix ELSE 0
    /\ pc = "recv" => service \in Framed \cup {"nas"}
    /\ pc \in {"peek", "handshake"} => service = "relay" /\ start = 0 /\ taken = 0
    /\ pc = "handle" /\ service \in Prefixed =>
            declared \in Sizes /\ taken - start = Size
    /\ pc = "handle" /\ service = "nas" =>
            Complete(SubSeq(stream, 1, taken)) \/ OverLimit(taken) \/ cut

Places ==
    /\ Len(stream) <= MaxSent
    /\ service \in {"nas", "relay"} => start = 0
    /\ service \notin Framed /\ pc # "ended" => handled = <<>>
    /\ \A i \in DOMAIN handled :
            /\ handled[i].first >= 1 /\ handled[i].last <= taken
            /\ handled[i].first <= handled[i].last + 1
    /\ service \in Framed /\ handled # <<>> => handled[Len(handled)].last = start

Kept == pc = "recv" /\ service = "nas" => ~ OverLimit(taken)

IInv == /\ TypeOK /\ Stages /\ Places /\ Kept
        /\ WholeRequests /\ NoWholeRequestWaits /\ RequestsBounded
        /\ DescriptorsReturned

\* The constants as numbers.
LEMMA Numbers ==
    /\ Prefix \in Nat /\ Prefix > 0 /\ Limit \in Nat /\ Limit > 0
    /\ Chunk \in Nat /\ Chunk > 0 /\ Prefix <= Limit
    /\ MaxSent \in Nat /\ SizeMod \in Nat /\ SizeMod > MaxSent
    /\ Declared \subseteq Nat
BY ConstantsAssumption

\* One recv() after a buffer within the limit is within the bound.
LEMMA WithinBound ==
    ASSUME NEW x, x = 0, NEW y \in Nat, y <= Limit, NEW z \in Nat, z <= y + Chunk
    PROVE  z - x <= Limit + Chunk
BY Numbers

\* The sequences of the invariant, with their lengths and elements.
LEMMA Lengths ==
    ASSUME IInv
    PROVE  /\ stream \in Seq(Byte) /\ Len(stream) \in Nat /\ Len(stream) <= MaxSent
           /\ start \in Nat /\ taken \in Nat /\ start <= taken /\ taken <= Len(stream)
           /\ handled \in Seq([first : Nat, last : Nat]) /\ Len(handled) \in Nat
           /\ DOMAIN handled = 1 .. Len(handled)
           /\ \A i \in DOMAIN handled : /\ handled[i].first \in Nat \ {0}
                                       /\ handled[i].last \in Nat
                                       /\ handled[i].last <= taken
                                       /\ handled[i].first <= handled[i].last + 1
<1>1. /\ stream \in Seq(Byte) /\ Len(stream) <= MaxSent
      /\ start \in Nat /\ taken \in Nat /\ start <= taken /\ taken <= Len(stream)
      /\ handled \in Seq([first : Nat, last : Nat])
  BY DEF IInv, TypeOK, Places
<1>2. Len(stream) \in Nat /\ Len(handled) \in Nat /\ DOMAIN handled = 1 .. Len(handled)
  BY <1>1, LenProperties
<1>3. \A i \in DOMAIN handled : handled[i] \in [first : Nat, last : Nat]
  BY <1>1, <1>2, ElementOfSeq
<1>4. \A i \in DOMAIN handled : /\ handled[i].first >= 1 /\ handled[i].last <= taken
                                /\ handled[i].first <= handled[i].last + 1
  BY DEF IInv, Places
<1>5. QED
  BY <1>1, <1>2, <1>3, <1>4

\* An empty buffer holds no request.
LEMMA NothingWhole ==
    ASSUME NEW first, NEW end, first \in Nat, end \in Nat, end < first
    PROVE  LET s == SubSeq(stream, first, end) IN MarkerEnds(s) = {} /\ ~ WholeHttp(s)
<1> DEFINE s == SubSeq(stream, first, end)
<1>1. s = <<>>
  BY SubSeqEmpty
<1>2. s \in Seq(Byte) /\ Len(s) = 0
  BY <1>1
<1> HIDE DEF s
<1>3. MarkerEnds(s) \subseteq 1 .. 0
  BY <1>2, EndsInside
<1>4. QED
  BY <1>3 DEF WholeHttp, s

\* A step that handles nothing leaves what was handled as it was.
LEMMA ReadingStep ==
    ASSUME IInv, UNCHANGED <<connection, stream, handled>>, cut => cut',
           pc # "ended", taken' \in Nat, taken <= taken',
           start' = start \/ service \in Prefixed
    PROVE  Places' /\ WholeRequests'
<1>1. Places'
  <2>1. UNCHANGED <<service, stream, handled>>
    BY DEF connection
  <2>2. \A i \in DOMAIN handled : handled[i].last <= taken'
    <3>1. \A i \in DOMAIN handled : handled[i].last \in Nat /\ handled[i].last <= taken
      BY Lengths
    <3>2. taken \in Nat
      BY Lengths
    <3>3. QED
      BY <3>1, <3>2
  <2>3. service \in {"nas", "relay"} \cup Framed => start' = start
    BY DEF Prefixed, Framed
  <2>4. QED
    BY <2>1, <2>2, <2>3 DEF IInv, Places
<1>2. WholeRequests'
  <2>1. \A s : WholeRequest(s) => WholeRequest(s)'
    BY DEF WholeRequest, connection, WholeHttp, WholeMessage, BodySize
  <2>2. QED
    BY <2>1 DEF IInv, WholeRequests
<1>3. QED
  BY <1>1, <1>2

LEMMA InitIInv == Init => IInv
<1> SUFFICES ASSUME Init PROVE IInv
  OBVIOUS
<1>1. /\ stream = <<>> /\ handled = <<>> /\ start = 0 /\ taken = 0 /\ pc = "accept"
      /\ stream \in Seq(Byte) /\ handled \in Seq([first : Nat, last : Nat])
      /\ Len(stream) = 0 /\ Len(handled) = 0
  BY DEF Init
<1>2. TypeOK
  <2>1. declared \in Declared \cup {0}
    BY DEF Init
  <2>2. QED
    <3>1. /\ service \in Service /\ client_open \in BOOLEAN /\ cut \in BOOLEAN
          /\ unread \in Nat /\ client_socket \in BOOLEAN /\ ssl \in BOOLEAN
      BY DEF Init
    <3>2. start \in Nat /\ taken \in Nat /\ start <= taken /\ taken <= Len(stream)
      BY <1>1
    <3>3. QED
      BY <1>1, <2>1, <3>1, <3>2 DEF TypeOK
<1>3. Stages /\ Places /\ Kept /\ WholeRequests /\ DescriptorsReturned
  BY <1>1, Numbers DEF Init, Stages, Places, Kept, WholeRequests, DescriptorsReturned
<1>4. NoWholeRequestWaits /\ RequestsBounded
  BY <1>1, Numbers DEF NoWholeRequestWaits, RequestsBounded
<1>5. QED
  BY <1>2, <1>3, <1>4 DEF IInv

\* What the steps of the worker are by service.
LEMMA Entries ==
    ASSUME service \in Service
    PROVE  /\ Entry[service] \in {"recv", "length", "greet", "peek"}
           /\ Entry[service] = "recv" => service \in Framed \cup {"nas"}
           /\ Entry[service] = "length" => service \in Prefixed
           /\ Entry[service] = "greet" => service = "gamestats"
           /\ Entry[service] = "peek" => service = "relay"
BY ConstantsAssumption DEF Entry, Framed, Prefixed

\* The connection is accepted, or not; gamestats greets.
LEMMA BeginIInv == ASSUME IInv, Accept \/ Greet PROVE IInv'
<1> USE DEF IInv
<1>1. /\ UNCHANGED <<connection, client, start, taken, handled, cut>>
      /\ start = 0 /\ taken = 0 /\ pc \in {"accept", "greet"}
  BY DEF Stages, Accept, Greet
<1>2. \/ /\ pc' = Entry[service] /\ client_socket' /\ UNCHANGED ssl
      \/ /\ pc' = "recv" /\ service = "gamestats" /\ UNCHANGED <<client_socket, ssl>>
         /\ pc = "greet"
      \/ pc' = "ended" /\ client_socket' = FALSE /\ (ssl' = FALSE \/ (pc = "accept" /\ ssl' = ssl))
  BY DEF Stages, Accept, Greet, Return
<1>3. service \in Service /\ ssl \in BOOLEAN /\ client_socket \in BOOLEAN
  BY DEF TypeOK
<1>4. pc' \in {"recv", "length", "greet", "peek", "ended"}
  BY <1>2, <1>3, Entries
<1>5. Places' /\ WholeRequests'
  BY <1>1, ReadingStep DEF client, TypeOK
<1>6. TypeOK'
  <2>1. unread' \in Nat
    BY DEF Accept, Greet, Send, TypeOK
  <2>2. client_socket' \in BOOLEAN /\ ssl' \in BOOLEAN
    BY <1>2, <1>3 DEF Accept
  <2>3. QED
    BY <1>1, <1>4, <2>1, <2>2 DEF TypeOK, connection, client
<1>7. Stages'
  BY <1>1, <1>2, <1>3, <1>4, Entries DEF Stages, connection, Prefixed, Framed
<1>8. Kept' /\ RequestsBounded'
  BY <1>1, Numbers DEF Kept, OverLimit, RequestsBounded
<1>9. NoWholeRequestWaits'
  <2>1. Buffer' = SubSeq(stream, 0 + 1, 0)
    BY <1>1 DEF Buffer, client
  <2>2. MarkerEnds(Buffer') = {} /\ ~ WholeHttp(Buffer')
    BY <2>1, NothingWhole
  <2>3. WholeHttp(Buffer)' = WholeHttp(Buffer')
    BY <1>1 DEF WholeHttp, connection
  <2>4. QED
    BY <2>2, <2>3 DEF NoWholeRequestWaits
<1>10. DescriptorsReturned'
  BY <1>1, <1>2, <1>3, <1>4, Entries DEF Stages, DescriptorsReturned
<1>11. QED
  BY <1>5, <1>6, <1>7, <1>8, <1>9, <1>10

\* A request is whole for the NAS reader if it is whole: the sum wraps only
\* for sizes beyond what can be received.
LEMMA CompleteIfWhole ==
    ASSUME IInv, NEW s \in Seq(Byte), Len(s) <= MaxSent
    PROVE  /\ WholeHttp(s) => Complete(s)
           /\ Complete(s) => WholeHttp(s) \/ MarkerEnd(s) + declared >= SizeMod
<1>1. MarkerEnds(s) # {} => MarkerEnd(s) \in Nat
  BY FirstMarker, EndsInside
<1>2. declared \in Nat
  BY Numbers DEF IInv, TypeOK
<1>3. \A n \in Nat : n < SizeMod => n % SizeMod = n
  BY Numbers
<1>4. QED
  BY <1>1, <1>2, <1>3, Numbers DEF WholeHttp, Complete

LEMMA RecvIInv == ASSUME IInv, Recv PROVE IInv'
<1> USE DEF IInv
<1>1. PICK n \in 1 .. Chunk : n <= Available /\ taken' = taken + n
  BY DEF Recv
<1>2. /\ UNCHANGED <<connection, client, start, handled, cut, unread, client_socket, ssl>>
      /\ pc = "recv" /\ pc' \in {"recv", "handle"}
      /\ service \in Framed \cup {"nas"}
      /\ pc' = "recv" <=> service = "nas" /\ ~ Complete(SubSeq(stream, 1, taken'))
                                          /\ ~ OverLimit(taken')
  BY DEF Recv, Stages, Framed
<1>3. n \in Nat /\ taken' \in Nat /\ taken' <= Len(stream) /\ taken' <= taken + Chunk
  BY <1>1, Numbers DEF Available, TypeOK
<1>4. Places' /\ WholeRequests'
  BY <1>1, <1>2, <1>3, ReadingStep DEF client, TypeOK
<1>5. TypeOK'
  BY <1>1, <1>2, <1>3 DEF TypeOK, connection, client
<1>6. Stages' /\ Kept' /\ DescriptorsReturned'
  BY <1>2 DEF Stages, Kept, DescriptorsReturned, Complete, connection, client,
     Prefixed, Framed
<1>7. RequestsBounded'
  <2>1. service = "nas" => start = 0 /\ taken <= Limit
    BY <1>2, Numbers DEF Kept, OverLimit, Places, TypeOK
  <2>2. service \notin Framed => service = "nas"
    BY <1>2
  <2>3. service' = service /\ start' = start /\ taken \in Nat
    BY <1>2 DEF connection, TypeOK
  <2>4. service \notin Framed => taken' - start' <= Limit + Chunk
    BY <1>3, <2>1, <2>2, <2>3, WithinBound
  <2>5. QED
    BY <2>3, <2>4 DEF RequestsBounded, Framed
<1>8. NoWholeRequestWaits'
  <2> SUFFICES ASSUME pc' = "recv" PROVE ~ WholeHttp(Buffer)' /\ service = "nas"
    BY <1>2 DEF NoWholeRequestWaits, connection, Framed
  <2>1. service = "nas" /\ ~ Complete(SubSeq(stream, 1, taken')) /\ start = 0
    BY <1>2 DEF Places
  <2>2. Buffer' = SubSeq(stream, 1, taken')
    BY <1>2, <2>1 DEF Buffer, client
  <2>3. Buffer' \in Seq(Byte) /\ Len(Buffer') <= MaxSent
    <3>1. stream \in Seq(Byte) /\ Len(stream) <= MaxSent /\ Len(stream) \in Nat
      BY Lengths
    <3>2. Buffer' \in Seq(Byte) /\ Len(Buffer') = taken'
      BY <1>3, <2>2, <3>1, BeginningLength
    <3>3. QED
      BY <1>3, <3>1, <3>2, Numbers
  <2>4. ~ WholeHttp(Buffer')
    BY <2>1, <2>2, <2>3, CompleteIfWhole
  <2>5. QED
    BY <1>2, <2>1, <2>4 DEF WholeHttp, connection
<1>9. QED
  BY <1>4, <1>5, <1>6, <1>7, <1>8

LEMMA ReadIInv == ASSUME IInv, ReadLength \/ ReadBody PROVE IInv'
<1> USE DEF IInv
<1>1. /\ UNCHANGED <<connection, client, handled, cut, unread>>
      /\ service \in Prefixed /\ pc \in {"length", "body"}
      /\ pc' \in {"body", "handle", "ended"}
  BY DEF ReadLength, ReadBody, Stages, Return
<1>2. /\ taken' \in Nat /\ taken <= taken' /\ taken' <= Len(stream)
      /\ start' \in Nat /\ start' <= taken'
  <2>1. CASE ReadLength
    BY <2>1, Numbers DEF ReadLength, Stages, Available, TypeOK
  <2>2. CASE ReadBody
    BY <2>2, Numbers DEF ReadBody, Stages, Available, TypeOK, BodySize, Sizes
  <2>3. QED
    BY <2>1, <2>2
<1>3. Places' /\ WholeRequests'
  BY <1>1, <1>2, ReadingStep DEF client
<1>4. TypeOK'
  BY <1>1, <1>2 DEF TypeOK, connection, client, ReadLength, ReadBody, Return
<1>5. Stages' /\ RequestsBounded'
  <2>1. CASE ReadLength
    BY <1>1, <2>1, Numbers DEF ReadLength, Return, Stages, RequestsBounded, Sizes,
       connection, Prefixed
  <2>2. CASE ReadBody
    BY <1>1, <2>2, Numbers DEF ReadBody, Stages, RequestsBounded, Sizes, BodySize,
       Size, connection, Prefixed
  <2>3. QED
    BY <2>1, <2>2
<1>6. Kept' /\ NoWholeRequestWaits'
  BY <1>1 DEF Kept, NoWholeRequestWaits
<1>7. DescriptorsReturned'
  BY <1>1 DEF DescriptorsReturned, ReadLength, ReadBody, Return
<1>8. QED
  BY <1>3, <1>4, <1>5, <1>6, <1>7

LEMMA RecvEndsIInv == ASSUME IInv, RecvEnds PROVE IInv'
<1> USE DEF IInv
<1>1. /\ UNCHANGED <<connection, client, start, taken, handled, unread>>
      /\ pc # "ended" /\ cut' /\ pc # "accept"
      /\ \/ service = "nas" /\ pc' = "handle" /\ UNCHANGED <<client_socket, ssl>>
         \/ service # "nas" /\ Return
  BY DEF RecvEnds
<1>2. Places' /\ WholeRequests'
  BY <1>1, ReadingStep DEF client, TypeOK
<1>3. TypeOK'
  BY <1>1 DEF TypeOK, connection, client, Return, RecvEnds
<1>4. Stages' /\ Kept' /\ NoWholeRequestWaits' /\ DescriptorsReturned' /\ RequestsBounded'
  BY <1>1 DEF Stages, Kept, NoWholeRequestWaits, DescriptorsReturned, RequestsBounded,
     Return, connection, Prefixed, Framed
<1>5. QED
  BY <1>2, <1>3, <1>4

\* Requests are added to those handled: the last one, at the end.
LEMMA Handles ==
    ASSUME IInv, NEW request \in [first : Nat, last : Nat],
           handled' = Append(handled, request), UNCHANGED <<connection, stream, cut>>,
           handled # <<>> => request.first = handled[Len(handled)].last + 1,
           WholeRequest(SubSeq(stream, request.first, request.last))
    PROVE  /\ WholeRequests'
           /\ handled' \in Seq([first : Nat, last : Nat])
           /\ DOMAIN handled' = 1 .. Len(handled) + 1 /\ Len(handled') = Len(handled) + 1
           /\ \A i \in 1 .. Len(handled) : handled'[i] = handled[i]
           /\ handled'[Len(handled) + 1] = request
<1>1. /\ handled \in Seq([first : Nat, last : Nat]) /\ Len(handled) \in Nat
      /\ DOMAIN handled = 1 .. Len(handled)
  BY Lengths
<1>2. /\ handled' \in Seq([first : Nat, last : Nat])
      /\ Len(handled') = Len(handled) + 1 /\ DOMAIN handled' = 1 .. Len(handled')
      /\ \A i \in 1 .. Len(handled) : handled'[i] = handled[i]
      /\ handled'[Len(handled) + 1] = request
  BY <1>1, AppendProperties, LenProperties
<1>3. \A s : WholeRequest(s) => WholeRequest(s)'
  BY DEF WholeRequest, connection, WholeHttp, WholeMessage, BodySize
<1>4. ASSUME NEW i \in 1 .. Len(handled) + 1
      PROVE  /\ i > 1 => handled'[i].first = handled'[i - 1].last + 1
             /\ WholeRequest(SubSeq(stream, handled[i].first, handled[i].last))'
  <2>1. CASE i \in 1 .. Len(handled)
    <3>1. handled'[i] = handled[i] /\ (i > 1 => handled'[i - 1] = handled[i - 1])
      BY <1>1, <1>2, <2>1
    <3>2. /\ i > 1 => handled[i].first = handled[i - 1].last + 1
          /\ WholeRequest(SubSeq(stream, handled[i].first, handled[i].last))
      BY <1>1, <2>1 DEF IInv, WholeRequests
    <3>3. QED
      BY <1>3, <3>1, <3>2
  <2>2. CASE i = Len(handled) + 1
    <3>1. handled'[i] = request
      BY <1>2, <2>2
    <3>2. i > 1 => handled # <<>> /\ handled'[i - 1] = handled[Len(handled)]
      <4>1. i > 1 => Len(handled) # 0 /\ i - 1 = Len(handled) /\ i - 1 \in 1 .. Len(handled)
        BY <1>1, <2>2
      <4>2. Len(<<>>) = 0
        OBVIOUS
      <4>3. QED
        BY <1>2, <4>1, <4>2
    <3>3. QED
      BY <1>3, <3>1, <3>2
  <2>3. QED
    BY <1>1, <2>1, <2>2
<1>5. WholeRequests'
  BY <1>1, <1>2, <1>4 DEF WholeRequests
<1>6. QED
  BY <1>1, <1>2, <1>5

LEMMA HandlesPlaces ==
    ASSUME IInv, NEW request \in [first : Nat, last : Nat],
           handled' = Append(handled, request), UNCHANGED <<connection, stream, cut, taken>>,
           handled # <<>> => request.first = handled[Len(handled)].last + 1,
           WholeRequest(SubSeq(stream, request.first, request.last)),
           request.first >= 1, request.last <= taken, request.first <= request.last + 1,
           service \in {"nas", "relay"} => start' = start,
           service \in Framed => start' = request.last,
           service \in Framed \/ pc' = "ended"
    PROVE  Places'
<1>1. /\ DOMAIN handled' = 1 .. Len(handled) + 1 /\ Len(handled') = Len(handled) + 1
      /\ \A i \in 1 .. Len(handled) : handled'[i] = handled[i]
      /\ handled'[Len(handled) + 1] = request
  BY Handles
<1>2. /\ DOMAIN handled = 1 .. Len(handled) /\ Len(handled) \in Nat
      /\ \A i \in DOMAIN handled : /\ handled[i].first >= 1 /\ handled[i].last <= taken
                                   /\ handled[i].first <= handled[i].last + 1
  BY Lengths DEF IInv, Places
<1>3. \A i \in DOMAIN handled' : /\ handled'[i].first >= 1 /\ handled'[i].last <= taken'
                                 /\ handled'[i].first <= handled'[i].last + 1
  BY <1>1, <1>2
<1>4. service' = service /\ stream' = stream
  BY DEF connection
<1>5. handled'[Len(handled')].last = request.last
  BY <1>1
<1>6. QED
  BY <1>3, <1>4, <1>5 DEF IInv, Places, Framed

\* NAS, DNS and the browser handle what they have: nothing before it.
LEMMA HandleOneIInv == ASSUME IInv, HandleOne PROVE IInv'
<1> DEFINE request == [first |-> start + 1, last |-> taken]
<1>1. /\ UNCHANGED <<connection, client, start, taken, cut>>
      /\ pc = "handle" /\ service \in Prefixed \cup {"nas"} /\ service \notin Framed
      /\ pc' = "ended" /\ client_socket' = FALSE /\ ssl' = FALSE
      /\ handled' = Append(handled, request)
      /\ handled = <<>> /\ unread' \in Nat
  BY DEF HandleOne, Process, Send, Return, IInv, TypeOK, Places, Prefixed, Framed
<1>2. /\ request \in [first : Nat, last : Nat] /\ request.first = start + 1
      /\ request.last = taken /\ request.first >= 1 /\ request.first <= request.last + 1
  BY Lengths
<1> HIDE DEF request
<1>3. WholeRequest(SubSeq(stream, request.first, request.last))
  <2> DEFINE s == SubSeq(stream, request.first, request.last)
  <2>1. s \in Seq(Byte) /\ Len(s) = taken - start
    BY <1>2, Lengths, PartLength
  <2>2. CASE service \in Prefixed
    <3>1. taken - start = Size
      BY <1>1, <2>2 DEF IInv, Stages
    <3>2. QED
      BY <2>1, <2>2, <3>1 DEF WholeRequest, Size, Prefixed, Framed
  <2>3. CASE service = "nas"
    <3>1. start = 0 /\ s = SubSeq(stream, 1, taken)
      BY <1>2, <2>3 DEF IInv, Places
    <3>2. Complete(s) \/ OverLimit(taken) \/ cut
      BY <1>1, <2>3, <3>1 DEF IInv, Stages
    <3>3. Len(s) = taken /\ Len(s) <= MaxSent
      BY <2>1, <3>1, Lengths, Numbers
    <3>4. Complete(s) => WholeHttp(s) \/ MarkerEnd(s) + declared >= SizeMod
      BY <2>1, <3>3, CompleteIfWhole
    <3> HIDE DEF s
    <3>5. WholeRequest(s)
      BY <2>3, <3>2, <3>3, <3>4 DEF WholeRequest, OverLimit, Framed
    <3>6. QED
      BY <3>5 DEF s
  <2>4. QED
    BY <1>1, <2>2, <2>3
<1>4. WholeRequests' /\ handled' \in Seq([first : Nat, last : Nat])
  BY <1>1, <1>2, <1>3, Handles DEF client
<1>5. Places'
  BY <1>1, <1>2, <1>3, HandlesPlaces, Lengths DEF client
<1>6. TypeOK'
  BY <1>1, <1>4 DEF IInv, TypeOK, connection, client
<1>7. Stages' /\ Kept' /\ NoWholeRequestWaits' /\ DescriptorsReturned'
  BY <1>1 DEF Stages, Kept, NoWholeRequestWaits, DescriptorsReturned
<1>8. RequestsBounded'
  BY <1>1 DEF IInv, RequestsBounded, connection
<1>9. QED
  BY <1>4, <1>5, <1>6, <1>7, <1>8 DEF IInv

\* The services with markers handle the first message of the buffer.
LEMMA HandleMessageIInv == ASSUME IInv, HandleMessage PROVE IInv'
<1> DEFINE request == [first |-> start + 1, last |-> start']
<1>1. /\ UNCHANGED <<connection, client, pc, taken, cut, client_socket, ssl>>
      /\ pc = "handle" /\ service \in Framed /\ MarkerEnds(Buffer) # {}
      /\ start' = start + MarkerEnd(Buffer)
      /\ handled' = Append(handled, request) /\ unread' \in Nat
  BY DEF HandleMessage, Process, Send, IInv, TypeOK
<1>2. Buffer \in Seq(Byte) /\ Len(Buffer) = taken - start
  <2>1. start + 1 \in Nat \ {0} /\ start + 1 <= taken + 1 /\ taken - (start + 1) + 1 = taken - start
    BY Lengths
  <2>2. QED
    BY <2>1, Lengths, PartLength DEF Buffer
<1>3. MarkerEnd(Buffer) \in 1 .. taken - start
  BY <1>1, <1>2, FirstMarker, EndsInside
<1>4. start' \in Nat /\ start' <= taken /\ start < start'
  BY <1>1, <1>3, Lengths
<1>5. /\ request \in [first : Nat, last : Nat] /\ request.first = start + 1
      /\ request.last = start' /\ request.first >= 1 /\ request.first <= request.last + 1
  BY <1>4, Lengths
<1> HIDE DEF request
<1>6. WholeRequest(SubSeq(stream, request.first, request.last))
  <2>1. SubSeq(Buffer, 1, MarkerEnd(Buffer)) = SubSeq(stream, request.first, request.last)
    <3>1. PICK k : k = MarkerEnd(Buffer)
      OBVIOUS
    <3>2. /\ start + 1 \in 1 .. Len(stream) /\ taken \in 1 .. Len(stream)
          /\ k \in 1 .. taken - (start + 1) + 1
          /\ start + 1 + k - 1 = start'
      BY <1>1, <1>3, <1>4, <3>1, Lengths
    <3>3. SubSeq(SubSeq(stream, start + 1, taken), 1, k) = SubSeq(stream, start + 1, start')
      BY <3>2, Lengths, PartOfPart
    <3>4. QED
      BY <1>5, <3>1, <3>3 DEF Buffer
  <2>2. WholeMessage(SubSeq(Buffer, 1, MarkerEnd(Buffer)))
    BY <1>1, <1>2, FirstMessageWhole
  <2>3. QED
    BY <1>1, <2>1, <2>2 DEF WholeRequest, Framed
<1>7. handled # <<>> => request.first = handled[Len(handled)].last + 1
  BY <1>1, <1>5 DEF IInv, Places
<1>8. WholeRequests' /\ handled' \in Seq([first : Nat, last : Nat])
  BY <1>1, <1>5, <1>6, <1>7, Handles DEF client
<1>9. Places'
  BY <1>1, <1>4, <1>5, <1>6, <1>7, HandlesPlaces DEF client, Framed
<1>10. TypeOK'
  BY <1>1, <1>4, <1>8 DEF IInv, TypeOK, connection, client
<1>11. /\ Stages' /\ Kept' /\ NoWholeRequestWaits' /\ DescriptorsReturned'
       /\ RequestsBounded'
  BY <1>1 DEF IInv, Stages, Kept, NoWholeRequestWaits, DescriptorsReturned,
     RequestsBounded, connection, Prefixed, Framed
<1>12. QED
  BY <1>8, <1>9, <1>10, <1>11 DEF IInv

\* When no message is left, they receive again.
LEMMA MessagesDoneIInv == ASSUME IInv, MessagesDone PROVE IInv'
<1> USE DEF IInv
<1>1. /\ UNCHANGED <<connection, client, start, taken, handled, cut, unread,
                     client_socket, ssl>>
      /\ pc = "handle" /\ pc' = "recv" /\ service \in Framed /\ MarkerEnds(Buffer) = {}
  BY DEF MessagesDone
<1>2. Places' /\ WholeRequests'
  BY <1>1, ReadingStep DEF client, TypeOK
<1>3. TypeOK'
  BY <1>1 DEF TypeOK, connection, client
<1>4. Stages' /\ Kept' /\ DescriptorsReturned' /\ RequestsBounded'
  BY <1>1 DEF Stages, Kept, DescriptorsReturned, RequestsBounded, connection,
     Prefixed, Framed
<1>5. NoWholeRequestWaits'
  <2>1. Buffer' = Buffer
    BY <1>1 DEF Buffer, client
  <2>2. QED
    BY <1>1, <2>1 DEF NoWholeRequestWaits, connection, Framed
<1>6. QED
  BY <1>2, <1>3, <1>4, <1>5

\* The relay.
LEMMA RelayIInv == ASSUME IInv, Peek \/ Handshake PROVE IInv'
<1> USE DEF IInv
<1>1. /\ UNCHANGED <<connection, client, start, handled, cut, unread>>
      /\ service = "relay" /\ pc \in {"peek", "handshake"}
      /\ pc' \in {"handshake", "handle", "ended"}
      /\ taken = 0 /\ start = 0 /\ taken' \in 0 .. Chunk /\ taken' <= Len(stream)
      /\ pc' = "handshake" => taken' = 0
  BY Numbers, Lengths DEF Peek, Handshake, Return, Stages, Available
<1>2. \/ client_socket' = client_socket /\ pc' # "ended"
      \/ pc' = "ended" /\ client_socket' = FALSE /\ ssl' = FALSE
  BY DEF Peek, Handshake, Return
<1>3. ssl' \in BOOLEAN /\ client_socket \in BOOLEAN
  BY DEF Peek, Handshake, Return, TypeOK
<1>4. taken' \in Nat /\ taken <= taken' /\ taken' <= Len(stream) /\ start <= taken'
  BY <1>1, Lengths, Numbers
<1>5. Places' /\ WholeRequests'
  BY <1>1, <1>4, ReadingStep DEF client
<1>6. TypeOK'
  BY <1>1, <1>2, <1>3, <1>4 DEF TypeOK, connection, client
<1>7. Stages' /\ Kept' /\ NoWholeRequestWaits'
  BY <1>1 DEF Stages, Kept, NoWholeRequestWaits, connection, Prefixed, Framed
<1>8. RequestsBounded'
  <2>1. start' = 0 /\ taken' \in Nat /\ taken' <= 0 + Chunk /\ 0 <= Limit
    BY <1>1, Numbers
  <2>2. taken' - start' <= Limit + Chunk
    BY <2>1, WithinBound
  <2>3. QED
    BY <2>2 DEF RequestsBounded
<1>9. DescriptorsReturned'
  BY <1>1, <1>2, <1>3 DEF DescriptorsReturned
<1>10. QED
  BY <1>5, <1>6, <1>7, <1>8, <1>9

LEMMA RelayDoneIInv == ASSUME IInv, RelayDone PROVE IInv'
<1> DEFINE request == [first |-> 1, last |-> taken]
<1>1. /\ UNCHANGED <<connection, client, start, taken, cut, unread>>
      /\ service = "relay" /\ pc = "handle" /\ service \notin Framed
      /\ pc' = "ended" /\ client_socket' = FALSE /\ ssl' = FALSE
      /\ handled = <<>>
      /\ handled' = IF taken > 0 THEN <<request>> ELSE handled
  BY DEF RelayDone, Return, IInv, Places, Framed
<1>2. /\ request \in [first : Nat, last : Nat] /\ request.first = 1
      /\ request.last = taken /\ request.first <= request.last + 1
  BY Lengths
<1>3. Append(handled, request) = <<request>>
  BY <1>1
<1> HIDE DEF request
<1>4. CASE taken > 0
  <2>1. handled' = Append(handled, request)
    BY <1>1, <1>3, <1>4
  <2>2. WholeRequest(SubSeq(stream, request.first, request.last))
    <3>1. Len(SubSeq(stream, 1, taken)) = taken
      BY BeginningLength, Lengths
    <3>2. Len(<<>>) = 0 /\ taken # 0
      BY <1>4
    <3>3. SubSeq(stream, request.first, request.last) # <<>>
      BY <1>2, <3>1, <3>2
    <3>4. service = "relay" /\ service \notin Framed
      BY <1>1
    <3>5. QED
      BY <3>3, <3>4 DEF WholeRequest
  <2>3. WholeRequests' /\ handled' \in Seq([first : Nat, last : Nat])
    BY <1>1, <1>2, <2>1, <2>2, Handles DEF client
  <2>4. Places'
    <3>1. request.first >= 1 /\ request.last <= taken
      BY <1>2, Lengths
    <3>2. handled # <<>> => request.first = handled[Len(handled)].last + 1
      BY <1>1
    <3>3. /\ service \in {"nas", "relay"} => start' = start
          /\ service \in Framed => start' = request.last
          /\ service \in Framed \/ pc' = "ended"
          /\ UNCHANGED <<connection, stream, cut, taken>>
      BY <1>1 DEF client
    <3>4. QED
      BY <1>2, <2>1, <2>2, <3>1, <3>2, <3>3, HandlesPlaces
  <2>5. QED
    BY <1>1, <2>3, <2>4 DEF IInv, TypeOK, Stages, Kept, NoWholeRequestWaits,
       DescriptorsReturned, RequestsBounded, connection, client, Prefixed
<1>5. CASE ~ (taken > 0)
  <2>1. UNCHANGED handled
    BY <1>1, <1>5
  <2>2. Places' /\ WholeRequests'
    BY <1>1, <2>1, ReadingStep, Lengths DEF client
  <2>3. QED
    BY <1>1, <2>1, <2>2 DEF IInv, TypeOK, Stages, Kept, NoWholeRequestWaits,
       DescriptorsReturned, RequestsBounded, connection, client, Prefixed
<1>6. QED
  BY <1>4, <1>5

\* The state of the worker is all the invariant is about.
LEMMA ClientElsewhere ==
    ASSUME IInv, UNCHANGED <<connection, stream, pc, start, taken, handled, cut,
                             client_socket, ssl>>,
           client_open' \in BOOLEAN, unread' \in Nat
    PROVE  IInv'
<1>1. TypeOK'
  BY DEF IInv, TypeOK, connection
<1>2. Buffer' = Buffer
  BY DEF Buffer
<1>3. Stages' /\ Places' /\ Kept' /\ NoWholeRequestWaits'
  <2>1. Complete(SubSeq(stream, 1, taken))' = Complete(SubSeq(stream, 1, taken))
    BY DEF Complete, connection
  <2>2. Stages'
    BY <2>1 DEF IInv, Stages, Sizes, Size, BodySize, connection
  <2>3. Places'
    BY DEF IInv, Places, connection
  <2>4. Kept'
    BY DEF IInv, Kept, connection
  <2>5. NoWholeRequestWaits'
    BY <1>2 DEF IInv, NoWholeRequestWaits, WholeHttp, connection
  <2>6. QED
    BY <2>2, <2>3, <2>4, <2>5
<1>4. \A s : WholeRequest(s) => WholeRequest(s)'
  BY DEF WholeRequest, connection, WholeHttp, WholeMessage, BodySize
<1>5. WholeRequests' /\ RequestsBounded' /\ DescriptorsReturned'
  BY <1>4 DEF IInv, WholeRequests, RequestsBounded, DescriptorsReturned, connection
<1>6. QED
  BY <1>1, <1>3, <1>5 DEF IInv

\* The client adds to the stream, reads, or closes.
LEMMA ClientIInv == ASSUME IInv, ClientSends \/ ClientReads \/ ClientCloses PROVE IInv'
<1>1. /\ UNCHANGED <<connection, pc, start, taken, handled, cut, client_socket, ssl>>
      /\ client_open' \in BOOLEAN /\ unread' \in Nat
  <2>1. client_open \in BOOLEAN /\ unread \in Nat
    BY DEF IInv, TypeOK
  <2>2. QED
    <3>1. CASE ClientSends
      BY <2>1, <3>1 DEF ClientSends
    <3>2. CASE ClientReads
      BY <2>1, <3>2 DEF ClientReads, client
    <3>3. CASE ClientCloses
      BY <2>1, <3>3 DEF ClientCloses
    <3>4. QED
      BY <3>1, <3>2, <3>3
<1>2. UNCHANGED stream \/ \E b \in Byte : /\ stream' = Append(stream, b)
                                          /\ Len(stream) < MaxSent
  <2>1. CASE ClientSends
    <3>1. (IF service \in Framed \cup {"nas"} THEN Byte ELSE {"text"}) \subseteq Byte
      BY DEF Byte
    <3>2. QED
      BY <2>1, <3>1 DEF ClientSends
  <2>2. CASE ~ ClientSends
    BY <2>2 DEF ClientReads, ClientCloses, client
  <2>3. QED
    BY <2>1, <2>2
<1>3. CASE UNCHANGED stream
  BY <1>1, <1>3, ClientElsewhere
<1>4. ASSUME NEW b \in Byte, stream' = Append(stream, b), Len(stream) < MaxSent
      PROVE  IInv'
  <2>1. stream' \in Seq(Byte) /\ Len(stream') = Len(stream) + 1
    BY <1>4, Lengths, AppendProperties
  <2>2. \A first \in Nat \ {0} : \A end \in 0 .. Len(stream) :
            SubSeq(stream', first, end) = SubSeq(stream, first, end)
    BY <1>4, Lengths, PartStays
  <2>3. TypeOK'
    BY <1>1, <2>1, Lengths DEF IInv, TypeOK, connection
  <2>4. Places' /\ Kept' /\ RequestsBounded' /\ DescriptorsReturned'
    BY <1>1, <1>4, <2>1, Lengths, Numbers DEF IInv, Places, Kept, RequestsBounded,
       DescriptorsReturned, connection
  <2>5. Buffer' = Buffer
    <3>1. start + 1 \in Nat \ {0} /\ taken \in 0 .. Len(stream)
      BY Lengths
    <3>2. QED
      BY <1>1, <2>2, <3>1 DEF Buffer
  <2>6. SubSeq(stream, 1, taken)' = SubSeq(stream, 1, taken)
    <3>1. 1 \in Nat \ {0} /\ taken \in 0 .. Len(stream)
      BY Lengths
    <3>2. QED
      BY <1>1, <2>2, <3>1
  <2>7. Stages' /\ NoWholeRequestWaits'
    BY <1>1, <2>5, <2>6 DEF IInv, Stages, NoWholeRequestWaits, connection, Complete,
       WholeHttp, Sizes, Size, BodySize
  <2>8. \A s : WholeRequest(s) => WholeRequest(s)'
    BY <1>1 DEF WholeRequest, connection, WholeHttp, WholeMessage, BodySize
  <2>9. WholeRequests'
    <3> SUFFICES ASSUME NEW i \in DOMAIN handled
                 PROVE  /\ i > 1 => handled[i].first = handled[i - 1].last + 1
                        /\ WholeRequest(SubSeq(stream, handled[i].first, handled[i].last))'
      BY <1>1 DEF WholeRequests
    <3>1. handled[i].first \in Nat \ {0} /\ handled[i].last \in 0 .. Len(stream)
      BY Lengths
    <3>2. SubSeq(stream', handled[i].first, handled[i].last) =
            SubSeq(stream, handled[i].first, handled[i].last)
      BY <2>2, <3>1
    <3>3. /\ i > 1 => handled[i].first = handled[i - 1].last + 1
          /\ WholeRequest(SubSeq(stream, handled[i].first, handled[i].last))
      BY DEF IInv, WholeRequests
    <3>4. QED
      BY <1>1, <2>8, <3>2, <3>3
  <2>10. QED
    BY <2>3, <2>4, <2>7, <2>9 DEF IInv
<1>5. QED
  BY <1>2, <1>3, <1>4

-----------------------------------------------------------------------------
\* The inductive invariant holds in every reachable state.
THEOREM InductiveInvariant == Spec => []IInv
<1>1. IInv /\ [Next]_vars => IInv'
  <2> SUFFICES ASSUME IInv, [Next]_vars PROVE IInv'
    OBVIOUS
  <2>1. CASE UNCHANGED vars
    BY <2>1, ClientElsewhere DEF vars, client, IInv, TypeOK
  <2>2. CASE Next
    BY <2>2, BeginIInv, RecvIInv, ReadIInv, RecvEndsIInv, HandleOneIInv,
       HandleMessageIInv, MessagesDoneIInv, RelayIInv, RelayDoneIInv, ClientIInv
       DEF Next, Worker
  <2>3. QED
    BY <2>1, <2>2
<1>2. QED
  BY <1>1, InitIInv, PTL DEF Spec

\* Type correctness.
THEOREM TypeCorrect == Spec => []TypeOK
<1>1. IInv => TypeOK
  BY DEF IInv
<1>2. QED
  BY <1>1, InductiveInvariant, PTL

\* Requests are handled whole and in order.
THEOREM RequestsWhole == Spec => []WholeRequests
<1>1. IInv => WholeRequests
  BY DEF IInv
<1>2. QED
  BY <1>1, InductiveInvariant, PTL

\* No worker waits for more when it holds a whole request.
THEOREM WholeRequestsHandled == Spec => []NoWholeRequestWaits
<1>1. IInv => NoWholeRequestWaits
  BY DEF IInv
<1>2. QED
  BY <1>1, InductiveInvariant, PTL

\* The one-request services buffer at most their limit and one recv() more.
THEOREM BuffersBounded == Spec => []RequestsBounded
<1>1. IInv => RequestsBounded
  BY DEF IInv
<1>2. QED
  BY <1>1, InductiveInvariant, PTL

\* Every socket is closed and every SSL object freed at the end, not before.
THEOREM EverythingReturned == Spec => []DescriptorsReturned
<1>1. IInv => DescriptorsReturned
  BY DEF IInv
<1>2. QED
  BY <1>1, InductiveInvariant, PTL
=============================================================================

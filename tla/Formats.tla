------------------------------ MODULE Formats -------------------------------
(***************************************************************************)
(* The parsers and encoders the services share: fields found in text,      *)
(* lists split, base64, the cipher of gamestats, DNS questions and server  *)
(* browser requests.  Each is written as the code computes it and compared *)
(* with what the format is.  They keep no state; the state machine of this *)
(* module is the world that composes an input for one of them, a symbol at *)
(* a time, so that every prefix is an input too.                           *)
(*                                                                         *)
(* Sizes that only stretch the inputs are constants.  A symbol of a text   *)
(* is a string, one of a packet a number; offsets count from 0, as in the  *)
(* code.                                                                   *)
(***************************************************************************)
EXTENDS Integers, FiniteSetsExt, SequencesExt

CONSTANTS
    Key, Value,     \* keys and values of fields, as texts
    Item,           \* items of a list, as texts
    Octet,          \* bytes that are encoded
    CryptKey,       \* "GameSpy3D", as bits
    Final,          \* "\final\", as bits
    DnsHeader,      \* 12
    MaxLabel,       \* 63
    Datagram,       \* 512
    Advertised,     \* advertised addresses
    ByteMod,        \* 256, in the length of a browser request
    BrowserHeader,  \* 3 + 1 + 1 + 4
    MinRequest,     \* 15
    Challenge,      \* 8
    Options,        \* 4
    Letter,         \* a byte that is neither 0 nor a separator
    Backslash,      \* the separator
    MaxLength,      \* how long an input of each kind may get
    BrowserSize     \* the declared sizes of browser requests

ASSUME ConstantsAssumption ==
    \* Texts have none of the separators they are put between.
    /\ Key \cup Value \subseteq Seq(STRING \ {"\\", "nul", "&", "="})
    /\ Item \subseteq Seq(STRING \ {"\\", "|"})
    /\ Octet \subseteq 0 .. 255
    /\ {CryptKey, Final} \subseteq Seq({0, 1}) \ {<<>>}
    /\ {DnsHeader, Datagram, MinRequest} \subseteq Nat
    /\ {MaxLabel, BrowserHeader, Challenge, Options} \subseteq Nat \ {0}
    /\ DnsHeader >= 2 /\ BrowserHeader >= 3
    \* MinRequest asks for less than the shortest request has.
    /\ MinRequest \in 3 .. BrowserHeader + Challenge + Options + 6
    /\ ByteMod \in Nat \ {0} /\ BrowserSize \subseteq Nat
    /\ Letter \in Nat /\ Backslash \in Nat

VARIABLES kind, input
vars == <<kind, input>>

-----------------------------------------------------------------------------
(* Texts.                                                                  *)

Found(text, marker, from) ==
    {i \in from .. Len(text) - Len(marker) + 1 :
        SubSeq(text, i, i + Len(marker) - 1) = marker}

\* std::string::find, with 0 for npos.
Find(text, marker, from) ==
    IF Found(text, marker, from) = {} THEN 0 ELSE Min(Found(text, marker, from))

UpTo(text, first, end) == SubSeq(text, first, IF end = 0 THEN Len(text) ELSE end - 1)

\* What follows the first marker, up to the terminator or the end.
ValueAfter(text, marker, terminator) ==
    LET first == Find(text, marker, 1) + Len(marker) IN
    IF Find(text, marker, 1) = 0 THEN <<>>
    ELSE UpTo(text, first, Find(text, <<terminator>>, first))

\* A bug TextsParsed finds: the separator before the key is forgotten.
BugRequestValue(request, key) == ValueAfter(request, key \o <<"\\">>, "\\")
request_value(request, key) ==
    ValueAfter(request, <<"\\">> \o key \o <<"\\">>, "\\")
qr_field_value(payload, key) == ValueAfter(payload, key \o <<"nul">>, "nul")
request_parameter(body, name) == ValueAfter(body, name \o <<"=">>, "&")

\* The parts of a text between separators that are not empty.  A bug
\* TextsParsed finds: the loop ends before the last part.
BugPieces(text, separator) ==
    LET from[start \in 1 .. Len(text) + 1] ==
            LET at == Find(text, <<separator>>, start)
                piece == UpTo(text, start, at)
            IN IF at = 0 THEN <<>>
               ELSE (IF piece = <<>> THEN <<>> ELSE <<piece>>) \o from[at + 1]
    IN  from[1]
Pieces(text, separator) ==
    LET from[start \in 1 .. Len(text) + 1] ==
            LET at == Find(text, <<separator>>, start)
                piece == UpTo(text, start, at)
            IN (IF piece = <<>> THEN <<>> ELSE <<piece>>)
                    \o (IF at = 0 THEN <<>> ELSE from[at + 1])
    IN  from[1]

\* The profiles a Player Search request asks for.
requested_profiles(request) == Pieces(request_value(request, <<"opids">>), "|")

-----------------------------------------------------------------------------
(* Encodings.                                                              *)

\* Character c of a group, or padding.  Bug Base64Decodes finds: the
\* boundary of the padding.
BugSextet(value, g, c) ==
    LET At(j) == IF j < Len(value) THEN value[j + 1] ELSE 0
        chunk == At(3 * g) * 65536 + At(3 * g + 1) * 256 + At(3 * g + 2)
    IN  IF c <= 1 \/ 3 * g + c <= Len(value) + 1 THEN (chunk \div 64 ^ (3 - c)) % 64 ELSE 64
Sextet(value, g, c) ==
    LET At(j) == IF j < Len(value) THEN value[j + 1] ELSE 0
        chunk == At(3 * g) * 65536 + At(3 * g + 1) * 256 + At(3 * g + 2)
    IN  IF c <= 1 \/ 3 * g + c <= Len(value) THEN (chunk \div 64 ^ (3 - c)) % 64 ELSE 64

\* Sextets as numbers; 64 stands for the padding, '*' or '='.
base64_encode(value) ==
    [i \in 1 .. 4 * ((Len(value) + 2) \div 3) |->
        Sextet(value, (i - 1) \div 4, (i - 1) % 4)]

\* XOR with the key as far as the first marker.  Bug SealedMessagesOpen
\* finds: the marker is encrypted too.
BugEncryptedSize(message) == Len(message)
EncryptedSize(message) ==
    IF Find(message, Final, 1) = 0 THEN Len(message) ELSE Find(message, Final, 1) - 1

gamespy_message(message) ==
    [i \in 1 .. Len(message) |->
        IF i <= EncryptedSize(message)
        THEN (message[i] + CryptKey[((i - 1) % Len(CryptKey)) + 1]) % 2
        ELSE message[i]]

-----------------------------------------------------------------------------
(* Packets.                                                                *)

At(packet, offset) == packet[offset + 1]
Bad == -1
Nothing == [kind |-> "nothing"]

\* Where the labels of a name end, or Bad.  Bug DnsAnswersQuestions finds: a
\* label may run beyond the packet.
BugNameEnd(packet) ==
    LET end[o \in Nat] ==
            IF o >= Len(packet) \/ At(packet, o) = 0 THEN o
            ELSE IF At(packet, o) > MaxLabel THEN Bad ELSE end[o + At(packet, o)]
    IN  end[DnsHeader]
NameEnd(packet) ==
    LET end[o \in Nat] ==
            IF o >= Len(packet) \/ At(packet, o) = 0 THEN o
            ELSE LET next == o + At(packet, o) + 1 IN
                 IF At(packet, o) > MaxLabel \/ next >= Len(packet) THEN Bad
                                                                    ELSE end[next]
    IN  end[DnsHeader]

\* The numbers of an address, its last separator, and nothing after them.
IsAddress(address) ==
    /\ Len(address.octets) = 4
    /\ address.separator = "."
    /\ \A i \in 1 .. 4 : address.octets[i] <= 255
    /\ ~ address.more

dns_a_response(request, address) ==
    IF \/ Len(request) < DnsHeader
       \/ NameEnd(request) = Bad
       \/ NameEnd(request) + 5 > Len(request)
       \/ ~ IsAddress(address)
    THEN Nothing
    ELSE [kind |-> "answer", id |-> SubSeq(request, 1, 2), address |-> address.octets,
          question |-> SubSeq(request, DnsHeader + 1, NameEnd(request) + 5)]

\* recvfrom() cuts a datagram that is too long.
handle_dns_packet(packet, address) ==
    dns_a_response(IF Len(packet) > Datagram THEN SubSeq(packet, 1, Datagram)
                                             ELSE packet, address)

\* read_c_string: where the text ends, the offset after it, the text.
Zero(packet, offset) ==
    Min({o \in offset .. Len(packet) - 1 : At(packet, o) = 0} \cup {Len(packet)})
After(packet, offset) == Min({Zero(packet, offset) + 1, Len(packet)})
read_c_string(packet, offset) ==
    IF Zero(packet, offset) = Len(packet) THEN <<>>
    ELSE SubSeq(packet, offset + 1, Zero(packet, offset))

\* A bug BrowserGrammar finds: the options are not asked for.
BugHasOptions(packet, offset) == TRUE
HasOptions(packet, offset) == offset + Options <= Len(packet)

parse_browser_request(packet) ==
    LET game == After(packet, BrowserHeader)
        challenge == After(packet, game)
        filter == challenge + Challenge
        fields == After(packet, filter)
    IN
    IF \/ Len(packet) < MinRequest
       \/ At(packet, 2) # 0
       \/ At(packet, 0) * ByteMod + At(packet, 1) # Len(packet)
       \/ read_c_string(packet, BrowserHeader) = <<>>
       \/ read_c_string(packet, game) = <<>>
       \/ filter > Len(packet)
       \/ ~ HasOptions(packet, After(packet, fields))
    THEN Nothing
    ELSE [kind |-> "request",
          game_name |-> read_c_string(packet, game),
          challenge |-> SubSeq(packet, challenge + 1, filter),
          fields |-> Pieces(read_c_string(packet, fields), Backslash)]

-----------------------------------------------------------------------------
(* The inputs.                                                             *)

Symbol == [fields |-> Key \X Value, list |-> Item, octets |-> Octet,
           bits |-> {0, 1}, dns |-> 0 .. MaxLabel + 1,
           browser |-> {0, Letter, Backslash}]

Init ==
    /\ kind \in DOMAIN Symbol
    /\ input \in IF kind # "browser" THEN {<<>>}
                 ELSE {<<size \div ByteMod, size % ByteMod, 0, 0>> : size \in BrowserSize}

Next ==
    /\ Len(input) < MaxLength[kind]
    /\ \E symbol \in Symbol[kind] : input' = Append(input, symbol)
    /\ UNCHANGED kind

Spec == Init /\ [][Next]_vars

-----------------------------------------------------------------------------
(* Properties.                                                             *)

\* The first field with a key, as the client meant it.
FieldOf(fields, key) ==
    LET at == {i \in DOMAIN fields : fields[i][1] = key} IN
    IF at = {} THEN <<>> ELSE fields[Min(at)][2]

EndsWith(text, end) == IsSuffix(end, text)

(***************************************************************************)
(* Looking for a field in the text of a request finds the field: not one   *)
(* whose key ends alike, not a value.  With GameSpy's "\key\value" only a  *)
(* value that is a key could be taken for it; the forms of QR and NAS mark *)
(* where a key ends and not where it starts, so there no other key and no  *)
(* value may end with it.                                                  *)
(***************************************************************************)
FieldsFound ==
    kind = "fields" =>
        LET gamespy == FlattenSeq([i \in DOMAIN input |->
                <<"\\">> \o input[i][1] \o <<"\\">> \o input[i][2]]) \o <<"\\", "final", "\\">>
            qr == FlattenSeq([i \in DOMAIN input |->
                input[i][1] \o <<"nul">> \o input[i][2] \o <<"nul">>])
            nas == FlattenSeq([i \in DOMAIN input |->
                (IF i = 1 THEN <<>> ELSE <<"&">>) \o input[i][1] \o <<"=">> \o input[i][2]])
        IN
        \A key \in Key :
            /\ (\A i \in DOMAIN input : input[i][2] # key)
                    => request_value(gamespy, key) = FieldOf(input, key)
            /\ (\A i \in DOMAIN input : /\ ~ EndsWith(input[i][2], key)
                                        /\ EndsWith(input[i][1], key) => input[i][1] = key)
                    => /\ qr_field_value(qr, key) = FieldOf(input, key)
                       /\ request_parameter(nas, key) = FieldOf(input, key)

\* A list that is joined and split again is the list without its empty
\* items, in order, wherever those are: the profiles of a Player Search.
ListsSplit ==
    kind = "list" =>
        LET opids == FlattenSeq([i \in DOMAIN input |->
                        (IF i = 1 THEN <<>> ELSE <<"|">>) \o input[i]])
        IN  requested_profiles(<<"\\", "opids", "\\">> \o opids \o <<"\\", "final", "\\">>)
                = FlattenSeq([i \in DOMAIN input |->
                        IF input[i] = <<>> THEN <<>> ELSE <<input[i]>>])

\* What a service reads out of the text of a request is what the client put
\* into it: its fields, and the items of a list in one.
TextsParsed == FieldsFound /\ ListsSplit

\* Base64 has the bits of its input in their order, and as much padding as
\* the format asks for.
Bit(x, k, width) == (x \div 2 ^ (width - 1 - k)) % 2
Base64Decodes ==
    kind = "octets" =>
        LET text == base64_encode(input)
            used == (8 * Len(input) + 5) \div 6
        IN  /\ Len(text) % 4 = 0 /\ Len(text) < used + 4
            /\ \A i \in DOMAIN text : (text[i] = 64) <=> (i > used)
            /\ \A k \in 0 .. 6 * used - 1 :
                    Bit(text[k \div 6 + 1], k % 6, 6) =
                        IF k < 8 * Len(input) THEN Bit(input[k \div 8 + 1], k % 8, 8) ELSE 0

(***************************************************************************)
(* What one end of a gamestats connection encrypts the other can split off *)
(* and decrypt: the marker is sent in clear, where the message ends, unless*)
(* the cipher happens to write one before it.                              *)
(***************************************************************************)
SealedMessagesOpen ==
    kind = "bits" /\ Found(input, Final, 1) = {} =>
        LET message == input \o Final
            sealed == gamespy_message(message)
        IN  Find(message, Final, 1) = Len(input) + 1
                /\ Found(sealed, Final, 1) \cap 1 .. Len(input) = {}
            => /\ Find(sealed, Final, 1) = Len(input) + 1
               /\ gamespy_message(sealed) = message

\* A question that ends at e: labels that follow each other up to a root.
IsQuestion(packet, e) ==
    LET root == e - 5 IN
    /\ e <= Len(packet) /\ root >= DnsHeader /\ At(packet, root) = 0
    /\ \E labels \in SUBSET (DnsHeader .. root - 1) :
            /\ DnsHeader \in labels \cup {root}
            /\ \A o \in labels : /\ At(packet, o) \in 1 .. MaxLabel
                                 /\ o + At(packet, o) + 1 \in labels \cup {root}

(***************************************************************************)
(* A DNS question is answered, with the question itself and the advertised *)
(* address, exactly if it is a whole name within the datagram and the      *)
(* address is numeric; nothing beyond the packet is read.                  *)
(***************************************************************************)
DnsAnswersQuestions ==
    kind = "dns" => \A address \in Advertised :
        LET answer == handle_dns_packet(input, address)
            ends == {e \in 0 .. Min({Len(input), Datagram}) : IsQuestion(input, e)}
        IN  IF ends = {} \/ ~ IsAddress(address) THEN answer = Nothing
            ELSE /\ answer.address = address.octets
                 /\ answer.question \in {SubSeq(input, DnsHeader + 1, e) : e \in ends}

\* The advertised address may be a host name (README.md:46-47): then too a
\* question is answered.
HostNamesResolve ==
    kind = "dns" /\ (\E e \in 0 .. Min({Len(input), Datagram}) : IsQuestion(input, e))
        => \A address \in Advertised : handle_dns_packet(input, address) # Nothing

IsText(packet, offset, end) ==
    At(packet, end) = 0 /\ \A o \in offset .. end - 1 : At(packet, o) # 0

(***************************************************************************)
(* A browser request is accepted exactly if it is one: its own size, two   *)
(* names, a challenge, a filter and a field list, each text ended by a     *)
(* zero, and the options, all within the packet.                           *)
(***************************************************************************)
BrowserGrammar ==
    kind = "browser" =>
        ((parse_browser_request(input) # Nothing) <=>
            /\ At(input, 0) * ByteMod + At(input, 1) = Len(input)
            /\ \E query \in BrowserHeader + 1 .. Len(input) - 1 :
                /\ IsText(input, BrowserHeader, query)
                /\ \E game \in query + 2 .. Len(input) - 1 :
                    /\ IsText(input, query + 1, game)
                    /\ \E filter \in game + 1 + Challenge .. Len(input) - 1 :
                        /\ IsText(input, game + 1 + Challenge, filter)
                        /\ \E fields \in filter + 1 .. Len(input) - 1 - Options :
                                IsText(input, filter + 1, fields))
=============================================================================

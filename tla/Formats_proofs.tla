--------------------------- MODULE Formats_proofs ---------------------------
(***************************************************************************)
(* Proofs about the parsers and encoders, for inputs of any length.  What  *)
(* a recursive function computes is proved by induction in the form of     *)
(* the lemma Induction, about sets of numbers.                             *)
(***************************************************************************)
EXTENDS Formats, SequenceTheorems, FiniteSetTheorems, TLAPS

(***************************************************************************)
(* Numbers and sequences.                                                  *)
(***************************************************************************)
\* The constants, one by one.
LEMMA Numbers ==
    /\ CryptKey \in Seq({0, 1}) /\ CryptKey # <<>>
    /\ Final \in Seq({0, 1}) /\ Final # <<>>
    /\ DnsHeader \in Nat /\ DnsHeader >= 2 /\ Datagram \in Nat
    /\ MaxLabel \in Nat /\ MaxLabel > 0
    /\ BrowserHeader \in Nat /\ BrowserHeader >= 3
    /\ Challenge \in Nat /\ Challenge > 0 /\ Options \in Nat /\ Options > 0
    /\ MinRequest \in 3 .. BrowserHeader + Challenge + Options + 6
BY ConstantsAssumption

\* A set of naturals has a smallest element: among the intervals up to its
\* elements one contains no other.
LEMMA Smallest ==
    ASSUME NEW M, M \subseteq Nat, M # {}
    PROVE  \E i \in M : \A j \in M : i <= j
<1> DEFINE T == {1 .. i : i \in M}
<1>1. \A i \in M : 1 .. i \in FiniteSubsetsOf(Nat)
  <2> SUFFICES ASSUME NEW i \in M PROVE 1 .. i \in FiniteSubsetsOf(Nat)
    OBVIOUS
  <2>1. IsFiniteSet(1 .. i) /\ 1 .. i \subseteq Nat
    BY FS_Interval
  <2>2. QED
    BY <2>1 DEF FiniteSubsetsOf
<1>2. PICK x \in T : \A y \in T : ~ (<<y, x>> \in StrictSubsetOrdering(Nat))
  <2>1. T \subseteq FiniteSubsetsOf(Nat) /\ T # {}
    BY <1>1
  <2> HIDE DEF T
  <2>2. QED
    BY <2>1, FS_StrictSubsetOrderingWellFounded, WFMin
<1>3. PICK i \in M : x = 1 .. i
  OBVIOUS
<1>4. ASSUME NEW j \in M, j < i PROVE FALSE
  <2>1. 1 .. j \subseteq 1 .. i /\ i \in 1 .. i /\ i \notin 1 .. j
    BY <1>4
  <2>2. <<1 .. j, 1 .. i>> \in StrictSubsetOrdering(Nat)
    BY <2>1 DEF StrictSubsetOrdering
  <2>3. QED
    BY <1>2, <1>3, <2>2
<1>5. QED
  BY <1>4

\* A property, as the set of numbers that have it, is inherited by every
\* number if each has it whose predecessors do.
LEMMA Induction ==
    ASSUME NEW M, \A n \in Nat : 0 .. n - 1 \subseteq M => n \in M
    PROVE  Nat \subseteq M
<1> SUFFICES ASSUME Nat \ M # {} PROVE FALSE
  OBVIOUS
<1>1. PICK n \in Nat \ M : \A j \in Nat \ M : n <= j
  BY Smallest
<1>2. 0 .. n - 1 \subseteq M
  BY <1>1
<1>3. QED
  BY <1>1, <1>2

\* Min is what it says.
LEMMA MinIs ==
    ASSUME NEW M, M \subseteq Nat, M # {}
    PROVE  Min(M) \in M /\ \A j \in M : Min(M) <= j
BY Smallest DEF Min

\* A number that is in a set of naturals with nothing below it is its Min.
LEMMA MinOf ==
    ASSUME NEW M, M \subseteq Nat, NEW i \in M, \A j \in M : i <= j
    PROVE  Min(M) = i
<1>1. Min(M) \in M /\ \A j \in M : Min(M) <= j
  BY MinIs
<1>2. Min(M) \in Nat /\ i \in Nat /\ Min(M) <= i /\ i <= Min(M)
  BY <1>1
<1>3. QED
  BY <1>2

\* The smaller of two numbers.
LEMMA MinOfTwo ==
    ASSUME NEW i \in Nat, NEW j \in Nat
    PROVE  Min({i, j}) = IF i <= j THEN i ELSE j
<1> DEFINE M == {i, j}
<1>1. M \subseteq Nat /\ M # {}
  OBVIOUS
<1>2. Min(M) \in M /\ \A k \in M : Min(M) <= k
  <2> HIDE DEF M
  <2>1. QED
    BY <1>1, MinIs
<1>3. QED
  BY <1>2

\* A function on 1 .. n is a sequence of that length.
LEMMA SeqOfFunction ==
    ASSUME NEW S, NEW n \in Nat, NEW f \in [1 .. n -> S]
    PROVE  f \in Seq(S) /\ Len(f) = n
<1>1. f \in Seq(S)
  BY SeqDef
<1>2. Len(f) \in Nat /\ DOMAIN f = 1 .. Len(f) /\ DOMAIN f = 1 .. n
  BY <1>1, LenProperties
<1>3. QED
  BY <1>1, <1>2

\* A part of a sequence.
LEMMA Part ==
    ASSUME NEW S, NEW s \in Seq(S), NEW first \in Nat \ {0}, NEW end \in Nat,
           end <= Len(s), first <= end + 1
    PROVE  /\ SubSeq(s, first, end) \in Seq(S)
           /\ Len(SubSeq(s, first, end)) = end - first + 1
           /\ \A i \in 1 .. end - first + 1 :
                 SubSeq(s, first, end)[i] = s[first + i - 1]
<1>1. \A i \in first .. end : s[i] \in S
  BY ElementOfSeq
<1>2. QED
  BY <1>1, SubSeqProperties

\* The part after n symbols.
LEMMA PartAfter ==
    ASSUME NEW S, NEW s \in Seq(S), NEW n \in Nat, NEW size \in Nat,
           n + size <= Len(s)
    PROVE  /\ SubSeq(s, n + 1, n + size) \in Seq(S)
           /\ Len(SubSeq(s, n + 1, n + size)) = size
           /\ \A i \in 1 .. size : SubSeq(s, n + 1, n + size)[i] = s[n + i]
<1>1. ASSUME NEW first \in Nat \ {0}, NEW end \in Nat, first = n + 1, end = n + size
      PROVE  /\ SubSeq(s, first, end) \in Seq(S)
             /\ Len(SubSeq(s, first, end)) = size
             /\ \A i \in 1 .. size : SubSeq(s, first, end)[i] = s[n + i]
  <2>1. /\ end <= Len(s) /\ first <= end + 1 /\ end - first + 1 = size
        /\ \A i \in 1 .. size : first + i - 1 = n + i
    BY <1>1
  <2>2. /\ SubSeq(s, first, end) \in Seq(S)
        /\ Len(SubSeq(s, first, end)) = end - first + 1
        /\ \A i \in 1 .. end - first + 1 :
              SubSeq(s, first, end)[i] = s[first + i - 1]
    BY <2>1, Part
  <2>3. QED
    BY <2>1, <2>2
<1>2. QED
  BY <1>1

\* A part of the first n symbols.
LEMMA PartOfCut ==
    ASSUME NEW S, NEW s \in Seq(S), NEW n \in Nat, n <= Len(s),
           NEW first \in 1 .. n, NEW end \in 1 .. n
    PROVE  SubSeq(SubSeq(s, 1, n), first, end) = SubSeq(s, first, end)
<1>1. /\ 1 \in 1 .. Len(s) /\ n \in 1 .. Len(s)
      /\ first \in 1 .. n - 1 + 1 /\ end \in 1 .. n - 1 + 1
  BY LenProperties
<1>2. SubSeq(SubSeq(s, 1, n), first, end) = SubSeq(s, 1 + first - 1, 1 + end - 1)
  BY <1>1, SubSeqOfSubSeq
<1>3. 1 + first - 1 = first /\ 1 + end - 1 = end
  OBVIOUS
<1>4. QED
  BY <1>2, <1>3

(***************************************************************************)
(* The cipher of gamestats.                                                *)
(***************************************************************************)
\* Places where a text can be found are in it.
LEMMA FoundInside ==
    ASSUME NEW S, NEW text \in Seq(S), NEW marker \in Seq(S), marker # <<>>,
           NEW from \in Nat \ {0}
    PROVE  /\ Found(text, marker, from) \subseteq 1 .. Len(text)
           /\ Len(marker) \in Nat \ {0} /\ Len(text) \in Nat
<1>1. Len(marker) \in Nat \ {0} /\ Len(text) \in Nat
  BY EmptySeq, LenProperties
<1>2. QED
  BY <1>1 DEF Found

\* The first place, if there is one.
LEMMA FindFirst ==
    ASSUME NEW S, NEW text \in Seq(S), NEW marker \in Seq(S), marker # <<>>,
           NEW from \in Nat \ {0}
    PROVE  /\ Found(text, marker, from) = {} => Find(text, marker, from) = 0
           /\ \A i \in Found(text, marker, from) :
                 (\A j \in Found(text, marker, from) : i <= j)
                     => Find(text, marker, from) = i
<1>1. Found(text, marker, from) \subseteq Nat
  BY FoundInside
<1>2. QED
  BY <1>1, MinOf DEF Find

\* A bit with another, and once more.
LEMMA BitTwice ==
    \A m, k \in {0, 1} : (m + k) % 2 \in {0, 1} /\ (((m + k) % 2) + k) % 2 = m
OBVIOUS

\* The key's bit for a place of a message.
LEMMA KeyBit ==
    ASSUME NEW i \in Nat \ {0}
    PROVE  CryptKey[((i - 1) % Len(CryptKey)) + 1] \in {0, 1}
<1>1. Len(CryptKey) \in Nat \ {0} /\ CryptKey \in Seq({0, 1})
  BY Numbers, EmptySeq
<1>2. ((i - 1) % Len(CryptKey)) + 1 \in 1 .. Len(CryptKey)
  BY <1>1
<1>3. QED
  BY <1>1, <1>2, ElementOfSeq

\* A message of n bits and a marker, where the first marker is this one, has
\* its n bits encrypted and the marker left alone.
LEMMA Sealed ==
    ASSUME NEW n \in Nat, NEW message \in Seq({0, 1}), Len(message) = n + Len(Final),
           Find(message, Final, 1) = n + 1
    PROVE  /\ gamespy_message(message) \in Seq({0, 1})
           /\ Len(gamespy_message(message)) = n + Len(Final)
           /\ \A i \in 1 .. n + Len(Final) : gamespy_message(message)[i] =
                 IF i <= n THEN (message[i] + CryptKey[((i - 1) % Len(CryptKey)) + 1]) % 2
                           ELSE message[i]
<1> DEFINE bit(i) == IF i <= n
                     THEN (message[i] + CryptKey[((i - 1) % Len(CryptKey)) + 1]) % 2
                     ELSE message[i]
           sealed == [i \in 1 .. n + Len(Final) |-> bit(i)]
<1>1. Len(Final) \in Nat
  BY Numbers, LenProperties
<1>2. gamespy_message(message) = sealed
  <2>1. EncryptedSize(message) = n
    BY DEF EncryptedSize
  <2>2. QED
    BY <2>1 DEF gamespy_message
<1>3. sealed \in [1 .. n + Len(Final) -> {0, 1}]
  <2>1. ASSUME NEW i \in 1 .. n + Len(Final) PROVE bit(i) \in {0, 1}
    <3>1. message[i] \in {0, 1}
      BY ElementOfSeq
    <3>2. CryptKey[((i - 1) % Len(CryptKey)) + 1] \in {0, 1}
      BY <1>1, KeyBit
    <3>3. (message[i] + CryptKey[((i - 1) % Len(CryptKey)) + 1]) % 2 \in {0, 1}
      BY <3>1, <3>2, BitTwice
    <3>4. QED
      BY <3>1, <3>3
  <2> HIDE DEF bit
  <2>2. QED
    BY <2>1
<1>4. sealed \in Seq({0, 1}) /\ Len(sealed) = n + Len(Final)
  <2> HIDE DEF sealed
  <2>1. QED
    BY <1>1, <1>3, SeqOfFunction
<1>5. QED
  BY <1>2, <1>4

\* The other end finds the marker where the message ends, and the message.
LEMMA SealedOpens ==
    ASSUME NEW bits \in Seq({0, 1}), NEW message, message = bits \o Final,
           Find(message, Final, 1) = Len(bits) + 1,
           Found(gamespy_message(message), Final, 1) \cap 1 .. Len(bits) = {}
    PROVE  /\ Find(gamespy_message(message), Final, 1) = Len(bits) + 1
           /\ gamespy_message(gamespy_message(message)) = message
<1> DEFINE n == Len(bits)
           f == Len(Final)
           sealed == gamespy_message(message)
           k(i) == CryptKey[((i - 1) % Len(CryptKey)) + 1]
<1>1. n \in Nat /\ f \in Nat \ {0} /\ Final \in Seq({0, 1}) /\ Final # <<>>
  BY Numbers, EmptySeq, LenProperties
<1>2. /\ message \in Seq({0, 1}) /\ Len(message) = n + f
      /\ \A i \in 1 .. f : message[n + i] = Final[i]
  BY <1>1, ConcatProperties
<1>3. /\ sealed \in Seq({0, 1}) /\ Len(sealed) = n + f
      /\ \A i \in 1 .. n + f :
            sealed[i] = IF i <= n THEN (message[i] + k(i)) % 2 ELSE message[i]
  BY <1>1, <1>2, Sealed
<1> HIDE DEF n, f, sealed, k
<1>4. Find(sealed, Final, 1) = n + 1
  <2>1. Found(sealed, Final, 1) \subseteq 1 .. n + 1
    <3>1. Len(sealed) - Len(Final) + 1 = n + 1
      BY <1>1, <1>3 DEF f
    <3>2. QED
      BY <3>1 DEF Found
  <2>2. SubSeq(sealed, n + 1, n + f) = Final
    <3>1. /\ SubSeq(sealed, n + 1, n + f) \in Seq({0, 1})
          /\ Len(SubSeq(sealed, n + 1, n + f)) = f
          /\ \A i \in 1 .. f : SubSeq(sealed, n + 1, n + f)[i] = sealed[n + i]
      BY <1>1, <1>3, PartAfter
    <3>2. ASSUME NEW i \in 1 .. f PROVE sealed[n + i] = Final[i]
      <4>1. n + i \in 1 .. n + f /\ ~ n + i <= n
        BY <1>1
      <4>2. QED
        BY <1>2, <1>3, <4>1
    <3>3. QED
      BY <1>1, <3>1, <3>2, SeqEqual DEF f
  <2>3. n + 1 \in Found(sealed, Final, 1)
    BY <1>1, <1>3, <2>2 DEF Found, f
  <2>4. \A j \in Found(sealed, Final, 1) : n + 1 <= j
    BY <1>1, <2>1 DEF sealed, n
  <2>5. QED
    BY <1>1, <1>3, <2>3, <2>4, FindFirst
<1>5. gamespy_message(sealed) = message
  <2>1. /\ gamespy_message(sealed) \in Seq({0, 1})
        /\ Len(gamespy_message(sealed)) = n + f
        /\ \A i \in 1 .. n + f : gamespy_message(sealed)[i] =
              IF i <= n THEN (sealed[i] + k(i)) % 2 ELSE sealed[i]
    BY <1>1, <1>3, <1>4, Sealed DEF f, k
  <2>2. ASSUME NEW i \in 1 .. n + f PROVE gamespy_message(sealed)[i] = message[i]
    <3>1. message[i] \in {0, 1} /\ k(i) \in {0, 1}
      BY <1>1, <1>2, ElementOfSeq, KeyBit DEF k
    <3>2. (((message[i] + k(i)) % 2) + k(i)) % 2 = message[i]
      BY <3>1, BitTwice
    <3>3. QED
      BY <1>3, <2>1, <3>2
  <2>3. QED
    BY <1>2, <2>1, <2>2, SeqEqual
<1>6. QED
  BY <1>4, <1>5 DEF n, sealed

(***************************************************************************)
(* Browser requests.                                                       *)
(***************************************************************************)
\* Where a text ends: at the first zero, or at the end of the packet.
LEMMA ZeroIs ==
    ASSUME NEW packet \in Seq(Nat), NEW offset \in Nat
    PROVE  /\ Zero(packet, offset) \in 0 .. Len(packet)
           /\ \/ Zero(packet, offset) = Len(packet)
              \/ Zero(packet, offset) >= offset /\ At(packet, Zero(packet, offset)) = 0
           /\ \A o \in offset .. Len(packet) - 1 :
                 At(packet, o) = 0 => Zero(packet, offset) <= o
<1> DEFINE zeros == {o \in offset .. Len(packet) - 1 : At(packet, o) = 0} \cup {Len(packet)}
<1>1. zeros \subseteq 0 .. Len(packet) /\ Len(packet) \in zeros /\ Len(packet) \in Nat
  BY LenProperties
<1>2. Min(zeros) \in zeros /\ \A j \in zeros : Min(zeros) <= j
  <2>1. zeros \subseteq Nat /\ zeros # {}
    BY <1>1
  <2> HIDE DEF zeros
  <2>2. QED
    BY <2>1, MinIs
<1>3. Zero(packet, offset) = Min(zeros)
  BY DEF Zero
<1>4. \/ Min(zeros) = Len(packet)
      \/ Min(zeros) \in offset .. Len(packet) - 1 /\ At(packet, Min(zeros)) = 0
  BY <1>2
<1>5. \A o \in offset .. Len(packet) - 1 : At(packet, o) = 0 => Min(zeros) <= o
  BY <1>2
<1>6. Min(zeros) \in 0 .. Len(packet)
  BY <1>1, <1>2
<1>7. \/ Min(zeros) = Len(packet)
      \/ Min(zeros) >= offset /\ At(packet, Min(zeros)) = 0
  BY <1>1, <1>4
<1> HIDE DEF zeros
<1>8. QED
  BY <1>3, <1>5, <1>6, <1>7

\* The offset behind it.
LEMMA AfterIs ==
    ASSUME NEW packet \in Seq(Nat), NEW offset \in Nat
    PROVE  /\ After(packet, offset) \in 0 .. Len(packet)
           /\ After(packet, offset) = IF Zero(packet, offset) < Len(packet)
                                      THEN Zero(packet, offset) + 1 ELSE Len(packet)
<1> DEFINE zero == Zero(packet, offset)
<1>1. zero \in 0 .. Len(packet) /\ Len(packet) \in Nat
  BY ZeroIs, LenProperties
<1> HIDE DEF zero
<1>2. After(packet, offset) = Min({zero + 1, Len(packet)})
  BY DEF After, zero
<1>3. Min({zero + 1, Len(packet)}) =
          IF zero + 1 <= Len(packet) THEN zero + 1 ELSE Len(packet)
  BY <1>1, MinOfTwo
<1>4. QED
  BY <1>1, <1>2, <1>3 DEF zero

\* A text is what ends at the first zero.
LEMMA TextIs ==
    ASSUME NEW packet \in Seq(Nat), NEW offset \in Nat, NEW end \in Nat,
           offset <= end, end < Len(packet)
    PROVE  IsText(packet, offset, end) <=> Zero(packet, offset) = end
<1>1. Len(packet) \in Nat
  BY LenProperties
<1> DEFINE zero == Zero(packet, offset)
<1>2. /\ zero \in 0 .. Len(packet)
      /\ zero = Len(packet) \/ (zero >= offset /\ At(packet, zero) = 0)
      /\ \A o \in offset .. Len(packet) - 1 : At(packet, o) = 0 => zero <= o
  BY ZeroIs
<1> HIDE DEF zero
<1>3. ASSUME IsText(packet, offset, end) PROVE zero = end
  <2>1. At(packet, end) = 0 /\ \A o \in offset .. end - 1 : At(packet, o) # 0
    BY <1>3 DEF IsText
  <2>2. zero <= end
    BY <1>1, <1>2, <2>1
  <2>3. QED
    BY <1>1, <1>2, <2>1, <2>2
<1>4. ASSUME zero = end PROVE IsText(packet, offset, end)
  <2>1. ASSUME NEW o \in offset .. end - 1 PROVE At(packet, o) # 0
    BY <1>1, <1>2, <1>4
  <2>2. At(packet, end) = 0
    BY <1>1, <1>2, <1>4
  <2>3. QED
    BY <2>1, <2>2 DEF IsText
<1>5. QED
  BY <1>3, <1>4 DEF zero

\* read_c_string is empty without a zero, and if it is the first symbol.
LEMMA NotEmpty ==
    ASSUME NEW packet \in Seq(Nat), NEW offset \in Nat
    PROVE  read_c_string(packet, offset) # <<>> <=>
              offset < Zero(packet, offset) /\ Zero(packet, offset) < Len(packet)
<1> DEFINE zero == Zero(packet, offset)
<1>1. zero \in 0 .. Len(packet) /\ Len(packet) \in Nat
  BY ZeroIs, LenProperties
<1>2. read_c_string(packet, offset) = IF zero = Len(packet) THEN <<>>
                                      ELSE SubSeq(packet, offset + 1, zero)
  BY DEF read_c_string
<1> HIDE DEF zero
<1>3. CASE zero = Len(packet)
  BY <1>1, <1>2, <1>3 DEF zero
<1>4. CASE zero # Len(packet) /\ zero <= offset
  <2>1. SubSeq(packet, offset + 1, zero) = <<>>
    BY <1>1, <1>4, SubSeqEmpty
  <2>2. QED
    BY <1>1, <1>2, <1>4, <2>1 DEF zero
<1>5. CASE zero # Len(packet) /\ offset < zero
  <2>1. /\ offset + 1 \in Nat \ {0} /\ zero \in Nat /\ zero <= Len(packet)
        /\ offset + 1 <= zero + 1 /\ zero - (offset + 1) + 1 > 0
    BY <1>1, <1>5
  <2>2. Len(SubSeq(packet, offset + 1, zero)) = zero - (offset + 1) + 1
    BY <2>1, Part
  <2>3. SubSeq(packet, offset + 1, zero) # <<>>
    BY <2>1, <2>2
  <2>4. QED
    BY <1>1, <1>2, <1>5, <2>3 DEF zero
<1>6. QED
  BY <1>1, <1>3, <1>4, <1>5

\* What parse_browser_request asks for, in terms of where its texts end.
Accepted(packet) ==
    LET query == Zero(packet, BrowserHeader)
        game == Zero(packet, query + 1)
        filter == Zero(packet, game + 1 + Challenge)
        fields == Zero(packet, filter + 1)
    IN  /\ BrowserHeader < query /\ query < Len(packet)
        /\ query + 1 < game /\ game < Len(packet)
        /\ game + 1 + Challenge <= filter /\ filter < Len(packet)
        /\ filter + 1 <= fields /\ fields + 1 + Options <= Len(packet)

\* The parser accepts a packet exactly if its size is the one it states and
\* its walk stays within the packet.
LEMMA ParseIs ==
    ASSUME NEW packet \in Seq(Nat), Len(packet) >= 4, At(packet, 2) = 0
    PROVE  parse_browser_request(packet) # Nothing <=>
              /\ At(packet, 0) * ByteMod + At(packet, 1) = Len(packet)
              /\ Accepted(packet)
<1> DEFINE L == Len(packet)
           whole == At(packet, 0) * ByteMod + At(packet, 1) = Len(packet)
           query == Zero(packet, BrowserHeader)
           game == Zero(packet, query + 1)
           start == game + 1 + Challenge
           filter == Zero(packet, start)
           fields == Zero(packet, filter + 1)
<1>1. L \in Nat
  BY LenProperties
<1>2. query \in 0 .. L /\ game \in 0 .. L /\ start \in Nat
      /\ filter \in 0 .. L /\ fields \in 0 .. L
  <2>1. query \in 0 .. L
    BY Numbers, ZeroIs
  <2>2. game \in 0 .. L
    <3>1. query + 1 \in Nat
      BY <1>1, <2>1
    <3>2. QED
      BY <3>1, ZeroIs
  <2>3. start \in Nat
    BY <1>1, <2>2, Numbers
  <2>4. filter \in 0 .. L
    BY <2>3, ZeroIs
  <2>5. fields \in 0 .. L
    <3>1. filter + 1 \in Nat
      BY <1>1, <2>4
    <3>2. QED
      BY <3>1, ZeroIs
  <2>6. QED
    BY <2>1, <2>2, <2>3, <2>4, <2>5
<1>3. Accepted(packet) <=>
          /\ BrowserHeader < query /\ query < L
          /\ query + 1 < game /\ game < L
          /\ start <= filter /\ filter < L
          /\ filter + 1 <= fields /\ fields + 1 + Options <= L
  BY DEF Accepted
<1>4. parse_browser_request(packet) # Nothing <=>
          /\ L >= MinRequest /\ whole
          /\ read_c_string(packet, BrowserHeader) # <<>>
          /\ read_c_string(packet, After(packet, BrowserHeader)) # <<>>
          /\ After(packet, After(packet, BrowserHeader)) + Challenge <= L
          /\ HasOptions(packet, After(packet, After(packet,
                After(packet, After(packet, BrowserHeader)) + Challenge)))
  <2>1. \A g, c, f : [kind |-> "request", game_name |-> g, challenge |-> c,
                      fields |-> f] # Nothing
    <3>1. \A g, c, f : [kind |-> "request", game_name |-> g, challenge |-> c,
                        fields |-> f].kind = "request"
      OBVIOUS
    <3>2. Nothing.kind = "nothing"
      BY DEF Nothing
    <3>3. QED
      BY <3>1, <3>2
  <2>2. L < MinRequest <=> ~ L >= MinRequest
    <3>1. MinRequest \in Nat
      BY ConstantsAssumption
    <3>2. QED
      BY <1>1, <3>1
  <2>3. After(packet, After(packet, BrowserHeader)) + Challenge > L <=>
            ~ After(packet, After(packet, BrowserHeader)) + Challenge <= L
    <3>1. After(packet, BrowserHeader) \in Nat
      <4>1. After(packet, BrowserHeader) \in 0 .. L
        BY Numbers, AfterIs
      <4>2. QED
        BY <1>1, <4>1
    <3>2. After(packet, After(packet, BrowserHeader)) \in Nat
      BY <3>1, AfterIs
    <3>3. QED
      BY <1>1, <3>2, Numbers
  <2>4. QED
    BY <2>1, <2>2, <2>3 DEF parse_browser_request
<1> HIDE DEF L, whole, query, game, start, filter, fields
<1>5. read_c_string(packet, BrowserHeader) # <<>> <=> BrowserHeader < query /\ query < L
  BY Numbers, NotEmpty DEF query, L
<1>6. query < L => After(packet, BrowserHeader) = query + 1
  BY Numbers, AfterIs DEF query, L
<1>7. query + 1 \in Nat
  BY <1>2
<1>8. read_c_string(packet, query + 1) # <<>> <=> query + 1 < game /\ game < L
  BY <1>7, NotEmpty DEF game, L
<1>9. game < L => After(packet, query + 1) = game + 1
  BY <1>7, AfterIs DEF game, L
<1>10. start \in Nat /\ start = game + 1 + Challenge
  BY <1>2 DEF start
<1>11. After(packet, start) \in 0 .. L
       /\ After(packet, start) = IF filter < L THEN filter + 1 ELSE L
  BY <1>10, AfterIs DEF filter, L
<1>12. filter < L => After(packet, filter + 1) = IF fields < L THEN fields + 1 ELSE L
  <2>1. filter + 1 \in Nat
    BY <1>2
  <2>2. QED
    BY <2>1, AfterIs DEF fields, L
<1>13. After(packet, L) = L
  <2>1. Zero(packet, L) = L
    BY <1>1, ZeroIs DEF L
  <2>2. QED
    BY <1>1, <2>1, AfterIs DEF L
<1>14. start <= filter \/ filter = L
  BY <1>10, ZeroIs DEF filter, L
<1>15. filter + 1 <= fields \/ fields = L
  <2>1. filter + 1 \in Nat
    BY <1>2
  <2>2. QED
    BY <2>1, ZeroIs DEF fields, L
<1>16. ASSUME Accepted(packet), whole PROVE parse_browser_request(packet) # Nothing
  <2>1. /\ BrowserHeader < query /\ query < L /\ query + 1 < game /\ game < L
        /\ start <= filter /\ filter < L
        /\ filter + 1 <= fields /\ fields + 1 + Options <= L
    BY <1>3, <1>16
  <2>2. fields < L
    BY <1>1, <1>2, <2>1, Numbers
  <2>3. /\ After(packet, BrowserHeader) = query + 1
        /\ After(packet, query + 1) = game + 1
        /\ After(packet, start) = filter + 1
        /\ After(packet, filter + 1) = fields + 1
    BY <1>6, <1>9, <1>11, <1>12, <2>1, <2>2
  <2>4. After(packet, After(packet, BrowserHeader)) + Challenge = start
    BY <1>10, <2>3
  <2>5. start <= L /\ HasOptions(packet, fields + 1)
    BY <1>1, <1>2, <2>1 DEF HasOptions, L
  <2>6. L >= MinRequest
    BY <1>1, <1>2, <1>10, <2>1, Numbers
  <2>7. QED
    BY <1>4, <1>5, <1>8, <1>16, <2>1, <2>3, <2>4, <2>5, <2>6
<1>17. ASSUME parse_browser_request(packet) # Nothing PROVE Accepted(packet) /\ whole
  <2>1. whole /\ BrowserHeader < query /\ query < L
    BY <1>4, <1>5, <1>17
  <2>2. After(packet, BrowserHeader) = query + 1
    BY <1>6, <2>1
  <2>3. query + 1 < game /\ game < L
    BY <1>4, <1>8, <1>17, <2>2
  <2>4. After(packet, query + 1) = game + 1
    BY <1>9, <2>3
  <2>5. start <= L /\ HasOptions(packet, After(packet, After(packet, start)))
    BY <1>4, <1>10, <1>17, <2>2, <2>4
  <2>6. After(packet, After(packet, start)) + Options <= L
    BY <2>5 DEF HasOptions, L
  <2>7. filter < L
    <3>1. ASSUME ~ filter < L PROVE FALSE
      <4>1. After(packet, After(packet, start)) = L
        BY <1>11, <1>13, <3>1
      <4>2. QED
        BY <1>1, <2>6, <4>1, Numbers
    <3>2. QED
      BY <3>1
  <2>8. After(packet, After(packet, start)) = IF fields < L THEN fields + 1 ELSE L
    BY <1>11, <1>12, <2>7
  <2>9. fields < L /\ fields + 1 + Options <= L
    BY <1>1, <1>2, <2>6, <2>8, Numbers
  <2>10. QED
    BY <1>1, <1>2, <1>3, <1>14, <1>15, <2>1, <2>3, <2>7, <2>9
<1>18. QED
  BY <1>16, <1>17 DEF whole

\* A request as its grammar has it.
Grammar(packet) ==
    \E query \in BrowserHeader + 1 .. Len(packet) - 1 :
        /\ IsText(packet, BrowserHeader, query)
        /\ \E game \in query + 2 .. Len(packet) - 1 :
            /\ IsText(packet, query + 1, game)
            /\ \E filter \in game + 1 + Challenge .. Len(packet) - 1 :
                /\ IsText(packet, game + 1 + Challenge, filter)
                /\ \E fields \in filter + 1 .. Len(packet) - 1 - Options :
                        IsText(packet, filter + 1, fields)

\* The parser's walk ends at such places exactly if the grammar has some.
LEMMA GrammarIs ==
    ASSUME NEW packet \in Seq(Nat)
    PROVE  Accepted(packet) <=> Grammar(packet)
<1> DEFINE L == Len(packet)
<1>1. /\ L \in Nat /\ BrowserHeader \in Nat
      /\ Challenge \in Nat /\ Options \in Nat /\ Options > 0
  BY LenProperties, Numbers
<1>2. \A offset, end \in Nat : offset <= end /\ end < L =>
          (IsText(packet, offset, end) <=> Zero(packet, offset) = end)
  BY TextIs
<1>3. ASSUME Accepted(packet) PROVE Grammar(packet)
  <2> DEFINE query == Zero(packet, BrowserHeader)
             game == Zero(packet, query + 1)
             filter == Zero(packet, game + 1 + Challenge)
             fields == Zero(packet, filter + 1)
  <2>1. /\ BrowserHeader < query /\ query < L /\ query + 1 < game /\ game < L
        /\ game + 1 + Challenge <= filter /\ filter < L
        /\ filter + 1 <= fields /\ fields + 1 + Options <= L
    BY <1>3 DEF Accepted
  <2>2. query \in 0 .. L
    BY <1>1, ZeroIs
  <2>3. query + 1 \in Nat
    BY <1>1, <2>2
  <2>4. game \in 0 .. L
    BY <2>3, ZeroIs
  <2>5. game + 1 + Challenge \in Nat
    BY <1>1, <2>4
  <2>6. filter \in 0 .. L
    BY <2>5, ZeroIs
  <2>7. filter + 1 \in Nat
    BY <1>1, <2>6
  <2>8. fields \in 0 .. L
    BY <2>7, ZeroIs
  <2>9. /\ Zero(packet, BrowserHeader) = query /\ Zero(packet, query + 1) = game
        /\ Zero(packet, game + 1 + Challenge) = filter
        /\ Zero(packet, filter + 1) = fields
    OBVIOUS
  <2> HIDE DEF L, query, game, filter, fields
  <2>10. /\ query \in BrowserHeader + 1 .. L - 1 /\ game \in query + 2 .. L - 1
         /\ filter \in game + 1 + Challenge .. L - 1
         /\ fields \in filter + 1 .. L - 1 - Options
    BY <1>1, <2>1, <2>2, <2>4, <2>6, <2>8
  <2>11. IsText(packet, BrowserHeader, query)
    BY <1>1, <1>2, <2>1, <2>2, <2>9
  <2>12. IsText(packet, query + 1, game)
    BY <1>1, <1>2, <2>1, <2>3, <2>4, <2>9
  <2>13. IsText(packet, game + 1 + Challenge, filter)
    BY <1>1, <1>2, <2>1, <2>5, <2>6, <2>9
  <2>14. IsText(packet, filter + 1, fields)
    BY <1>1, <1>2, <2>1, <2>7, <2>8, <2>9
  <2>15. QED
    BY <2>10, <2>11, <2>12, <2>13, <2>14 DEF Grammar, L
<1>4. ASSUME Grammar(packet) PROVE Accepted(packet)
  <2>1. PICK query \in BrowserHeader + 1 .. L - 1 :
            /\ IsText(packet, BrowserHeader, query)
            /\ \E game \in query + 2 .. L - 1 :
                /\ IsText(packet, query + 1, game)
                /\ \E filter \in game + 1 + Challenge .. L - 1 :
                    /\ IsText(packet, game + 1 + Challenge, filter)
                    /\ \E fields \in filter + 1 .. L - 1 - Options :
                            IsText(packet, filter + 1, fields)
    BY <1>4 DEF Grammar
  <2>2. PICK game \in query + 2 .. L - 1 :
            /\ IsText(packet, query + 1, game)
            /\ \E filter \in game + 1 + Challenge .. L - 1 :
                /\ IsText(packet, game + 1 + Challenge, filter)
                /\ \E fields \in filter + 1 .. L - 1 - Options :
                        IsText(packet, filter + 1, fields)
    BY <2>1
  <2>3. PICK filter \in game + 1 + Challenge .. L - 1 :
            /\ IsText(packet, game + 1 + Challenge, filter)
            /\ \E fields \in filter + 1 .. L - 1 - Options :
                    IsText(packet, filter + 1, fields)
    BY <2>2
  <2>4. PICK fields \in filter + 1 .. L - 1 - Options :
            IsText(packet, filter + 1, fields)
    BY <2>3
  <2> HIDE DEF L
  <2>5. /\ query \in Nat /\ game \in Nat /\ filter \in Nat /\ fields \in Nat
        /\ query + 1 \in Nat /\ game + 1 + Challenge \in Nat /\ filter + 1 \in Nat
        /\ BrowserHeader < query /\ query < L /\ query + 1 < game /\ game < L
        /\ game + 1 + Challenge <= filter /\ filter < L
        /\ filter + 1 <= fields /\ fields + 1 + Options <= L /\ fields < L
    BY <1>1
  <2>6. Zero(packet, BrowserHeader) = query
    BY <1>1, <1>2, <2>1, <2>5
  <2>7. Zero(packet, query + 1) = game
    BY <1>1, <1>2, <2>2, <2>5
  <2>8. Zero(packet, game + 1 + Challenge) = filter
    BY <1>2, <2>3, <2>5
  <2>9. Zero(packet, filter + 1) = fields
    BY <1>2, <2>4, <2>5
  <2>10. QED
    BY <2>5, <2>6, <2>7, <2>8, <2>9 DEF Accepted, L
<1>5. QED
  BY <1>3, <1>4

(***************************************************************************)
(* DNS questions.                                                          *)
(***************************************************************************)
Symbols == 0 .. MaxLabel + 1

\* What the loop over the labels returns from an offset, given what it does
\* from later ones.
Label(packet, end, o) ==
    IF o >= Len(packet) \/ At(packet, o) = 0 THEN o
    ELSE LET next == o + At(packet, o) + 1 IN
         IF At(packet, o) > MaxLabel \/ next >= Len(packet) THEN Bad ELSE end[next]

\* Only later ones.
LEMMA LabelLooksAhead ==
    ASSUME NEW packet \in Seq(Symbols), NEW o \in Nat,
           NEW f \in [Nat -> Int], NEW g \in [Nat -> Int],
           \A i \in Nat : i > o => f[i] = g[i]
    PROVE  Label(packet, f, o) = Label(packet, g, o) /\ Label(packet, f, o) \in Int
<1>1. Len(packet) \in Nat /\ Bad \in Int
  BY LenProperties DEF Bad
<1>2. CASE o >= Len(packet) \/ At(packet, o) = 0
  BY <1>2 DEF Label
<1>3. CASE ~ (o >= Len(packet) \/ At(packet, o) = 0)
  <2> DEFINE next == o + At(packet, o) + 1
  <2>1. o + 1 \in 1 .. Len(packet)
    BY <1>1, <1>3
  <2>2. packet[o + 1] \in Symbols
    BY <2>1, ElementOfSeq
  <2>3. At(packet, o) \in Nat
    BY <2>2, Numbers DEF At, Symbols
  <2>4. next \in Nat /\ next > o
    BY <2>3
  <2> HIDE DEF next
  <2>5. f[next] = g[next] /\ f[next] \in Int
    BY <2>4
  <2>6. \A h : Label(packet, h, o) =
            IF At(packet, o) > MaxLabel \/ next >= Len(packet) THEN Bad ELSE h[next]
    BY <1>3 DEF Label, next
  <2>7. QED
    BY <1>1, <2>5, <2>6
<1>4. QED
  BY <1>2, <1>3

\* So there is a function of which this is true everywhere.
LEMMA EndsExist ==
    ASSUME NEW packet \in Seq(Symbols)
    PROVE  \E end : end = [o \in Nat |-> Label(packet, end, o)]
<1> DEFINE L == Len(packet)
           From(end, n) == \A o \in Nat : o + n >= L => end[o] = Label(packet, end, o)
           M == {n \in Nat : \E end \in [Nat -> Int] : From(end, n)}
<1>1. L \in Nat
  BY LenProperties
<1>2. ASSUME NEW n \in Nat, 0 .. n - 1 \subseteq M PROVE n \in M
  <2>1. CASE n = 0
    <3> DEFINE end == [o \in Nat |-> o]
    <3>1. end \in [Nat -> Int]
      OBVIOUS
    <3>2. ASSUME NEW o \in Nat, o + 0 >= L PROVE end[o] = Label(packet, end, o)
      <4>1. o >= L
        BY <1>1, <3>2
      <4>2. QED
        BY <4>1 DEF Label
    <3>3. From(end, 0)
      BY <3>2
    <3>4. QED
      BY <2>1, <3>1, <3>3
  <2>2. CASE n # 0
    <3>1. n - 1 \in M
      <4>1. n - 1 \in 0 .. n - 1
        BY <2>2
      <4> HIDE DEF M
      <4>2. QED
        BY <1>2, <4>1
    <3>2. PICK end \in [Nat -> Int] : From(end, n - 1)
      BY <3>1
    <3>3. CASE n > L
      <4>1. ASSUME NEW o \in Nat PROVE end[o] = Label(packet, end, o)
        <5>1. o + (n - 1) >= L
          BY <1>1, <3>3
        <5>2. QED
          BY <3>2, <5>1
      <4>2. QED
        BY <4>1
    <3>4. CASE n <= L
      <4> DEFINE x == L - n
                 new == [o \in Nat |-> IF o = x THEN Label(packet, end, x) ELSE end[o]]
      <4>1. x \in Nat
        BY <1>1, <3>4
      <4>2. Label(packet, end, x) \in Int
        BY <4>1, LabelLooksAhead
      <4>3. new \in [Nat -> Int]
        BY <4>2
      <4>4. \A i \in Nat : i # x => new[i] = end[i]
        OBVIOUS
      <4>5. new[x] = Label(packet, end, x)
        BY <4>1
      <4> HIDE DEF new
      <4>6. ASSUME NEW o \in Nat, o + n >= L PROVE new[o] = Label(packet, new, o)
        <5>1. o >= x
          BY <1>1, <3>4, <4>6
        <5>2. \A i \in Nat : i > o => new[i] = end[i]
          BY <4>1, <4>4, <5>1
        <5>3. Label(packet, new, o) = Label(packet, end, o)
          BY <4>3, <5>2, LabelLooksAhead
        <5>4. CASE o = x
          BY <4>5, <5>3, <5>4
        <5>5. CASE o # x
          <6>1. o + (n - 1) >= L
            BY <1>1, <3>4, <5>1, <5>5
          <6>2. end[o] = Label(packet, end, o)
            BY <3>2, <6>1
          <6>3. QED
            BY <4>4, <5>3, <5>5, <6>2
        <5>6. QED
          BY <5>4, <5>5
      <4>7. From(new, n)
        BY <4>6
      <4> HIDE DEF From
      <4>8. QED
        BY <4>3, <4>7
    <3> HIDE DEF M
    <3>5. QED
      BY <1>1, <3>3, <3>4
  <2>3. QED
    BY <2>1, <2>2
<1>3. L \in M
  <2> HIDE DEF M
  <2>1. QED
    BY <1>1, <1>2, Induction
<1>4. PICK end \in [Nat -> Int] : From(end, L)
  BY <1>3
<1>5. \A o \in Nat : end[o] = Label(packet, end, o)
  BY <1>1, <1>4
<1>6. end = [o \in Nat |-> Label(packet, end, o)]
  BY <1>5
<1>7. QED
  BY <1>6

\* NameEnd is such a function at the first label.
LEMMA NameEndIs ==
    ASSUME NEW packet \in Seq(Symbols)
    PROVE  \E end : /\ NameEnd(packet) = end[DnsHeader]
                    /\ \A o \in Nat : end[o] = Label(packet, end, o)
<1> DEFINE chosen == CHOOSE end : end = [o \in Nat |-> Label(packet, end, o)]
<1>1. chosen = [o \in Nat |-> Label(packet, chosen, o)]
  BY EndsExist
<1>2. NameEnd(packet) = chosen[DnsHeader]
  BY DEF NameEnd, Label
<1> HIDE DEF chosen
<1>3. \A o \in Nat : chosen[o] = Label(packet, chosen, o)
  BY <1>1
<1>4. QED
  BY <1>2, <1>3

\* A symbol of a packet.
LEMMA SymbolIs ==
    ASSUME NEW packet \in Seq(Symbols), NEW o \in Nat, o < Len(packet)
    PROVE  At(packet, o) \in Nat
<1>1. o + 1 \in 1 .. Len(packet)
  BY LenProperties
<1>2. packet[o + 1] \in Symbols
  BY <1>1, ElementOfSeq
<1>3. QED
  BY <1>2, Numbers DEF At, Symbols

\* What the loop returns is Bad, or lies ahead and is a root or the end of the
\* packet.
LEMMA EndsAhead ==
    ASSUME NEW packet \in Seq(Symbols), NEW end,
           \A o \in Nat : end[o] = Label(packet, end, o),
           NEW o \in Nat
    PROVE  \/ end[o] = Bad
           \/ /\ end[o] \in Nat /\ end[o] >= o
              /\ end[o] >= Len(packet) \/ At(packet, end[o]) = 0
<1> DEFINE L == Len(packet)
           P(i) == \/ end[i] = Bad
                   \/ /\ end[i] \in Nat /\ end[i] >= i
                      /\ end[i] >= L \/ At(packet, end[i]) = 0
           M == {n \in Nat : \A i \in Nat : i + n >= L => P(i)}
<1>1. L \in Nat
  BY LenProperties
<1>2. ASSUME NEW n \in Nat, 0 .. n - 1 \subseteq M PROVE n \in M
  <2>1. ASSUME NEW i \in Nat, i + n >= L PROVE P(i)
    <3>1. CASE i >= L \/ At(packet, i) = 0
      <4>1. end[i] = i
        BY <3>1 DEF Label
      <4>2. QED
        BY <3>1, <4>1
    <3>2. CASE ~ (i >= L \/ At(packet, i) = 0)
      <4> DEFINE next == i + At(packet, i) + 1
      <4>1. next \in Nat /\ next > i /\ n # 0
        BY <1>1, <2>1, <3>2, SymbolIs
      <4>2. end[i] = Bad \/ end[i] = end[next]
        <5>1. end[i] = Label(packet, end, i)
          OBVIOUS
        <5>2. QED
          BY <3>2, <5>1 DEF Label
      <4>3. n - 1 \in M
        <5>1. n - 1 \in 0 .. n - 1
          BY <4>1
        <5> HIDE DEF M
        <5>2. QED
          BY <1>2, <5>1
      <4> HIDE DEF next
      <4>4. next + (n - 1) >= L
        BY <1>1, <2>1, <4>1
      <4> HIDE DEF P
      <4>5. P(next)
        BY <4>1, <4>3, <4>4
      <4>6. QED
        BY <4>1, <4>2, <4>5 DEF P
    <3>3. QED
      BY <3>1, <3>2
  <2> HIDE DEF P
  <2>2. QED
    BY <2>1
<1>3. L \in M
  <2> HIDE DEF M
  <2>1. QED
    BY <1>1, <1>2, Induction
<1>4. o + L >= L
  BY <1>1
<1> HIDE DEF P
<1>5. P(o)
  BY <1>3, <1>4
<1>6. QED
  BY <1>5 DEF P

\* From the labels of a question the loop gets to its root.
LEMMA QuestionLeads ==
    ASSUME NEW packet \in Seq(Symbols), NEW end,
           \A o \in Nat : end[o] = Label(packet, end, o),
           NEW e \in Nat, IsQuestion(packet, e)
    PROVE  end[DnsHeader] = e - 5
<1> DEFINE L == Len(packet)
           root == e - 5
<1>1. L \in Nat /\ DnsHeader \in Nat /\ MaxLabel \in Nat
  BY LenProperties, Numbers
<1>2. /\ e <= L /\ root >= DnsHeader /\ At(packet, root) = 0 /\ root \in Nat /\ root < L
  BY <1>1 DEF IsQuestion
<1>3. PICK labels \in SUBSET (DnsHeader .. root - 1) :
          /\ DnsHeader \in labels \cup {root}
          /\ \A o \in labels : /\ At(packet, o) \in 1 .. MaxLabel
                               /\ o + At(packet, o) + 1 \in labels \cup {root}
  BY DEF IsQuestion
<1> HIDE DEF L, root
<1> DEFINE M == {n \in Nat : \A o \in labels \cup {root} : o + n >= root => end[o] = root}
<1>4. \A o \in labels \cup {root} : o \in Nat /\ o <= root
  BY <1>1, <1>2
<1>5. ASSUME NEW n \in Nat, 0 .. n - 1 \subseteq M PROVE n \in M
  <2>1. ASSUME NEW o \in labels \cup {root}, o + n >= root PROVE end[o] = root
    <3>1. CASE o = root
      <4>1. end[root] = Label(packet, end, root)
        BY <1>2
      <4>2. QED
        BY <1>2, <3>1, <4>1 DEF Label
    <3>2. CASE o # root
      <4> DEFINE next == o + At(packet, o) + 1
      <4>1. o \in labels /\ o \in Nat /\ o < root
        BY <1>2, <1>4, <3>2
      <4>2. At(packet, o) \in 1 .. MaxLabel /\ next \in labels \cup {root}
        BY <1>3, <4>1
      <4>3. next \in Nat /\ next <= root /\ next > o /\ n # 0
        BY <1>2, <1>4, <2>1, <4>1, <4>2
      <4>4. ~ (o >= L \/ At(packet, o) = 0) /\ ~ (At(packet, o) > MaxLabel \/ next >= L)
        BY <1>1, <1>2, <4>1, <4>2, <4>3
      <4>5. end[o] = end[next]
        <5>1. end[o] = Label(packet, end, o)
          BY <4>1
        <5>2. QED
          BY <4>4, <5>1 DEF Label, L
      <4>6. n - 1 \in M
        <5>1. n - 1 \in 0 .. n - 1
          BY <4>3
        <5> HIDE DEF M
        <5>2. QED
          BY <1>5, <5>1
      <4> HIDE DEF next
      <4>7. next + (n - 1) >= root
        BY <1>2, <2>1, <4>1, <4>3
      <4>8. QED
        BY <4>2, <4>5, <4>6, <4>7
    <3>3. QED
      BY <3>1, <3>2
  <2>2. QED
    BY <2>1
<1>6. root \in M
  <2> HIDE DEF M
  <2>1. QED
    BY <1>2, <1>5, Induction
<1>7. DnsHeader + root >= root
  BY <1>1, <1>2
<1>8. end[DnsHeader] = root
  BY <1>3, <1>6, <1>7
<1>9. QED
  BY <1>8 DEF root

\* If the loop gets to a root with room behind it, that is a question.
LEMMA LeadsToQuestion ==
    ASSUME NEW packet \in Seq(Symbols), NEW end,
           \A o \in Nat : end[o] = Label(packet, end, o),
           end[DnsHeader] # Bad, end[DnsHeader] + 5 <= Len(packet)
    PROVE  IsQuestion(packet, end[DnsHeader] + 5)
<1> DEFINE L == Len(packet)
           root == end[DnsHeader]
           labels == {o \in DnsHeader .. root - 1 : end[o] = root}
<1>1. L \in Nat /\ DnsHeader \in Nat /\ MaxLabel \in Nat
  BY LenProperties, Numbers
<1>2. /\ root \in Nat /\ root >= DnsHeader /\ root + 5 <= L
      /\ root >= L \/ At(packet, root) = 0
  BY <1>1, EndsAhead
<1> HIDE DEF L, root
<1>3. root < L /\ At(packet, root) = 0
  BY <1>1, <1>2
<1>4. DnsHeader \in labels \cup {root}
  BY <1>1, <1>2 DEF root
<1>5. ASSUME NEW o \in labels
      PROVE  At(packet, o) \in 1 .. MaxLabel /\ o + At(packet, o) + 1 \in labels \cup {root}
  <2> DEFINE next == o + At(packet, o) + 1
  <2>1. o \in Nat /\ o >= DnsHeader /\ o < root /\ end[o] = root /\ o < L
    BY <1>1, <1>2
  <2>2. At(packet, o) \in Nat
    BY <2>1, SymbolIs DEF L
  <2>3. end[o] = Label(packet, end, o) /\ root # Bad
    BY <2>1 DEF root
  <2>4. At(packet, o) # 0
    BY <1>2, <2>1, <2>3 DEF Label
  <2>5. ~ (o >= Len(packet) \/ At(packet, o) = 0)
    BY <1>1, <2>1, <2>4 DEF L
  <2>6. root = IF At(packet, o) > MaxLabel \/ next >= Len(packet) THEN Bad ELSE end[next]
    BY <2>1, <2>3, <2>5 DEF Label
  <2>7. ~ At(packet, o) > MaxLabel /\ end[next] = root
    BY <2>3, <2>6
  <2>8. next \in Nat /\ next > o
    BY <2>1, <2>2
  <2> HIDE DEF next
  <2>9. end[next] >= next
    BY <2>3, <2>7, <2>8, EndsAhead
  <2>10. next \in labels \cup {root}
    BY <1>1, <1>2, <2>1, <2>7, <2>8, <2>9
  <2>11. QED
    BY <1>1, <2>2, <2>4, <2>7, <2>10 DEF next
<1>6. labels \in SUBSET (DnsHeader .. root - 1)
  OBVIOUS
<1> HIDE DEF labels
<1>7. (root + 5) - 5 = root
  BY <1>2
<1>8. IsQuestion(packet, root + 5)
  BY <1>2, <1>3, <1>4, <1>5, <1>6, <1>7 DEF IsQuestion, L
<1>9. QED
  BY <1>8 DEF root

\* So a packet has at most one question, and dns_a_response finds it.
LEMMA QuestionIs ==
    ASSUME NEW packet \in Seq(Symbols)
    PROVE  /\ \A e \in Nat : IsQuestion(packet, e) =>
                 /\ NameEnd(packet) = e - 5 /\ NameEnd(packet) # Bad
                 /\ e <= Len(packet) /\ Len(packet) >= DnsHeader
           /\ NameEnd(packet) # Bad /\ NameEnd(packet) + 5 <= Len(packet) =>
                 NameEnd(packet) \in Nat /\ IsQuestion(packet, NameEnd(packet) + 5)
<1>1. PICK end : /\ NameEnd(packet) = end[DnsHeader]
                 /\ \A o \in Nat : end[o] = Label(packet, end, o)
  BY NameEndIs
<1>2. Len(packet) \in Nat /\ DnsHeader \in Nat
  BY LenProperties, Numbers
<1>3. ASSUME NEW e \in Nat, IsQuestion(packet, e)
      PROVE  /\ NameEnd(packet) = e - 5 /\ NameEnd(packet) # Bad
             /\ e <= Len(packet) /\ Len(packet) >= DnsHeader
  <2>1. NameEnd(packet) = e - 5
    BY <1>1, <1>3, QuestionLeads
  <2>2. e <= Len(packet) /\ e - 5 >= DnsHeader
    BY <1>3 DEF IsQuestion
  <2>3. QED
    BY <1>2, <2>1, <2>2 DEF Bad
<1>4. ASSUME NameEnd(packet) # Bad, NameEnd(packet) + 5 <= Len(packet)
      PROVE  NameEnd(packet) \in Nat /\ IsQuestion(packet, NameEnd(packet) + 5)
  BY <1>1, <1>2, <1>4, EndsAhead, LeadsToQuestion
<1>5. QED
  BY <1>3, <1>4

\* A question is in what recvfrom() leaves of a packet if it ends there.
LEMMA CutQuestion ==
    ASSUME NEW packet \in Seq(Symbols), NEW n \in Nat, n <= Len(packet),
           NEW e \in Nat, e <= n
    PROVE  IsQuestion(packet, e) <=> IsQuestion(SubSeq(packet, 1, n), e)
<1> DEFINE cut == SubSeq(packet, 1, n)
           root == e - 5
<1>1. Len(packet) \in Nat /\ DnsHeader \in Nat
  BY LenProperties, Numbers
<1>2. Len(cut) = n /\ \A i \in 1 .. n : cut[i] = packet[i]
  <2>1. 0 + 1 = 1 /\ 0 + n = n /\ \A i \in 1 .. n : 0 + i = i
    OBVIOUS
  <2>2. /\ Len(SubSeq(packet, 0 + 1, 0 + n)) = n
        /\ \A i \in 1 .. n : SubSeq(packet, 0 + 1, 0 + n)[i] = packet[0 + i]
    BY PartAfter
  <2>3. QED
    BY <2>1, <2>2
<1> HIDE DEF cut
<1>3. \A o \in DnsHeader .. root : At(cut, o) = At(packet, o)
  <2> SUFFICES ASSUME NEW o \in DnsHeader .. root PROVE At(cut, o) = At(packet, o)
    OBVIOUS
  <2>1. o + 1 \in 1 .. n
    BY <1>1
  <2>2. QED
    BY <1>2, <2>1 DEF At
<1> DEFINE Labels(p) ==
              \E labels \in SUBSET (DnsHeader .. root - 1) :
                 /\ DnsHeader \in labels \cup {root}
                 /\ \A o \in labels : /\ At(p, o) \in 1 .. MaxLabel
                                      /\ o + At(p, o) + 1 \in labels \cup {root}
<1>4. \A p : IsQuestion(p, e) <=> e <= Len(p) /\ root >= DnsHeader /\ At(p, root) = 0 /\ Labels(p)
  BY DEF IsQuestion
<1>5. CASE root >= DnsHeader
  <2>1. At(cut, root) = At(packet, root)
    BY <1>1, <1>3, <1>5
  <2>2. \A o \in DnsHeader .. root - 1 : At(cut, o) = At(packet, o)
    BY <1>1, <1>3
  <2>3. Labels(cut) <=> Labels(packet)
    <3>1. ASSUME NEW labels \in SUBSET (DnsHeader .. root - 1), NEW o \in labels
          PROVE  At(cut, o) = At(packet, o)
      BY <2>2
    <3>2. QED
      BY <3>1
  <2> HIDE DEF Labels, root
  <2>4. e <= Len(packet) /\ e <= Len(cut)
    BY <1>1, <1>2
  <2>5. IsQuestion(cut, e) <=> IsQuestion(packet, e)
    BY <1>4, <2>1, <2>3, <2>4, Zenon
  <2>6. QED
    BY <2>5 DEF cut
<1>6. CASE ~ root >= DnsHeader
  <2> HIDE DEF Labels, root
  <2>1. QED
    BY <1>4, <1>6
<1>7. QED
  BY <1>5, <1>6

\* What the datagram service answers.
LEMMA AnswerIs ==
    ASSUME NEW packet \in Seq(Symbols), NEW address,
           NEW ends, ends = {e \in 0 .. Min({Len(packet), Datagram}) : IsQuestion(packet, e)}
    PROVE  IF ends = {} \/ ~ IsAddress(address)
           THEN handle_dns_packet(packet, address) = Nothing
           ELSE /\ handle_dns_packet(packet, address).address = address.octets
                /\ handle_dns_packet(packet, address).question \in
                      {SubSeq(packet, DnsHeader + 1, e) : e \in ends}
<1> DEFINE n == Min({Len(packet), Datagram})
           request == SubSeq(packet, 1, n)
           end == NameEnd(request) + 5
<1>1. Len(packet) \in Nat /\ Datagram \in Nat /\ DnsHeader \in Nat
  BY LenProperties, Numbers
<1>2. n = IF Len(packet) <= Datagram THEN Len(packet) ELSE Datagram
  BY <1>1, MinOfTwo
<1>3. handle_dns_packet(packet, address) = dns_a_response(request, address)
  <2>1. CASE Len(packet) > Datagram
    <3>1. n = Datagram
      BY <1>1, <1>2, <2>1
    <3>2. QED
      BY <2>1, <3>1 DEF handle_dns_packet
  <2>2. CASE ~ Len(packet) > Datagram
    <3>1. n = Len(packet)
      BY <1>1, <1>2, <2>2
    <3>2. request = packet
      BY <3>1, SubSeqFull
    <3>3. QED
      BY <2>2, <3>2 DEF handle_dns_packet
  <2>3. QED
    BY <2>1, <2>2
<1>4. n \in Nat /\ n <= Len(packet)
  BY <1>1, <1>2
<1> HIDE DEF n
<1>5. request \in Seq(Symbols) /\ Len(request) = n
  <2>1. n - 1 + 1 = n /\ 1 \in Nat \ {0} /\ 1 <= n + 1
    BY <1>4
  <2>2. request \in Seq(Symbols) /\ Len(request) = n - 1 + 1
    BY <1>4, <2>1, Part
  <2>3. QED
    BY <2>1, <2>2
<1>6. ends = {e \in 0 .. n : IsQuestion(request, e)}
  <2>1. ASSUME NEW e \in 0 .. n PROVE IsQuestion(packet, e) <=> IsQuestion(request, e)
    <3>1. e \in Nat /\ e <= n
      BY <1>4
    <3>2. QED
      BY <1>4, <3>1, CutQuestion
  <2>2. ends = {e \in 0 .. n : IsQuestion(packet, e)}
    BY DEF n
  <2> HIDE DEF request
  <2>3. QED
    BY <2>1, <2>2
<1> HIDE DEF request
<1>7. \A e \in Nat : IsQuestion(request, e) =>
          /\ NameEnd(request) = e - 5 /\ NameEnd(request) # Bad
          /\ e <= Len(request) /\ Len(request) >= DnsHeader
  BY <1>5, QuestionIs
<1>8. NameEnd(request) # Bad /\ NameEnd(request) + 5 <= Len(request) =>
          NameEnd(request) \in Nat /\ IsQuestion(request, NameEnd(request) + 5)
  BY <1>5, QuestionIs
<1>9. CASE ends = {} \/ ~ IsAddress(address)
  <2>1. CASE ~ IsAddress(address)
    BY <1>3, <1>9, <2>1 DEF dns_a_response
  <2>2. CASE ends = {}
    <3>1. ~ (NameEnd(request) # Bad /\ NameEnd(request) + 5 <= Len(request))
      <4>1. ASSUME NameEnd(request) # Bad, NameEnd(request) + 5 <= Len(request)
            PROVE FALSE
        <5>1. NameEnd(request) + 5 \in 0 .. n /\ IsQuestion(request, NameEnd(request) + 5)
          BY <1>4, <1>5, <1>8, <4>1
        <5>2. QED
          BY <1>6, <2>2, <5>1
      <4>2. QED
        BY <4>1
    <3>2. NameEnd(request) = Bad \/ NameEnd(request) + 5 > Len(request)
      <4>1. NameEnd(request) \in Int
        <5>1. PICK f : /\ NameEnd(request) = f[DnsHeader]
                       /\ \A o \in Nat : f[o] = Label(request, f, o)
          BY <1>5, NameEndIs
        <5>2. QED
          BY <1>1, <1>5, <5>1, EndsAhead DEF Bad
      <4>2. QED
        BY <1>4, <1>5, <3>1, <4>1
    <3>3. QED
      BY <1>3, <1>9, <3>2 DEF dns_a_response
  <2>3. QED
    BY <1>9, <2>1, <2>2
<1>10. CASE ~ (ends = {} \/ ~ IsAddress(address))
  <2>1. PICK e \in ends : TRUE
    BY <1>10
  <2>2. e \in Nat /\ e <= n /\ IsQuestion(request, e)
    BY <1>4, <1>6, <2>1
  <2>3. /\ NameEnd(request) + 5 = e /\ NameEnd(request) # Bad
        /\ ~ Len(request) < DnsHeader /\ ~ NameEnd(request) + 5 > Len(request)
    BY <1>1, <1>4, <1>5, <1>7, <2>2
  <2>4. dns_a_response(request, address) =
            [kind |-> "answer", id |-> SubSeq(request, 1, 2), address |-> address.octets,
             question |-> SubSeq(request, DnsHeader + 1, NameEnd(request) + 5)]
    BY <1>10, <2>3 DEF dns_a_response
  <2>5. SubSeq(request, DnsHeader + 1, e) = SubSeq(packet, DnsHeader + 1, e)
    <3>1. e - 5 >= DnsHeader
      BY <2>2 DEF IsQuestion
    <3>2. DnsHeader + 1 \in 1 .. n /\ e \in 1 .. n
      BY <1>1, <1>4, <2>2, <3>1
    <3>3. QED
      BY <1>4, <3>2, PartOfCut DEF request
  <2>6. /\ dns_a_response(request, address).address = address.octets
        /\ dns_a_response(request, address).question =
              SubSeq(request, DnsHeader + 1, NameEnd(request) + 5)
    <3> DEFINE answer == dns_a_response(request, address)
               i == SubSeq(request, 1, 2)
               a == address.octets
               q == SubSeq(request, DnsHeader + 1, NameEnd(request) + 5)
    <3>1. answer = [kind |-> "answer", id |-> i, address |-> a, question |-> q]
      BY <2>4
    <3> HIDE DEF answer, i, a, q
    <3>2. answer.address = a /\ answer.question = q
      BY <3>1
    <3>3. QED
      BY <3>2 DEF answer, a, q
  <2>7. QED
    BY <1>3, <1>10, <2>1, <2>3, <2>5, <2>6
<1>11. QED
  BY <1>9, <1>10

(***************************************************************************)
(* Base64.                                                                 *)
(***************************************************************************)
LEMMA Powers ==
    /\ 2 ^ 0 = 1 /\ 2 ^ 1 = 2 /\ 2 ^ 2 = 4 /\ 2 ^ 3 = 8
    /\ 2 ^ 4 = 16 /\ 2 ^ 5 = 32 /\ 2 ^ 6 = 64 /\ 2 ^ 7 = 128
BY SMT

\* Three bytes as four numbers of six bits: bit by bit, in order.
SameBits(a, b, d) ==
    /\ \A j \in 0 .. 5 : Bit(a \div 4, j, 6) = Bit(a, j, 8)
    /\ \A j \in 0 .. 1 : Bit((a % 4) * 16 + (b \div 16), j, 6) = Bit(a, 6 + j, 8)
    /\ \A j \in 2 .. 5 : Bit((a % 4) * 16 + (b \div 16), j, 6) = Bit(b, j - 2, 8)
    /\ \A j \in 0 .. 3 : Bit((b % 16) * 4 + (d \div 64), j, 6) = Bit(b, 4 + j, 8)
    /\ \A j \in 4 .. 5 : Bit((b % 16) * 4 + (d \div 64), j, 6) = Bit(d, j - 4, 8)
    /\ \A j \in 0 .. 5 : Bit(d % 64, j, 6) = Bit(d, 2 + j, 8)

\* For any three bytes.
LEMMA BitsOfFour ==
    ASSUME NEW a \in 0 .. 255, NEW b \in 0 .. 255, NEW d \in 0 .. 255
    PROVE  SameBits(a, b, d)
<1> DEFINE second == (a % 4) * 16 + (b \div 16)
           third == (b % 16) * 4 + (d \div 64)
<1>1. ((a \div 4) \div 32) % 2 = (a \div 128) % 2
  OBVIOUS
<1>2. ((a \div 4) \div 16) % 2 = (a \div 64) % 2
  OBVIOUS
<1>3. ((a \div 4) \div 8) % 2 = (a \div 32) % 2
  OBVIOUS
<1>4. ((a \div 4) \div 4) % 2 = (a \div 16) % 2
  OBVIOUS
<1>5. ((a \div 4) \div 2) % 2 = (a \div 8) % 2
  OBVIOUS
<1>6. ((a \div 4) \div 1) % 2 = (a \div 4) % 2
  OBVIOUS
<1>7. (second \div 32) % 2 = (a \div 2) % 2
  OBVIOUS
<1>8. (second \div 16) % 2 = (a \div 1) % 2
  OBVIOUS
<1>9. (second \div 8) % 2 = (b \div 128) % 2
  OBVIOUS
<1>10. (second \div 4) % 2 = (b \div 64) % 2
  OBVIOUS
<1>11. (second \div 2) % 2 = (b \div 32) % 2
  OBVIOUS
<1>12. (second \div 1) % 2 = (b \div 16) % 2
  OBVIOUS
<1>13. (third \div 32) % 2 = (b \div 8) % 2
  OBVIOUS
<1>14. (third \div 16) % 2 = (b \div 4) % 2
  OBVIOUS
<1>15. (third \div 8) % 2 = (b \div 2) % 2
  OBVIOUS
<1>16. (third \div 4) % 2 = (b \div 1) % 2
  OBVIOUS
<1>17. (third \div 2) % 2 = (d \div 128) % 2
  OBVIOUS
<1>18. (third \div 1) % 2 = (d \div 64) % 2
  OBVIOUS
<1>19. ((d % 64) \div 32) % 2 = (d \div 32) % 2
  OBVIOUS
<1>20. ((d % 64) \div 16) % 2 = (d \div 16) % 2
  OBVIOUS
<1>21. ((d % 64) \div 8) % 2 = (d \div 8) % 2
  OBVIOUS
<1>22. ((d % 64) \div 4) % 2 = (d \div 4) % 2
  OBVIOUS
<1>23. ((d % 64) \div 2) % 2 = (d \div 2) % 2
  OBVIOUS
<1>24. ((d % 64) \div 1) % 2 = (d \div 1) % 2
  OBVIOUS
<1> HIDE DEF second, third
<1>25. \A x : /\ Bit(x, 0, 6) = (x \div 32) % 2
           /\ Bit(x, 1, 6) = (x \div 16) % 2
           /\ Bit(x, 2, 6) = (x \div 8) % 2
           /\ Bit(x, 3, 6) = (x \div 4) % 2
           /\ Bit(x, 4, 6) = (x \div 2) % 2
           /\ Bit(x, 5, 6) = (x \div 1) % 2
  BY Powers DEF Bit
<1>26. \A x : /\ Bit(x, 0, 8) = (x \div 128) % 2
           /\ Bit(x, 1, 8) = (x \div 64) % 2
           /\ Bit(x, 2, 8) = (x \div 32) % 2
           /\ Bit(x, 3, 8) = (x \div 16) % 2
           /\ Bit(x, 4, 8) = (x \div 8) % 2
           /\ Bit(x, 5, 8) = (x \div 4) % 2
           /\ Bit(x, 6, 8) = (x \div 2) % 2
           /\ Bit(x, 7, 8) = (x \div 1) % 2
  BY Powers DEF Bit
<1>27. \A j \in 0 .. 5 : Bit(a \div 4, j, 6) = Bit(a, j, 8)
  BY <1>1, <1>2, <1>3, <1>4, <1>5, <1>6, <1>25, <1>26
<1>28. \A j \in 0 .. 1 : Bit(second, j, 6) = Bit(a, 6 + j, 8)
  BY <1>7, <1>8, <1>25, <1>26
<1>29. \A j \in 2 .. 5 : Bit(second, j, 6) = Bit(b, j - 2, 8)
  BY <1>9, <1>10, <1>11, <1>12, <1>25, <1>26
<1>30. \A j \in 0 .. 3 : Bit(third, j, 6) = Bit(b, 4 + j, 8)
  BY <1>13, <1>14, <1>15, <1>16, <1>25, <1>26
<1>31. \A j \in 4 .. 5 : Bit(third, j, 6) = Bit(d, j - 4, 8)
  BY <1>17, <1>18, <1>25, <1>26
<1>32. \A j \in 0 .. 5 : Bit(d % 64, j, 6) = Bit(d, 2 + j, 8)
  BY <1>19, <1>20, <1>21, <1>22, <1>23, <1>24, <1>25, <1>26
<1>33. QED
  BY <1>27, <1>28, <1>29, <1>30, <1>31, <1>32 DEF second, third, SameBits

\* Byte j of a text, or what base64_encode takes instead behind its end.
ByteAt(text, j) == IF j < Len(text) THEN text[j + 1] ELSE 0

\* It is a byte.
LEMMA ByteIs ==
    ASSUME NEW text \in Seq(Octet), NEW j \in Nat
    PROVE  ByteAt(text, j) \in 0 .. 255
<1>1. CASE j < Len(text)
  <2>1. j + 1 \in 1 .. Len(text)
    BY <1>1, LenProperties
  <2>2. text[j + 1] \in Octet
    BY <2>1, ElementOfSeq
  <2>3. QED
    BY <1>1, <2>2, ConstantsAssumption DEF ByteAt
<1>2. CASE ~ j < Len(text)
  BY <1>2 DEF ByteAt
<1>3. QED
  BY <1>1, <1>2

\* The characters of a group: its four numbers, or padding.
LEMMA SextetIs ==
    ASSUME NEW text \in Seq(Octet), NEW g \in Nat
    PROVE  LET a == ByteAt(text, 3 * g)
               b == ByteAt(text, 3 * g + 1)
               d == ByteAt(text, 3 * g + 2)
           IN  /\ Sextet(text, g, 0) = a \div 4
               /\ Sextet(text, g, 1) = (a % 4) * 16 + (b \div 16)
               /\ Sextet(text, g, 2) = IF 3 * g + 2 <= Len(text)
                                       THEN (b % 16) * 4 + (d \div 64) ELSE 64
               /\ Sextet(text, g, 3) = IF 3 * g + 3 <= Len(text) THEN d % 64 ELSE 64
<1> DEFINE a == ByteAt(text, 3 * g)
           b == ByteAt(text, 3 * g + 1)
           d == ByteAt(text, 3 * g + 2)
           chunk == a * 65536 + b * 256 + d
<1>1. \A c, p : p = 64 ^ (3 - c) =>
        Sextet(text, g, c) = IF c <= 1 \/ 3 * g + c <= Len(text)
                             THEN (chunk \div p) % 64 ELSE 64
  BY DEF Sextet, ByteAt
<1>2. 3 * g \in Nat /\ 3 * g + 1 \in Nat /\ 3 * g + 2 \in Nat
  OBVIOUS
<1>3. a \in 0 .. 255 /\ b \in 0 .. 255 /\ d \in 0 .. 255
  BY <1>2, ByteIs
<1> HIDE DEF a, b, d
<1>4. /\ (chunk \div 64 ^ 3) % 64 = a \div 4
      /\ (chunk \div 64 ^ 2) % 64 = (a % 4) * 16 + (b \div 16)
      /\ (chunk \div 64 ^ 1) % 64 = (b % 16) * 4 + (d \div 64)
      /\ (chunk \div 64 ^ 0) % 64 = d % 64
  <2>1. (chunk \div 262144) % 64 = a \div 4
    BY <1>3
  <2>2. (chunk \div 4096) % 64 = (a % 4) * 16 + (b \div 16)
    <3>1. chunk \div 4096 = 16 * a + (b \div 16)
      BY <1>3
    <3>2. (16 * a + (b \div 16)) % 64 = (a % 4) * 16 + (b \div 16)
      BY <1>3
    <3> HIDE DEF chunk
    <3>3. QED
      BY <3>1, <3>2
  <2>3. (chunk \div 64) % 64 = (b % 16) * 4 + (d \div 64)
    <3>1. chunk \div 64 = 1024 * a + 4 * b + (d \div 64)
      BY <1>3
    <3>2. (1024 * a + 4 * b + (d \div 64)) % 64 = (b % 16) * 4 + (d \div 64)
      BY <1>3
    <3> HIDE DEF chunk
    <3>3. QED
      BY <3>1, <3>2
  <2>4. (chunk \div 1) % 64 = d % 64
    BY <1>3
  <2> HIDE DEF chunk
  <2>5. 64 ^ 3 = 262144 /\ 64 ^ 2 = 4096 /\ 64 ^ 1 = 64 /\ 64 ^ 0 = 1
    BY SMT
  <2>6. QED
    BY <2>1, <2>2, <2>3, <2>4, <2>5
<1> HIDE DEF chunk
<1>5. Sextet(text, g, 0) = (chunk \div 64 ^ 3) % 64
  <2>1. 64 ^ 3 = 64 ^ (3 - 0) /\ 0 <= 1
    BY SMT
  <2>2. \A p : p = 64 ^ (3 - 0) =>
            Sextet(text, g, 0) = IF 0 <= 1 \/ 3 * g + 0 <= Len(text)
                                 THEN (chunk \div p) % 64 ELSE 64
    BY <1>1, Zenon
  <2>3. Sextet(text, g, 0) = IF 0 <= 1 \/ 3 * g + 0 <= Len(text)
                             THEN (chunk \div 64 ^ 3) % 64 ELSE 64
    BY <2>1, <2>2, Zenon
  <2>4. QED
    BY <2>1, <2>3
<1>6. Sextet(text, g, 1) = (chunk \div 64 ^ 2) % 64
  <2>1. 64 ^ 2 = 64 ^ (3 - 1) /\ 1 <= 1
    BY SMT
  <2>2. \A p : p = 64 ^ (3 - 1) =>
            Sextet(text, g, 1) = IF 1 <= 1 \/ 3 * g + 1 <= Len(text)
                                 THEN (chunk \div p) % 64 ELSE 64
    BY <1>1, Zenon
  <2>3. Sextet(text, g, 1) = IF 1 <= 1 \/ 3 * g + 1 <= Len(text)
                             THEN (chunk \div 64 ^ 2) % 64 ELSE 64
    BY <2>1, <2>2, Zenon
  <2>4. QED
    BY <2>1, <2>3
<1>7. Sextet(text, g, 2) = IF 3 * g + 2 <= Len(text)
                           THEN (chunk \div 64 ^ 1) % 64 ELSE 64
  <2>1. 64 ^ 1 = 64 ^ (3 - 2) /\ ~ 2 <= 1
    BY SMT
  <2>2. QED
    BY <1>1, <2>1, Zenon
<1>8. Sextet(text, g, 3) = IF 3 * g + 3 <= Len(text)
                           THEN (chunk \div 64 ^ 0) % 64 ELSE 64
  <2>1. 64 ^ 0 = 64 ^ (3 - 3) /\ ~ 3 <= 1
    BY SMT
  <2>2. QED
    BY <1>1, <2>1, Zenon
<1>9. QED
  BY <1>4, <1>5, <1>6, <1>7, <1>8, Zenon DEF a, b, d

\* Character 4 * g + c + 1 of the encoding, if there is one, belongs to a
\* group that has a byte; it is padding exactly behind the bits of the text.
LEMMA GroupIs ==
    ASSUME NEW text \in Seq(Octet), NEW g \in Nat, NEW c \in 0 .. 3,
           4 * g + c + 1 <= 4 * ((Len(text) + 2) \div 3)
    PROVE  /\ base64_encode(text)[4 * g + c + 1] = Sextet(text, g, c)
           /\ 3 * g < Len(text)
           /\ Sextet(text, g, c) = 64 <=> 4 * g + c + 1 > (8 * Len(text) + 5) \div 6
<1> DEFINE n == Len(text)
           i == 4 * g + c + 1
           a == ByteAt(text, 3 * g)
           b == ByteAt(text, 3 * g + 1)
           d == ByteAt(text, 3 * g + 2)
<1>1. n \in Nat
  BY LenProperties
<1>2. base64_encode(text)[i] = Sextet(text, g, c)
  <2>1. i \in 1 .. 4 * ((n + 2) \div 3)
    BY <1>1
  <2>2. (i - 1) \div 4 = g /\ (i - 1) % 4 = c
    OBVIOUS
  <2> HIDE DEF i
  <2>3. QED
    BY <2>1, <2>2 DEF base64_encode
<1>3. 3 * g < n
  BY <1>1
<1>4. /\ Sextet(text, g, 0) = a \div 4
      /\ Sextet(text, g, 1) = (a % 4) * 16 + (b \div 16)
      /\ Sextet(text, g, 2) = IF 3 * g + 2 <= n THEN (b % 16) * 4 + (d \div 64) ELSE 64
      /\ Sextet(text, g, 3) = IF 3 * g + 3 <= n THEN d % 64 ELSE 64
  BY SextetIs
<1>5. a \in 0 .. 255 /\ b \in 0 .. 255 /\ d \in 0 .. 255
  <2>1. 3 * g \in Nat /\ 3 * g + 1 \in Nat /\ 3 * g + 2 \in Nat
    OBVIOUS
  <2>2. QED
    BY <2>1, ByteIs
<1> HIDE DEF a, b, d, n
<1>6. /\ a \div 4 # 64 /\ (a % 4) * 16 + (b \div 16) # 64
      /\ (b % 16) * 4 + (d \div 64) # 64 /\ d % 64 # 64
  BY <1>5
<1>7. Sextet(text, g, c) = 64 <=> c > 1 /\ 3 * g + c > n
  BY <1>1, <1>4, <1>6
<1>8. (c > 1 /\ 3 * g + c > n) <=> i > (8 * n + 5) \div 6
  BY <1>1, <1>3
<1>9. QED
  BY <1>2, <1>3, <1>7, <1>8 DEF n

\* Zero has no bit.
LEMMA BitOfNothing == \A k \in 0 .. 7 : Bit(0, k, 8) = 0
<1>1. /\ Bit(0, 0, 8) = (0 \div 128) % 2 /\ Bit(0, 1, 8) = (0 \div 64) % 2
      /\ Bit(0, 2, 8) = (0 \div 32) % 2  /\ Bit(0, 3, 8) = (0 \div 16) % 2
      /\ Bit(0, 4, 8) = (0 \div 8) % 2   /\ Bit(0, 5, 8) = (0 \div 4) % 2
      /\ Bit(0, 6, 8) = (0 \div 2) % 2   /\ Bit(0, 7, 8) = (0 \div 1) % 2
  BY Powers DEF Bit
<1>2. QED
  BY <1>1

\* Bit k of the encoding is bit k of the text, and zero behind its end.
LEMMA BitIs ==
    ASSUME NEW text \in Seq(Octet), NEW k \in 0 .. 6 * ((8 * Len(text) + 5) \div 6) - 1
    PROVE  Bit(base64_encode(text)[k \div 6 + 1], k % 6, 6) =
              IF k < 8 * Len(text) THEN Bit(text[k \div 8 + 1], k % 8, 8) ELSE 0
<1> DEFINE n == Len(text)
           g == k \div 24
           c == (k % 24) \div 6
           j == k % 6
           a == ByteAt(text, 3 * g)
           b == ByteAt(text, 3 * g + 1)
           d == ByteAt(text, 3 * g + 2)
<1>1. n \in Nat /\ k \in Nat /\ k < 6 * ((8 * n + 5) \div 6)
  BY LenProperties
<1>2. /\ g \in Nat /\ c \in 0 .. 3 /\ j \in 0 .. 5
      /\ k = 24 * g + 6 * c + j /\ k \div 6 = 4 * g + c
  BY <1>1
<1> HIDE DEF g, c, j
<1>3. 4 * g + c + 1 <= (8 * n + 5) \div 6
  BY <1>1, <1>2
<1>4. 4 * g + c + 1 <= 4 * ((n + 2) \div 3)
  BY <1>1, <1>2, <1>3
<1>5. base64_encode(text)[k \div 6 + 1] = Sextet(text, g, c) /\ Sextet(text, g, c) # 64
  <2>1. k \div 6 + 1 = 4 * g + c + 1
    BY <1>2
  <2>2. 4 * g + c + 1 \in Nat /\ ~ 4 * g + c + 1 > (8 * n + 5) \div 6
    BY <1>1, <1>2, <1>3
  <2>3. QED
    BY <1>2, <1>4, <2>1, <2>2, GroupIs
<1>6. (IF k < 8 * n THEN Bit(text[k \div 8 + 1], k % 8, 8) ELSE 0)
            = Bit(ByteAt(text, k \div 8), k % 8, 8)
  <2>1. k < 8 * n <=> k \div 8 < n
    BY <1>1
  <2>2. k % 8 \in 0 .. 7
    BY <1>1
  <2>3. QED
    BY <2>1, <2>2, BitOfNothing DEF ByteAt
<1>7. a \in 0 .. 255 /\ b \in 0 .. 255 /\ d \in 0 .. 255
  <2>1. 3 * g \in Nat /\ 3 * g + 1 \in Nat /\ 3 * g + 2 \in Nat
    BY <1>2
  <2>2. QED
    BY <2>1, ByteIs
<1>8. /\ Sextet(text, g, 0) = a \div 4
      /\ Sextet(text, g, 1) = (a % 4) * 16 + (b \div 16)
      /\ Sextet(text, g, 2) = IF 3 * g + 2 <= n THEN (b % 16) * 4 + (d \div 64) ELSE 64
      /\ Sextet(text, g, 3) = IF 3 * g + 3 <= n THEN d % 64 ELSE 64
  BY <1>2, SextetIs
<1> HIDE DEF a, b, d, n
<1>9. /\ \A i \in 0 .. 5 : Bit(a \div 4, i, 6) = Bit(a, i, 8)
      /\ \A i \in 0 .. 1 : Bit((a % 4) * 16 + (b \div 16), i, 6) = Bit(a, 6 + i, 8)
      /\ \A i \in 2 .. 5 : Bit((a % 4) * 16 + (b \div 16), i, 6) = Bit(b, i - 2, 8)
      /\ \A i \in 0 .. 3 : Bit((b % 16) * 4 + (d \div 64), i, 6) = Bit(b, 4 + i, 8)
      /\ \A i \in 4 .. 5 : Bit((b % 16) * 4 + (d \div 64), i, 6) = Bit(d, i - 4, 8)
      /\ \A i \in 0 .. 5 : Bit(d % 64, i, 6) = Bit(d, 2 + i, 8)
  <2>1. SameBits(a, b, d)
    BY <1>7, BitsOfFour, Zenon
  <2>2. QED
    BY <2>1 DEF SameBits
<1>10. Bit(Sextet(text, g, c), j, 6) = Bit(ByteAt(text, k \div 8), k % 8, 8)
  <2>1. CASE c = 0
    <3>1. k \div 8 = 3 * g /\ k % 8 = j
      BY <1>2, <2>1
    <3>2. Bit(a \div 4, j, 6) = Bit(a, j, 8)
      BY <1>2, <1>9
    <3>3. QED
      BY <2>1, <3>1, <3>2, <1>8 DEF a
  <2>2. CASE c = 1 /\ j \in 0 .. 1
    <3>1. k \div 8 = 3 * g /\ k % 8 = 6 + j
      BY <1>2, <2>2
    <3>2. Bit((a % 4) * 16 + (b \div 16), j, 6) = Bit(a, 6 + j, 8)
      BY <2>2, <1>9
    <3>3. QED
      BY <2>2, <3>1, <3>2, <1>8 DEF a
  <2>3. CASE c = 1 /\ j \in 2 .. 5
    <3>1. k \div 8 = 3 * g + 1 /\ k % 8 = j - 2
      BY <1>2, <2>3
    <3>2. Bit((a % 4) * 16 + (b \div 16), j, 6) = Bit(b, j - 2, 8)
      BY <2>3, <1>9
    <3>3. QED
      BY <2>3, <3>1, <3>2, <1>8 DEF b
  <2>4. CASE c = 2 /\ j \in 0 .. 3
    <3>1. k \div 8 = 3 * g + 1 /\ k % 8 = 4 + j
      BY <1>2, <2>4
    <3>2. Bit((b % 16) * 4 + (d \div 64), j, 6) = Bit(b, 4 + j, 8)
      BY <2>4, <1>9
    <3>3. Sextet(text, g, c) = (b % 16) * 4 + (d \div 64)
      BY <2>4, <1>5, <1>8
    <3>4. QED
      BY <3>1, <3>2, <3>3 DEF b
  <2>5. CASE c = 2 /\ j \in 4 .. 5
    <3>1. k \div 8 = 3 * g + 2 /\ k % 8 = j - 4
      BY <1>2, <2>5
    <3>2. Bit((b % 16) * 4 + (d \div 64), j, 6) = Bit(d, j - 4, 8)
      BY <2>5, <1>9
    <3>3. Sextet(text, g, c) = (b % 16) * 4 + (d \div 64)
      BY <2>5, <1>5, <1>8
    <3>4. QED
      BY <3>1, <3>2, <3>3 DEF d
  <2>6. CASE c = 3
    <3>1. k \div 8 = 3 * g + 2 /\ k % 8 = 2 + j
      BY <1>2, <2>6
    <3>2. Bit(d % 64, j, 6) = Bit(d, 2 + j, 8)
      BY <1>2, <1>9
    <3>3. Sextet(text, g, c) = d % 64
      BY <2>6, <1>5, <1>8
    <3>4. QED
      BY <3>1, <3>2, <3>3 DEF d
  <2>7. QED
    BY <1>2, <2>1, <2>2, <2>3, <2>4, <2>5, <2>6
<1>11. QED
  BY <1>5, <1>6, <1>10 DEF j, n

\* The length of an encoding, its padding and its bits.
LEMMA EncodingIs ==
    ASSUME NEW text \in Seq(Octet)
    PROVE  LET code == base64_encode(text)
               used == (8 * Len(text) + 5) \div 6
           IN  /\ Len(code) % 4 = 0 /\ Len(code) < used + 4
               /\ \A i \in DOMAIN code : (code[i] = 64) <=> (i > used)
               /\ \A k \in 0 .. 6 * used - 1 :
                       Bit(code[k \div 6 + 1], k % 6, 6) =
                           IF k < 8 * Len(text) THEN Bit(text[k \div 8 + 1], k % 8, 8) ELSE 0
<1> DEFINE n == Len(text)
           code == base64_encode(text)
           used == (8 * n + 5) \div 6
           size == 4 * ((n + 2) \div 3)
<1>1. n \in Nat /\ size \in Nat
  BY LenProperties
<1>2. DOMAIN code = 1 .. size /\ Len(code) = size
  <2>1. code = [i \in 1 .. size |-> Sextet(text, (i - 1) \div 4, (i - 1) % 4)]
    BY DEF base64_encode
  <2> HIDE DEF size, code
  <2>2. QED
    BY <1>1, <2>1, SeqOfFunction
<1>3. size % 4 = 0 /\ size < used + 4
  BY <1>1
<1>4. \A i \in DOMAIN code : (code[i] = 64) <=> (i > used)
  <2> SUFFICES ASSUME NEW i \in DOMAIN code
               PROVE  (code[i] = 64) <=> (i > used)
    OBVIOUS
  <2> DEFINE g == (i - 1) \div 4
             c == (i - 1) % 4
  <2>1. i \in Nat /\ 1 <= i /\ i <= size
    BY <1>1, <1>2
  <2>2. g \in Nat /\ c \in 0 .. 3 /\ i = 4 * g + c + 1
    BY <2>1
  <2> HIDE DEF g, c
  <2>3. 4 * g + c + 1 <= 4 * ((Len(text) + 2) \div 3)
    BY <2>1, <2>2
  <2>4. QED
    BY <2>2, <2>3, GroupIs
<1>5. \A k \in 0 .. 6 * used - 1 :
          Bit(code[k \div 6 + 1], k % 6, 6) =
              IF k < 8 * Len(text) THEN Bit(text[k \div 8 + 1], k % 8, 8) ELSE 0
  BY BitIs
<1> HIDE DEF size
<1>6. QED
  BY <1>2, <1>3, <1>4, <1>5

(***************************************************************************)
(* Parts put one after another.                                            *)
(***************************************************************************)
\* FlattenSeq appends part after part.
LEMMA FlattenIs ==
    ASSUME NEW S, NEW parts \in Seq(Seq(S)), parts # <<>>
    PROVE  \E f \in [1 .. Len(parts) -> Seq(S)] :
              /\ FlattenSeq(parts) = f[Len(parts)] /\ f[1] = parts[1]
              /\ \A i \in 2 .. Len(parts) : f[i] = f[i - 1] \o parts[i]
<1> DEFINE n == Len(parts)
           Extend(f, i) == IF i = 1 THEN parts[i] ELSE f[i - 1] \o parts[i]
           M == {k \in Nat : k < n => \E f \in [1 .. k + 1 -> Seq(S)] :
                                 \A i \in 1 .. k + 1 : f[i] = Extend(f, i)}
<1>1. /\ n \in Nat \ {0} /\ \A i \in 1 .. n : parts[i] \in Seq(S)
  BY EmptySeq, LenProperties, ElementOfSeq
<1>2. ASSUME NEW k \in Nat, 0 .. k - 1 \subseteq M PROVE k \in M
  <2> SUFFICES ASSUME k < n
               PROVE  \E f \in [1 .. k + 1 -> Seq(S)] :
                         \A i \in 1 .. k + 1 : f[i] = Extend(f, i)
    OBVIOUS
  <2>1. CASE k = 0
    <3> DEFINE f == [i \in 1 .. 1 |-> parts[1]]
    <3>1. f \in [1 .. 1 -> Seq(S)] /\ \A i \in 1 .. 1 : f[i] = Extend(f, i)
      BY <1>1
    <3> HIDE DEF f
    <3>2. QED
      BY <2>1, <3>1
  <2>2. CASE k # 0
    <3>1. k - 1 \in 0 .. k - 1 /\ k - 1 < n /\ (k - 1) + 1 = k
      BY <1>1, <2>2
    <3>2. k - 1 \in M
      BY <1>2, <3>1
    <3>3. PICK f \in [1 .. k -> Seq(S)] : \A i \in 1 .. k : f[i] = Extend(f, i)
      BY <3>1, <3>2
    <3> DEFINE new == [i \in 1 .. k + 1 |->
                          IF i <= k THEN f[i] ELSE f[k] \o parts[k + 1]]
    <3>4. f[k] \o parts[k + 1] \in Seq(S)
      BY <1>1, <2>2, ConcatProperties
    <3>5. new \in [1 .. k + 1 -> Seq(S)]
      BY <3>4
    <3>6. ASSUME NEW i \in 1 .. k + 1 PROVE new[i] = Extend(new, i)
      <4>1. CASE i = k + 1
        <5>1. i # 1 /\ i - 1 = k /\ k \in 1 .. k + 1 /\ ~ i <= k
          BY <2>2, <4>1
        <5>2. QED
          BY <4>1, <5>1
      <4>2. CASE i # k + 1
        <5>1. i \in 1 .. k /\ (i # 1 => i - 1 \in 1 .. k + 1 /\ i - 1 <= k)
          BY <4>2
        <5>2. new[i] = f[i] /\ (i # 1 => new[i - 1] = f[i - 1])
          BY <5>1
        <5> HIDE DEF new
        <5>3. f[i] = Extend(f, i)
          BY <3>3, <5>1, Zenon
        <5>4. QED
          BY <5>2, <5>3
      <4>3. QED
        BY <4>1, <4>2
    <3> HIDE DEF new
    <3>7. QED
      BY <3>5, <3>6
  <2>3. QED
    BY <2>1, <2>2
<1>3. n - 1 \in M
  <2> HIDE DEF M
  <2>1. QED
    BY <1>1, <1>2, Induction
<1>4. PICK f \in [1 .. n -> Seq(S)] : \A i \in 1 .. n : f[i] = Extend(f, i)
  BY <1>1, <1>3
<1> DEFINE chosen == CHOOSE g : g = [i \in 1 .. n |-> Extend(g, i)]
<1>5. f = [i \in 1 .. n |-> Extend(f, i)]
  BY <1>4
<1>6. chosen = [i \in 1 .. n |-> Extend(chosen, i)]
  BY <1>5
<1>7. FlattenSeq(parts) = chosen[n]
  BY <1>1 DEF FlattenSeq
<1> HIDE DEF chosen
<1>8. \A i \in 1 .. n : chosen[i] = Extend(chosen, i)
  BY <1>6
<1> DEFINE Equal == {k \in Nat : k < n => chosen[k + 1] = f[k + 1]}
<1>9. ASSUME NEW k \in Nat, 0 .. k - 1 \subseteq Equal PROVE k \in Equal
  <2> SUFFICES ASSUME k < n PROVE chosen[k + 1] = f[k + 1]
    OBVIOUS
  <2>1. k + 1 \in 1 .. n
    BY <1>1
  <2>2. CASE k = 0
    <3>1. 1 \in 1 .. n
      BY <2>1
    <3>2. chosen[1] = parts[1] /\ f[1] = parts[1]
      BY <1>4, <1>8, <3>1
    <3>3. QED
      BY <2>2, <3>2
  <2>3. CASE k # 0
    <3>1. k - 1 \in 0 .. k - 1 /\ k - 1 < n /\ (k - 1) + 1 = k
      BY <1>1, <2>3
    <3>2. chosen[k] = f[k]
      BY <1>9, <3>1
    <3>3. k + 1 # 1 /\ (k + 1) - 1 = k
      BY <2>3
    <3>4. chosen[k + 1] = chosen[(k + 1) - 1] \o parts[k + 1]
      BY <1>8, <2>1, <3>3
    <3>5. f[k + 1] = f[(k + 1) - 1] \o parts[k + 1]
      BY <1>4, <2>1, <3>3
    <3>6. QED
      BY <3>2, <3>3, <3>4, <3>5
  <2>4. QED
    BY <2>2, <2>3
<1>10. chosen[n] = f[n]
  <2>1. n - 1 \in Equal
    <3> HIDE DEF Equal
    <3>1. QED
      BY <1>1, <1>9, Induction
  <2>2. QED
    BY <1>1, <2>1
<1>11. ASSUME NEW i \in 2 .. n PROVE f[i] = f[i - 1] \o parts[i]
  <2>1. i \in 1 .. n /\ i # 1
    OBVIOUS
  <2>2. QED
    BY <1>4, <2>1
<1>12. f[1] = parts[1]
  <2>1. 1 \in 1 .. n
    BY <1>1
  <2>2. QED
    BY <1>4, <2>1
<1> HIDE DEF n
<1>13. QED
  BY <1>7, <1>10, <1>11, <1>12 DEF n

\* Where the parts of a text start and what is in them.
LaidOut(text, parts, off) ==
    /\ off \in [1 .. Len(parts) + 1 -> Nat]
    /\ off[1] = 0 /\ off[Len(parts) + 1] = Len(text)
    /\ \A i \in 1 .. Len(parts) :
          /\ off[i + 1] = off[i] + Len(parts[i])
          /\ \A j \in 1 .. Len(parts[i]) : text[off[i] + j] = parts[i][j]

\* Parts put one after another are laid out.
LEMMA Flat ==
    ASSUME NEW S, NEW parts \in Seq(Seq(S))
    PROVE  /\ FlattenSeq(parts) \in Seq(S)
           /\ \E off : LaidOut(FlattenSeq(parts), parts, off)
<1>1. CASE parts = <<>>
  <2> DEFINE off == [i \in 1 .. 1 |-> 0]
  <2>1. FlattenSeq(parts) = <<>> /\ Len(parts) = 0
    BY <1>1 DEF FlattenSeq
  <2>2. LaidOut(<<>>, parts, off)
    BY <2>1 DEF LaidOut
  <2> HIDE DEF off
  <2>3. QED
    BY <2>1, <2>2
<1>2. CASE parts # <<>>
  <2> DEFINE n == Len(parts)
  <2>1. n \in Nat \ {0} /\ \A i \in 1 .. n : parts[i] \in Seq(S) /\ Len(parts[i]) \in Nat
    BY <1>2, EmptySeq, LenProperties, ElementOfSeq
  <2>2. PICK f \in [1 .. n -> Seq(S)] :
              /\ FlattenSeq(parts) = f[n] /\ f[1] = parts[1]
              /\ \A i \in 2 .. n : f[i] = f[i - 1] \o parts[i]
    BY <1>2, FlattenIs
  <2> HIDE DEF n
  <2> DEFINE off == [i \in 1 .. n + 1 |-> IF i = 1 THEN 0 ELSE Len(f[i - 1])]
  <2>3. \A i \in 1 .. n : f[i] \in Seq(S) /\ Len(f[i]) \in Nat
    BY <2>2, LenProperties
  <2>4. /\ off \in [1 .. n + 1 -> Nat] /\ off[1] = 0
        /\ \A i \in 1 .. n : off[i + 1] = Len(f[i])
    <3>1. \A i \in 1 .. n + 1 : i # 1 => i - 1 \in 1 .. n
      BY <2>1
    <3>2. \A i \in 1 .. n : i + 1 \in 1 .. n + 1 /\ i + 1 # 1 /\ (i + 1) - 1 = i
      BY <2>1
    <3>3. QED
      BY <2>1, <2>3, <3>1, <3>2
  <2> HIDE DEF off
  <2>5. ASSUME NEW i \in 1 .. n, i # 1
        PROVE  /\ i - 1 \in 1 .. n /\ off[i] = Len(f[i - 1])
               /\ f[i] = f[i - 1] \o parts[i]
               /\ Len(f[i]) = off[i] + Len(parts[i])
               /\ \A j \in 1 .. Len(f[i]) :
                     f[i][j] = IF j <= off[i] THEN f[i - 1][j] ELSE parts[i][j - off[i]]
    <3>1. i - 1 \in 1 .. n /\ (i - 1) + 1 = i /\ i \in 2 .. n
      BY <2>1, <2>5
    <3>2. off[i] = Len(f[i - 1])
      <4>1. off[(i - 1) + 1] = Len(f[i - 1])
        BY <2>4, <3>1
      <4>2. QED
        BY <3>1, <4>1
    <3>3. f[i] = f[i - 1] \o parts[i]
      BY <2>2, <3>1
    <3>4. f[i - 1] \in Seq(S) /\ parts[i] \in Seq(S)
      BY <2>1, <2>3, <3>1
    <3>5. /\ Len(f[i - 1] \o parts[i]) = Len(f[i - 1]) + Len(parts[i])
          /\ \A j \in 1 .. Len(f[i - 1]) + Len(parts[i]) :
                (f[i - 1] \o parts[i])[j] =
                    IF j <= Len(f[i - 1]) THEN f[i - 1][j] ELSE parts[i][j - Len(f[i - 1])]
      BY <3>4, ConcatProperties
    <3> HIDE DEF n
    <3>6. QED
      BY <3>1, <3>2, <3>3, <3>5
  <2>6. ASSUME NEW i \in 1 .. n PROVE off[i + 1] = off[i] + Len(parts[i])
    <3>1. CASE i = 1
      BY <2>1, <2>2, <2>4, <3>1
    <3>2. CASE i # 1
      BY <2>4, <2>5, <3>2
    <3>3. QED
      BY <3>1, <3>2
  <2> DEFINE M == {k \in Nat : k < n =>
                      \A i \in 1 .. k + 1 : \A j \in 1 .. Len(parts[i]) :
                          /\ off[i] + j \in 1 .. Len(f[k + 1])
                          /\ f[k + 1][off[i] + j] = parts[i][j]}
  <2>7. ASSUME NEW k \in Nat, 0 .. k - 1 \subseteq M PROVE k \in M
    <3> SUFFICES ASSUME k < n, NEW i \in 1 .. k + 1, NEW j \in 1 .. Len(parts[i])
                 PROVE  /\ off[i] + j \in 1 .. Len(f[k + 1])
                        /\ f[k + 1][off[i] + j] = parts[i][j]
      OBVIOUS
    <3>1. i \in 1 .. n /\ k + 1 \in 1 .. n /\ Len(parts[i]) \in Nat /\ off[i] \in Nat
      BY <2>1, <2>4
    <3>2. CASE k = 0
      <4>1. i = 1
        BY <3>2
      <4>2. QED
        BY <2>2, <2>4, <3>1, <3>2, <4>1
    <3>3. CASE k # 0
      <4>1. /\ k + 1 # 1 /\ (k + 1) - 1 = k /\ k - 1 \in 0 .. k - 1
            /\ (k - 1) + 1 = k /\ k - 1 < n
        BY <2>1, <3>1, <3>3
      <4>2. /\ off[k + 1] = Len(f[k]) /\ Len(f[k + 1]) = off[k + 1] + Len(parts[k + 1])
            /\ \A x \in 1 .. Len(f[k + 1]) :
                  f[k + 1][x] = IF x <= off[k + 1] THEN f[k][x]
                                ELSE parts[k + 1][x - off[k + 1]]
        BY <2>5, <3>1, <4>1
      <4>3. off[k + 1] \in Nat /\ Len(parts[k + 1]) \in Nat /\ Len(f[k + 1]) \in Nat
        <5>1. k + 1 \in 1 .. n + 1
          BY <2>1, <3>1
        <5>2. off[k + 1] \in Nat
          BY <2>4, <5>1
        <5>3. Len(parts[k + 1]) \in Nat /\ Len(f[k + 1]) \in Nat
          BY <2>1, <2>3, <3>1
        <5>4. QED
          BY <5>2, <5>3
      <4>4. CASE i = k + 1
        <5>1. off[i] + j \in 1 .. Len(f[k + 1]) /\ ~ off[i] + j <= off[k + 1]
          <6>1. off[i] = off[k + 1] /\ Len(parts[i]) = Len(parts[k + 1])
            BY <4>4
          <6>2. Len(f[k + 1]) = off[k + 1] + Len(parts[k + 1])
            BY <4>2
          <6>3. \A u, v \in Nat : \A w \in 1 .. v : u + w \in 1 .. u + v /\ ~ u + w <= u
            OBVIOUS
          <6>4. j \in 1 .. Len(parts[k + 1])
            BY <6>1
          <6>5. /\ off[k + 1] + j \in 1 .. off[k + 1] + Len(parts[k + 1])
                /\ ~ off[k + 1] + j <= off[k + 1]
            BY <4>3, <6>3, <6>4, Zenon
          <6>6. QED
            BY <6>1, <6>2, <6>5, Zenon
        <5>2. (off[i] + j) - off[k + 1] = j
          BY <4>3, <4>4
        <5>3. QED
          BY <4>2, <4>4, <5>1, <5>2
      <4>5. CASE i # k + 1
        <5>1. i \in 1 .. k
          BY <4>5
        <5>2. k - 1 \in M
          BY <2>7, <4>1
        <5>3. off[i] + j \in 1 .. Len(f[k]) /\ f[k][off[i] + j] = parts[i][j]
          BY <4>1, <5>1, <5>2
        <5>4. off[i] + j \in 1 .. Len(f[k + 1]) /\ off[i] + j <= off[k + 1]
          <6>1. off[k + 1] = Len(f[k]) /\ Len(f[k + 1]) = off[k + 1] + Len(parts[k + 1])
            BY <4>2
          <6>2. off[i] + j \in 1 .. off[k + 1]
            BY <5>3, <6>1
          <6>3. off[i] + j \in Nat /\ 1 <= off[i] + j /\ off[i] + j <= off[k + 1]
            BY <4>3, <6>2
          <6>4. off[k + 1] <= Len(f[k + 1])
            <7>1. \A x, y \in Nat : x <= x + y
              OBVIOUS
            <7>2. off[k + 1] <= off[k + 1] + Len(parts[k + 1])
              BY <4>3, <7>1
            <7>3. QED
              BY <6>1, <7>2, Zenon
          <6>5. QED
            BY <4>3, <6>3, <6>4
        <5>5. QED
          BY <4>2, <5>3, <5>4
      <4>6. QED
        BY <4>4, <4>5
    <3>4. QED
      BY <3>2, <3>3
  <2>8. n - 1 \in M
    <3> HIDE DEF M
    <3>1. QED
      BY <2>1, <2>7, Induction
  <2>9. \A i \in 1 .. n : \A j \in 1 .. Len(parts[i]) : f[n][off[i] + j] = parts[i][j]
    <3>1. (n - 1) + 1 = n /\ n - 1 < n
      BY <2>1
    <3>2. QED
      BY <2>8, <3>1
  <2>10. n \in 1 .. n
    BY <2>1
  <2>11. LaidOut(FlattenSeq(parts), parts, off)
    BY <2>2, <2>4, <2>6, <2>9, <2>10 DEF LaidOut, n
  <2>12. QED
    BY <2>2, <2>3, <2>10, <2>11
<1>3. QED
  BY <1>1, <1>2

\* They start in their order, and every symbol is in one of them.
LEMMA PartsInOrder ==
    ASSUME NEW text, NEW parts, Len(parts) \in Nat, NEW off,
           LaidOut(text, parts, off), \A i \in 1 .. Len(parts) : Len(parts[i]) \in Nat
    PROVE  /\ \A i \in 1 .. Len(parts) + 1 : \A j \in i .. Len(parts) + 1 : off[i] <= off[j]
           /\ \A p \in 1 .. Len(text) : \E i \in 1 .. Len(parts) :
                 off[i] < p /\ p <= off[i + 1]
<1> DEFINE n == Len(parts)
<1>1. /\ \A i \in 1 .. n + 1 : off[i] \in Nat
      /\ off[1] = 0 /\ off[n + 1] = Len(text)
      /\ \A i \in 1 .. n : off[i] <= off[i + 1]
  <2>1. \A i \in 1 .. n + 1 : off[i] \in Nat
    BY DEF LaidOut
  <2>2. off[1] = 0 /\ off[n + 1] = Len(text)
    BY DEF LaidOut
  <2>3. ASSUME NEW i \in 1 .. n PROVE off[i] <= off[i + 1]
    <3>1. i \in 1 .. n + 1
      OBVIOUS
    <3>2. off[i + 1] = off[i] + Len(parts[i]) /\ Len(parts[i]) \in Nat
      BY DEF LaidOut
    <3>3. QED
      BY <2>1, <3>1, <3>2
  <2>4. QED
    BY <2>1, <2>2, <2>3
<1>2. n \in Nat
  OBVIOUS
<1> HIDE DEF n
<1>3. ASSUME NEW i \in 1 .. n + 1
      PROVE  \A j \in i .. n + 1 : off[i] <= off[j]
  <2> DEFINE M == {k \in Nat : i + k <= n + 1 => off[i] <= off[i + k]}
  <2>1. ASSUME NEW k \in Nat, 0 .. k - 1 \subseteq M PROVE k \in M
    <3> SUFFICES ASSUME i + k <= n + 1 PROVE off[i] <= off[i + k]
      OBVIOUS
    <3>1. CASE k = 0
      BY <1>1, <3>1
    <3>2. CASE k # 0
      <4>1. k - 1 \in 0 .. k - 1 /\ i + (k - 1) \in 1 .. n /\ (i + (k - 1)) + 1 = i + k
        BY <1>2, <3>2
      <4>2. off[i] <= off[i + (k - 1)]
        <5>1. k - 1 \in M
          BY <2>1, <4>1
        <5>2. QED
          BY <1>2, <4>1, <5>1
      <4>3. off[i + (k - 1)] <= off[i + k]
        BY <1>1, <4>1
      <4>4. off[i] \in Nat /\ off[i + (k - 1)] \in Nat /\ off[i + k] \in Nat
        BY <1>1, <1>2, <4>1
      <4>5. QED
        BY <4>2, <4>3, <4>4
    <3>3. QED
      BY <3>1, <3>2
  <2>2. Nat \subseteq M
    <3> HIDE DEF M
    <3>1. QED
      BY <2>1, Induction
  <2>3. ASSUME NEW j \in i .. n + 1 PROVE off[i] <= off[j]
    <3>1. j - i \in Nat /\ i + (j - i) = j
      BY <1>2
    <3>2. QED
      BY <1>2, <2>2, <3>1
  <2>4. QED
    BY <2>3
<1>4. ASSUME NEW p \in 1 .. Len(text)
      PROVE  \E i \in 1 .. n : off[i] < p /\ p <= off[i + 1]
  <2> DEFINE M == {i \in 1 .. n + 1 : p <= off[i]}
  <2>1. n + 1 \in M /\ M \subseteq Nat
    BY <1>1, <1>2
  <2>2. PICK i \in M : \A j \in M : i <= j
    <3> HIDE DEF M
    <3>1. QED
      BY <2>1, Smallest
  <2>3. i # 1
    BY <1>1, <2>2
  <2>4. i - 1 \in 1 .. n /\ (i - 1) + 1 = i /\ i - 1 \in 1 .. n + 1 /\ ~ i <= i - 1
    BY <1>2, <2>2, <2>3
  <2>5. i - 1 \notin M
    <3> HIDE DEF M
    <3>1. QED
      BY <2>2, <2>4
  <2>6. off[i - 1] < p
    BY <1>1, <2>4, <2>5
  <2>7. QED
    BY <2>2, <2>4, <2>6
<1>5. QED
  BY <1>3, <1>4 DEF n

(***************************************************************************)
(* What is found in a text.                                                *)
(***************************************************************************)
\* A marker is found where its symbols are.
Places(text, marker, from) ==
    {i \in from .. Len(text) - Len(marker) + 1 :
        \A j \in 1 .. Len(marker) : text[i + j - 1] = marker[j]}

\* Found is the set of those places.
LEMMA FoundIs ==
    ASSUME NEW S, NEW text \in Seq(S), NEW marker \in Seq(S), marker # <<>>,
           NEW from \in Nat \ {0}
    PROVE  Found(text, marker, from) = Places(text, marker, from)
<1> DEFINE size == Len(marker)
<1>1. size \in Nat \ {0} /\ Len(text) \in Nat
  BY EmptySeq, LenProperties
<1> SUFFICES ASSUME NEW i \in from .. Len(text) - size + 1
             PROVE  SubSeq(text, i, i + size - 1) = marker
                       <=> \A j \in 1 .. size : text[i + j - 1] = marker[j]
  BY DEF Found, Places
<1> HIDE DEF size
<1> DEFINE end == i + size - 1
           part == SubSeq(text, i, end)
<1>2. /\ end \in Nat /\ end <= Len(text) /\ i <= end + 1 /\ i \in Nat \ {0}
      /\ end - i + 1 = size
  BY <1>1
<1> HIDE DEF end
<1>3. /\ part \in Seq(S) /\ Len(part) = size
      /\ \A j \in 1 .. size : part[j] = text[i + j - 1]
  <2>1. /\ part \in Seq(S) /\ Len(part) = end - i + 1
        /\ \A j \in 1 .. end - i + 1 : part[j] = text[i + j - 1]
    BY <1>2, Part
  <2>2. QED
    BY <1>2, <2>1
<1> HIDE DEF part
<1>4. part = marker <=> \A j \in 1 .. size : text[i + j - 1] = marker[j]
  BY <1>3, SeqEqual DEF size
<1>5. QED
  BY <1>4 DEF part, end

\* The first separator from a place on.
LEMMA NextIs ==
    ASSUME NEW S, NEW text \in Seq(S), NEW separator \in S,
           NEW first \in 1 .. Len(text) + 1
    PROVE  /\ \A next \in first .. Len(text) :
                 text[next] = separator
                 /\ (\A i \in first .. next - 1 : text[i] # separator)
                     => Find(text, <<separator>>, first) = next
           /\ (\A i \in first .. Len(text) : text[i] # separator)
                     => Find(text, <<separator>>, first) = 0
<1>1. /\ <<separator>> \in Seq(S) /\ <<separator>> # <<>> /\ Len(<<separator>>) = 1
      /\ <<separator>>[1] = separator
  OBVIOUS
<1>2. Len(text) \in Nat /\ first \in Nat \ {0}
  BY LenProperties
<1> DEFINE found == Found(text, <<separator>>, first)
<1>3. found \subseteq first .. Len(text)
  BY <1>1, <1>2 DEF Found
<1>4. \A i \in first .. Len(text) : i \in found <=> text[i] = separator
  <2> DEFINE marker == <<separator>>
  <2>1. marker \in Seq(S) /\ marker # <<>> /\ Len(marker) = 1 /\ marker[1] = separator
    BY <1>1
  <2> HIDE DEF marker
  <2>2. Found(text, marker, first) = Places(text, marker, first)
    BY <1>2, <2>1, FoundIs
  <2>3. first .. Len(text) - Len(marker) + 1 = first .. Len(text)
    BY <1>2, <2>1
  <2>4. \A i \in first .. Len(text) :
            (\A j \in 1 .. Len(marker) : text[i + j - 1] = marker[j])
                <=> text[i] = separator
    BY <1>2, <2>1
  <2>5. QED
    BY <2>2, <2>3, <2>4 DEF marker, Places
<1>5. /\ found = {} => Find(text, <<separator>>, first) = 0
      /\ \A i \in found : (\A j \in found : i <= j) => Find(text, <<separator>>, first) = i
  BY <1>1, <1>2, FindFirst
<1> HIDE DEF found
<1>6. ASSUME NEW next \in first .. Len(text), text[next] = separator,
             \A i \in first .. next - 1 : text[i] # separator
      PROVE  Find(text, <<separator>>, first) = next
  <2>1. next \in found
    BY <1>4, <1>6
  <2>2. ASSUME NEW i \in found PROVE next <= i
    <3>1. i \in first .. Len(text) /\ text[i] = separator
      BY <1>3, <1>4
    <3>2. QED
      BY <1>2, <1>6, <3>1
  <2>3. QED
    BY <1>5, <2>1, <2>2
<1>7. ASSUME \A i \in first .. Len(text) : text[i] # separator
      PROVE  Find(text, <<separator>>, first) = 0
  BY <1>3, <1>4, <1>5, <1>7
<1>8. QED
  BY <1>6, <1>7

\* A part up to the next separator or the end of the text.
LEMMA PieceIs ==
    ASSUME NEW S, NEW text \in Seq(S), NEW separator \in S,
           NEW first \in 1 .. Len(text) + 1, NEW piece \in Seq(S),
           first + Len(piece) <= Len(text) + 1,
           \A j \in 1 .. Len(piece) : text[first + j - 1] = piece[j] /\ piece[j] # separator,
           first + Len(piece) <= Len(text) => text[first + Len(piece)] = separator
    PROVE  LET next == Find(text, <<separator>>, first) IN
           /\ next = IF first + Len(piece) <= Len(text) THEN first + Len(piece) ELSE 0
           /\ UpTo(text, first, next) = piece
<1> DEFINE size == Len(piece)
           next == Find(text, <<separator>>, first)
           end == first + size - 1
<1>1. /\ size \in Nat /\ Len(text) \in Nat /\ first \in Nat \ {0}
      /\ end \in Nat /\ end <= Len(text) /\ first <= end + 1 /\ end - first + 1 = size
  BY LenProperties
<1>2. \A i \in first .. first + size - 1 : text[i] # separator
  <2> SUFFICES ASSUME NEW i \in first .. first + size - 1 PROVE text[i] # separator
    OBVIOUS
  <2>1. i - first + 1 \in 1 .. size /\ first + (i - first + 1) - 1 = i
    BY <1>1
  <2>2. text[first + (i - first + 1) - 1] # separator
    BY <2>1
  <2>3. QED
    BY <2>1, <2>2
<1>3. next = IF first + size <= Len(text) THEN first + size ELSE 0
  <2>1. CASE first + size <= Len(text)
    <3>1. first + size \in first .. Len(text)
      BY <1>1, <2>1
    <3>2. text[first + size] = separator
      BY <2>1
    <3>3. QED
      BY <1>2, <2>1, <3>1, <3>2, NextIs
  <2>2. CASE ~ first + size <= Len(text)
    <3>1. first .. Len(text) \subseteq first .. first + size - 1
      BY <1>1, <2>2
    <3>2. QED
      BY <1>2, <2>2, <3>1, NextIs
  <2>3. QED
    BY <2>1, <2>2
<1>4. UpTo(text, first, next) = SubSeq(text, first, end)
  <2> HIDE DEF next, size
  <2>1. CASE first + size <= Len(text)
    <3>1. next = first + size /\ next # 0
      BY <1>1, <1>3, <2>1
    <3>2. UpTo(text, first, next) = SubSeq(text, first, next - 1)
      BY <3>1 DEF UpTo
    <3>3. next - 1 = end
      BY <1>1, <3>1
    <3>4. QED
      BY <3>2, <3>3
  <2>2. CASE ~ first + size <= Len(text)
    <3>1. end = Len(text)
      <4>1. first + size <= Len(text) + 1
        BY DEF size
      <4>2. \A x, y, z \in Nat : x + y <= z + 1 /\ ~ x + y <= z => x + y - 1 = z
        OBVIOUS
      <4>3. first + size - 1 = Len(text)
        BY <1>1, <2>2, <4>1, <4>2, Zenon
      <4>4. QED
        BY <4>3
    <3>2. QED
      BY <1>3, <2>2, <3>1 DEF UpTo
  <2>3. QED
    BY <2>1, <2>2
<1>5. SubSeq(text, first, end) = piece
  <2> HIDE DEF end
  <2>1. /\ SubSeq(text, first, end) \in Seq(S)
        /\ Len(SubSeq(text, first, end)) = end - first + 1
        /\ \A i \in 1 .. end - first + 1 :
              SubSeq(text, first, end)[i] = text[first + i - 1]
    BY <1>1, Part
  <2>2. /\ Len(SubSeq(text, first, end)) = Len(piece)
        /\ \A i \in 1 .. Len(piece) : SubSeq(text, first, end)[i] = piece[i]
    BY <1>1, <2>1
  <2>3. QED
    BY <2>1, <2>2, SeqEqual
<1>6. QED
  BY <1>3, <1>4, <1>5

\* A word is in a text after a place.
Holds(text, at, word) == \A j \in 1 .. Len(word) : text[at + j] = word[j]

\* The first place of a marker, and what is behind it.
ValueAt(text, marker, terminator, p, value) ==
    LET end == p + Len(marker) + Len(value) IN
    /\ p \in Found(text, marker, 1) /\ \A q \in Found(text, marker, 1) : p <= q
    /\ Holds(text, (p + Len(marker)) - 1, value)
    /\ \A j \in 1 .. Len(value) : value[j] # terminator
    /\ end <= Len(text) + 1 /\ (end <= Len(text) => text[end] = terminator)

\* What is behind the first marker is the value.
LEMMA ValueIs ==
    ASSUME NEW S, NEW text \in Seq(S), NEW marker \in Seq(S), marker # <<>>,
           NEW terminator \in S, NEW p, NEW value \in Seq(S),
           ValueAt(text, marker, terminator, p, value)
    PROVE  ValueAfter(text, marker, terminator) = value
<1> DEFINE first == p + Len(marker)
<1>1. /\ Found(text, marker, 1) \subseteq 1 .. Len(text)
      /\ Len(marker) \in Nat \ {0} /\ Len(text) \in Nat
  BY FoundInside
<1>2. Len(value) \in Nat
  BY LenProperties
<1>3. /\ p \in Found(text, marker, 1) /\ \A q \in Found(text, marker, 1) : p <= q
      /\ Holds(text, first - 1, value)
      /\ \A j \in 1 .. Len(value) : value[j] # terminator
      /\ first + Len(value) <= Len(text) + 1
      /\ first + Len(value) <= Len(text) => text[first + Len(value)] = terminator
  <2>1. p \in Found(text, marker, 1) /\ \A q \in Found(text, marker, 1) : p <= q
    BY Zenon DEF ValueAt
  <2>2. Holds(text, first - 1, value)
    BY DEF ValueAt
  <2>3. \A j \in 1 .. Len(value) : value[j] # terminator
    BY Zenon DEF ValueAt
  <2>4. first + Len(value) <= Len(text) + 1
    BY Zenon DEF ValueAt
  <2>5. first + Len(value) <= Len(text) => text[first + Len(value)] = terminator
    BY Zenon DEF ValueAt
  <2> HIDE DEF first
  <2>6. QED
    BY <2>1, <2>2, <2>3, <2>4, <2>5
<1>4. Find(text, marker, 1) = p
  BY <1>3, FindFirst
<1>5. p \in Nat /\ p # 0 /\ first \in 1 .. Len(text) + 1
  BY <1>1, <1>2, <1>3
<1> HIDE DEF first
<1>6. \A j \in 1 .. Len(value) : text[first + j - 1] = value[j] /\ value[j] # terminator
  <2>1. \A j \in 1 .. Len(value) : (first - 1) + j = first + j - 1
    BY <1>2, <1>5
  <2>2. QED
    BY <1>3, <2>1 DEF Holds
<1>7. UpTo(text, first, Find(text, <<terminator>>, first)) = value
  BY <1>3, <1>5, <1>6, PieceIs
<1>8. QED
  BY <1>4, <1>5, <1>7 DEF ValueAfter, first

(***************************************************************************)
(* Requests.                                                               *)
(***************************************************************************)
\* What texts consist of, and what keys and values do.  The literals are
\* strings already; they are named because the provers do not know that.
Sign == STRING \cup {"\\", "nul", "&", "=", "|", "final", "opids"}
Char == STRING \ {"\\", "nul", "&", "="}

\* Texts of fewer symbols are texts.
LEMMA MoreSymbols ==
    ASSUME NEW S, NEW T, S \subseteq T, NEW text \in Seq(S)
    PROVE  text \in Seq(T) /\ Len(text) \in Nat /\ \A j \in 1 .. Len(text) : text[j] \in S
<1>1. Len(text) \in Nat /\ \A j \in 1 .. Len(text) : text[j] \in S
  BY LenProperties, ElementOfSeq
<1>2. DOMAIN text = 1 .. Len(text) /\ text = [j \in 1 .. Len(text) |-> text[j]]
  BY LenProperties, SeqDef
<1>3. text \in [1 .. Len(text) -> T]
  BY <1>1, <1>2
<1>4. text \in Seq(T)
  BY <1>1, <1>3, SeqOfFunction
<1>5. QED
  BY <1>1, <1>4

\* The texts of a field.
LEMMA FieldIs ==
    ASSUME NEW fields \in Seq(Key \X Value)
    PROVE  /\ Len(fields) \in Nat /\ DOMAIN fields = 1 .. Len(fields)
           /\ \A i \in 1 .. Len(fields) : \A h \in {1, 2} :
                 /\ fields[i][h] \in Seq(Char) /\ fields[i][h] \in Seq(Sign)
                 /\ Len(fields[i][h]) \in Nat
                 /\ \A j \in 1 .. Len(fields[i][h]) : fields[i][h][j] \in Char
           /\ \A i \in 1 .. Len(fields) : fields[i][1] \in Key /\ fields[i][2] \in Value
<1>1. Len(fields) \in Nat /\ DOMAIN fields = 1 .. Len(fields)
  BY LenProperties
<1>2. ASSUME NEW i \in 1 .. Len(fields)
      PROVE  fields[i][1] \in Key /\ fields[i][2] \in Value
  <2>1. fields[i] \in Key \X Value
    BY ElementOfSeq
  <2>2. QED
    BY <2>1
<1>3. Key \subseteq Seq(Char) /\ Value \subseteq Seq(Char) /\ Char \subseteq Sign
  BY ConstantsAssumption DEF Char, Sign
<1>4. ASSUME NEW i \in 1 .. Len(fields), NEW h \in {1, 2}
      PROVE  /\ fields[i][h] \in Seq(Char) /\ fields[i][h] \in Seq(Sign)
             /\ Len(fields[i][h]) \in Nat
             /\ \A j \in 1 .. Len(fields[i][h]) : fields[i][h][j] \in Char
  <2>1. fields[i][h] \in Seq(Char)
    BY <1>2, <1>3
  <2>2. QED
    BY <1>3, <2>1, MoreSymbols
<1>5. QED
  BY <1>1, <1>2, <1>4

\* A text after another holds both.
LEMMA Two ==
    ASSUME NEW S, NEW a \in Seq(S), NEW b \in Seq(S)
    PROVE  /\ a \o b \in Seq(S) /\ Len(a \o b) = Len(a) + Len(b)
           /\ Holds(a \o b, 0, a) /\ Holds(a \o b, Len(a), b)
<1> DEFINE ab == a \o b
           m == Len(a)
           n == Len(b)
<1>1. m \in Nat /\ n \in Nat
  BY LenProperties
<1>2. /\ ab \in Seq(S) /\ Len(ab) = m + n
      /\ \A i \in 1 .. m + n : ab[i] = IF i <= m THEN a[i] ELSE b[i - m]
  BY ConcatProperties
<1> HIDE DEF ab, m, n
<1>3. ASSUME NEW j \in 1 .. m PROVE ab[0 + j] = a[j]
  <2>1. 0 + j = j /\ j \in 1 .. m + n /\ j <= m
    BY <1>1
  <2>2. QED
    BY <1>2, <2>1
<1>4. ASSUME NEW j \in 1 .. n PROVE ab[m + j] = b[j]
  <2>1. m + j \in 1 .. m + n /\ ~ m + j <= m /\ (m + j) - m = j
    BY <1>1
  <2>2. QED
    BY <1>2, <2>1
<1>5. QED
  BY <1>2, <1>3, <1>4 DEF ab, m, n, Holds

\* What is held by what is held is held.
LEMMA HoldsOn ==
    ASSUME NEW whole, NEW text, NEW word, NEW m \in Nat, NEW n \in Nat,
           Holds(whole, m, text), Holds(text, n, word),
           Len(word) \in Nat, Len(text) \in Nat, n + Len(word) <= Len(text)
    PROVE  Holds(whole, m + n, word)
<1> SUFFICES ASSUME NEW j \in 1 .. Len(word) PROVE whole[(m + n) + j] = word[j]
  BY DEF Holds
<1>1. n + j \in 1 .. Len(text) /\ m + (n + j) = (m + n) + j
  OBVIOUS
<1>2. whole[m + (n + j)] = text[n + j]
  BY <1>1 DEF Holds
<1>3. text[n + j] = word[j]
  BY DEF Holds
<1>4. QED
  BY <1>1, <1>2, <1>3

\* Four texts after each other.
LEMMA Four ==
    ASSUME NEW S, NEW a \in Seq(S), NEW b \in Seq(S), NEW c \in Seq(S), NEW d \in Seq(S)
    PROVE  LET text == a \o b \o c \o d IN
           /\ text \in Seq(S) /\ Len(text) = Len(a) + Len(b) + Len(c) + Len(d)
           /\ Holds(text, 0, a) /\ Holds(text, Len(a), b)
           /\ Holds(text, Len(a) + Len(b), c)
           /\ Holds(text, Len(a) + Len(b) + Len(c), d)
<1>1. Len(a) \in Nat /\ Len(b) \in Nat /\ Len(c) \in Nat /\ Len(d) \in Nat
  BY LenProperties
<1> DEFINE ab == a \o b
           abc == ab \o c
           text == abc \o d
<1>2. /\ ab \in Seq(S) /\ Len(ab) = Len(a) + Len(b)
      /\ Holds(ab, 0, a) /\ Holds(ab, Len(a), b)
  BY Two
<1> HIDE DEF ab
<1>3. /\ abc \in Seq(S) /\ Len(abc) = Len(ab) + Len(c)
      /\ Holds(abc, 0, ab) /\ Holds(abc, Len(ab), c)
  BY <1>2, Two
<1> HIDE DEF abc
<1>4. /\ text \in Seq(S) /\ Len(text) = Len(abc) + Len(d)
      /\ Holds(text, 0, abc) /\ Holds(text, Len(abc), d)
  BY <1>3, Two
<1> HIDE DEF text
<1>5. /\ Len(ab) \in Nat /\ Len(abc) \in Nat
      /\ 0 + Len(a) <= Len(ab) /\ Len(a) + Len(b) <= Len(ab)
      /\ 0 + Len(ab) <= Len(abc) /\ Len(ab) + Len(c) <= Len(abc)
  BY <1>1, <1>2, <1>3
<1>6. Holds(text, 0 + 0, ab) /\ Holds(text, 0 + Len(ab), c)
  BY <1>1, <1>3, <1>4, <1>5, HoldsOn
<1>7. 0 + 0 = 0 /\ 0 + Len(ab) = Len(ab)
  BY <1>5
<1>8. Holds(text, 0, ab) /\ Holds(text, Len(ab), c)
  BY <1>6, <1>7
<1>9. Holds(text, 0 + 0, a) /\ Holds(text, 0 + Len(a), b)
  BY <1>1, <1>2, <1>5, <1>8, HoldsOn
<1>10. 0 + Len(a) = Len(a)
  BY <1>1
<1>11. Holds(text, 0, a) /\ Holds(text, Len(a), b)
  BY <1>7, <1>9, <1>10
<1>12. QED
  BY <1>1, <1>2, <1>3, <1>4, <1>8, <1>11 DEF text, abc, ab

FourTexts(n, a, b, c, d) ==
    FlattenSeq([i \in 1 .. n |-> a[i] \o b[i] \o c[i] \o d[i]])

\* Where parts of four texts start, and what is in them.
Fours(text, n, a, b, c, d, off) ==
    /\ off \in [1 .. n + 1 -> Nat] /\ off[1] = 0 /\ off[n + 1] = Len(text)
    /\ \A i \in 1 .. n + 1 : \A j \in i .. n + 1 : off[i] <= off[j]
    /\ \A p \in 1 .. Len(text) : \E i \in 1 .. n : off[i] < p /\ p <= off[i + 1]
    /\ \A i \in 1 .. n :
          /\ off[i + 1] = off[i] + (Len(a[i]) + Len(b[i]) + Len(c[i]) + Len(d[i]))
          /\ Holds(text, off[i], a[i])
          /\ Holds(text, off[i] + Len(a[i]), b[i])
          /\ Holds(text, off[i] + (Len(a[i]) + Len(b[i])), c[i])
          /\ Holds(text, off[i] + (Len(a[i]) + Len(b[i]) + Len(c[i])), d[i])

\* Parts of four texts put one after another are laid out so.
LEMMA FoursAre ==
    ASSUME NEW S, NEW n \in Nat,
           NEW a \in [1 .. n -> Seq(S)], NEW b \in [1 .. n -> Seq(S)],
           NEW c \in [1 .. n -> Seq(S)], NEW d \in [1 .. n -> Seq(S)]
    PROVE  LET text == FourTexts(n, a, b, c, d)
           IN  text \in Seq(S) /\ \E off : Fours(text, n, a, b, c, d, off)
<1> DEFINE part(i) == a[i] \o b[i] \o c[i] \o d[i]
           parts == [i \in 1 .. n |-> part(i)]
           text == FlattenSeq(parts)
<1>1. ASSUME NEW i \in 1 .. n
      PROVE  /\ Len(a[i]) \in Nat /\ Len(b[i]) \in Nat
             /\ Len(c[i]) \in Nat /\ Len(d[i]) \in Nat
             /\ part(i) \in Seq(S)
             /\ Len(part(i)) = Len(a[i]) + Len(b[i]) + Len(c[i]) + Len(d[i])
             /\ Holds(part(i), 0, a[i]) /\ Holds(part(i), Len(a[i]), b[i])
             /\ Holds(part(i), Len(a[i]) + Len(b[i]), c[i])
             /\ Holds(part(i), Len(a[i]) + Len(b[i]) + Len(c[i]), d[i])
  <2>1. a[i] \in Seq(S) /\ b[i] \in Seq(S) /\ c[i] \in Seq(S) /\ d[i] \in Seq(S)
    OBVIOUS
  <2>2. QED
    BY <2>1, Four, LenProperties
<1>2. \A i \in 1 .. n : parts[i] = part(i)
  OBVIOUS
<1> HIDE DEF part
<1>3. parts \in Seq(Seq(S)) /\ Len(parts) = n
  <2>1. parts \in [1 .. n -> Seq(S)]
    BY <1>1
  <2> HIDE DEF parts
  <2>2. QED
    BY <2>1, SeqOfFunction
<1> HIDE DEF parts
<1>4. text \in Seq(S) /\ \E off : LaidOut(text, parts, off)
  BY <1>3, Flat
<1> HIDE DEF text
<1>5. PICK off : LaidOut(text, parts, off)
  BY <1>4
<1>6. /\ off \in [1 .. n + 1 -> Nat] /\ off[1] = 0 /\ off[n + 1] = Len(text)
      /\ \A i \in 1 .. n : off[i + 1] = off[i] + Len(part(i)) /\ Holds(text, off[i], part(i))
  <2>1. /\ off \in [1 .. Len(parts) + 1 -> Nat]
        /\ off[1] = 0 /\ off[Len(parts) + 1] = Len(text)
        /\ \A i \in 1 .. Len(parts) :
              off[i + 1] = off[i] + Len(parts[i]) /\ Holds(text, off[i], parts[i])
    BY <1>5, Zenon DEF LaidOut, Holds
  <2>2. QED
    BY <1>2, <1>3, <2>1
<1>7. /\ \A i \in 1 .. n + 1 : \A j \in i .. n + 1 : off[i] <= off[j]
      /\ \A p \in 1 .. Len(text) : \E i \in 1 .. n : off[i] < p /\ p <= off[i + 1]
  <2>1. Len(parts) \in Nat /\ \A i \in 1 .. Len(parts) : Len(parts[i]) \in Nat
    BY <1>1, <1>2, <1>3
  <2>2. /\ \A i \in 1 .. Len(parts) + 1 : \A j \in i .. Len(parts) + 1 : off[i] <= off[j]
        /\ \A p \in 1 .. Len(text) : \E i \in 1 .. Len(parts) :
              off[i] < p /\ p <= off[i + 1]
    BY <1>5, <2>1, PartsInOrder
  <2>3. QED
    BY <1>3, <2>2
<1>8. ASSUME NEW i \in 1 .. n
      PROVE  /\ Holds(text, off[i], a[i])
             /\ Holds(text, off[i] + Len(a[i]), b[i])
             /\ Holds(text, off[i] + (Len(a[i]) + Len(b[i])), c[i])
             /\ Holds(text, off[i] + (Len(a[i]) + Len(b[i]) + Len(c[i])), d[i])
  <2> DEFINE A == Len(a[i])
             B == Len(b[i])
             C == Len(c[i])
             D == Len(d[i])
             x == off[i]
  <2>1. /\ A \in Nat /\ B \in Nat /\ C \in Nat /\ D \in Nat
        /\ Len(part(i)) = A + B + C + D
        /\ Holds(part(i), 0, a[i]) /\ Holds(part(i), A, b[i])
        /\ Holds(part(i), A + B, c[i]) /\ Holds(part(i), A + B + C, d[i])
    BY <1>1
  <2>2. x \in Nat /\ Holds(text, x, part(i))
    BY <1>6
  <2> HIDE DEF x
  <2>3. Len(part(i)) \in Nat /\ 0 + A <= Len(part(i))
    BY <2>1
  <2>4. A + B <= Len(part(i))
    BY <2>1
  <2>5. A + B \in Nat /\ (A + B) + C <= Len(part(i))
    BY <2>1
  <2>6. A + B + C \in Nat /\ (A + B + C) + D <= Len(part(i))
    BY <2>1
  <2>7. Holds(text, x + 0, a[i])
    BY <2>1, <2>2, <2>3, HoldsOn
  <2>8. Holds(text, x + A, b[i])
    BY <2>1, <2>2, <2>3, <2>4, HoldsOn
  <2>9. Holds(text, x + (A + B), c[i])
    BY <2>1, <2>2, <2>3, <2>5, HoldsOn
  <2>10. Holds(text, x + (A + B + C), d[i])
    BY <2>1, <2>2, <2>3, <2>6, HoldsOn
  <2>11. x + 0 = x
    BY <2>2
  <2>12. QED
    BY <2>7, <2>8, <2>9, <2>10, <2>11 DEF x
<1>9. Fours(text, n, a, b, c, d, off)
  BY <1>1, <1>6, <1>7, <1>8 DEF Fours
<1>10. QED
  BY <1>4, <1>9 DEF text, parts, part, FourTexts

\* No separator is in a key or value.
LEMMA KeyIs ==
    ASSUME NEW key \in Key \cup Value
    PROVE  /\ key \in Seq(Sign) /\ Len(key) \in Nat
           /\ \A j \in 1 .. Len(key) :
                 /\ key[j] # "\\" /\ key[j] # "nul" /\ key[j] # "&" /\ key[j] # "="
<1>1. key \in Seq(Char) /\ Char \subseteq Sign
  BY ConstantsAssumption DEF Char, Sign
<1>2. /\ key \in Seq(Sign) /\ Len(key) \in Nat
      /\ \A j \in 1 .. Len(key) : key[j] \in Char
  BY <1>1, MoreSymbols
<1>3. QED
  BY <1>2 DEF Char

\* A request of GameSpy.
Gamespy(fields, text, off) ==
    LET n == Len(fields)
        K(i) == fields[i][1]
        V(i) == fields[i][2]
    IN
    /\ text \in Seq(Sign) /\ Len(text) = off[n + 1] + 3
    /\ text[off[n + 1] + 1] = "\\" /\ text[off[n + 1] + 2] = "final"
    /\ text[off[n + 1] + 3] = "\\"
    /\ off \in [1 .. n + 1 -> Nat]
    /\ \A i \in 1 .. n + 1 : \A j \in i .. n + 1 : off[i] <= off[j]
    /\ \A p \in 1 .. off[n + 1] : \E i \in 1 .. n : off[i] < p /\ p <= off[i + 1]
    /\ \A i \in 1 .. n :
          /\ off[i + 1] = off[i] + Len(K(i)) + Len(V(i)) + 2
          /\ text[off[i] + 1] = "\\"
          /\ Holds(text, off[i] + 1, K(i))
          /\ text[off[i] + Len(K(i)) + 2] = "\\"
          /\ Holds(text, off[i] + Len(K(i)) + 2, V(i))

\* The text of fields of GameSpy is such a request.
LEMMA GamespyIs ==
    ASSUME NEW fields \in Seq(Key \X Value)
    PROVE  \E off : Gamespy(fields,
              FlattenSeq([i \in DOMAIN fields |->
                  <<"\\">> \o fields[i][1] \o <<"\\">> \o fields[i][2]])
                  \o <<"\\", "final", "\\">>, off)
<1> DEFINE n == Len(fields)
           a == [i \in 1 .. n |-> <<"\\">>]
           b == [i \in 1 .. n |-> fields[i][1]]
           d == [i \in 1 .. n |-> fields[i][2]]
           flat == FourTexts(n, a, b, a, d)
           final == <<"\\", "final", "\\">>
           text == flat \o final
<1>1. /\ n \in Nat /\ DOMAIN fields = 1 .. n
      /\ \A i \in 1 .. n : \A h \in {1, 2} :
            fields[i][h] \in Seq(Sign) /\ Len(fields[i][h]) \in Nat
  BY FieldIs
<1>2. /\ a \in [1 .. n -> Seq(Sign)]
      /\ b \in [1 .. n -> Seq(Sign)] /\ d \in [1 .. n -> Seq(Sign)]
  <2>1. <<"\\">> \in Seq(Sign)
    BY DEF Sign
  <2>2. QED
    BY <1>1, <2>1
<1>3. /\ \A i \in 1 .. n : a[i] = <<"\\">> /\ b[i] = fields[i][1] /\ d[i] = fields[i][2]
      /\ flat = FlattenSeq([i \in DOMAIN fields |->
                    <<"\\">> \o fields[i][1] \o <<"\\">> \o fields[i][2]])
  <2>1. [i \in 1 .. n |-> a[i] \o b[i] \o a[i] \o d[i]]
            = [i \in DOMAIN fields |->
                  <<"\\">> \o fields[i][1] \o <<"\\">> \o fields[i][2]]
    BY <1>1
  <2>2. QED
    BY <2>1 DEF FourTexts
<1> HIDE DEF a, b, d, n
<1>4. flat \in Seq(Sign) /\ \E off : Fours(flat, n, a, b, a, d, off)
  BY <1>1, <1>2, FoursAre
<1>5. PICK off : Fours(flat, n, a, b, a, d, off)
  BY <1>4
<1> HIDE DEF flat
<1>6. /\ text \in Seq(Sign) /\ Len(text) = Len(flat) + Len(final)
      /\ Holds(text, 0, flat) /\ Holds(text, Len(flat), final)
  <2>1. final \in Seq(Sign)
    BY DEF Sign
  <2>2. QED
    BY <1>4, <2>1, Two
<1>7. /\ Len(final) = 3 /\ final[1] = "\\" /\ final[2] = "final" /\ final[3] = "\\"
  OBVIOUS
<1> HIDE DEF final, text
<1>8. /\ text[Len(flat) + 1] = "\\" /\ text[Len(flat) + 2] = "final"
      /\ text[Len(flat) + 3] = "\\"
  BY <1>6, <1>7 DEF Holds
<1>9. Len(flat) \in Nat
  BY <1>4, LenProperties
<1>10. /\ off \in [1 .. n + 1 -> Nat] /\ off[n + 1] = Len(flat)
       /\ \A i \in 1 .. n + 1 : \A j \in i .. n + 1 : off[i] <= off[j]
       /\ \A p \in 1 .. off[n + 1] : \E i \in 1 .. n : off[i] < p /\ p <= off[i + 1]
  BY <1>5 DEF Fours
<1>11. ASSUME NEW i \in 1 .. n
       PROVE  /\ off[i + 1] = off[i] + Len(fields[i][1]) + Len(fields[i][2]) + 2
              /\ text[off[i] + 1] = "\\"
              /\ Holds(text, off[i] + 1, fields[i][1])
              /\ text[off[i] + Len(fields[i][1]) + 2] = "\\"
              /\ Holds(text, off[i] + Len(fields[i][1]) + 2, fields[i][2])
  <2> DEFINE key == fields[i][1]
             value == fields[i][2]
             K == Len(key)
             V == Len(value)
             x == off[i]
  <2>1. K \in Nat /\ V \in Nat
    BY <1>1
  <2>2. x \in Nat /\ x <= off[i + 1] /\ off[i + 1] \in Nat /\ off[i + 1] <= Len(flat)
    BY <1>1, <1>10
  <2>3. a[i] = <<"\\">> /\ Len(a[i]) = 1 /\ a[i][1] = "\\" /\ b[i] = key /\ d[i] = value
    BY <1>3
  <2>4. /\ off[i + 1] = x + (Len(a[i]) + Len(b[i]) + Len(a[i]) + Len(d[i]))
        /\ Holds(flat, x, a[i]) /\ Holds(flat, x + Len(a[i]), b[i])
        /\ Holds(flat, x + (Len(a[i]) + Len(b[i])), a[i])
        /\ Holds(flat, x + (Len(a[i]) + Len(b[i]) + Len(a[i])), d[i])
    BY <1>5 DEF Fours
  <2> HIDE DEF K, V, key, value, x
  <2>5. /\ off[i + 1] = x + K + V + 2
        /\ x + (Len(a[i]) + Len(b[i])) = x + K + 1
        /\ x + (Len(a[i]) + Len(b[i]) + Len(a[i])) = x + K + 2
    BY <2>1, <2>2, <2>3, <2>4 DEF K, V
  <2>6. /\ Holds(flat, x + 1, key) /\ Holds(flat, x + K + 2, value)
        /\ Holds(flat, x, a[i]) /\ Holds(flat, x + K + 1, a[i])
    BY <2>3, <2>4, <2>5
  <2>7. /\ Holds(text, 0 + (x + 1), key) /\ Holds(text, 0 + (x + K + 2), value)
        /\ Holds(text, 0 + x, a[i]) /\ Holds(text, 0 + (x + K + 1), a[i])
    <3>1. /\ x + 1 \in Nat /\ x + K + 2 \in Nat /\ x + K + 1 \in Nat
          /\ (x + 1) + Len(key) <= Len(flat) /\ (x + K + 2) + Len(value) <= Len(flat)
          /\ x + Len(a[i]) <= Len(flat) /\ (x + K + 1) + Len(a[i]) <= Len(flat)
          /\ Len(key) \in Nat /\ Len(value) \in Nat /\ Len(a[i]) \in Nat
      BY <1>9, <2>1, <2>2, <2>3, <2>5 DEF K, V
    <3>2. QED
      BY <1>6, <1>9, <2>2, <2>6, <3>1, HoldsOn
  <2>8. /\ 0 + (x + 1) = x + 1 /\ 0 + (x + K + 2) = x + K + 2
        /\ 0 + x = x /\ 0 + (x + K + 1) = x + K + 1 /\ (x + K + 1) + 1 = x + K + 2
    BY <2>1, <2>2
  <2>9. text[x + 1] = "\\" /\ text[x + K + 2] = "\\"
    BY <2>3, <2>7, <2>8 DEF Holds
  <2>10. QED
    BY <2>5, <2>7, <2>8, <2>9 DEF x, K, V, key, value
<1>12. Gamespy(fields, text, off)
  BY <1>6, <1>7, <1>8, <1>10, <1>11 DEF Gamespy, n
<1>13. QED
  BY <1>3, <1>12 DEF text, final

\* Two words that start at one place and end at the next separator.
LEMMA SameWord ==
    ASSUME NEW S, NEW text, NEW q \in Nat, NEW separator,
           NEW x \in Seq(S), NEW y \in Seq(S),
           Holds(text, q, x), text[q + Len(x) + 1] = separator,
           Holds(text, q, y), text[q + Len(y) + 1] = separator,
           \A j \in 1 .. Len(x) : x[j] # separator,
           \A j \in 1 .. Len(y) : y[j] # separator
    PROVE  x = y
<1>1. Len(x) \in Nat /\ Len(y) \in Nat
  BY LenProperties
<1>2. ASSUME Len(x) < Len(y) PROVE FALSE
  <2>1. Len(x) + 1 \in 1 .. Len(y) /\ q + (Len(x) + 1) = q + Len(x) + 1
    BY <1>1, <1>2
  <2>2. text[q + (Len(x) + 1)] = y[Len(x) + 1]
    BY <2>1 DEF Holds
  <2>3. QED
    BY <2>1, <2>2
<1>3. ASSUME Len(y) < Len(x) PROVE FALSE
  <2>1. Len(y) + 1 \in 1 .. Len(x) /\ q + (Len(y) + 1) = q + Len(y) + 1
    BY <1>1, <1>3
  <2>2. text[q + (Len(y) + 1)] = x[Len(y) + 1]
    BY <2>1 DEF Holds
  <2>3. QED
    BY <2>1, <2>2
<1>4. Len(x) = Len(y)
  BY <1>1, <1>2, <1>3
<1>5. \A j \in 1 .. Len(x) : x[j] = y[j]
  BY <1>4 DEF Holds
<1>6. QED
  BY <1>4, <1>5, SeqEqual

\* The marker of a field of GameSpy, and where it is found.
LEMMA GamespyMarker ==
    ASSUME NEW key \in Seq(Sign), NEW text \in Seq(Sign)
    PROVE  LET marker == <<"\\">> \o key \o <<"\\">> IN
           /\ marker \in Seq(Sign) /\ Len(marker) = Len(key) + 2 /\ marker # <<>>
           /\ \A q \in Nat \ {0} :
                 q \in Found(text, marker, 1) <=>
                    /\ q + Len(key) + 1 <= Len(text)
                    /\ text[q] = "\\" /\ Holds(text, q, key)
                    /\ text[q + Len(key) + 1] = "\\"
<1> DEFINE bar == <<"\\">>
           left == bar \o key
           marker == left \o bar
           K == Len(key)
<1>1. K \in Nat /\ Len(text) \in Nat
  BY LenProperties
<1>2. bar \in Seq(Sign) /\ Len(bar) = 1 /\ bar[1] = "\\"
  BY DEF Sign
<1> HIDE DEF bar
<1>3. /\ left \in Seq(Sign) /\ Len(left) = 1 + K
      /\ Holds(left, 0, bar) /\ Holds(left, 1, key)
  BY <1>2, Two
<1> HIDE DEF left
<1>4. /\ marker \in Seq(Sign) /\ Len(marker) = (1 + K) + 1
      /\ Holds(marker, 0, left) /\ Holds(marker, 1 + K, bar)
  <2>1. /\ marker \in Seq(Sign) /\ Len(marker) = Len(left) + Len(bar)
        /\ Holds(marker, 0, left) /\ Holds(marker, Len(left), bar)
    BY <1>2, <1>3, Two
  <2> HIDE DEF marker, K
  <2>2. QED
    BY <1>2, <1>3, <2>1
<1> HIDE DEF marker, K
<1>5. Len(marker) = K + 2
  BY <1>1, <1>4
<1>6. marker # <<>>
  BY <1>1, <1>5
<1>7. marker[1] = "\\" /\ marker[K + 2] = "\\" /\ \A j \in 1 .. K : marker[j + 1] = key[j]
  <2>1. left[1] = "\\" /\ \A j \in 1 .. K : left[1 + j] = key[j]
    BY <1>2, <1>3 DEF Holds, K
  <2>2. \A i \in 1 .. 1 + K : marker[0 + i] = left[i]
    BY <1>3, <1>4 DEF Holds
  <2>3. \A i \in 1 .. 1 + K : marker[i] = left[i]
    BY <1>1, <2>2
  <2>4. marker[(1 + K) + 1] = "\\"
    BY <1>2, <1>4 DEF Holds
  <2>5. (1 + K) + 1 = K + 2 /\ 1 \in 1 .. 1 + K
        /\ \A j \in 1 .. K : 1 + j = j + 1 /\ 1 + j \in 1 .. 1 + K
    BY <1>1
  <2>6. QED
    BY <2>1, <2>3, <2>4, <2>5
<1>8. ASSUME NEW q \in Nat \ {0}
      PROVE  q \in Found(text, marker, 1) <=>
                /\ q + K + 1 <= Len(text)
                /\ text[q] = "\\" /\ Holds(text, q, key)
                /\ text[q + K + 1] = "\\"
  <2> DEFINE found == {i \in 1 .. Len(text) - Len(marker) + 1 :
                          \A j \in 1 .. Len(marker) : text[i + j - 1] = marker[j]}
  <2>1. Found(text, marker, 1) = found
    <3>1. Found(text, marker, 1) = Places(text, marker, 1)
      BY <1>4, <1>6, FoundIs
    <3>2. QED
      BY <3>1 DEF Places
  <2>2. q \in found <=> /\ q + K + 1 <= Len(text)
                        /\ \A j \in 1 .. K + 2 : text[q + j - 1] = marker[j]
    BY <1>1, <1>5
  <2> HIDE DEF found
  <2>3. (\A j \in 1 .. K + 2 : text[q + j - 1] = marker[j]) <=>
            /\ text[q] = "\\" /\ text[q + K + 1] = "\\"
            /\ \A j \in 1 .. K : text[q + j] = key[j]
    <3>1. /\ q + 1 - 1 = q /\ q + (K + 2) - 1 = q + K + 1
          /\ \A j \in 1 .. K : q + (j + 1) - 1 = q + j /\ j + 1 \in 1 .. K + 2
          /\ 1 \in 1 .. K + 2 /\ K + 2 \in 1 .. K + 2
          /\ \A j \in 1 .. K + 2 : j # 1 /\ j # K + 2 => j - 1 \in 1 .. K /\ (j - 1) + 1 = j
      BY <1>1
    <3>2. ASSUME \A j \in 1 .. K + 2 : text[q + j - 1] = marker[j]
          PROVE  /\ text[q] = "\\" /\ text[q + K + 1] = "\\"
                 /\ \A j \in 1 .. K : text[q + j] = key[j]
      <4>1. text[q + 1 - 1] = marker[1] /\ text[q + (K + 2) - 1] = marker[K + 2]
        BY <3>1, <3>2
      <4>2. \A j \in 1 .. K : text[q + (j + 1) - 1] = marker[j + 1]
        BY <3>1, <3>2
      <4>3. QED
        BY <1>7, <3>1, <4>1, <4>2
    <3>3. ASSUME /\ text[q] = "\\" /\ text[q + K + 1] = "\\"
                 /\ \A j \in 1 .. K : text[q + j] = key[j],
                 NEW j \in 1 .. K + 2
          PROVE  text[q + j - 1] = marker[j]
      <4>1. CASE j = 1
        BY <1>7, <3>1, <3>3, <4>1
      <4>2. CASE j = K + 2
        BY <1>7, <3>1, <3>3, <4>2
      <4>3. CASE j # 1 /\ j # K + 2
        <5>1. j - 1 \in 1 .. K /\ (j - 1) + 1 = j /\ q + j - 1 = q + (j - 1)
          BY <3>1, <4>3
        <5>2. text[q + (j - 1)] = key[j - 1] /\ marker[(j - 1) + 1] = key[j - 1]
          BY <1>7, <3>3, <5>1
        <5>3. QED
          BY <5>1, <5>2
      <4>4. QED
        BY <4>1, <4>2, <4>3
    <3>4. QED
      BY <3>2, <3>3
  <2>4. Holds(text, q, key) <=> \A j \in 1 .. K : text[q + j] = key[j]
    BY DEF Holds, K
  <2>5. QED
    BY <2>1, <2>2, <2>3, <2>4
<1>9. QED
  BY <1>4, <1>5, <1>6, <1>8 DEF marker, left, bar, K

\* A key is found where a field has it, and at the end if it is the word
\* there.
LEMMA GamespyFound ==
    ASSUME NEW fields \in Seq(Key \X Value), NEW text, NEW off,
           Gamespy(fields, text, off), NEW key \in Key,
           \A i \in 1 .. Len(fields) : fields[i][2] # key
    PROVE  LET n == Len(fields)
               found == Found(text, <<"\\">> \o key \o <<"\\">>, 1)
           IN  /\ \A q \in found : \/ \E i \in 1 .. n : fields[i][1] = key /\ q = off[i] + 1
                                   \/ q = off[n + 1] + 1 /\ Len(key) = 1
               /\ \A i \in 1 .. n : fields[i][1] = key => off[i] + 1 \in found
<1> DEFINE n == Len(fields)
           N == off[n + 1]
           K == Len(key)
           found == Found(text, <<"\\">> \o key \o <<"\\">>, 1)
<1>1. /\ n \in Nat /\ off \in [1 .. n + 1 -> Nat]
      /\ text \in Seq(Sign) /\ Len(text) = N + 3
      /\ text[N + 1] = "\\" /\ text[N + 2] = "final" /\ text[N + 3] = "\\"
      /\ \A i \in 1 .. n + 1 : \A j \in i .. n + 1 : off[i] <= off[j]
      /\ \A p \in 1 .. N : \E i \in 1 .. n : off[i] < p /\ p <= off[i + 1]
  BY FieldIs DEF Gamespy
<1>2. ASSUME NEW i \in 1 .. n
      PROVE  /\ fields[i][1] \in Key /\ fields[i][2] \in Value
             /\ off[i] \in Nat /\ off[i + 1] \in Nat /\ off[i + 1] <= N
             /\ off[i + 1] = off[i] + Len(fields[i][1]) + Len(fields[i][2]) + 2
             /\ text[off[i] + 1] = "\\"
             /\ Holds(text, off[i] + 1, fields[i][1])
             /\ text[off[i] + Len(fields[i][1]) + 2] = "\\"
             /\ Holds(text, off[i] + Len(fields[i][1]) + 2, fields[i][2])
  <2>1. i \in 1 .. n + 1 /\ i + 1 \in 1 .. n + 1 /\ n + 1 \in i + 1 .. n + 1
    BY <1>1
  <2>2. off[i] \in Nat /\ off[i + 1] \in Nat /\ off[i + 1] <= N
    BY <1>1, <2>1
  <2>3. QED
    BY <2>2, FieldIs DEF Gamespy
<1>3. \A i \in 1 .. n : text[off[i + 1] + 1] = "\\"
  <2> SUFFICES ASSUME NEW i \in 1 .. n PROVE text[off[i + 1] + 1] = "\\"
    OBVIOUS
  <2>1. CASE i = n
    BY <1>1, <2>1
  <2>2. CASE i # n
    <3>1. i + 1 \in 1 .. n
      BY <1>1, <2>2
    <3>2. QED
      BY <1>2, <3>1
  <2>3. QED
    BY <2>1, <2>2
<1>4. /\ key \in Seq(Sign) /\ K \in Nat
      /\ \A j \in 1 .. K : key[j] # "\\"
  BY KeyIs
<1>5. \A q \in Nat \ {0} :
         q \in found <=>
            /\ q + K + 1 <= Len(text)
            /\ text[q] = "\\" /\ Holds(text, q, key)
            /\ text[q + K + 1] = "\\"
  BY <1>1, <1>4, GamespyMarker
<1>6. found \subseteq Nat \ {0}
  <2>1. found \subseteq 1 .. Len(text)
    <3>1. <<"\\">> \o key \o <<"\\">> \in Seq(Sign) /\ <<"\\">> \o key \o <<"\\">> # <<>>
      BY <1>1, <1>4, GamespyMarker
    <3>2. QED
      BY <1>1, <3>1, FoundInside
  <2> HIDE DEF found
  <2>2. QED
    BY <2>1
<1> HIDE DEF found, n, N, K
<1>7. ASSUME NEW i \in 1 .. n, fields[i][1] = key
      PROVE  off[i] + 1 \in found
  <2>1. /\ off[i] \in Nat /\ off[i + 1] \in Nat /\ off[i + 1] <= N
        /\ off[i + 1] = off[i] + K + Len(fields[i][2]) + 2
        /\ text[off[i] + 1] = "\\" /\ Holds(text, off[i] + 1, key)
        /\ text[off[i] + K + 2] = "\\"
    BY <1>2, <1>7 DEF K
  <2>2. Len(fields[i][2]) \in Nat
    BY <1>2, KeyIs
  <2>3. /\ off[i] + 1 \in Nat \ {0} /\ (off[i] + 1) + K + 1 = off[i] + K + 2
    <3>1. \A x \in Nat : x + 1 \in Nat \ {0} /\ (x + 1) + K + 1 = x + K + 2
      BY <1>4
    <3>2. QED
      BY <2>1, <3>1
  <2>4. N \in Nat /\ (off[i] + 1) + K + 1 <= N + 3
    <3>1. N \in Nat
      BY <1>1 DEF N
    <3>2. \A x, v, e \in Nat : e = x + K + v + 2 /\ e <= N => (x + 1) + K + 1 <= N + 3
      BY <1>4, <3>1
    <3>3. QED
      BY <2>1, <2>2, <3>1, <3>2
  <2>5. QED
    BY <1>1, <1>5, <2>1, <2>3, <2>4
<1>8. ASSUME NEW q \in found
      PROVE  \/ \E i \in 1 .. n : fields[i][1] = key /\ q = off[i] + 1
             \/ q = N + 1 /\ K = 1
  <2>1. /\ q \in Nat \ {0} /\ q + K + 1 <= N + 3
        /\ text[q] = "\\" /\ Holds(text, q, key) /\ text[q + K + 1] = "\\"
    BY <1>1, <1>5, <1>6
  <2>2. N \in Nat
    BY <1>1 DEF N
  <2>3. CASE q <= N
    <3>1. PICK i \in 1 .. n : off[i] < q /\ q <= off[i + 1]
      <4>1. q \in 1 .. N
        BY <2>1, <2>2, <2>3
      <4>2. QED
        BY <1>1, <4>1
    <3> DEFINE word == fields[i][1]
               value == fields[i][2]
               W == Len(word)
               V == Len(value)
               x == off[i]
    <3>2. /\ word \in Seq(Sign) /\ W \in Nat /\ \A j \in 1 .. W : word[j] # "\\"
          /\ value \in Seq(Sign) /\ V \in Nat /\ \A j \in 1 .. V : value[j] # "\\"
      BY <1>2, KeyIs
    <3>3. /\ x \in Nat /\ off[i + 1] = x + W + V + 2
          /\ Holds(text, x + 1, word) /\ text[x + W + 2] = "\\"
          /\ Holds(text, x + W + 2, value) /\ text[off[i + 1] + 1] = "\\"
      BY <1>2, <1>3
    <3>4. x < q /\ q <= x + W + V + 2
      BY <3>1, <3>3
    <3>5. value # key
      BY DEF n
    <3> HIDE DEF W, V, x, word, value
    <3>6. CASE q = x + 1
      <4>1. text[q + W + 1] = "\\" /\ Holds(text, q, word)
        <5>1. q + W + 1 = x + W + 2
          BY <3>2, <3>3, <3>6
        <5>2. QED
          BY <3>3, <3>6, <5>1
      <4>2. key = word
        BY <1>4, <2>1, <3>2, <4>1, SameWord DEF K, W
      <4>3. QED
        BY <3>6, <4>2 DEF word, x
    <3>7. CASE q = x + W + 2
      <4>1. text[q + V + 1] = "\\" /\ Holds(text, q, value)
        <5>1. q + V + 1 = off[i + 1] + 1
          BY <3>2, <3>3, <3>7
        <5>2. QED
          BY <3>3, <3>7, <5>1
      <4>2. key = value
        BY <1>4, <2>1, <3>2, <4>1, SameWord DEF K, V
      <4>3. QED
        BY <3>5, <4>2
    <3>8. CASE q # x + 1 /\ q <= x + W + 1
      <4>1. q - x - 1 \in 1 .. W /\ (x + 1) + (q - x - 1) = q
        BY <2>1, <3>2, <3>3, <3>4, <3>8
      <4>2. text[(x + 1) + (q - x - 1)] = word[q - x - 1]
        BY <3>3, <4>1 DEF Holds, W
      <4>3. QED
        BY <2>1, <3>2, <4>1, <4>2
    <3>9. CASE q > x + W + 2
      <4>1. q - x - W - 2 \in 1 .. V /\ (x + W + 2) + (q - x - W - 2) = q
        BY <2>1, <3>2, <3>3, <3>4, <3>9
      <4>2. text[(x + W + 2) + (q - x - W - 2)] = value[q - x - W - 2]
        BY <3>3, <4>1 DEF Holds, V
      <4>3. QED
        BY <2>1, <3>2, <4>1, <4>2
    <3>10. q = x + 1 \/ q = x + W + 2 \/ (q # x + 1 /\ q <= x + W + 1) \/ q > x + W + 2
      BY <2>1, <3>2, <3>3, <3>4
    <3>11. QED
      BY <3>6, <3>7, <3>8, <3>9, <3>10
  <2>4. CASE ~ q <= N
    <3>1. q = N + 1 \/ q = N + 2
      BY <1>4, <2>1, <2>2, <2>4
    <3>2. q # N + 2
      BY <1>1, <2>1
    <3>3. K = 0 \/ K = 1
      BY <1>4, <2>1, <2>2, <3>1, <3>2
    <3>4. K # 0
      <4>1. ASSUME K = 0 PROVE FALSE
        <5>1. q + K + 1 = N + 2
          BY <2>2, <3>1, <3>2, <4>1
        <5>2. QED
          BY <1>1, <2>1, <5>1
      <4>2. QED
        BY <4>1
    <3>5. QED
      BY <3>1, <3>2, <3>3, <3>4
  <2>5. QED
    BY <2>3, <2>4
<1>9. QED
  BY <1>7, <1>8 DEF found, n, N, K

\* The first field with a key.
LEMMA FirstField ==
    ASSUME NEW fields \in Seq(Key \X Value), NEW key
    PROVE  \/ /\ \A i \in 1 .. Len(fields) : fields[i][1] # key
              /\ FieldOf(fields, key) = <<>>
           \/ \E m \in 1 .. Len(fields) :
                 /\ fields[m][1] = key /\ FieldOf(fields, key) = fields[m][2]
                 /\ \A i \in 1 .. Len(fields) : fields[i][1] = key => m <= i
<1> DEFINE at == {i \in DOMAIN fields : fields[i][1] = key}
<1>1. Len(fields) \in Nat /\ DOMAIN fields = 1 .. Len(fields)
  BY FieldIs
<1>2. CASE at = {}
  BY <1>1, <1>2 DEF FieldOf
<1>3. CASE at # {}
  <2>1. at \subseteq Nat
    BY <1>1
  <2>2. Min(at) \in at /\ \A i \in at : Min(at) <= i
    <3> HIDE DEF at
    <3>1. QED
      BY <1>3, <2>1, MinIs
  <2>3. FieldOf(fields, key) = fields[Min(at)][2]
    BY <1>3 DEF FieldOf
  <2> DEFINE m == Min(at)
  <2>4. m \in 1 .. Len(fields) /\ fields[m][1] = key
    BY <1>1, <2>2
  <2>5. \A i \in 1 .. Len(fields) : fields[i][1] = key => m <= i
    BY <1>1, <2>2
  <2> HIDE DEF m
  <2>6. FieldOf(fields, key) = fields[m][2]
    BY <2>3 DEF m
  <2>7. QED
    BY <2>4, <2>5, <2>6
<1>4. QED
  BY <1>2, <1>3

\* What request_value finds in it is the value of the first field with the
\* key, if no value is the key.
LEMMA GamespyValue ==
    ASSUME NEW fields \in Seq(Key \X Value), NEW text, NEW off,
           Gamespy(fields, text, off), NEW key \in Key,
           \A i \in 1 .. Len(fields) : fields[i][2] # key
    PROVE  request_value(text, key) = FieldOf(fields, key)
<1> DEFINE n == Len(fields)
           N == off[n + 1]
           K == Len(key)
           marker == <<"\\">> \o key \o <<"\\">>
           found == Found(text, marker, 1)
<1>1. /\ n \in Nat /\ off \in [1 .. n + 1 -> Nat] /\ N \in Nat
      /\ text \in Seq(Sign) /\ Len(text) = N + 3
      /\ text[N + 1] = "\\"
      /\ \A i \in 1 .. n + 1 : \A j \in i .. n + 1 : off[i] <= off[j]
  BY FieldIs DEF Gamespy
<1>2. /\ K \in Nat /\ marker \in Seq(Sign) /\ Len(marker) = K + 2 /\ marker # <<>>
  BY <1>1, KeyIs, GamespyMarker
<1>3. /\ \A q \in found : \/ \E i \in 1 .. n : fields[i][1] = key /\ q = off[i] + 1
                          \/ q = N + 1 /\ K = 1
      /\ \A i \in 1 .. n : fields[i][1] = key => off[i] + 1 \in found
  BY GamespyFound
<1>4. request_value(text, key) = ValueAfter(text, marker, "\\")
  BY DEF request_value
<1>5. "\\" \in Sign
  BY DEF Sign
<1> HIDE DEF n, N, K, marker
<1>6. CASE /\ \A i \in 1 .. n : fields[i][1] # key
           /\ FieldOf(fields, key) = <<>>
  <2>1. CASE found = {}
    <3>1. Find(text, marker, 1) = 0
      BY <2>1 DEF Find
    <3>2. QED
      BY <1>4, <1>6, <3>1 DEF ValueAfter
  <2>2. CASE found # {}
    <3>1. PICK q \in found : TRUE
      BY <2>2
    <3>2. q = N + 1 /\ K = 1 /\ \A r \in found : q <= r
      <4>1. \A r \in found : r = N + 1 /\ K = 1
        BY <1>3, <1>6
      <4> HIDE DEF found
      <4>2. QED
        BY <1>1, <4>1
    <3>3. ValueAt(text, marker, "\\", q, <<>>)
      <4>1. q + Len(marker) + 0 = N + 4
        BY <1>1, <1>2, <3>2
      <4>2. QED
        BY <1>1, <3>2, <4>1 DEF ValueAt, Holds
    <3>4. <<>> \in Seq(Sign)
      OBVIOUS
    <3>5. QED
      BY <1>1, <1>2, <1>4, <1>5, <1>6, <3>3, <3>4, ValueIs
  <2>3. QED
    BY <2>1, <2>2
<1>7. ASSUME NEW m \in 1 .. n, fields[m][1] = key, FieldOf(fields, key) = fields[m][2],
             \A i \in 1 .. n : fields[i][1] = key => m <= i
      PROVE  request_value(text, key) = FieldOf(fields, key)
  <2> DEFINE value == fields[m][2]
             V == Len(value)
             p == off[m] + 1
  <2>1. /\ value \in Seq(Sign) /\ V \in Nat /\ \A j \in 1 .. V : value[j] # "\\"
    <3>1. fields[m][2] \in Value
      BY <1>7, FieldIs DEF n
    <3>2. QED
      BY <3>1, KeyIs
  <2>2. /\ off[m] \in Nat /\ off[m + 1] \in Nat /\ off[m + 1] <= N
        /\ off[m + 1] = off[m] + K + V + 2
        /\ Holds(text, off[m] + K + 2, value)
        /\ text[off[m + 1] + 1] = "\\"
    <3>1. m \in 1 .. n + 1 /\ m + 1 \in 1 .. n + 1 /\ n + 1 \in m + 1 .. n + 1
      BY <1>1
    <3>2. off[m] \in Nat /\ off[m + 1] \in Nat /\ off[m + 1] <= N
      BY <1>1, <3>1 DEF N
    <3>3. /\ off[m + 1] = off[m] + K + V + 2
          /\ Holds(text, off[m] + K + 2, value)
      BY <1>7 DEF Gamespy, n, K
    <3>4. text[off[m + 1] + 1] = "\\"
      <4>1. CASE m = n
        BY <1>1, <4>1 DEF N
      <4>2. CASE m # n
        <5>1. m + 1 \in 1 .. n
          BY <1>1, <4>2
        <5>2. QED
          BY <5>1 DEF Gamespy, n
      <4>3. QED
        BY <4>1, <4>2
    <3>5. QED
      BY <3>2, <3>3, <3>4
  <2>3. p \in found
    BY <1>3, <1>7
  <2>4. ASSUME NEW q \in found PROVE p <= q
    <3>1. CASE q = N + 1
      <4>1. \A x, k, v \in Nat : x + k + v + 2 <= N => x + 1 <= N + 1
        BY <1>1
      <4>2. off[m] + K + V + 2 <= N /\ off[m] \in Nat
        BY <2>2
      <4>3. off[m] + 1 <= N + 1
        BY <1>2, <2>1, <4>1, <4>2
      <4>4. QED
        BY <3>1, <4>3
    <3>2. CASE \E i \in 1 .. n : fields[i][1] = key /\ q = off[i] + 1
      <4>1. PICK i \in 1 .. n : fields[i][1] = key /\ q = off[i] + 1
        BY <3>2
      <4>2. m <= i
        BY <1>7, <4>1
      <4>3. m \in 1 .. n + 1 /\ i \in m .. n + 1 /\ i \in 1 .. n + 1
        BY <1>1, <4>2
      <4>4. off[m] <= off[i] /\ off[i] \in Nat
        BY <1>1, <4>3
      <4>5. QED
        BY <2>2, <4>1, <4>4
    <3>3. QED
      BY <1>3, <3>1, <3>2
  <2> DEFINE x == off[m]
  <2>5. x \in Nat /\ off[m + 1] = x + K + V + 2 /\ p = x + 1
    BY <2>2
  <2> HIDE DEF value, V, p, found, x
  <2>6. /\ p + Len(marker) + V = off[m + 1] + 1 /\ (p + Len(marker)) - 1 = x + K + 2
        /\ p + Len(marker) + V <= Len(text) + 1
    BY <1>1, <1>2, <2>1, <2>2, <2>5
  <2>7. ValueAt(text, marker, "\\", p, value)
    BY <2>1, <2>2, <2>3, <2>4, <2>6 DEF ValueAt, V, found, x
  <2>8. ValueAfter(text, marker, "\\") = value
    BY <1>1, <1>2, <1>5, <2>1, <2>7, ValueIs
  <2>9. QED
    BY <1>4, <1>7, <2>8 DEF value
<1>8. QED
  BY <1>6, <1>7, FirstField DEF n

\* The marker of a field of QR or NAS, and where it is found.
LEMMA KeyMarker ==
    ASSUME NEW key \in Seq(Sign), NEW separator \in Sign, NEW text \in Seq(Sign)
    PROVE  LET marker == key \o <<separator>> IN
           /\ marker \in Seq(Sign) /\ Len(marker) = Len(key) + 1 /\ marker # <<>>
           /\ \A at \in Nat :
                 at + 1 \in Found(text, marker, 1) <=>
                    /\ at + Len(key) + 1 <= Len(text)
                    /\ Holds(text, at, key) /\ text[at + Len(key) + 1] = separator
<1> DEFINE bar == <<separator>>
           marker == key \o bar
           K == Len(key)
<1>1. K \in Nat /\ Len(text) \in Nat
  BY LenProperties
<1>2. bar \in Seq(Sign) /\ Len(bar) = 1 /\ bar[1] = separator
  OBVIOUS
<1> HIDE DEF bar
<1>3. /\ marker \in Seq(Sign) /\ Len(marker) = K + 1
      /\ Holds(marker, 0, key) /\ Holds(marker, K, bar)
  <2>1. /\ marker \in Seq(Sign) /\ Len(marker) = Len(key) + Len(bar)
        /\ Holds(marker, 0, key) /\ Holds(marker, Len(key), bar)
    BY <1>2, Two
  <2> HIDE DEF marker
  <2>2. QED
    BY <1>2, <2>1
<1> HIDE DEF marker, K
<1>4. marker # <<>>
  BY <1>1, <1>3
<1>5. marker[K + 1] = separator /\ \A j \in 1 .. K : marker[j] = key[j]
  <2>1. marker[K + 1] = separator
    BY <1>2, <1>3 DEF Holds
  <2>2. \A j \in 1 .. K : marker[0 + j] = key[j]
    BY <1>3 DEF Holds, K
  <2>3. QED
    BY <1>1, <2>1, <2>2
<1>6. ASSUME NEW at \in Nat
      PROVE  at + 1 \in Found(text, marker, 1) <=>
                /\ at + K + 1 <= Len(text)
                /\ Holds(text, at, key) /\ text[at + K + 1] = separator
  <2> DEFINE found == {i \in 1 .. Len(text) - Len(marker) + 1 :
                          \A j \in 1 .. Len(marker) : text[i + j - 1] = marker[j]}
  <2>1. Found(text, marker, 1) = found
    <3>1. Found(text, marker, 1) = Places(text, marker, 1)
      BY <1>3, <1>4, FoundIs
    <3>2. QED
      BY <3>1 DEF Places
  <2>2. at + 1 \in found <=> /\ at + K + 1 <= Len(text)
                             /\ \A j \in 1 .. K + 1 : text[(at + 1) + j - 1] = marker[j]
    BY <1>1, <1>3
  <2> HIDE DEF found
  <2>3. \A j \in 1 .. K + 1 : (at + 1) + j - 1 = at + j
    BY <1>1
  <2>4. (\A j \in 1 .. K + 1 : text[at + j] = marker[j]) <=>
            /\ \A j \in 1 .. K : text[at + j] = key[j]
            /\ text[at + K + 1] = separator
    <3>1. /\ K + 1 \in 1 .. K + 1 /\ at + (K + 1) = at + K + 1
          /\ \A j \in 1 .. K : j \in 1 .. K + 1
          /\ \A j \in 1 .. K + 1 : j # K + 1 => j \in 1 .. K
      BY <1>1
    <3>2. QED
      BY <1>5, <3>1
  <2>5. QED
    BY <2>1, <2>2, <2>3, <2>4 DEF Holds, K
<1>7. QED
  BY <1>3, <1>4, <1>6 DEF marker, bar, K

\* A text ends with what is held at its end.
LEMMA HeldAtEnd ==
    ASSUME NEW S, NEW text \in Seq(S), NEW end \in Seq(S), Len(end) <= Len(text),
           Holds(text, Len(text) - Len(end), end)
    PROVE  EndsWith(text, end)
<1> DEFINE m == Len(text)
           n == Len(end)
           s == Reverse(end)
           t == Reverse(text)
<1>1. m \in Nat /\ n \in Nat /\ n <= m
  BY LenProperties
<1>2. /\ s \in Seq(S) /\ Len(s) = n /\ \A j \in 1 .. n : s[j] = end[(n - j) + 1]
  <2>1. \A j \in 1 .. n : (n - j) + 1 \in 1 .. n
    BY <1>1
  <2>2. \A j \in 1 .. n : end[(n - j) + 1] \in S
    BY <2>1, ElementOfSeq
  <2>3. s = [j \in 1 .. n |-> end[(n - j) + 1]]
    BY DEF Reverse
  <2> HIDE DEF s, n
  <2>4. s \in [1 .. n -> S]
    BY <2>2, <2>3
  <2>5. QED
    BY <1>1, <2>3, <2>4, SeqOfFunction
<1>3. /\ t \in Seq(S) /\ Len(t) = m /\ \A j \in 1 .. m : t[j] = text[(m - j) + 1]
  <2>1. \A j \in 1 .. m : (m - j) + 1 \in 1 .. m
    BY <1>1
  <2>2. \A j \in 1 .. m : text[(m - j) + 1] \in S
    BY <2>1, ElementOfSeq
  <2>3. t = [j \in 1 .. m |-> text[(m - j) + 1]]
    BY DEF Reverse
  <2> HIDE DEF t, m
  <2>4. t \in [1 .. m -> S]
    BY <2>2, <2>3
  <2>5. QED
    BY <1>1, <2>3, <2>4, SeqOfFunction
<1> HIDE DEF s, t
<1>4. ASSUME NEW j \in 1 .. n PROVE s[j] = t[j]
  <2>1. (n - j) + 1 \in 1 .. n /\ (m - n) + ((n - j) + 1) = (m - j) + 1 /\ j \in 1 .. m
    BY <1>1
  <2>2. text[(m - n) + ((n - j) + 1)] = end[(n - j) + 1]
    BY <2>1 DEF Holds
  <2>3. QED
    BY <1>2, <1>3, <2>1, <2>2
<1> HIDE DEF m, n
<1>5. /\ SubSeq(s, 1, n) \in Seq(S) /\ Len(SubSeq(s, 1, n)) = n
      /\ \A j \in 1 .. n : SubSeq(s, 1, n)[j] = s[j]
  <2>1. /\ SubSeq(s, 1, n) \in Seq(S) /\ Len(SubSeq(s, 1, n)) = n - 1 + 1
        /\ \A j \in 1 .. n - 1 + 1 : SubSeq(s, 1, n)[j] = s[1 + j - 1]
    BY <1>1, <1>2, Part
  <2>2. QED
    BY <1>1, <2>1
<1>6. /\ SubSeq(t, 1, n) \in Seq(S) /\ Len(SubSeq(t, 1, n)) = n
      /\ \A j \in 1 .. n : SubSeq(t, 1, n)[j] = t[j]
  <2>1. /\ SubSeq(t, 1, n) \in Seq(S) /\ Len(SubSeq(t, 1, n)) = n - 1 + 1
        /\ \A j \in 1 .. n - 1 + 1 : SubSeq(t, 1, n)[j] = t[1 + j - 1]
    BY <1>1, <1>3, Part
  <2>2. QED
    BY <1>1, <2>1
<1>7. SubSeq(s, 1, n) = SubSeq(t, 1, n)
  BY <1>4, <1>5, <1>6, SeqEqual
<1>8. QED
  BY <1>1, <1>2, <1>3, <1>7 DEF s, t, EndsWith, IsSuffix, IsPrefix

\* A place a key cannot be over.
Bars(text, b, key) == b # 0 => \A j \in 1 .. Len(key) : key[j] # text[b]

\* A key that ends where a word does is the end of the word, as it cannot
\* reach beyond the separator before that.
LEMMA EndOfWord ==
    ASSUME NEW S, NEW text, NEW b \in Nat, NEW at \in Nat,
           NEW word \in Seq(S), NEW key \in Seq(S),
           Holds(text, b, word), Holds(text, at, key),
           at + Len(key) = b + Len(word),
           Bars(text, b, key)
    PROVE  EndsWith(word, key) /\ (word = key => at = b)
<1> DEFINE W == Len(word)
           K == Len(key)
<1>1. W \in Nat /\ K \in Nat
  BY LenProperties
<1>2. ASSUME K > W PROVE FALSE
  <2>1. b # 0 /\ b - at \in 1 .. K /\ at + (b - at) = b
    BY <1>1, <1>2
  <2>2. text[at + (b - at)] = key[b - at]
    BY <2>1 DEF Holds
  <2>3. QED
    BY <2>1, <2>2 DEF Bars
<1>3. K <= W
  BY <1>1, <1>2
<1>4. ASSUME NEW j \in 1 .. K PROVE word[(W - K) + j] = key[j]
  <2>1. (W - K) + j \in 1 .. W /\ b + ((W - K) + j) = at + j
    BY <1>1, <1>3
  <2>2. text[b + ((W - K) + j)] = word[(W - K) + j] /\ text[at + j] = key[j]
    BY <2>1 DEF Holds
  <2>3. QED
    BY <2>1, <2>2
<1>5. Holds(word, W - K, key)
  BY <1>4 DEF Holds
<1>6. EndsWith(word, key)
  BY <1>3, <1>5, HeldAtEnd
<1>7. word = key => at = b
  BY <1>1
<1>8. QED
  BY <1>6, <1>7

\* Fields whose keys end with a separator and whose values end with a
\* terminator or the text: where they start, and where separators are.
Marked(fields, text, separator, terminator, start) ==
    LET n == Len(fields)
        K(i) == fields[i][1]
        V(i) == fields[i][2]
    IN
    /\ text \in Seq(Sign)
    /\ start \in [1 .. n -> Nat]
    /\ \A i \in 1 .. n : \A j \in i .. n : start[i] <= start[j]
    /\ \A i \in 1 .. n :
          LET end == start[i] + Len(K(i)) + Len(V(i)) + 2 IN
          /\ start[i] # 0 => text[start[i]] \in {separator, terminator}
          /\ Holds(text, start[i], K(i))
          /\ text[start[i] + Len(K(i)) + 1] = separator
          /\ Holds(text, start[i] + Len(K(i)) + 1, V(i))
          /\ end <= Len(text) + 1 /\ (end <= Len(text) => text[end] = terminator)
    /\ \A p \in 1 .. Len(text) : text[p] = separator =>
          \E i \in 1 .. n :
              \/ p = start[i] + Len(K(i)) + 1
              \/ p = start[i] + Len(K(i)) + Len(V(i)) + 2

\* No value and no other key ends with a key.
OnlyKey(fields, key) ==
    \A i \in DOMAIN fields : /\ ~ EndsWith(fields[i][2], key)
                             /\ EndsWith(fields[i][1], key) => fields[i][1] = key

\* The marker of such a key is found where fields with the key start, and
\* nowhere else.
LEMMA MarkedFound ==
    ASSUME NEW fields \in Seq(Key \X Value), NEW text, NEW start,
           NEW separator \in {"nul", "="}, NEW terminator \in {"nul", "&"},
           Marked(fields, text, separator, terminator, start), NEW key \in Key,
           OnlyKey(fields, key)
    PROVE  LET found == Found(text, key \o <<separator>>, 1) IN
           /\ \A q \in found : \E i \in 1 .. Len(fields) :
                 fields[i][1] = key /\ q = start[i] + 1
           /\ \A i \in 1 .. Len(fields) : fields[i][1] = key => start[i] + 1 \in found
<1> DEFINE n == Len(fields)
           K == Len(key)
           marker == key \o <<separator>>
           found == Found(text, marker, 1)
<1>1. /\ n \in Nat /\ start \in [1 .. n -> Nat]
      /\ text \in Seq(Sign) /\ Len(text) \in Nat
  BY FieldIs, LenProperties DEF Marked
<1>2. /\ key \in Seq(Sign) /\ K \in Nat /\ separator \in Sign
      /\ \A j \in 1 .. K : key[j] # separator /\ key[j] # terminator
  <2>1. separator \in Sign
    BY DEF Sign
  <2>2. QED
    BY <2>1, KeyIs
<1>3. /\ marker \in Seq(Sign) /\ marker # <<>>
      /\ \A at \in Nat :
            at + 1 \in found <=>
               /\ at + K + 1 <= Len(text)
               /\ Holds(text, at, key) /\ text[at + K + 1] = separator
  <2>1. text \in Seq(Sign) /\ key \in Seq(Sign) /\ separator \in Sign
    BY <1>1, <1>2
  <2>2. QED
    BY <2>1, KeyMarker, Zenon
<1> HIDE DEF marker
<1>4. found \subseteq 1 .. Len(text)
  BY <1>1, <1>3, FoundInside
<1>5. ASSUME NEW i \in 1 .. n
      PROVE  LET word == fields[i][1]
                 value == fields[i][2]
                 W == Len(word)
                 V == Len(value)
                 x == start[i]
             IN  /\ word \in Seq(Sign) /\ value \in Seq(Sign) /\ W \in Nat /\ V \in Nat
                 /\ x \in Nat /\ ~ EndsWith(value, key)
                 /\ EndsWith(word, key) => word = key
                 /\ x # 0 => text[x] \in {separator, terminator}
                 /\ Holds(text, x, word) /\ text[x + W + 1] = separator
                 /\ Holds(text, x + W + 1, value)
                 /\ x + W + V + 2 <= Len(text) + 1
  <2>1. /\ fields[i][1] \in Seq(Sign) /\ fields[i][2] \in Seq(Sign)
        /\ Len(fields[i][1]) \in Nat /\ Len(fields[i][2]) \in Nat
    BY FieldIs
  <2>2. ~ EndsWith(fields[i][2], key) /\ (EndsWith(fields[i][1], key) => fields[i][1] = key)
    <3>1. i \in DOMAIN fields
      BY FieldIs
    <3>2. QED
      BY <3>1 DEF OnlyKey
  <2>3. QED
    BY <1>1, <2>1, <2>2 DEF Marked
<1>6. ASSUME NEW q \in found
      PROVE  \E i \in 1 .. n : fields[i][1] = key /\ q = start[i] + 1
  <2> DEFINE at == q - 1
  <2>1. at \in Nat /\ q = at + 1
    BY <1>1, <1>4
  <2> HIDE DEF at
  <2>2. at + K + 1 <= Len(text) /\ Holds(text, at, key) /\ text[at + K + 1] = separator
    BY <1>3, <2>1
  <2>3. PICK i \in 1 .. n :
            \/ at + K + 1 = start[i] + Len(fields[i][1]) + 1
            \/ at + K + 1 = start[i] + Len(fields[i][1]) + Len(fields[i][2]) + 2
    <3>1. at + K + 1 \in 1 .. Len(text)
      BY <1>1, <1>2, <2>1, <2>2
    <3> HIDE DEF K
    <3>2. QED
      BY <2>2, <3>1 DEF Marked
  <2> DEFINE word == fields[i][1]
             value == fields[i][2]
             W == Len(word)
             V == Len(value)
             x == start[i]
  <2>4. /\ word \in Seq(Sign) /\ value \in Seq(Sign) /\ W \in Nat /\ V \in Nat
        /\ x \in Nat /\ ~ EndsWith(value, key)
        /\ EndsWith(word, key) => word = key
        /\ x # 0 => text[x] \in {separator, terminator}
        /\ Holds(text, x, word) /\ text[x + W + 1] = separator
        /\ Holds(text, x + W + 1, value)
    BY <1>5
  <2>5. \/ at + K + 1 = x + W + 1
        \/ at + K + 1 = x + W + V + 2
    BY <2>3
  <2>9. /\ at \in Nat /\ x \in Nat /\ K \in Nat /\ W \in Nat /\ V \in Nat
        /\ key \in Seq(Sign)
    BY <1>2, <2>1, <2>4
  <2> HIDE DEF word, value, x, K, W, V
  <2>6. CASE at + K + 1 = x + W + 1
    <3>1. at + K = x + W
      BY <2>6, <2>9
    <3>2. Bars(text, x, key)
      BY <1>2, <2>4 DEF Bars, K
    <3>3. EndsWith(word, key) /\ (word = key => at = x)
      <4>1. word \in Seq(Sign) /\ key \in Seq(Sign) /\ x \in Nat /\ at \in Nat
        BY <2>4, <2>9
      <4>2. Holds(text, x, word) /\ Holds(text, at, key)
        BY <2>2, <2>4
      <4>3. at + Len(key) = x + Len(word)
        BY <3>1 DEF K, W
      <4>4. QED
        BY <3>2, <4>1, <4>2, <4>3, EndOfWord
    <3>4. QED
      BY <2>1, <2>4, <3>3 DEF word, x
  <2>7. CASE at + K + 1 = x + W + V + 2
    <3> DEFINE b == x + W + 1
    <3>1. b \in Nat /\ at + K = b + V
      BY <2>7, <2>9
    <3>2. text[b] = separator /\ Holds(text, b, value)
      BY <2>4
    <3> HIDE DEF b
    <3>3. Bars(text, b, key)
      BY <1>2, <3>2 DEF Bars, K
    <3>4. EndsWith(value, key)
      <4>1. value \in Seq(Sign) /\ key \in Seq(Sign) /\ b \in Nat /\ at \in Nat
        BY <2>4, <2>9, <3>1
      <4>2. Holds(text, b, value) /\ Holds(text, at, key)
        BY <2>2, <3>2
      <4>3. at + Len(key) = b + Len(value)
        BY <3>1 DEF K, V
      <4>4. QED
        BY <3>3, <4>1, <4>2, <4>3, EndOfWord
    <3>5. QED
      BY <2>4, <3>4
  <2>8. QED
    BY <2>5, <2>6, <2>7
<1>7. ASSUME NEW i \in 1 .. n, fields[i][1] = key PROVE start[i] + 1 \in found
  <2> DEFINE V == Len(fields[i][2])
             x == start[i]
  <2>1. /\ V \in Nat /\ x \in Nat /\ Holds(text, x, key) /\ text[x + K + 1] = separator
        /\ x + K + V + 2 <= Len(text) + 1
    BY <1>5, <1>7
  <2> HIDE DEF V, x, K
  <2>2. x + K + 1 <= Len(text)
    BY <1>1, <1>2, <2>1
  <2>3. QED
    BY <1>3, <2>1, <2>2 DEF x
<1>8. QED
  BY <1>6, <1>7 DEF found, marker, n

\* So what is found is the value of the first field with the key.
LEMMA MarkedValue ==
    ASSUME NEW fields \in Seq(Key \X Value), NEW text, NEW start,
           NEW separator \in {"nul", "="}, NEW terminator \in {"nul", "&"},
           Marked(fields, text, separator, terminator, start), NEW key \in Key,
           OnlyKey(fields, key)
    PROVE  ValueAfter(text, key \o <<separator>>, terminator) = FieldOf(fields, key)
<1> DEFINE n == Len(fields)
           K == Len(key)
           marker == key \o <<separator>>
           found == Found(text, marker, 1)
<1>1. /\ n \in Nat /\ start \in [1 .. n -> Nat]
      /\ \A i \in 1 .. n : \A j \in i .. n : start[i] <= start[j]
      /\ text \in Seq(Sign) /\ Len(text) \in Nat
  BY FieldIs, LenProperties DEF Marked
<1>2. separator \in Sign /\ terminator \in Sign
  BY DEF Sign
<1>3. K \in Nat /\ marker \in Seq(Sign) /\ Len(marker) = K + 1 /\ marker # <<>>
  BY <1>1, <1>2, KeyIs, KeyMarker
<1>4. /\ \A q \in found : \E i \in 1 .. n : fields[i][1] = key /\ q = start[i] + 1
      /\ \A i \in 1 .. n : fields[i][1] = key => start[i] + 1 \in found
  BY MarkedFound
<1> HIDE DEF n, K, marker
<1>5. CASE /\ \A i \in 1 .. n : fields[i][1] # key
           /\ FieldOf(fields, key) = <<>>
  <2>1. found = {}
    BY <1>4, <1>5
  <2>2. Find(text, marker, 1) = 0
    BY <2>1 DEF Find
  <2>3. QED
    BY <1>5, <2>2 DEF ValueAfter, marker
<1>6. ASSUME NEW m \in 1 .. n, fields[m][1] = key, FieldOf(fields, key) = fields[m][2],
             \A i \in 1 .. n : fields[i][1] = key => m <= i
      PROVE  ValueAfter(text, marker, terminator) = FieldOf(fields, key)
  <2> DEFINE value == fields[m][2]
             V == Len(value)
             x == start[m]
             p == x + 1
  <2>1. /\ value \in Seq(Sign) /\ V \in Nat /\ \A j \in 1 .. V : value[j] # terminator
    <3>1. value \in Value
      BY <1>6, FieldIs DEF n
    <3>2. QED
      BY <3>1, KeyIs
  <2>2. /\ x \in Nat
        /\ Holds(text, x + K + 1, value)
        /\ x + K + V + 2 <= Len(text) + 1
        /\ x + K + V + 2 <= Len(text) => text[x + K + V + 2] = terminator
    <3>1. x \in Nat
      BY <1>1
    <3>2. /\ Holds(text, x + K + 1, value)
          /\ x + K + V + 2 <= Len(text) + 1
          /\ x + K + V + 2 <= Len(text) => text[x + K + V + 2] = terminator
      BY <1>6 DEF Marked, n, K
    <3>3. QED
      BY <3>1, <3>2
  <2>3. p \in found
    BY <1>4, <1>6
  <2>4. ASSUME NEW q \in found PROVE p <= q
    <3>1. PICK i \in 1 .. n : fields[i][1] = key /\ q = start[i] + 1
      BY <1>4
    <3>2. m <= i
      BY <1>6, <3>1
    <3>3. start[m] <= start[i] /\ start[i] \in Nat
      BY <1>1, <3>2
    <3>4. QED
      BY <2>2, <3>1, <3>3
  <2> HIDE DEF value, V, x, found
  <2>5. p + Len(marker) + V = x + K + V + 2 /\ (p + Len(marker)) - 1 = x + K + 1
    BY <1>3, <2>1, <2>2
  <2> HIDE DEF p
  <2>6. ValueAt(text, marker, terminator, p, value)
    BY <2>1, <2>2, <2>3, <2>4, <2>5 DEF ValueAt, V, found
  <2>7. ValueAfter(text, marker, terminator) = value
    BY <1>1, <1>2, <1>3, <2>1, <2>6, ValueIs
  <2>8. QED
    BY <1>6, <2>7 DEF value
<1>7. QED
  BY <1>5, <1>6, FirstField DEF n, marker

\* A request of QR is one of those texts.
LEMMA QrIs ==
    ASSUME NEW fields \in Seq(Key \X Value)
    PROVE  \E start : Marked(fields,
              FlattenSeq([i \in DOMAIN fields |->
                  fields[i][1] \o <<"nul">> \o fields[i][2] \o <<"nul">>]),
              "nul", "nul", start)
<1> DEFINE n == Len(fields)
           a == [i \in 1 .. n |-> fields[i][1]]
           b == [i \in 1 .. n |-> <<"nul">>]
           c == [i \in 1 .. n |-> fields[i][2]]
           text == FourTexts(n, a, b, c, b)
<1>1. /\ n \in Nat /\ DOMAIN fields = 1 .. n
      /\ \A i \in 1 .. n : \A h \in {1, 2} :
            /\ fields[i][h] \in Seq(Sign) /\ Len(fields[i][h]) \in Nat
            /\ \A j \in 1 .. Len(fields[i][h]) : fields[i][h][j] # "nul"
  BY FieldIs DEF Char
<1>2. /\ a \in [1 .. n -> Seq(Sign)]
      /\ b \in [1 .. n -> Seq(Sign)] /\ c \in [1 .. n -> Seq(Sign)]
  <2>1. <<"nul">> \in Seq(Sign)
    BY DEF Sign
  <2>2. QED
    BY <1>1, <2>1
<1>3. /\ \A i \in 1 .. n : a[i] = fields[i][1] /\ b[i] = <<"nul">> /\ c[i] = fields[i][2]
      /\ text = FlattenSeq([i \in DOMAIN fields |->
                    fields[i][1] \o <<"nul">> \o fields[i][2] \o <<"nul">>])
  <2>1. [i \in 1 .. n |-> a[i] \o b[i] \o c[i] \o b[i]]
            = [i \in DOMAIN fields |->
                  fields[i][1] \o <<"nul">> \o fields[i][2] \o <<"nul">>]
    BY <1>1
  <2>2. QED
    BY <2>1 DEF FourTexts
<1> HIDE DEF a, b, c, n
<1>4. text \in Seq(Sign) /\ \E off : Fours(text, n, a, b, c, b, off)
  BY <1>1, <1>2, FoursAre
<1>5. PICK off : Fours(text, n, a, b, c, b, off)
  BY <1>4
<1> HIDE DEF text
<1>6. /\ off \in [1 .. n + 1 -> Nat] /\ off[1] = 0 /\ off[n + 1] = Len(text)
      /\ \A i \in 1 .. n + 1 : \A j \in i .. n + 1 : off[i] <= off[j]
      /\ \A p \in 1 .. Len(text) : \E i \in 1 .. n : off[i] < p /\ p <= off[i + 1]
      /\ Len(text) \in Nat
  BY <1>4, <1>5, LenProperties DEF Fours
<1> DEFINE start == [i \in 1 .. n |-> off[i]]
<1>7. ASSUME NEW i \in 1 .. n
      PROVE  LET key == fields[i][1]
                 value == fields[i][2]
                 K == Len(key)
                 V == Len(value)
                 x == off[i]
             IN  /\ K \in Nat /\ V \in Nat /\ x \in Nat
                 /\ \A j \in 1 .. K : key[j] # "nul"
                 /\ \A j \in 1 .. V : value[j] # "nul"
                 /\ off[i + 1] = x + K + V + 2 /\ off[i + 1] <= Len(text)
                 /\ Holds(text, x, key) /\ text[x + K + 1] = "nul"
                 /\ Holds(text, x + K + 1, value) /\ text[off[i + 1]] = "nul"
  <2> DEFINE key == fields[i][1]
             value == fields[i][2]
             K == Len(key)
             V == Len(value)
             x == off[i]
  <2>1. /\ K \in Nat /\ V \in Nat
        /\ \A j \in 1 .. K : key[j] # "nul"
        /\ \A j \in 1 .. V : value[j] # "nul"
    BY <1>1
  <2>2. x \in Nat /\ off[i + 1] \in Nat /\ off[i + 1] <= Len(text)
    <3>1. i \in 1 .. n + 1 /\ i + 1 \in 1 .. n + 1 /\ n + 1 \in i + 1 .. n + 1
      BY <1>1
    <3>2. QED
      BY <1>6, <3>1
  <2>3. a[i] = key /\ c[i] = value /\ Len(b[i]) = 1 /\ b[i][1] = "nul"
    BY <1>3
  <2>4. /\ off[i + 1] = x + (Len(a[i]) + Len(b[i]) + Len(c[i]) + Len(b[i]))
        /\ Holds(text, x, a[i]) /\ Holds(text, x + Len(a[i]), b[i])
        /\ Holds(text, x + (Len(a[i]) + Len(b[i])), c[i])
        /\ Holds(text, x + (Len(a[i]) + Len(b[i]) + Len(c[i])), b[i])
    BY <1>5 DEF Fours
  <2> HIDE DEF key, value, x
  <2>5. /\ off[i + 1] = x + K + V + 2
        /\ x + (Len(a[i]) + Len(b[i])) = x + K + 1
        /\ x + (Len(a[i]) + Len(b[i]) + Len(c[i])) = x + K + V + 1
        /\ (x + K + V + 1) + 1 = x + K + V + 2
    BY <2>1, <2>2, <2>3, <2>4
  <2>6. text[x + K + 1] = "nul" /\ text[(x + K + V + 1) + 1] = "nul"
    BY <2>3, <2>4, <2>5 DEF Holds
  <2>7. Holds(text, x, key) /\ Holds(text, x + K + 1, value)
    BY <2>3, <2>4, <2>5
  <2>8. QED
    BY <2>1, <2>2, <2>5, <2>6, <2>7 DEF key, value, x
<1>8. ASSUME NEW i \in 1 .. n, off[i] # 0 PROVE text[off[i]] = "nul"
  <2>1. i - 1 \in 1 .. n /\ (i - 1) + 1 = i
    BY <1>1, <1>6, <1>8
  <2>2. text[off[(i - 1) + 1]] = "nul"
    BY <1>7, <2>1
  <2>3. QED
    BY <2>1, <2>2
<1>9. ASSUME NEW p \in 1 .. Len(text), text[p] = "nul"
      PROVE  \E i \in 1 .. n :
                \/ p = off[i] + Len(fields[i][1]) + 1
                \/ p = off[i] + Len(fields[i][1]) + Len(fields[i][2]) + 2
  <2>1. PICK i \in 1 .. n : off[i] < p /\ p <= off[i + 1]
    BY <1>6
  <2> DEFINE key == fields[i][1]
             value == fields[i][2]
             K == Len(key)
             V == Len(value)
             x == off[i]
  <2>2. /\ K \in Nat /\ V \in Nat /\ x \in Nat
        /\ \A j \in 1 .. K : key[j] # "nul"
        /\ \A j \in 1 .. V : value[j] # "nul"
        /\ off[i + 1] = x + K + V + 2
        /\ Holds(text, x, key) /\ Holds(text, x + K + 1, value)
    BY <1>7
  <2>3. p \in Nat /\ x < p /\ p <= x + K + V + 2
    BY <1>6, <2>1, <2>2
  <2> HIDE DEF key, value, K, V, x
  <2>4. ASSUME p <= x + K PROVE FALSE
    <3>1. p - x \in 1 .. K /\ x + (p - x) = p
      BY <2>2, <2>3, <2>4
    <3>2. text[x + (p - x)] = key[p - x]
      BY <2>2, <3>1 DEF Holds, K
    <3>3. QED
      BY <1>9, <2>2, <3>1, <3>2
  <2>5. ASSUME p > x + K + 1, p <= x + K + V + 1 PROVE FALSE
    <3>1. p - x - K - 1 \in 1 .. V /\ (x + K + 1) + (p - x - K - 1) = p
      BY <2>2, <2>3, <2>5
    <3>2. text[(x + K + 1) + (p - x - K - 1)] = value[p - x - K - 1]
      BY <2>2, <3>1 DEF Holds, V
    <3>3. QED
      BY <1>9, <2>2, <3>1, <3>2
  <2>6. p = x + K + 1 \/ p = x + K + V + 2
    BY <2>2, <2>3, <2>4, <2>5
  <2>7. QED
    BY <2>6 DEF key, value, K, V, x
<1>10. start \in [1 .. n -> Nat] /\ \A i \in 1 .. n : start[i] = off[i]
  BY <1>7
<1> HIDE DEF start
<1>11. \A i \in 1 .. n : \A j \in i .. n : start[i] <= start[j]
  <2>1. \A i \in 1 .. n : \A j \in i .. n : j \in 1 .. n /\ i \in 1 .. n + 1 /\ j \in i .. n + 1
    BY <1>1
  <2>2. QED
    BY <1>6, <1>10, <2>1
<1>12. ASSUME NEW i \in 1 .. n
       PROVE  LET end == start[i] + Len(fields[i][1]) + Len(fields[i][2]) + 2 IN
              /\ start[i] # 0 => text[start[i]] \in {"nul", "nul"}
              /\ Holds(text, start[i], fields[i][1])
              /\ text[start[i] + Len(fields[i][1]) + 1] = "nul"
              /\ Holds(text, start[i] + Len(fields[i][1]) + 1, fields[i][2])
              /\ end <= Len(text) + 1 /\ (end <= Len(text) => text[end] = "nul")
  <2> DEFINE x == off[i]
             K == Len(fields[i][1])
             V == Len(fields[i][2])
             end == start[i] + K + V + 2
  <2>1. start[i] = x /\ (x # 0 => text[x] = "nul")
    BY <1>8, <1>10
  <2>2. /\ Holds(text, start[i], fields[i][1])
        /\ text[start[i] + Len(fields[i][1]) + 1] = "nul"
        /\ Holds(text, start[i] + Len(fields[i][1]) + 1, fields[i][2])
        /\ end = off[i + 1] /\ off[i + 1] <= Len(text) /\ text[off[i + 1]] = "nul"
        /\ end \in Nat
    <3>1. /\ K \in Nat /\ V \in Nat /\ x \in Nat
          /\ off[i + 1] = x + K + V + 2 /\ off[i + 1] <= Len(text)
          /\ Holds(text, x, fields[i][1]) /\ text[x + K + 1] = "nul"
          /\ Holds(text, x + K + 1, fields[i][2]) /\ text[off[i + 1]] = "nul"
      BY <1>7
    <3> HIDE DEF x, K, V
    <3>2. x + K + V + 2 \in Nat
      BY <3>1
    <3>3. QED
      BY <2>1, <3>1, <3>2 DEF K
  <2> HIDE DEF end
  <2>3. end <= Len(text) + 1
    BY <1>6, <2>2
  <2>4. QED
    BY <2>1, <2>2, <2>3 DEF end
<1>13. \A p \in 1 .. Len(text) : text[p] = "nul" =>
          \E i \in 1 .. n :
              \/ p = start[i] + Len(fields[i][1]) + 1
              \/ p = start[i] + Len(fields[i][1]) + Len(fields[i][2]) + 2
  BY <1>9, <1>10
<1>14. Marked(fields, text, "nul", "nul", start)
  BY <1>4, <1>10, <1>11, <1>12, <1>13, Zenon DEF Marked, n
<1>15. QED
  BY <1>3, <1>14

\* A body of NAS is one of those texts.
LEMMA NasIs ==
    ASSUME NEW fields \in Seq(Key \X Value)
    PROVE  \E start : Marked(fields,
              FlattenSeq([i \in DOMAIN fields |->
                  (IF i = 1 THEN <<>> ELSE <<"&">>)
                      \o fields[i][1] \o <<"=">> \o fields[i][2]]),
              "=", "&", start)
<1> DEFINE n == Len(fields)
           a == [i \in 1 .. n |-> IF i = 1 THEN <<>> ELSE <<"&">>]
           b == [i \in 1 .. n |-> fields[i][1]]
           c == [i \in 1 .. n |-> <<"=">>]
           d == [i \in 1 .. n |-> fields[i][2]]
           text == FourTexts(n, a, b, c, d)
<1>1. /\ n \in Nat /\ DOMAIN fields = 1 .. n
      /\ \A i \in 1 .. n : \A h \in {1, 2} :
            /\ fields[i][h] \in Seq(Sign) /\ Len(fields[i][h]) \in Nat
            /\ \A j \in 1 .. Len(fields[i][h]) : fields[i][h][j] # "="
  BY FieldIs DEF Char
<1>2. /\ a \in [1 .. n -> Seq(Sign)] /\ b \in [1 .. n -> Seq(Sign)]
      /\ c \in [1 .. n -> Seq(Sign)] /\ d \in [1 .. n -> Seq(Sign)]
  <2>1. <<"&">> \in Seq(Sign) /\ <<"=">> \in Seq(Sign) /\ <<>> \in Seq(Sign)
    BY DEF Sign
  <2>2. QED
    BY <1>1, <2>1
<1>3. /\ \A i \in 1 .. n :
            /\ a[i] = (IF i = 1 THEN <<>> ELSE <<"&">>)
            /\ b[i] = fields[i][1] /\ c[i] = <<"=">> /\ d[i] = fields[i][2]
      /\ text = FlattenSeq([i \in DOMAIN fields |->
                    (IF i = 1 THEN <<>> ELSE <<"&">>)
                        \o fields[i][1] \o <<"=">> \o fields[i][2]])
  <2>1. [i \in 1 .. n |-> a[i] \o b[i] \o c[i] \o d[i]]
            = [i \in DOMAIN fields |->
                  (IF i = 1 THEN <<>> ELSE <<"&">>)
                      \o fields[i][1] \o <<"=">> \o fields[i][2]]
    BY <1>1
  <2>2. QED
    BY <2>1 DEF FourTexts
<1> HIDE DEF a, b, c, d, n
<1>4. text \in Seq(Sign) /\ \E off : Fours(text, n, a, b, c, d, off)
  BY <1>1, <1>2, FoursAre
<1>5. PICK off : Fours(text, n, a, b, c, d, off)
  BY <1>4
<1> HIDE DEF text
<1>6. /\ off \in [1 .. n + 1 -> Nat] /\ off[1] = 0 /\ off[n + 1] = Len(text)
      /\ \A i \in 1 .. n + 1 : \A j \in i .. n + 1 : off[i] <= off[j]
      /\ \A p \in 1 .. Len(text) : \E i \in 1 .. n : off[i] < p /\ p <= off[i + 1]
      /\ Len(text) \in Nat
  BY <1>4, <1>5, LenProperties DEF Fours
<1> DEFINE start == [i \in 1 .. n |-> IF i = 1 THEN off[i] ELSE off[i] + 1]
<1>7. /\ start \in [1 .. n -> Nat]
      /\ \A i \in 1 .. n : start[i] = IF i = 1 THEN off[i] ELSE off[i] + 1
  <2>1. \A i \in 1 .. n : off[i] \in Nat
    BY <1>1, <1>6
  <2>2. QED
    BY <2>1
<1> HIDE DEF start
<1>8. ASSUME NEW i \in 1 .. n
      PROVE  LET key == fields[i][1]
                 value == fields[i][2]
                 K == Len(key)
                 V == Len(value)
                 x == start[i]
             IN  /\ K \in Nat /\ V \in Nat /\ x \in Nat /\ off[i] \in Nat
                 /\ \A j \in 1 .. K : key[j] # "="
                 /\ \A j \in 1 .. V : value[j] # "="
                 /\ off[i + 1] = x + K + V + 1 /\ off[i + 1] <= Len(text)
                 /\ Holds(text, x, key) /\ text[x + K + 1] = "="
                 /\ Holds(text, x + K + 1, value)
                 /\ i # 1 => text[x] = "&"
  <2> DEFINE key == fields[i][1]
             value == fields[i][2]
             K == Len(key)
             V == Len(value)
             A == Len(a[i])
             y == off[i]
             x == start[i]
  <2>1. /\ K \in Nat /\ V \in Nat
        /\ \A j \in 1 .. K : key[j] # "="
        /\ \A j \in 1 .. V : value[j] # "="
    BY <1>1
  <2>2. y \in Nat /\ off[i + 1] \in Nat /\ off[i + 1] <= Len(text)
    <3>1. i \in 1 .. n + 1 /\ i + 1 \in 1 .. n + 1 /\ n + 1 \in i + 1 .. n + 1
      BY <1>1
    <3>2. QED
      BY <1>6, <3>1
  <2>3. /\ b[i] = key /\ d[i] = value /\ Len(c[i]) = 1 /\ c[i][1] = "="
        /\ A \in Nat
        /\ IF i = 1 THEN A = 0 ELSE A = 1 /\ a[i][1] = "&"
    BY <1>3
  <2>4. /\ off[i + 1] = y + (A + Len(b[i]) + Len(c[i]) + Len(d[i]))
        /\ Holds(text, y, a[i]) /\ Holds(text, y + A, b[i])
        /\ Holds(text, y + (A + Len(b[i])), c[i])
        /\ Holds(text, y + (A + Len(b[i]) + Len(c[i])), d[i])
    BY <1>5 DEF Fours
  <2>5. x = y + A /\ x \in Nat
    <3>1. /\ x = IF i = 1 THEN y ELSE y + 1
          /\ A = IF i = 1 THEN 0 ELSE 1
      BY <1>7, <2>3
    <3> HIDE DEF x, y, A
    <3>2. CASE i = 1
      BY <2>2, <3>1, <3>2
    <3>3. CASE i # 1
      BY <2>2, <3>1, <3>3
    <3>4. QED
      BY <3>2, <3>3
  <2>6. i # 1 => text[x] = "&"
    <3>1. ASSUME i # 1 PROVE text[y + 1] = "&"
      <4>1. 1 \in 1 .. Len(a[i]) /\ a[i][1] = "&"
        BY <2>3, <3>1
      <4> HIDE DEF y
      <4>2. QED
        BY <2>4, <4>1 DEF Holds
    <3>2. QED
      BY <2>3, <2>5, <3>1
  <2> HIDE DEF key, value, x, y, A
  <2>7. /\ off[i + 1] = x + K + V + 1
        /\ y + (A + Len(b[i])) = x + K
        /\ y + (A + Len(b[i]) + Len(c[i])) = x + K + 1
    BY <2>1, <2>2, <2>3, <2>4, <2>5
  <2>8. Holds(text, x, key) /\ Holds(text, x + K, c[i]) /\ Holds(text, x + K + 1, value)
    BY <2>3, <2>4, <2>5, <2>7
  <2>9. text[x + K + 1] = "="
    BY <2>3, <2>8 DEF Holds
  <2>10. QED
    BY <2>1, <2>2, <2>5, <2>6, <2>7, <2>8, <2>9 DEF key, value, x, y
<1>9. ASSUME NEW p \in 1 .. Len(text), text[p] = "="
      PROVE  \E i \in 1 .. n :
                \/ p = start[i] + Len(fields[i][1]) + 1
                \/ p = start[i] + Len(fields[i][1]) + Len(fields[i][2]) + 2
  <2>1. PICK i \in 1 .. n : off[i] < p /\ p <= off[i + 1]
    BY <1>6
  <2> DEFINE key == fields[i][1]
             value == fields[i][2]
             K == Len(key)
             V == Len(value)
             x == start[i]
  <2>2. /\ K \in Nat /\ V \in Nat /\ x \in Nat
        /\ \A j \in 1 .. K : key[j] # "="
        /\ \A j \in 1 .. V : value[j] # "="
        /\ off[i + 1] = x + K + V + 1
        /\ Holds(text, x, key) /\ Holds(text, x + K + 1, value)
    BY <1>8
  <2>3. p \in Nat /\ x < p /\ p <= x + K + V + 1
    <3>1. p \in Nat /\ p <= x + K + V + 1
      BY <1>6, <2>1, <2>2
    <3>2. x < p
      <4>1. off[i] \in Nat /\ off[i] < p
        BY <1>8, <2>1
      <4>2. CASE i = 1
        BY <1>7, <4>1, <4>2
      <4>3. CASE i # 1
        <5>1. x = off[i] + 1 /\ text[x] = "&"
          BY <1>7, <1>8, <4>3
        <5>2. p # x
          BY <1>9, <5>1
        <5> HIDE DEF x
        <5>3. QED
          BY <3>1, <4>1, <5>1, <5>2
      <4>4. QED
        BY <4>2, <4>3
    <3>3. QED
      BY <3>1, <3>2
  <2> HIDE DEF key, value, K, V, x
  <2>4. ASSUME p <= x + K PROVE FALSE
    <3>1. p - x \in 1 .. K /\ x + (p - x) = p
      BY <2>2, <2>3, <2>4
    <3>2. text[x + (p - x)] = key[p - x]
      BY <2>2, <3>1 DEF Holds, K
    <3>3. QED
      BY <1>9, <2>2, <3>1, <3>2
  <2>5. ASSUME p > x + K + 1, p <= x + K + V + 1 PROVE FALSE
    <3>1. p - x - K - 1 \in 1 .. V /\ (x + K + 1) + (p - x - K - 1) = p
      BY <2>2, <2>3, <2>5
    <3>2. text[(x + K + 1) + (p - x - K - 1)] = value[p - x - K - 1]
      BY <2>2, <3>1 DEF Holds, V
    <3>3. QED
      BY <1>9, <2>2, <3>1, <3>2
  <2>6. p = x + K + 1
    BY <2>2, <2>3, <2>4, <2>5
  <2>7. QED
    BY <2>6 DEF key, K, x
<1>10. \A i \in 1 .. n : \A j \in i .. n : start[i] <= start[j]
  <2> SUFFICES ASSUME NEW i \in 1 .. n, NEW j \in i .. n PROVE start[i] <= start[j]
    OBVIOUS
  <2>1. j \in 1 .. n /\ i \in 1 .. n + 1 /\ j \in i .. n + 1 /\ (i # 1 => j # 1)
    BY <1>1
  <2>2. off[i] <= off[j] /\ off[i] \in Nat /\ off[j] \in Nat
    BY <1>6, <2>1
  <2>3. QED
    BY <1>7, <2>1, <2>2
<1>11. ASSUME NEW i \in 1 .. n
       PROVE  LET end == start[i] + Len(fields[i][1]) + Len(fields[i][2]) + 2 IN
              /\ start[i] # 0 => text[start[i]] \in {"=", "&"}
              /\ Holds(text, start[i], fields[i][1])
              /\ text[start[i] + Len(fields[i][1]) + 1] = "="
              /\ Holds(text, start[i] + Len(fields[i][1]) + 1, fields[i][2])
              /\ end <= Len(text) + 1 /\ (end <= Len(text) => text[end] = "&")
  <2> DEFINE K == Len(fields[i][1])
             V == Len(fields[i][2])
             x == start[i]
             end == x + K + V + 2
  <2>1. /\ x \in Nat /\ K \in Nat /\ V \in Nat /\ (i # 1 => text[x] = "&")
        /\ off[i + 1] = x + K + V + 1 /\ off[i + 1] <= Len(text)
        /\ Holds(text, x, fields[i][1]) /\ text[x + K + 1] = "="
        /\ Holds(text, x + K + 1, fields[i][2])
    BY <1>8
  <2>2. x # 0 => i # 1
    BY <1>6, <1>7
  <2> HIDE DEF x, K, V
  <2>3. end = off[i + 1] + 1 /\ end <= Len(text) + 1
    BY <1>6, <2>1
  <2>4. ASSUME end <= Len(text) PROVE text[end] = "&"
    <3>1. i # n
      BY <1>6, <2>1, <2>4
    <3>2. i + 1 \in 1 .. n /\ i + 1 # 1
      BY <1>1, <3>1
    <3>3. start[i + 1] = off[i + 1] + 1 /\ text[start[i + 1]] = "&"
      BY <1>7, <1>8, <3>2
    <3>4. QED
      BY <2>3, <3>3
  <2> HIDE DEF end
  <2>5. QED
    BY <2>1, <2>2, <2>3, <2>4 DEF end, x, K, V
<1>12. \A p \in 1 .. Len(text) : text[p] = "=" =>
          \E i \in 1 .. n :
              \/ p = start[i] + Len(fields[i][1]) + 1
              \/ p = start[i] + Len(fields[i][1]) + Len(fields[i][2]) + 2
  BY <1>9
<1>13. Marked(fields, text, "=", "&", start)
  BY <1>4, <1>7, <1>10, <1>11, <1>12, Zenon DEF Marked, n
<1>14. QED
  BY <1>3, <1>13

\* What a service finds in a request is the field.
LEMMA FieldsAre ==
    ASSUME NEW fields \in Seq(Key \X Value), NEW key \in Key
    PROVE  LET gamespy == FlattenSeq([i \in DOMAIN fields |->
                   <<"\\">> \o fields[i][1] \o <<"\\">> \o fields[i][2]])
                   \o <<"\\", "final", "\\">>
               qr == FlattenSeq([i \in DOMAIN fields |->
                   fields[i][1] \o <<"nul">> \o fields[i][2] \o <<"nul">>])
               nas == FlattenSeq([i \in DOMAIN fields |->
                   (IF i = 1 THEN <<>> ELSE <<"&">>)
                       \o fields[i][1] \o <<"=">> \o fields[i][2]])
           IN
           /\ (\A i \in DOMAIN fields : fields[i][2] # key)
                  => request_value(gamespy, key) = FieldOf(fields, key)
           /\ OnlyKey(fields, key)
                  => /\ qr_field_value(qr, key) = FieldOf(fields, key)
                     /\ request_parameter(nas, key) = FieldOf(fields, key)
<1> DEFINE gamespy == FlattenSeq([i \in DOMAIN fields |->
                   <<"\\">> \o fields[i][1] \o <<"\\">> \o fields[i][2]])
                   \o <<"\\", "final", "\\">>
           qr == FlattenSeq([i \in DOMAIN fields |->
                   fields[i][1] \o <<"nul">> \o fields[i][2] \o <<"nul">>])
           nas == FlattenSeq([i \in DOMAIN fields |->
                   (IF i = 1 THEN <<>> ELSE <<"&">>)
                       \o fields[i][1] \o <<"=">> \o fields[i][2]])
<1>1. \E off : Gamespy(fields, gamespy, off)
  BY GamespyIs, Zenon
<1>2. \E start : Marked(fields, qr, "nul", "nul", start)
  BY QrIs, Zenon
<1>3. \E start : Marked(fields, nas, "=", "&", start)
  BY NasIs, Zenon
<1> HIDE DEF gamespy, qr, nas
<1>4. ASSUME \A i \in DOMAIN fields : fields[i][2] # key
      PROVE  request_value(gamespy, key) = FieldOf(fields, key)
  <2>1. PICK off : Gamespy(fields, gamespy, off)
    BY <1>1
  <2>2. \A i \in 1 .. Len(fields) : fields[i][2] # key
    BY <1>4, FieldIs
  <2>3. QED
    BY <2>1, <2>2, GamespyValue
<1>5. ASSUME OnlyKey(fields, key)
      PROVE  qr_field_value(qr, key) = FieldOf(fields, key)
  <2>1. PICK start : Marked(fields, qr, "nul", "nul", start)
    BY <1>2
  <2>2. ValueAfter(qr, key \o <<"nul">>, "nul") = FieldOf(fields, key)
    BY <1>5, <2>1, MarkedValue
  <2>3. QED
    BY <2>2 DEF qr_field_value
<1>6. ASSUME OnlyKey(fields, key)
      PROVE  request_parameter(nas, key) = FieldOf(fields, key)
  <2>1. PICK start : Marked(fields, nas, "=", "&", start)
    BY <1>3
  <2>2. ValueAfter(nas, key \o <<"=">>, "&") = FieldOf(fields, key)
    BY <1>6, <2>1, MarkedValue
  <2>3. QED
    BY <2>2 DEF request_parameter
<1>7. QED
  BY <1>4, <1>5, <1>6 DEF gamespy, qr, nas

(***************************************************************************)
(* Lists.                                                                  *)
(***************************************************************************)
\* What splitting a text takes from a place on: the part there, if it is not
\* empty, and what it takes after the separator.
PartAt(text, separator, start) ==
    LET piece == UpTo(text, start, Find(text, <<separator>>, start))
    IN  IF piece = <<>> THEN <<>> ELSE <<piece>>
Split(text, separator, from, start) ==
    PartAt(text, separator, start)
        \o (IF Find(text, <<separator>>, start) = 0 THEN <<>>
            ELSE from[Find(text, <<separator>>, start) + 1])

\* A separator is found further on or not at all, and the part is a list of
\* at most one text.
LEMMA PartIs ==
    ASSUME NEW text \in Seq(Sign), NEW separator \in Sign, NEW start \in 1 .. Len(text) + 1
    PROVE  LET at == Find(text, <<separator>>, start) IN
           /\ at = 0 \/ at \in start .. Len(text)
           /\ PartAt(text, separator, start) \in Seq(Seq(Sign))
<1> DEFINE marker == <<separator>>
           at == Find(text, marker, start)
<1>1. marker \in Seq(Sign) /\ marker # <<>> /\ Len(marker) = 1
  OBVIOUS
<1>2. Len(text) \in Nat /\ start \in Nat \ {0} /\ start <= Len(text) + 1
  BY LenProperties
<1> HIDE DEF marker
<1>3. at = 0 \/ at \in start .. Len(text)
  <2>1. Found(text, marker, start) \subseteq start .. Len(text)
    BY <1>1, <1>2 DEF Found
  <2>2. CASE Found(text, marker, start) = {}
    BY <2>2 DEF Find
  <2>3. CASE Found(text, marker, start) # {}
    <3>1. Found(text, marker, start) \subseteq Nat
      BY <1>2, <2>1
    <3>2. Min(Found(text, marker, start)) \in Found(text, marker, start)
      BY <2>3, <3>1, MinIs
    <3>3. QED
      BY <2>1, <2>3, <3>2 DEF Find
  <2>4. QED
    BY <2>2, <2>3
<1> HIDE DEF at
<1>4. UpTo(text, start, at) \in Seq(Sign)
  <2>1. CASE at = 0
    <3>1. SubSeq(text, start, Len(text)) \in Seq(Sign)
      BY <1>2, Part
    <3>2. QED
      BY <2>1, <3>1 DEF UpTo
  <2>2. CASE at # 0
    <3>1. at \in start .. Len(text)
      BY <1>3, <2>2
    <3>2. at - 1 \in Nat /\ at - 1 <= Len(text) /\ start <= (at - 1) + 1
      BY <1>2, <3>1
    <3>3. SubSeq(text, start, at - 1) \in Seq(Sign)
      BY <1>2, <3>2, Part
    <3>4. QED
      BY <2>2, <3>3 DEF UpTo
  <2>3. QED
    BY <2>1, <2>2
<1> DEFINE piece == UpTo(text, start, at)
<1>5. (IF piece = <<>> THEN <<>> ELSE <<piece>>) \in Seq(Seq(Sign))
  BY <1>4
<1>6. PartAt(text, separator, start) = (IF piece = <<>> THEN <<>> ELSE <<piece>>)
  BY DEF PartAt, at, marker
<1>7. QED
  BY <1>3, <1>5, <1>6 DEF at, marker

\* It only depends on what it takes further on.
LEMMA SplitLooksAhead ==
    ASSUME NEW text \in Seq(Sign), NEW separator \in Sign, NEW start \in 1 .. Len(text) + 1,
           NEW f \in [1 .. Len(text) + 1 -> Seq(Seq(Sign))],
           NEW g \in [1 .. Len(text) + 1 -> Seq(Seq(Sign))],
           \A o \in 1 .. Len(text) + 1 : o > start => f[o] = g[o]
    PROVE  /\ Split(text, separator, f, start) \in Seq(Seq(Sign))
           /\ Split(text, separator, f, start) = Split(text, separator, g, start)
<1> DEFINE at == Find(text, <<separator>>, start)
           part == PartAt(text, separator, start)
<1>1. (at = 0 \/ at \in start .. Len(text)) /\ part \in Seq(Seq(Sign))
  BY PartIs
<1>2. /\ Split(text, separator, f, start) = part \o (IF at = 0 THEN <<>> ELSE f[at + 1])
      /\ Split(text, separator, g, start) = part \o (IF at = 0 THEN <<>> ELSE g[at + 1])
  BY DEF Split
<1> HIDE DEF at, part
<1>3. Len(text) \in Nat
  BY LenProperties
<1>4. CASE at = 0
  <2>1. part \o <<>> \in Seq(Seq(Sign))
    BY <1>1, EmptySeq, ConcatProperties
  <2>2. QED
    BY <1>2, <1>4, <2>1
<1>5. CASE at # 0
  <2>1. at + 1 \in 1 .. Len(text) + 1 /\ at + 1 > start
    BY <1>1, <1>3, <1>5
  <2>2. f[at + 1] = g[at + 1] /\ f[at + 1] \in Seq(Seq(Sign))
    BY <2>1
  <2>3. part \o f[at + 1] \in Seq(Seq(Sign))
    BY <1>1, <2>2, ConcatProperties
  <2>4. QED
    BY <1>2, <1>5, <2>2, <2>3
<1>6. QED
  BY <1>4, <1>5

\* So splitting is a function of the place.
LEMMA SplitExists ==
    ASSUME NEW text \in Seq(Sign), NEW separator \in Sign
    PROVE  \E from : from = [start \in 1 .. Len(text) + 1 |->
                                Split(text, separator, from, start)]
<1> DEFINE L == Len(text)
           D == 1 .. L + 1
           To(from, start) == Split(text, separator, from, start)
           From(from, n) == \A o \in D : o + n >= L + 2 => from[o] = To(from, o)
           M == {n \in Nat : \E from \in [D -> Seq(Seq(Sign))] : From(from, n)}
<1>1. L \in Nat
  BY LenProperties
<1>2. ASSUME NEW o \in D, NEW f \in [D -> Seq(Seq(Sign))], NEW g \in [D -> Seq(Seq(Sign))],
             \A i \in D : i > o => f[i] = g[i]
      PROVE  To(f, o) \in Seq(Seq(Sign)) /\ To(f, o) = To(g, o)
  BY <1>2, SplitLooksAhead
<1> HIDE DEF To, L
<1>3. ASSUME NEW n \in Nat, 0 .. n - 1 \subseteq M PROVE n \in M
  <2>1. CASE n = 0
    <3> DEFINE from == [o \in D |-> <<>>]
    <3>1. from \in [D -> Seq(Seq(Sign))]
      BY EmptySeq
    <3>2. From(from, 0)
      BY <1>1
    <3> HIDE DEF From, from
    <3>3. QED
      BY <2>1, <3>1, <3>2
  <2>2. CASE n # 0
    <3>1. n - 1 \in M
      <4>1. n - 1 \in 0 .. n - 1
        BY <2>2
      <4> HIDE DEF M
      <4>2. QED
        BY <1>3, <4>1
    <3>2. PICK from \in [D -> Seq(Seq(Sign))] : From(from, n - 1)
      BY <3>1
    <3>3. CASE n > L + 1
      <4>1. ASSUME NEW o \in D PROVE from[o] = To(from, o)
        <5>1. o + (n - 1) >= L + 2
          BY <1>1, <3>3
        <5>2. QED
          BY <3>2, <5>1
      <4>2. QED
        BY <4>1
    <3>4. CASE n <= L + 1
      <4> DEFINE x == (L + 2) - n
                 new == [o \in D |-> IF o = x THEN To(from, x) ELSE from[o]]
      <4>1. x \in D
        BY <1>1, <2>2, <3>4
      <4>2. To(from, x) \in Seq(Seq(Sign))
        BY <1>2, <4>1
      <4>3. new \in [D -> Seq(Seq(Sign))]
        BY <4>2
      <4>4. \A i \in D : i # x => new[i] = from[i]
        OBVIOUS
      <4>5. new[x] = To(from, x)
        BY <4>1
      <4> HIDE DEF new
      <4>6. ASSUME NEW o \in D, o + n >= L + 2 PROVE new[o] = To(new, o)
        <5>1. o >= x
          BY <1>1, <3>4, <4>6
        <5>2. \A i \in D : i > o => new[i] = from[i]
          BY <1>1, <4>1, <4>4, <5>1
        <5>3. To(new, o) = To(from, o)
          BY <1>2, <4>3, <5>2
        <5>4. CASE o = x
          BY <4>5, <5>3, <5>4
        <5>5. CASE o # x
          <6>1. o + (n - 1) >= L + 2
            BY <1>1, <3>4, <5>1, <5>5
          <6>2. from[o] = To(from, o)
            BY <3>2, <6>1
          <6>3. QED
            BY <4>4, <5>3, <5>5, <6>2
        <5>6. QED
          BY <5>4, <5>5
      <4>7. From(new, n)
        BY <4>6
      <4> HIDE DEF From
      <4>8. QED
        BY <4>3, <4>7
    <3> HIDE DEF M
    <3>5. QED
      BY <1>1, <3>3, <3>4
  <2>3. QED
    BY <2>1, <2>2
<1>4. L + 1 \in M
  <2> HIDE DEF M
  <2>1. QED
    BY <1>1, <1>3, Induction
<1>5. PICK from \in [D -> Seq(Seq(Sign))] : From(from, L + 1)
  BY <1>4
<1>6. \A o \in D : from[o] = To(from, o)
  BY <1>1, <1>5
<1>7. from = [o \in D |-> To(from, o)]
  BY <1>6
<1>8. QED
  BY <1>7 DEF To, L

\* Pieces is that function at the start.
LEMMA PiecesIs ==
    ASSUME NEW text \in Seq(Sign), NEW separator \in Sign
    PROVE  \E from : /\ Pieces(text, separator) = from[1]
                     /\ \A start \in 1 .. Len(text) + 1 :
                           from[start] = Split(text, separator, from, start)
<1> DEFINE chosen == CHOOSE from : from = [start \in 1 .. Len(text) + 1 |->
                                              Split(text, separator, from, start)]
<1>1. chosen = [start \in 1 .. Len(text) + 1 |-> Split(text, separator, chosen, start)]
  BY SplitExists
<1>2. Pieces(text, separator) = chosen[1]
  BY DEF Pieces, Split, PartAt
<1> HIDE DEF chosen
<1>3. \A start \in 1 .. Len(text) + 1 :
          chosen[start] = Split(text, separator, chosen, start)
  BY <1>1
<1>4. QED
  BY <1>2, <1>3

\* What is put together from the end is the same as from the start.
LEMMA Chain ==
    ASSUME NEW S, NEW parts \in Seq(Seq(S)), parts # <<>>, NEW t,
           \A i \in 1 .. Len(parts) :
              t[i] = parts[i] \o (IF i = Len(parts) THEN <<>> ELSE t[i + 1])
    PROVE  FlattenSeq(parts) = t[1]
<1> DEFINE n == Len(parts)
           rest(i) == IF i = n THEN <<>> ELSE t[i + 1]
<1>1. /\ n \in Nat \ {0} /\ \A i \in 1 .. n : parts[i] \in Seq(S)
  BY EmptySeq, LenProperties, ElementOfSeq
<1>2. PICK f \in [1 .. n -> Seq(S)] :
            /\ FlattenSeq(parts) = f[n] /\ f[1] = parts[1]
            /\ \A i \in 2 .. n : f[i] = f[i - 1] \o parts[i]
  BY FlattenIs
<1>3. \A i \in 1 .. n : t[i] = parts[i] \o rest(i)
  OBVIOUS
<1>4. rest(n) = <<>> /\ \A i \in 1 .. n : i # n => rest(i) = t[i + 1] /\ i + 1 \in 1 .. n
  BY <1>1
<1> HIDE DEF n, rest
<1>5. \A i \in 1 .. n : rest(i) \in Seq(S)
  <2> DEFINE M == {k \in Nat : k < n => rest(n - k) \in Seq(S)}
  <2>1. ASSUME NEW k \in Nat, 0 .. k - 1 \subseteq M PROVE k \in M
    <3> SUFFICES ASSUME k < n PROVE rest(n - k) \in Seq(S)
      OBVIOUS
    <3>1. CASE k = 0
      <4>1. n - k = n
        BY <1>1, <3>1
      <4>2. QED
        BY <1>4, <4>1, EmptySeq
    <3>2. CASE k # 0
      <4> DEFINE i == n - k
      <4>1. /\ k - 1 \in 0 .. k - 1 /\ k - 1 < n /\ n - (k - 1) = i + 1
            /\ i \in 1 .. n /\ i # n /\ i + 1 \in 1 .. n
        BY <1>1, <3>2
      <4>2. rest(i + 1) \in Seq(S)
        <5>1. rest(n - (k - 1)) \in Seq(S)
          BY <2>1, <4>1
        <5>2. QED
          BY <4>1, <5>1
      <4> HIDE DEF i
      <4>3. rest(i) = parts[i + 1] \o rest(i + 1)
        BY <1>3, <1>4, <4>1
      <4>4. parts[i + 1] \o rest(i + 1) \in Seq(S)
        BY <1>1, <4>1, <4>2, ConcatProperties
      <4>5. QED
        BY <4>3, <4>4 DEF i
    <3>3. QED
      BY <3>1, <3>2
  <2>2. Nat \subseteq M
    <3> HIDE DEF M
    <3>1. QED
      BY <2>1, Induction
  <2>3. ASSUME NEW i \in 1 .. n PROVE rest(i) \in Seq(S)
    <3>1. n - i \in Nat /\ n - i < n /\ n - (n - i) = i
      BY <1>1
    <3>2. rest(n - (n - i)) \in Seq(S)
      BY <2>2, <3>1
    <3>3. QED
      BY <3>1, <3>2
  <2>4. QED
    BY <2>3
<1> DEFINE N == {k \in Nat : k < n => f[k + 1] \o rest(k + 1) = t[1]}
<1>6. ASSUME NEW k \in Nat, 0 .. k - 1 \subseteq N PROVE k \in N
  <2> SUFFICES ASSUME k < n PROVE f[k + 1] \o rest(k + 1) = t[1]
    OBVIOUS
  <2>1. CASE k = 0
    <3>1. 1 \in 1 .. n /\ k + 1 = 1
      BY <1>1, <2>1
    <3>2. QED
      BY <1>2, <1>3, <3>1
  <2>2. CASE k # 0
    <3>1. /\ k - 1 \in 0 .. k - 1 /\ k - 1 < n /\ (k - 1) + 1 = k /\ (k + 1) - 1 = k
          /\ k \in 1 .. n /\ k # n /\ k + 1 \in 1 .. n /\ k + 1 \in 2 .. n
      BY <1>1, <2>2
    <3>2. f[k] \o rest(k) = t[1]
      BY <1>6, <3>1
    <3>3. rest(k) = parts[k + 1] \o rest(k + 1)
      BY <1>3, <1>4, <3>1
    <3>4. f[k + 1] = f[k] \o parts[k + 1]
      BY <1>2, <3>1
    <3>5. f[k] \in Seq(S) /\ parts[k + 1] \in Seq(S) /\ rest(k + 1) \in Seq(S)
      BY <1>1, <1>2, <1>5, <3>1
    <3>6. (f[k] \o parts[k + 1]) \o rest(k + 1) = f[k] \o (parts[k + 1] \o rest(k + 1))
      <4>1. \A x, y, z \in Seq(S) : (x \o y) \o z = x \o (y \o z)
        BY ConcatAssociative, SMTT(30)
      <4>2. QED
        BY <3>5, <4>1, Zenon
    <3>7. QED
      BY <3>2, <3>3, <3>4, <3>6
  <2>3. QED
    BY <2>1, <2>2
<1>7. Nat \subseteq N
  <2> HIDE DEF N
  <2>1. QED
    BY <1>6, Induction
<1>8. f[n] \o rest(n) = t[1]
  <2>1. n - 1 \in Nat /\ n - 1 < n /\ (n - 1) + 1 = n
    BY <1>1
  <2>2. QED
    BY <1>7, <2>1
<1>9. f[n] \o <<>> = f[n]
  <2>1. f[n] \in Seq(S)
    BY <1>1, <1>2
  <2>2. QED
    BY <2>1, ConcatEmptySeq
<1>10. QED
  BY <1>2, <1>4, <1>8, <1>9

\* Where the items of a joined list start.
Listed(items, text, s) ==
    LET n == Len(items) IN
    /\ text \in Seq(Sign) /\ \A p \in 1 .. Len(text) : text[p] # "\\"
    /\ s \in [1 .. n -> Nat \ {0}] /\ s[1] = 1
    /\ \A i \in 1 .. n :
          LET end == s[i] + Len(items[i]) IN
          /\ Holds(text, s[i] - 1, items[i])
          /\ IF i = n THEN end = Len(text) + 1
             ELSE end <= Len(text) /\ text[end] = "|" /\ s[i + 1] = end + 1

\* No separator is in an item.
LEMMA ItemIs ==
    ASSUME NEW items \in Seq(Item)
    PROVE  /\ Len(items) \in Nat /\ DOMAIN items = 1 .. Len(items)
           /\ \A i \in 1 .. Len(items) :
                 /\ items[i] \in Seq(Sign) /\ Len(items[i]) \in Nat
                 /\ \A j \in 1 .. Len(items[i]) : items[i][j] # "\\" /\ items[i][j] # "|"
<1>1. Len(items) \in Nat /\ DOMAIN items = 1 .. Len(items)
  BY LenProperties
<1>2. ASSUME NEW i \in 1 .. Len(items)
      PROVE  /\ items[i] \in Seq(Sign) /\ Len(items[i]) \in Nat
             /\ \A j \in 1 .. Len(items[i]) : items[i][j] # "\\" /\ items[i][j] # "|"
  <2> DEFINE S == STRING \ {"\\", "|"}
  <2>1. items[i] \in Seq(S)
    <3>1. items[i] \in Item
      BY ElementOfSeq
    <3>2. QED
      BY <3>1, ConstantsAssumption
  <2>2. S \subseteq Sign /\ \A x \in S : x # "\\" /\ x # "|"
    BY DEF Sign
  <2> HIDE DEF S
  <2>3. /\ items[i] \in Seq(Sign) /\ Len(items[i]) \in Nat
        /\ \A j \in 1 .. Len(items[i]) : items[i][j] \in S
    BY <2>1, <2>2, MoreSymbols
  <2>4. QED
    BY <2>2, <2>3
<1>3. QED
  BY <1>1, <1>2

\* A list joined with separators is laid out so.
LEMMA ListIs ==
    ASSUME NEW items \in Seq(Item), items # <<>>
    PROVE  \E s : Listed(items,
              FlattenSeq([i \in DOMAIN items |->
                  (IF i = 1 THEN <<>> ELSE <<"|">>) \o items[i]]), s)
<1> DEFINE n == Len(items)
           bar(i) == IF i = 1 THEN <<>> ELSE <<"|">>
           part(i) == bar(i) \o items[i]
           parts == [i \in 1 .. n |-> part(i)]
           text == FlattenSeq(parts)
<1>1. /\ n \in Nat \ {0} /\ DOMAIN items = 1 .. n
      /\ \A i \in 1 .. n :
            /\ items[i] \in Seq(Sign) /\ Len(items[i]) \in Nat
            /\ \A j \in 1 .. Len(items[i]) : items[i][j] # "\\"
  BY ItemIs, EmptySeq
<1>2. \A i \in 1 .. n :
          /\ bar(i) \in Seq(Sign) /\ Len(bar(i)) = (IF i = 1 THEN 0 ELSE 1)
          /\ i # 1 => bar(i)[1] = "|"
  <2> SUFFICES ASSUME NEW i \in 1 .. n
               PROVE  /\ bar(i) \in Seq(Sign) /\ Len(bar(i)) = (IF i = 1 THEN 0 ELSE 1)
                      /\ i # 1 => bar(i)[1] = "|"
    OBVIOUS
  <2>1. CASE i = 1
    BY <2>1, EmptySeq
  <2>2. CASE i # 1
    <3>1. "|" \in Sign
      BY DEF Sign
    <3>2. bar(i) = <<"|">>
      BY <2>2
    <3> HIDE DEF bar
    <3>3. QED
      BY <2>2, <3>1, <3>2
  <2>3. QED
    BY <2>1, <2>2
<1>3. text = FlattenSeq([i \in DOMAIN items |->
                  (IF i = 1 THEN <<>> ELSE <<"|">>) \o items[i]])
  <2>1. parts = [i \in DOMAIN items |->
                    (IF i = 1 THEN <<>> ELSE <<"|">>) \o items[i]]
    BY <1>1
  <2>2. QED
    BY <2>1
<1> HIDE DEF bar, n
<1>4. ASSUME NEW i \in 1 .. n
      PROVE  /\ part(i) \in Seq(Sign) /\ Len(part(i)) = Len(bar(i)) + Len(items[i])
             /\ Holds(part(i), 0, bar(i)) /\ Holds(part(i), Len(bar(i)), items[i])
  BY <1>1, <1>2, Two
<1>5. \A i \in 1 .. n : parts[i] = part(i)
  OBVIOUS
<1> HIDE DEF part
<1>6. parts \in Seq(Seq(Sign)) /\ Len(parts) = n
  <2>1. parts \in [1 .. n -> Seq(Sign)]
    BY <1>4
  <2> HIDE DEF parts
  <2>2. QED
    BY <1>1, <2>1, SeqOfFunction
<1> HIDE DEF parts
<1>7. text \in Seq(Sign) /\ \E off : LaidOut(text, parts, off)
  BY <1>6, Flat
<1> HIDE DEF text
<1>8. PICK off : LaidOut(text, parts, off)
  BY <1>7
<1>9. /\ off \in [1 .. n + 1 -> Nat] /\ off[1] = 0 /\ off[n + 1] = Len(text)
      /\ \A i \in 1 .. n : off[i + 1] = off[i] + Len(part(i)) /\ Holds(text, off[i], part(i))
  <2>1. /\ off \in [1 .. Len(parts) + 1 -> Nat]
        /\ off[1] = 0 /\ off[Len(parts) + 1] = Len(text)
        /\ \A i \in 1 .. Len(parts) :
              off[i + 1] = off[i] + Len(parts[i]) /\ Holds(text, off[i], parts[i])
    BY <1>8, Zenon DEF LaidOut, Holds
  <2>2. QED
    BY <1>5, <1>6, <2>1
<1>10. /\ \A i \in 1 .. n + 1 : \A j \in i .. n + 1 : off[i] <= off[j]
       /\ \A p \in 1 .. Len(text) : \E i \in 1 .. n : off[i] < p /\ p <= off[i + 1]
  <2>1. Len(parts) \in Nat /\ \A i \in 1 .. Len(parts) : Len(parts[i]) \in Nat
    BY <1>1, <1>2, <1>4, <1>5, <1>6
  <2>2. /\ \A i \in 1 .. Len(parts) + 1 : \A j \in i .. Len(parts) + 1 : off[i] <= off[j]
        /\ \A p \in 1 .. Len(text) : \E i \in 1 .. Len(parts) :
              off[i] < p /\ p <= off[i + 1]
    BY <1>8, <2>1, PartsInOrder
  <2>3. QED
    BY <1>6, <2>2
<1> DEFINE s == [i \in 1 .. n |-> off[i] + Len(bar(i)) + 1]
<1>11. ASSUME NEW i \in 1 .. n
       PROVE  LET L == Len(items[i])
                  A == Len(bar(i))
                  y == off[i]
              IN  /\ L \in Nat /\ A \in Nat /\ y \in Nat
                  /\ off[i + 1] \in Nat /\ off[i + 1] = y + A + L
                  /\ off[i + 1] <= Len(text) /\ Len(text) \in Nat
                  /\ A = (IF i = 1 THEN 0 ELSE 1)
                  /\ i # 1 => text[y + 1] = "|"
                  /\ Holds(text, y + A, items[i])
                  /\ \A p \in y + 1 .. y + A + L : text[p] # "\\"
  <2> DEFINE L == Len(items[i])
             A == Len(bar(i))
             y == off[i]
  <2>1. L \in Nat /\ A \in Nat /\ A = (IF i = 1 THEN 0 ELSE 1)
    BY <1>1, <1>2
  <2>2. y \in Nat /\ off[i + 1] \in Nat /\ off[i + 1] <= off[n + 1]
    <3>1. i \in 1 .. n + 1 /\ i + 1 \in 1 .. n + 1 /\ n + 1 \in i + 1 .. n + 1
      BY <1>1
    <3>2. QED
      BY <1>1, <1>9, <1>10, <3>1
  <2>3. /\ Holds(text, y, part(i)) /\ Len(part(i)) = A + L
        /\ Holds(part(i), 0, bar(i)) /\ Holds(part(i), A, items[i])
        /\ off[i + 1] = y + (A + L)
    BY <1>4, <1>9
  <2>4. off[i + 1] = y + A + L
    <3> HIDE DEF y, A, L
    <3>1. QED
      BY <2>1, <2>2, <2>3
  <2>5. off[i + 1] <= Len(text) /\ Len(text) \in Nat
    BY <1>7, <1>9, <2>2, LenProperties
  <2> HIDE DEF y, A, L
  <2>6. Len(part(i)) \in Nat /\ 0 + A <= Len(part(i)) /\ A + L <= Len(part(i))
    BY <2>1, <2>3
  <2>7. Holds(text, y + 0, bar(i)) /\ Holds(text, y + A, items[i])
    <3>1. Holds(text, y + 0, bar(i))
      BY <2>1, <2>2, <2>3, <2>6, HoldsOn DEF A
    <3>2. Holds(text, y + A, items[i])
      BY <2>1, <2>2, <2>3, <2>6, HoldsOn DEF L
    <3>3. QED
      BY <3>1, <3>2
  <2>8. i # 1 => text[y + 1] = "|"
    <3>1. ASSUME i # 1 PROVE text[y + 1] = "|"
      <4>1. Len(bar(i)) = 1 /\ bar(i)[1] = "|"
        BY <1>2, <3>1
      <4>2. text[(y + 0) + 1] = "|"
        BY <2>7, <4>1 DEF Holds
      <4>3. QED
        BY <2>2, <4>2
    <3>2. QED
      BY <3>1
  <2>9. ASSUME NEW p \in y + 1 .. y + A + L PROVE text[p] # "\\"
    <3>1. p \in Nat /\ y + 1 <= p /\ p <= y + A + L
      BY <2>1, <2>2
    <3>2. CASE p <= y + A
      <4>1. A = 1 /\ p = y + 1 /\ i # 1
        BY <2>1, <2>2, <3>1, <3>2
      <4>2. QED
        BY <2>8, <4>1
    <3>3. CASE ~ p <= y + A
      <4>1. p - (y + A) \in 1 .. L /\ (y + A) + (p - (y + A)) = p
        BY <2>1, <2>2, <3>1, <3>3
      <4>2. text[(y + A) + (p - (y + A))] = items[i][p - (y + A)]
        BY <2>7, <4>1 DEF Holds, L
      <4>3. items[i][p - (y + A)] # "\\"
        BY <1>1, <4>1 DEF L
      <4>4. QED
        BY <4>1, <4>2, <4>3
    <3>4. QED
      BY <3>2, <3>3
  <2>10. QED
    BY <2>1, <2>2, <2>4, <2>5, <2>7, <2>8, <2>9 DEF y, A, L
<1>12. \A p \in 1 .. Len(text) : text[p] # "\\"
  <2> SUFFICES ASSUME NEW p \in 1 .. Len(text) PROVE text[p] # "\\"
    OBVIOUS
  <2>1. PICK i \in 1 .. n : off[i] < p /\ p <= off[i + 1]
    BY <1>10
  <2> DEFINE L == Len(items[i])
             A == Len(bar(i))
             y == off[i]
  <2>2. /\ y \in Nat /\ A \in Nat /\ L \in Nat /\ off[i + 1] = y + A + L
        /\ \A q \in y + 1 .. y + A + L : text[q] # "\\"
    BY <1>11
  <2>3. y < p /\ p <= y + A + L /\ p \in Nat
    <3>1. p \in Nat
      BY <1>7, LenProperties
    <3>2. QED
      BY <2>1, <2>2, <3>1
  <2> HIDE DEF L, A, y
  <2>4. p \in y + 1 .. y + A + L
    BY <2>2, <2>3
  <2>5. QED
    BY <2>2, <2>4
<1>13. /\ \A i \in 1 .. n : s[i] = off[i] + Len(bar(i)) + 1
       /\ s \in [1 .. n -> Nat \ {0}] /\ s[1] = 1
  <2>1. \A i \in 1 .. n : off[i] + Len(bar(i)) + 1 \in Nat \ {0}
    <3> SUFFICES ASSUME NEW i \in 1 .. n PROVE off[i] + Len(bar(i)) + 1 \in Nat \ {0}
      OBVIOUS
    <3>1. off[i] \in Nat /\ Len(bar(i)) \in Nat
      BY <1>11
    <3>2. QED
      BY <3>1
  <2>2. 1 \in 1 .. n
    BY <1>1
  <2>3. off[1] + Len(bar(1)) + 1 = 1
    BY <1>2, <1>9, <2>2
  <2>4. QED
    BY <2>1, <2>2, <2>3
<1> HIDE DEF s
<1>14. ASSUME NEW i \in 1 .. n
       PROVE  LET end == s[i] + Len(items[i]) IN
              /\ Holds(text, s[i] - 1, items[i])
              /\ IF i = n THEN end = Len(text) + 1
                 ELSE end <= Len(text) /\ text[end] = "|" /\ s[i + 1] = end + 1
  <2> DEFINE L == Len(items[i])
             A == Len(bar(i))
             y == off[i]
             end == s[i] + L
  <2>1. /\ y \in Nat /\ A \in Nat /\ L \in Nat /\ off[i + 1] = y + A + L
        /\ off[i + 1] \in Nat /\ Len(text) \in Nat
        /\ Holds(text, y + A, items[i]) /\ s[i] = y + A + 1
    BY <1>11, <1>13
  <2> HIDE DEF L, A, y
  <2>2. s[i] - 1 = y + A /\ end = off[i + 1] + 1
    BY <2>1
  <2>3. CASE i = n
    BY <1>9, <2>1, <2>2, <2>3 DEF L
  <2>4. CASE i # n
    <3>1. i + 1 \in 1 .. n /\ i + 1 # 1
      BY <1>1, <2>4
    <3>2. /\ Len(items[i + 1]) \in Nat /\ Len(bar(i + 1)) = 1
          /\ off[(i + 1) + 1] = off[i + 1] + Len(bar(i + 1)) + Len(items[i + 1])
          /\ off[(i + 1) + 1] <= Len(text) /\ off[(i + 1) + 1] \in Nat
          /\ text[off[i + 1] + 1] = "|"
      BY <1>11, <3>1
    <3>3. s[i + 1] = off[i + 1] + 1 + 1
      BY <1>13, <3>1, <3>2
    <3>4. off[i + 1] + 1 <= Len(text)
      <4> DEFINE z == off[i + 1]
      <4>1. z \in Nat
        BY <2>1
      <4>2. z + 1 + Len(items[i + 1]) <= Len(text)
        BY <3>2
      <4> HIDE DEF z
      <4>3. \A u, v, w \in Nat : u + 1 + v <= w => u + 1 <= w
        OBVIOUS
      <4>4. z + 1 <= Len(text)
        BY <2>1, <3>2, <4>1, <4>2, <4>3, Zenon
      <4>5. QED
        BY <4>4 DEF z
    <3> HIDE DEF end
    <3>5. QED
      BY <2>1, <2>2, <2>4, <3>2, <3>3, <3>4 DEF end, L
  <2>5. QED
    BY <2>3, <2>4
<1>15. Listed(items, text, s)
  BY <1>7, <1>12, <1>13, <1>14, Zenon DEF Listed, n
<1>16. QED
  BY <1>3, <1>15

\* A list that is joined is split into its items that are not empty.
LEMMA PiecesAre ==
    ASSUME NEW items \in Seq(Item), items # <<>>, NEW text, NEW s,
           Listed(items, text, s)
    PROVE  Pieces(text, "|") =
              FlattenSeq([i \in DOMAIN items |->
                  IF items[i] = <<>> THEN <<>> ELSE <<items[i]>>])
<1> DEFINE n == Len(items)
           one(i) == IF items[i] = <<>> THEN <<>> ELSE <<items[i]>>
           parts == [i \in 1 .. n |-> one(i)]
<1>1. /\ n \in Nat \ {0} /\ DOMAIN items = 1 .. n
      /\ \A i \in 1 .. n :
            /\ items[i] \in Seq(Sign) /\ Len(items[i]) \in Nat
            /\ \A j \in 1 .. Len(items[i]) : items[i][j] # "|"
  BY ItemIs, EmptySeq
<1>2. /\ text \in Seq(Sign) /\ Len(text) \in Nat /\ "|" \in Sign
      /\ s \in [1 .. n -> Nat \ {0}] /\ s[1] = 1
  BY LenProperties DEF Listed, Sign
<1>3. PICK from : /\ Pieces(text, "|") = from[1]
                  /\ \A start \in 1 .. Len(text) + 1 :
                        from[start] = Split(text, "|", from, start)
  BY <1>2, PiecesIs
<1>4. parts = [i \in DOMAIN items |-> IF items[i] = <<>> THEN <<>> ELSE <<items[i]>>]
  BY <1>1
<1>5. parts \in Seq(Seq(Seq(Sign))) /\ Len(parts) = n /\ \A i \in 1 .. n : parts[i] = one(i)
  <2>1. \A i \in 1 .. n : one(i) \in Seq(Seq(Sign))
    BY <1>1
  <2> HIDE DEF one
  <2>2. parts \in [1 .. n -> Seq(Seq(Sign))] /\ \A i \in 1 .. n : parts[i] = one(i)
    BY <2>1
  <2> HIDE DEF parts, n
  <2>3. QED
    BY <1>1, <2>2, SeqOfFunction
<1>6. parts # <<>>
  BY <1>1, <1>5
<1> HIDE DEF parts, n
<1>7. ASSUME NEW i \in 1 .. n
      PROVE  from[s[i]] = parts[i] \o (IF i = n THEN <<>> ELSE from[s[i + 1]])
  <2> DEFINE first == s[i]
             item == items[i]
             L == Len(item)
             next == Find(text, <<"|">>, first)
  <2>1. /\ first \in Nat \ {0} /\ item \in Seq(Sign) /\ L \in Nat
        /\ \A j \in 1 .. L : item[j] # "|"
    BY <1>1, <1>2
  <2>2. /\ Holds(text, first - 1, item)
        /\ IF i = n THEN first + L = Len(text) + 1
           ELSE /\ first + L <= Len(text) /\ text[first + L] = "|"
                /\ s[i + 1] = (first + L) + 1
    BY Zenon DEF Listed, n
  <2> HIDE DEF first, item, L
  <2>3. /\ first \in 1 .. Len(text) + 1 /\ first + L <= Len(text) + 1
        /\ first + L <= Len(text) => text[first + L] = "|"
    BY <1>2, <2>1, <2>2
  <2>4. \A j \in 1 .. L : text[first + j - 1] = item[j] /\ item[j] # "|"
    <3>1. \A j \in 1 .. L : (first - 1) + j = first + j - 1
      BY <2>1
    <3>2. QED
      BY <2>1, <2>2, <3>1 DEF Holds, L
  <2>5. /\ next = IF first + L <= Len(text) THEN first + L ELSE 0
        /\ UpTo(text, first, next) = item
    <3>1. /\ text \in Seq(Sign) /\ "|" \in Sign /\ item \in Seq(Sign)
          /\ first \in 1 .. Len(text) + 1
      BY <1>2, <2>1, <2>3
    <3>2. /\ first + Len(item) <= Len(text) + 1
          /\ first + Len(item) <= Len(text) => text[first + Len(item)] = "|"
      BY <2>3 DEF L
    <3>3. \A j \in 1 .. Len(item) : text[first + j - 1] = item[j] /\ item[j] # "|"
      BY <2>4 DEF L
    <3>4. /\ next = IF first + Len(item) <= Len(text) THEN first + Len(item) ELSE 0
          /\ UpTo(text, first, next) = item
      BY <3>1, <3>2, <3>3, PieceIs
    <3>5. QED
      BY <3>4 DEF L
  <2>6. PartAt(text, "|", first) = parts[i]
    BY <1>5, <2>5 DEF PartAt, item
  <2>7. from[first] = parts[i] \o (IF next = 0 THEN <<>> ELSE from[next + 1])
    BY <1>3, <2>3, <2>6 DEF Split
  <2> HIDE DEF next
  <2>8. CASE i = n
    <3>1. next = 0
      <4>1. first + L = Len(text) + 1 /\ ~ first + L <= Len(text)
        BY <1>2, <2>2, <2>8
      <4>2. QED
        BY <2>5, <4>1
    <3>2. QED
      BY <2>7, <2>8, <3>1 DEF first
  <2>9. CASE i # n
    <3>1. next = first + L /\ next # 0 /\ s[i + 1] = next + 1
      BY <2>1, <2>2, <2>5, <2>9
    <3>2. QED
      BY <2>7, <2>9, <3>1 DEF first
  <2>10. QED
    BY <2>8, <2>9
<1> DEFINE t == [i \in 1 .. n |-> from[s[i]]]
<1>8. \A i \in 1 .. n : t[i] = from[s[i]]
  OBVIOUS
<1> HIDE DEF t
<1>9. \A i \in 1 .. Len(parts) :
          t[i] = parts[i] \o (IF i = Len(parts) THEN <<>> ELSE t[i + 1])
  <2>1. \A i \in 1 .. n : i # n => i + 1 \in 1 .. n
    BY <1>1
  <2>2. QED
    BY <1>5, <1>7, <1>8, <2>1
<1>10. FlattenSeq(parts) = t[1]
  BY <1>5, <1>6, <1>9, Chain
<1>11. t[1] = Pieces(text, "|")
  <2>1. 1 \in 1 .. n
    BY <1>1
  <2>2. QED
    BY <1>2, <1>3, <1>8, <2>1
<1>12. QED
  BY <1>4, <1>10, <1>11

\* What a Player Search request asks for is the list between the key and the
\* end of the request.
LEMMA ListValue ==
    ASSUME NEW opids \in Seq(Sign), \A p \in 1 .. Len(opids) : opids[p] # "\\"
    PROVE  requested_profiles(<<"\\", "opids", "\\">> \o opids \o <<"\\", "final", "\\">>)
              = Pieces(opids, "|")
<1> DEFINE head == <<"\\", "opids", "\\">>
           final == <<"\\", "final", "\\">>
           left == head \o opids
           text == left \o final
           key == <<"opids">>
           marker == <<"\\">> \o key \o <<"\\">>
           N == Len(opids)
<1>1. N \in Nat
  BY LenProperties
<1>2. /\ head \in Seq(Sign) /\ Len(head) = 3
      /\ head[1] = "\\" /\ head[2] = "opids" /\ head[3] = "\\"
      /\ final \in Seq(Sign) /\ Len(final) = 3 /\ final[1] = "\\"
      /\ key \in Seq(Sign) /\ Len(key) = 1 /\ key[1] = "opids" /\ "\\" \in Sign
  BY DEF Sign
<1>3. request_value(text, key) = ValueAfter(text, marker, "\\")
  BY DEF request_value
<1>4. requested_profiles(text) = Pieces(request_value(text, key), "|")
  BY DEF requested_profiles
<1> HIDE DEF head, final, key
<1>5. /\ left \in Seq(Sign) /\ Len(left) = Len(head) + N
      /\ Holds(left, 0, head) /\ Holds(left, Len(head), opids)
  BY <1>2, Two
<1> HIDE DEF left
<1>6. /\ text \in Seq(Sign) /\ Len(text) = Len(left) + Len(final)
      /\ Holds(text, 0, left) /\ Holds(text, Len(left), final)
  BY <1>2, <1>5, Two
<1> HIDE DEF text, N
<1>7. Len(left) = 3 + N /\ Len(text) = N + 6 /\ text[N + 4] = "\\"
  <2>1. Len(left) = 3 + N /\ Len(text) = (3 + N) + 3
    BY <1>2, <1>5, <1>6
  <2>2. text[(3 + N) + 1] = "\\"
    BY <1>2, <1>6, <2>1 DEF Holds
  <2>3. QED
    BY <1>1, <2>1, <2>2
<1>8. text[1] = "\\" /\ text[2] = "opids" /\ text[3] = "\\" /\ Holds(text, 3, opids)
  <2>1. Holds(text, 0 + 0, head) /\ Holds(text, 0 + 3, opids)
    <3>1. /\ Len(head) \in Nat /\ Len(left) \in Nat /\ Len(opids) \in Nat
          /\ 0 + Len(head) <= Len(left) /\ 3 + Len(opids) <= Len(left)
      BY <1>1, <1>2, <1>7 DEF N
    <3>2. Holds(left, 3, opids)
      BY <1>2, <1>5
    <3>3. QED
      BY <1>5, <1>6, <3>1, <3>2, HoldsOn
  <2>2. QED
    BY <1>2, <2>1 DEF Holds
<1>9. /\ marker \in Seq(Sign) /\ Len(marker) = 3 /\ marker # <<>>
      /\ 1 \in Found(text, marker, 1)
  <2>1. /\ marker \in Seq(Sign) /\ Len(marker) = Len(key) + 2 /\ marker # <<>>
        /\ \A q \in Nat \ {0} :
              q \in Found(text, marker, 1) <=>
                 /\ q + Len(key) + 1 <= Len(text)
                 /\ text[q] = "\\" /\ Holds(text, q, key)
                 /\ text[q + Len(key) + 1] = "\\"
    BY <1>2, <1>6, GamespyMarker
  <2> HIDE DEF marker
  <2>2. 1 + Len(key) + 1 = 3 /\ 3 <= Len(text) /\ 1 \in Nat \ {0} /\ Len(key) + 2 = 3
    BY <1>1, <1>2, <1>7
  <2>3. Holds(text, 1, key)
    BY <1>2, <1>8 DEF Holds
  <2>4. QED
    BY <1>8, <2>1, <2>2, <2>3
<1> HIDE DEF marker
<1>10. \A q \in Found(text, marker, 1) : 1 <= q
  <2>1. Found(text, marker, 1) \subseteq 1 .. Len(text)
    BY <1>6, <1>9, FoundInside
  <2>2. QED
    BY <1>1, <1>7, <2>1
<1>11. ValueAt(text, marker, "\\", 1, opids)
  <2>1. /\ 1 + Len(marker) + N = N + 4 /\ (1 + Len(marker)) - 1 = 3
        /\ N + 4 <= Len(text) + 1
    BY <1>1, <1>7, <1>9
  <2>2. QED
    BY <1>7, <1>8, <1>9, <1>10, <2>1 DEF ValueAt, N
<1>12. ValueAfter(text, marker, "\\") = opids
  BY <1>2, <1>6, <1>9, <1>11, ValueIs
<1>13. QED
  BY <1>3, <1>4, <1>12 DEF text, left, head, final

\* A list that is joined into a Player Search and split again is the list
\* without its empty items.
LEMMA ListsAre ==
    ASSUME NEW items \in Seq(Item)
    PROVE  LET opids == FlattenSeq([i \in DOMAIN items |->
                            (IF i = 1 THEN <<>> ELSE <<"|">>) \o items[i]])
           IN  requested_profiles(<<"\\", "opids", "\\">> \o opids
                                      \o <<"\\", "final", "\\">>)
                   = FlattenSeq([i \in DOMAIN items |->
                            IF items[i] = <<>> THEN <<>> ELSE <<items[i]>>])
<1> DEFINE opids == FlattenSeq([i \in DOMAIN items |->
                        (IF i = 1 THEN <<>> ELSE <<"|">>) \o items[i]])
           rest == FlattenSeq([i \in DOMAIN items |->
                        IF items[i] = <<>> THEN <<>> ELSE <<items[i]>>])
<1>1. /\ opids \in Seq(Sign) /\ \A p \in 1 .. Len(opids) : opids[p] # "\\"
      /\ Pieces(opids, "|") = rest
  <2>1. CASE items = <<>>
    <3>1. opids = <<>> /\ rest = <<>>
      BY <2>1 DEF FlattenSeq
    <3> HIDE DEF opids, rest
    <3>2. <<>> \in Seq(Sign) /\ Len(<<>>) = 0 /\ "|" \in Sign
      BY DEF Sign
    <3>3. Pieces(<<>>, "|") = <<>>
      <4>1. PICK from : /\ Pieces(<<>>, "|") = from[1]
                        /\ \A start \in 1 .. Len(<<>>) + 1 :
                              from[start] = Split(<<>>, "|", from, start)
        BY <3>2, PiecesIs
      <4>2. 1 \in 1 .. Len(<<>>) + 1
        OBVIOUS
      <4>3. Find(<<>>, <<"|">>, 1) = 0
        <5>1. 1 .. Len(<<>>) - Len(<<"|">>) + 1 = {}
          OBVIOUS
        <5>2. QED
          BY <5>1 DEF Find, Found
      <4>4. UpTo(<<>>, 1, 0) = <<>>
        BY SubSeqEmpty DEF UpTo
      <4>5. from[1] = <<>> \o <<>>
        BY <4>1, <4>2, <4>3, <4>4 DEF Split, PartAt
      <4>6. QED
        BY <4>1, <4>5, ConcatEmptySeq
    <3>4. QED
      BY <3>1, <3>2, <3>3
  <2>2. CASE items # <<>>
    <3>1. \E s : Listed(items, opids, s)
      BY <2>2, ListIs, Zenon
    <3> HIDE DEF opids
    <3>2. PICK s : Listed(items, opids, s)
      BY <3>1
    <3>3. Pieces(opids, "|") = rest
      BY <2>2, <3>2, PiecesAre
    <3>4. QED
      BY <3>2, <3>3 DEF Listed
  <2>3. QED
    BY <2>1, <2>2
<1> HIDE DEF opids, rest
<1>2. QED
  BY <1>1, ListValue DEF opids, rest

(***************************************************************************)
(* The inputs: what a symbol is appended to has symbols of its kind, and   *)
(* browser requests have the zeros they start with.                        *)
(***************************************************************************)
Inputs ==
    /\ kind \in {"fields", "list", "octets", "bits", "dns", "browser"}
    /\ kind = "fields" => input \in Seq(Key \X Value)
    /\ kind = "list" => input \in Seq(Item)
    /\ kind = "octets" => input \in Seq(Octet)
    /\ kind = "bits" => input \in Seq({0, 1})
    /\ kind = "dns" => input \in Seq(0 .. MaxLabel + 1)
    /\ kind = "browser" => /\ input \in Seq(Nat)
                           /\ Len(input) >= 4 /\ At(input, 2) = 0

\* What inputs start as is of their kind.
LEMMA InitInputs == Init => Inputs
<1> SUFFICES ASSUME Init PROVE Inputs
  OBVIOUS
<1>1. kind \in {"fields", "list", "octets", "bits", "dns", "browser"}
  BY DEF Init, Symbol
<1>2. CASE kind # "browser"
  BY <1>1, <1>2, EmptySeq DEF Init, Inputs
<1>3. CASE kind = "browser"
  <2>1. PICK size \in BrowserSize :
            input = <<size \div ByteMod, size % ByteMod, 0, 0>>
    <3>1. input \in {<<size \div ByteMod, size % ByteMod, 0, 0>> : size \in BrowserSize}
      BY <1>3 DEF Init
    <3>2. QED
      BY <3>1
  <2>2. size \in Nat /\ size \div ByteMod \in Nat /\ size % ByteMod \in Nat
    <3>1. size \in Nat /\ ByteMod \in Nat \ {0}
      BY ConstantsAssumption
    <3>2. QED
      BY <3>1
  <2>3. /\ <<size \div ByteMod, size % ByteMod, 0, 0>> \in Seq(Nat)
        /\ Len(<<size \div ByteMod, size % ByteMod, 0, 0>>) = 4
        /\ <<size \div ByteMod, size % ByteMod, 0, 0>>[3] = 0
    BY <2>2
  <2>4. QED
    BY <1>1, <1>3, <2>1, <2>3 DEF Inputs, At
<1>4. QED
  BY <1>2, <1>3

\* A symbol more leaves an input of its kind.
LEMMA NextInputs == Inputs /\ [Next]_vars => Inputs'
<1> SUFFICES ASSUME Inputs, [Next]_vars PROVE Inputs'
  OBVIOUS
<1>1. CASE UNCHANGED vars
  BY <1>1 DEF vars, Inputs, At
<1>2. CASE Next
  <2>1. PICK symbol \in Symbol[kind] : input' = Append(input, symbol) /\ kind' = kind
    BY <1>2 DEF Next
  <2>2. kind \in {"fields", "list", "octets", "bits", "dns", "browser"}
    BY DEF Inputs
  <2>3. CASE kind = "fields"
    BY <2>1, <2>3, AppendProperties DEF Inputs, Symbol
  <2>4. CASE kind = "list"
    BY <2>1, <2>4, AppendProperties DEF Inputs, Symbol
  <2>5. CASE kind = "octets"
    BY <2>1, <2>5, AppendProperties DEF Inputs, Symbol
  <2>6. CASE kind = "bits"
    BY <2>1, <2>6, AppendProperties DEF Inputs, Symbol
  <2>7. CASE kind = "dns"
    BY <2>1, <2>7, AppendProperties DEF Inputs, Symbol
  <2>8. CASE kind = "browser"
    <3>1. symbol \in Nat /\ input \in Seq(Nat) /\ Len(input) >= 4 /\ input[3] = 0
      <4>1. symbol \in {0, Letter, Backslash}
        BY <2>1, <2>8 DEF Symbol
      <4>2. Letter \in Nat /\ Backslash \in Nat
        BY ConstantsAssumption
      <4>3. input \in Seq(Nat) /\ Len(input) >= 4 /\ At(input, 2) = 0
        BY <2>8 DEF Inputs
      <4>4. QED
        BY <4>1, <4>2, <4>3 DEF At
    <3>2. /\ Append(input, symbol) \in Seq(Nat)
          /\ Len(Append(input, symbol)) = Len(input) + 1
          /\ \A i \in 1 .. Len(input) : Append(input, symbol)[i] = input[i]
      BY <3>1, AppendProperties
    <3>3. Len(input) \in Nat /\ 3 \in 1 .. Len(input)
      BY <3>1
    <3>4. QED
      BY <2>1, <2>8, <3>1, <3>2, <3>3 DEF Inputs, At
  <2>9. QED
    BY <2>2, <2>3, <2>4, <2>5, <2>6, <2>7, <2>8
<1>3. QED
  BY <1>1, <1>2

\* So inputs are always of their kind.
LEMMA InputsCorrect == Spec => []Inputs
<1>1. QED
  BY InitInputs, NextInputs, PTL DEF Spec

(***************************************************************************)
(* The theorems.                                                           *)
(***************************************************************************)
\* SealedMessagesOpen, for any key, marker and message: the two ends of a
\* gamestats connection (server_gamestats.cpp) agree.
THEOREM MessagesOpen == Spec => []SealedMessagesOpen
<1>1. Inputs => SealedMessagesOpen
  BY SealedOpens DEF Inputs, SealedMessagesOpen
<1>2. QED
  BY <1>1, InputsCorrect, PTL

\* BrowserGrammar: the server browser (gamespy_browser.cpp) takes a packet for
\* a request exactly if it is one.
THEOREM BrowserRequestsParsed == Spec => []BrowserGrammar
<1>1. Inputs => BrowserGrammar
  <2> SUFFICES ASSUME Inputs, kind = "browser"
               PROVE  (parse_browser_request(input) # Nothing) <=>
                          /\ At(input, 0) * ByteMod + At(input, 1) = Len(input)
                          /\ Grammar(input)
    BY DEF BrowserGrammar, Grammar
  <2>1. QED
    BY ParseIs, GrammarIs DEF Inputs
<1>2. QED
  BY <1>1, InputsCorrect, PTL

\* DnsAnswersQuestions: dns_a_response (gamespy_dns.cpp) answers exactly the
\* questions, wherever its names end and however long its labels are.
THEOREM DnsQuestionsAnswered == Spec => []DnsAnswersQuestions
<1>1. Inputs => DnsAnswersQuestions
  <2> SUFFICES ASSUME Inputs, kind = "dns", NEW address \in Advertised
               PROVE  LET answer == handle_dns_packet(input, address)
                          ends == {e \in 0 .. Min({Len(input), Datagram}) :
                                      IsQuestion(input, e)}
                      IN  IF ends = {} \/ ~ IsAddress(address) THEN answer = Nothing
                          ELSE /\ answer.address = address.octets
                               /\ answer.question \in
                                     {SubSeq(input, DnsHeader + 1, e) : e \in ends}
    BY DEF DnsAnswersQuestions
  <2>1. input \in Seq(Symbols)
    BY DEF Inputs, Symbols
  <2>2. QED
    BY <2>1, AnswerIs
<1>2. QED
  BY <1>1, InputsCorrect, PTL

\* For every text of bytes, the encoding of base64_encode (nas_http.cpp and
\* gamespy_qr.cpp), in which NAS answers and QR challenges are written,
\* decodes to the text: its bits are those of the text in their order, zeros
\* behind them, and the padding starts where they end and fills the last
\* group of four.
THEOREM Base64IsDecodable == Spec => []Base64Decodes
<1>1. Inputs => Base64Decodes
  <2> SUFFICES ASSUME Inputs, kind = "octets" PROVE Base64Decodes
    BY DEF Base64Decodes
  <2>1. input \in Seq(Octet)
    BY DEF Inputs
  <2>2. QED
    BY <2>1, EncodingIs DEF Base64Decodes
<1>2. QED
  BY <1>1, InputsCorrect, PTL

\* TextsParsed, for fields and items of any texts without the separators and
\* requests of any length: request_value (gamespy_profile.cpp), qr_field_value
\* (gamespy_qr.cpp) and request_parameter (nas_http.cpp) give the value of
\* the first field with the key, and a Player Search (server_discovery.cpp) gets
\* the items of the list in their order.
THEOREM TextsAreParsed == Spec => []TextsParsed
<1>1. Inputs => FieldsFound
  <2> SUFFICES ASSUME Inputs, kind = "fields" PROVE FieldsFound
    BY DEF FieldsFound
  <2>1. input \in Seq(Key \X Value)
    BY DEF Inputs
  <2>2. QED
    BY <2>1, FieldsAre DEF FieldsFound, OnlyKey
<1>2. Inputs => ListsSplit
  <2> SUFFICES ASSUME Inputs, kind = "list" PROVE ListsSplit
    BY DEF ListsSplit
  <2>1. input \in Seq(Item)
    BY DEF Inputs
  <2>2. QED
    BY <2>1, ListsAre DEF ListsSplit
<1>3. Inputs => TextsParsed
  BY <1>1, <1>2 DEF TextsParsed
<1>4. QED
  BY <1>3, InputsCorrect, PTL

=============================================================================

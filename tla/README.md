# A TLA+ model of KiWii

KiWii is a C++ server that stands in for the services a Wii game called: DNS,
the Nintendo authentication server (NAS), GameSpy QR registration, Player
Search, NAT negotiation, the server browser, the GameSpy profile server,
gamestats and a relay. This directory holds TLA+ modules that model it, the TLC
configurations that check them on small instances, and theorems about them with
proofs for TLAPS. Paths are relative to the repository root; `src/` below is
the directory of C++ files in it.

## The system

`main.cpp` reads a configuration and calls `run_server` (`src/server.cpp`),
which opens eleven sockets and selects on them. The main thread handles the UDP
datagrams and the health check itself, and starts a thread for every TCP
listener it finds readable; the thread calls `accept()` and serves one
connection. Everything the services keep is in memory, in maps local to a
source file.

| Component | State | Operations | Shared by | What makes it correct |
|---|---|---|---|---|
| Server loop (`server.cpp`) | `keep_running`, sockets, TLS context, vector of workers | open, select, dispatch, signal, join, release | main thread, all workers, signal handler | the loop never blocks; workers end before what they use; every way out releases everything; a signal ends it |
| Online session registry (`gamespy_sessions.cpp`) | `online_sessions`, `last_seen` | upsert, touch, remove, prune, look up | main thread (QR) and Player Search workers, one mutex | the maps agree; nobody fresh is dropped; nobody stale is listed |
| GameSpy QR (`server_discovery.cpp`, `gamespy_qr.cpp`) | `qr_challenges` | keepalive, challenge answer, heartbeat, availability | main thread only; calls the registry | each challenge is answered once; a client that keeps trying is registered |
| Player Search (`server_discovery.cpp`) | none | read a request, prune, look up, reply | one worker per connection; calls the registry | lists active clients only |
| NATNEG (`server_game.cpp`, `gamespy_natneg.cpp`) | `natneg_sessions` | init (with cleanup), connect ack, address check | main thread only | each of two peers is told the other's latest endpoint |
| Profile server (`server_profile.cpp`, `gamespy_profile.cpp`) | `active_profiles`, `pending_requests`; per connection: credentials, buffer | login, status, addbuddy, authadd, delbuddy, getprofile, updatepro, keepalive, teardown | one worker per connection, `buddy_mutex`, `profile_write_mutex` | a push reaches its addressee only; one client's end does not hurt another |
| NAS accounts (`nas_http.cpp`) | `account_user_ids`, `user_profile_ids`, `login_sessions`, counters, a random generator | create account, log in, credentials for a token | one worker per request, two mutexes; the profile server reads the sessions | ids distinct; a token leads to its own user |
| Sake (`nas_http.cpp`) | `friend_info_records`, a counter | GetMyRecords, CreateRecord | NAS workers, one mutex | a client's records are returned to it and to nobody else |
| NAS HTTP reader (`server_nas.cpp`) | a buffer per connection | read headers and body, with a timeout and a limit | none | a whole request is handled whole and at once |
| DNS responder (`gamespy_dns.cpp`, `server_discovery.cpp`) | none | answer a question over UDP or TCP | none | every whole question, and nothing else, gets the advertised address |
| Server browser (`gamespy_browser.cpp`, `server_game.cpp`) | none | parse a request, reply with the empty list | none | malformed requests get nothing |
| Gamestats (`server_gamestats.cpp`) | a buffer per connection | challenge, keepalive | none | messages are split and decrypted right |
| Relay (`server_discovery.cpp`) | an SSL object per connection | TLS handshake, log, close | the TLS context | uses a live context, frees what it took |
| Configuration, build, tests | none | read once at start | none | none over time |

The interactions are few and they are where things go wrong: the registry is
written by the main thread and by search workers; profile workers send on each
other's sockets; NAS workers and profile workers meet in `login_sessions`, and
the profile server's ticket is what Sake files records under; all workers live
between the two ends of `run_server`. The hard behaviour is thread interleaving
between critical sections, lost and repeated datagrams, descriptors that are
used again, messages written in pieces by two threads, requests that arrive in
pieces, clients that vanish or stop reading, restarts that forget what consoles
remember, and shutdown. `PROJECT.json` lists each as a hazard at its
line.

## Modules

| Module | Models | State and actions |
|---|---|---|
| `Maps` | `std::map` as a partial function | `Empty`, `Put`, `Erase` |
| `SessionLease` | the abstract promise of the registry | a lease per session, ended by a goodbye or by time |
| `OnlineSessions` | `gamespy_sessions.cpp` | both maps; each operator is one critical section |
| `QrDiscovery` | `handle_qr_packet` and `player_search_response` | extends `OnlineSessions`. The main thread goes recv, cutoff, prune, dispatch; each worker goes prune, lookup, send. `ReadCutoff` and `SearchBegin` are steps of their own because `prune_online_sessions` reads the clock before it locks |
| `NatNeg` | `handle_natneg_packet` | one action per datagram; `last_seen` is kept as an age that stops at the timeout |
| `ProfileService` | `handle_profile_connection` | one action per request; a push keeps the mutex from `PushTo` to `Push`, which waits for room in the receiver's buffer; descriptors are reused by `Accept` |
| `ProfileStream` | the same, with the sockets' bytes | extends `ProfileService`. `WritePiece` is one `send()` of `send_all`; a worker's own replies are written under no mutex, pushes under two; each step is one of `ProfileService` or leaves its variables alone |
| `TcpServices` | a connection to NAS, DNS over TCP, the browser, Player Search, gamestats or the relay | one worker, from `accept()` to its end, in the steps of its reads and sends; the buffer is the part of the client's stream between `start` and `taken` |
| `Formats` | parsers and encoders of the services | operators, checked against reference definitions; the two variables compose the inputs |
| `NasAccounts` | `nas_http.cpp` and the profile login's ticket | a request is a worker that passes through its critical sections one action each; `DrawToken` is the unlocked generator; `Restart` forgets the server's maps and keeps the consoles' memory |
| `ServerLoop` | `run_server` | the main thread's program counter, the kernel's backlogs, the workers waiting in `accept()` and serving |
| `MC_*` | TLC instances | definitions for constants, symmetry sets |
| `*_proofs` | TLAPS proofs | of every module above that has actions; `SessionLease` within `QrDiscovery_proofs` |

Names follow the source: `online_sessions`, `touch_online_session`,
`natneg_sessions`, `active_profiles`, `buddy_mutex`, `login_sessions` and so on
are the C++ names. Each module defines, next to the operator concerned, a few
operators whose names begin with `Bug`. No specification uses them; each is a
plausible slip in that piece of code that the property its comment names
detects, which is how we know the property has teeth.

### What is abstracted

Data that is only carried is left out: nicknames, addresses in session records,
the payload of Sake records, log lines, the format of replies. A packet is a
record of what the handler tests. An encrypted answer is the challenge it
encrypts, or `WrongAnswer`. Random texts are members of a small set. The
encoded user id a console logs in with and the decimal one its account was
created under are different keys, as they are in `user_profile_ids`
(`nas_http.cpp:158` and `:310`), so `Encoded` and `Decimal` are not the
identity. Of the requests to the profile server, keepalive and getprofile are in
`ProfileStream` as replies, and updatepro, which sets two names only its own
worker reads, is left out.

`profile_write_mutex` is only ever taken by a worker that holds `buddy_mutex`,
so the variable `buddy_mutex` stands for both. Connections to the services of
`TcpServices` share nothing, so the module has one of them; what Player Search
looks up is in `QrDiscovery`. A byte there is part of a marker or it is not, and
a declared length is a number: a text that is no number is the length 0, as
`handle_nas_connection` takes it. In `Formats` a text is a sequence of symbols,
and the sizes of headers, labels and datagrams are constants, small in the runs.

The random generator of `nas_http.cpp:16` is used by all workers without a
lock, which is undefined. The model lets a token repeat an earlier one from the
moment two draws of this server life have overlapped; a token drawn while every
draw was alone is new. The generator of `gamespy_profile.cpp:18` is shared by
all profile connections, so a ticket may always repeat.

## Runs

| Run | Question | Bounds and why they are enough |
|---|---|---|
| `QrSafety` | registry consistency, no stale session found, refinement of `SessionLease` | two sessions, one worker and the main thread, `MaxAge` 1, `MaxTime` 2: a cutoff can be read, become old by a whole lease and be used while another packet renews the session; each prune acts on all sessions, and a second session is enough for one to expire beside a live one |
| `QrLiveness` | challenge accounting; registration unless the challenge is lost | two challenges may be issued per session: withdrawn and reissued, or confirmed and reissued |
| `NatNeg` | endpoints of a pair agree, no ghost is introduced, the cleanup spares whoever is in time, clients that retry are introduced for good | two sessions, so that each one's packets clean up the other: a pair that is punctual, with a retry of 2 s against a timeout of 3 s and one client that changes its port, and three indices that send what they like, so that a third client disturbs a pair and a session falls silent and is used again. `Inits` lists the NN_INITs that may arrive |
| `ProfileStream` | friend messages reach their addressee, unmixed and never inside a login; active sockets are open; dead connections are torn down | two connections, two descriptors and two profiles, the default one among them: each connection closes and comes back on either descriptor while the other pushes to it; two pieces to a message and a receiver that holds one, so that every send waits in its middle |
| `ProfileDisconnect` | violated: a disconnect leaves others alone | two connections |
| `TcpServices` | whole requests in order, none kept waiting, buffers bounded, everything returned, workers end | a marker of three bytes that overlaps itself, a limit of 5 and a `recv()` of 2, declared sizes from 0 to over the limit and one that wraps at 16, at most 8 bytes sent: two messages and a part of a third, a body beyond the limit, and every cut between two bytes |
| `Formats` | parsers and encoders compute their formats | up to 3 fields with keys that end alike, lists of 5 items, 5 octets of all bit patterns that matter, 12 bits with a marker of 4 and a key of 5, DNS packets of 9 bytes against a datagram of 8 and labels of 2, browser requests of 12 to 14 bytes; every prefix is an input |
| `DnsHostName` | violated: a host name as address is answered with | the one valid and the one documented kind of address |
| `NasSafety` | ids, sessions, tokens, records | two consoles, two workers, two tokens, two tickets, one restart, one record per life: retries overlap, draws race, an old token meets a new life |
| `SakeForgets` | violated: own records are returned | one console |
| `ServerSafety` | loop, dispatch, startup failures, release, arrivals | one UDP service, two TCP ones and the health check, three clients, backlog 2, up to two workers waiting per listener: the surplus worker appears with the second |
| `ServerShutdown` | violated: a signal ends the server | two clients |

The bounds are constants of the modules (`MaxTime`, `MaxIssued`, `MaxRestarts`,
`MaxRecords`, `MaxAccepting`, `MaxSent`, `MaxLength`) or the sizes of sets, and
stand in guards with their names; `TokensLeft` in `NasAccounts` starts a login
only while a new token remains. Deadlock is checked except in the two server
runs and `TcpServices`, where the program may end and then nothing happens any
more, and in the two runs of `Formats`, where an input is complete in the end.

The four violated properties are statements of the repository's own documents
that the code does not have: a disconnect erases another client's entry
(TODO.md:72, `server_profile.cpp:140`), a surplus worker is joined for ever
(TODO.md:111, `server.cpp:143`), Sake records are filed under a ticket that
changes with every profile login (TODO.md:22, `nas_http.cpp:244`), and with a
host name as advertised address DNS answers nothing (README.md:46-47,
`gamespy_dns.cpp:29`).

Several passing properties name an exception, and the exception is the finding.
A client whose challenge is lost is never registered, for it is sent once
(`RegisteredUnlessLost`). The NAS reader processes less than a request after a
timeout, at its limit and when the declared length wraps (`WholeRequests`).
Player Search and gamestats buffer without a limit (`RequestsBounded`), DNS and
gamestats wait for a silent client without end (`EveryWorkerEnds`). A friend
message may be written into a reply, though never into a login
(`LoginsNotTorn`). QR and NAS fields can be confused with keys that end alike
(`TextsParsed`), and gamestats with a message whose cipher writes a marker
(`SealedMessagesOpen`).

## Fairness

- `QrDiscovery`: weak fairness of the main thread, which nothing stops
  (`MainNeverBlocks` of `ServerLoop`). Strong fairness of receiving the online
  heartbeat, and the right answer, of each session: the game repeats its
  heartbeat, and the kernel queues datagrams in order, so a datagram that keeps
  coming is read. Nothing is assumed of losses, of the clock or of the workers.
- `NatNeg`: the main thread reads what a punctual client keeps sending; a
  second does not pass while a punctual client is due.
- `ProfileService`, `ProfileStream`: a send with room returns (each piece of one
  in `ProfileStream`, strongly, as the receiver's own worker may take the room
  first), a worker waiting for a mutex that
  is released again and again gets it, and a client reads what it is sent.
  There is no send timeout in the code, so without the last assumption
  `DeadConnectionsEnd` is false: one client that stops reading keeps the mutex
  held.
- `ServerLoop`: threads that can run do; a served client leaves in the end. The
  last is not enforced by the services without a receive timeout
  (`server_discovery.cpp:44`), and `ShutdownEnds` is violated even with it.
- `TcpServices`: the worker is scheduled, which includes that a receive timeout
  expires where one is set, and the client reads its replies, for `send()` has
  no timeout. A client may be silent for ever.
- `NasAccounts` and `Formats` have safety properties only.

## Proofs

Eight modules carry proofs, for every value of the constants. The shape is the
same in all but the last: an inductive invariant `IInv`, proved from `Init` and
preserved by each action in turn, from which the properties follow.

- `QrDiscovery_proofs`: beside the types, `IInv` needs the two maps' equal
  domains and, for a worker between prune and lookup, that everything left was
  seen after its cutoff; this is inductive because only the present is ever
  written to `last_seen` and a cutoff lies strictly in the past
  (`MaxAgeAssumption`). Proved: `TypeOK`, `RegistryConsistent`,
  `SearchListsOnlyActive`, `ChallengeAccounting` and the step simulation that
  makes `ImplementsLease` a theorem: each action of the detailed model is an
  action of `SessionLease` or a stutter; a prune is an `Expire` because its
  cutoff, however old, is at most `now - MaxAge`.
- `NatNeg_proofs`: `IInv` is `TypeOK` and `PairsAgree`. The content is that
  `HandleInit` rewrites `told` for the whole pair whenever it changes one of
  its clients, and that `Cleaned` and `Tick` leave the endpoints of what stays
  alone. The two action properties follow from the definition of `Active`.
- `ProfileService_proofs`: stated under `LoginFirst`, that clients log in once
  and before anything else, as the game does; for other clients the properties
  are false, as a second login leaves the socket under the old profile. `IInv`
  adds to the types: the mutex is held exactly by whoever pushes; descriptors
  of open connections differ; an active socket is owned by a logged-in
  connection of that profile; a push under way still names such a socket. The
  last holds because erase and close happen under the mutex that the pusher
  holds.
- `ServerLoop_proofs`: `IInv` adds `Phase`, which says for each place of
  `run_server` which sockets and whether the TLS context are open, where
  workers may exist, and that `ready` is empty outside the dispatch; and
  `MainNeverBlocks`, which is inductive because only the main thread takes from
  the backlogs of its own sockets. Proved: `TypeOK`, `MainNeverBlocks`,
  `WorkersHaveTheirSockets` and `NothingLeftBehind`.
- `ProfileStream_proofs`: `StreamSpec => Spec`, the refinement: `WritePiece` is
  `Push` with its last piece and a stutter before, `ReadPiece` is `Drain` with
  the last piece of a push. So `PushReachesAddressee` carries over. For the
  pieces the invariant adds that a worker counts pieces only of a message it is
  sending, that an active socket's owner has sent its status, and that what was
  written last to the receiver of a push under way is the push's own piece or a
  reply's; with one pusher at a time, which the mutex gives, `PushesDoNotMix`
  and `LoginsNotTorn` follow. Under `LoginFirst`, as above.
- `TcpServices_proofs`: `IInv` adds `Stages`, where in the stream each step of
  the worker is and what ended its loop; `Places`, that the messages handled so
  far end where the buffer starts; and `Kept`, that a NAS reader goes on only
  below its limit. The lemmas before it are about markers: those of a beginning
  of a sequence are the sequence's, so the first message is whole and contains
  no other. Proved for any marker, sizes and limits: all five invariants.
- `NasAccounts_proofs`: `IInv` adds that ids are below their counters; that a
  login between its critical sections carries the profile id its user has,
  which no other request can change; and that every token on its way, in a
  session or on a console was drawn before and belongs to one key unless it was
  drawn twice, likewise tickets and records. `TokenLeadsHome` and
  `RecordsPrivate` follow. The race in the generator needs no case of its own:
  whatever it repeats is in `repeated`.
- `Formats_proofs`: here the state is an input and the inductive invariant,
  `Inputs`, only says of which symbols it is. The content is in lemmas about
  the operators, for inputs of any length. `SealedMessagesOpen`: sealing twice
  is the identity, and the first marker is where encryption stopped both times.
  `BrowserGrammar`: the offsets the parser walks are the ends of texts the
  grammar asks for, and no others can be. `DnsAnswersQuestions`: `NameEnd`
  ends where labels that follow each other end, in both directions; a datagram
  that was cut is answered as what is left. `Base64Decodes`: a group of four
  sextets has the 24 bits of its three bytes, by cases over the places of one.
  `TextsParsed`: the text of a request is laid out as parts with known places;
  a marker that is found starts with a field, since a key reaches over no
  separator; what follows it up to the next separator is the value; and
  splitting, taken from the end of the list, gives the items that joining took
  from its start.

What a recursive function computes is proved by induction over sets of numbers:
a set that contains a number whenever it contains all below it is `Nat`
(`Induction`, from the well-foundedness of finite sets, as the library's own
induction rules take an operator the provers cannot instantiate). That a
function with the recursive equation exists at all (`EndsExist`,
`SplitExists`), without which `CHOOSE` says nothing, is proved the same way:
each value depends on values further on only. `FlattenSeq` of the library is
treated alike (`FlattenIs`).

Assumptions are the named `ASSUME`s of the modules, which the runs evaluate.
Those of `Formats` that say something are that keys, values and items contain
none of the separators, as there they would separate, and that
`MinRequest`, 15 in the code, is less than the shortest request that parses.

Only model-checked: the six liveness properties (`RegisteredUnlessLost`,
`PunctualPairsMeet`, `DeadConnectionsEnd`, `EveryArrivalTaken`,
`ShutdownEndsIfNobodyAccepts`, `EveryWorkerEnds`), as fairness and `ENABLED` are
outside what the prover handles. Every invariant and action property the passing
runs check, and the refinements of `SessionLease` and of `ProfileService`, are
theorems.

## Not modelled, and the plan

Modelled in this order: the registry with QR and Player Search (the state most
threads share), NATNEG, the profile server, the server loop, accounts and Sake;
then the proofs about accounts, the bytes on the profile server's sockets, the
connections of all other TCP services, and the parsers and encoders, with the
proofs about each. What is
left, in order:

1. A composition of QR, Player Search and NATNEG: two clients that find each
   other through the registry and are then introduced. They share no variable
   of the server, so the clients would be most of it.
2. The layout of replies: the browser's empty list, the QR challenge with its
   hexadecimal address, NATNEG packets.
3. The profile server's reader as a seventh service of `TcpServices`. It is the
   loop of Player Search without a timeout.

Left out: configuration and `main.cpp` (read once, no behaviour over time),
certificates, TLS, MD5 and RC4 (library calls, or ciphers whose two ends are
both in the client's hands), logging, the build and the container. updatepro
has no effect outside its own worker.

## Running

    tlc -workers 2 -config QrSafety.cfg MC_QrDiscovery
    tlapm QrDiscovery_proofs.tla

Every other run is its `.cfg` with the module `PROJECT.json` names.

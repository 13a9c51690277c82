-------------------------- MODULE ServerLoop_proofs --------------------------
(***************************************************************************)
(* Proofs about run_server, for any services in any order of opening and   *)
(* dispatch, any number of clients and any backlog.                        *)
(***************************************************************************)
EXTENDS ServerLoop, SequenceTheorems, TLAPS

(***************************************************************************)
(* The inductive invariant: besides the three properties, how far the      *)
(* start and the shutdown have come at each pc, and that no worker is      *)
(* there before the loop or after the join.                                *)
(***************************************************************************)
Opened ==
    /\ Len(sockets) <= Len(OpenOrder)
    /\ \A i \in 1 .. Len(sockets) : sockets[i] = OpenOrder[i]

Phase ==
    /\ pc = "opening" => Opened /\ Len(sockets) < Len(OpenOrder)
    /\ pc \in {"context", "loop", "dispatch", "joining", "freeing", "closing"}
            => sockets = OpenOrder
    /\ pc \in {"loop", "dispatch", "joining", "freeing"} => relay_ssl_context
    /\ pc \notin {"loop", "dispatch", "joining", "freeing"}
            => ~ relay_ssl_context
    /\ pc \notin {"loop", "dispatch", "joining"} => WorkersDone
    /\ pc \in {"stopped", "failed"} =>
            sockets = <<>> /\ \A s \in Service : backlog[s] = <<>>
    /\ pc # "dispatch" => ready = {}

IInv == TypeOK /\ Phase /\ MainNeverBlocks

\* There is a first socket to open: the list is not empty.
LEMMA OpenOrderLemma == OpenOrder \in Seq(Service) /\ Len(OpenOrder) \in Nat \ {0}
<1>1. OpenOrder \in Seq(Service) /\ Range(OpenOrder) = Service
  BY ServiceAssumption
<1>2. Health \in Range(OpenOrder)
  BY <1>1 DEF Service
<1>3. PICK i \in DOMAIN OpenOrder : OpenOrder[i] = Health
  BY <1>2 DEF Range
<1>4. QED
  BY <1>1, <1>3

\* The initial state: nothing opened, nobody there.
LEMMA InitIInv == Init => IInv
<1> SUFFICES ASSUME Init PROVE IInv
  OBVIOUS
<1>1. TypeOK
  <2>1. <<>> \in Seq(Service) /\ <<>> \in Seq(Client)
    OBVIOUS
  <2>2. [s \in Service |-> <<>>] \in [Service -> Seq(Client)]
    BY <2>1
  <2>3. [c \in Client |-> NoService] \in [Client -> Tcp \cup {NoService}]
    OBVIOUS
  <2>4. [s \in Tcp |-> 0] \in [Tcp -> Nat]
    OBVIOUS
  <2>5. QED
    BY <2>1, <2>2, <2>3, <2>4 DEF Init, TypeOK
<1>2. Phase
  BY OpenOrderLemma DEF Init, Phase, Opened, WorkersDone
<1>3. MainNeverBlocks
  BY DEF Init, MainNeverBlocks
<1>4. QED
  BY <1>1, <1>2, <1>3 DEF IInv

\* Opening one socket more keeps the opened ones a prefix of the list.
LEMMA OpenSocketIInv == ASSUME IInv, OpenSocket PROVE IInv'
<1> USE DEF IInv
<1> DEFINE n == Len(sockets) + 1
<1>1. /\ sockets \in Seq(Service) /\ n \in 1 .. Len(OpenOrder)
      /\ Len(OpenOrder) \in Nat /\ OpenOrder \in Seq(Service)
      /\ Opened /\ pc = "opening"
  BY OpenOrderLemma DEF OpenSocket, TypeOK, Phase
<1>2. OpenOrder[n] \in Service
  BY <1>1
<1>3. /\ sockets' = Append(sockets, OpenOrder[n])
      /\ sockets' \in Seq(Service)
      /\ Len(sockets') = n
      /\ \A i \in 1 .. n : sockets'[i] = OpenOrder[i]
  BY <1>1, <1>2 DEF OpenSocket, Opened
<1>4. Opened'
  BY <1>1, <1>3 DEF Opened
<1>5. Len(sockets') = Len(OpenOrder) => sockets' = OpenOrder
  BY <1>1, <1>3, SeqEqual
<1>6. TypeOK'
  BY <1>3 DEF OpenSocket, TypeOK, workVars
<1>7. Phase'
  BY <1>1, <1>3, <1>4, <1>5 DEF OpenSocket, Phase, WorkersDone, workVars
<1>8. MainNeverBlocks'
  BY DEF OpenSocket, MainNeverBlocks, workVars
<1>9. QED
  BY <1>6, <1>7, <1>8

\* The other steps of startup and shutdown.
LEMMA StartStopIInv ==
    ASSUME IInv,
           \/ CreateContext \/ StartFails \/ LeaveLoop
           \/ JoinWorkers \/ FreeContext \/ CloseSockets \/ stop_server
    PROVE  IInv'
<1> USE DEF IInv
<1>0. ASSUME close_sockets
      PROVE  sockets' \in Seq(Service) /\ backlog' \in [Service -> Seq(Client)]
  <2>1. <<>> \in Seq(Service) /\ <<>> \in Seq(Client)
    OBVIOUS
  <2>2. QED
    BY <1>0, <2>1 DEF close_sockets
<1>1. TypeOK'
  <2>1. CASE CreateContext \/ LeaveLoop \/ JoinWorkers \/ FreeContext \/ stop_server
    BY <2>1 DEF CreateContext, LeaveLoop, JoinWorkers, FreeContext, stop_server,
                TypeOK, startVars, workVars
  <2>2. CASE StartFails
    BY <2>2, <1>0 DEF StartFails, TypeOK
  <2>3. CASE CloseSockets
    BY <2>3, <1>0 DEF CloseSockets, TypeOK
  <2>4. QED
    BY <2>1, <2>2, <2>3
<1>2. CASE CreateContext
  BY <1>1, <1>2 DEF CreateContext, Phase, WorkersDone, MainNeverBlocks,
                    workVars
<1>3. CASE StartFails
  BY <1>1, <1>3 DEF StartFails, close_sockets, Phase, WorkersDone,
                    MainNeverBlocks
<1>4. CASE LeaveLoop
  BY <1>1, <1>4 DEF LeaveLoop, Phase, WorkersDone, MainNeverBlocks, startVars,
                    workVars
<1>5. CASE JoinWorkers
  BY <1>1, <1>5 DEF JoinWorkers, Phase, WorkersDone, MainNeverBlocks,
                    startVars, workVars
<1>6. CASE FreeContext
  BY <1>1, <1>6 DEF FreeContext, Phase, WorkersDone, MainNeverBlocks, workVars
<1>7. CASE CloseSockets
  BY <1>1, <1>7 DEF CloseSockets, close_sockets, Phase, WorkersDone,
                    MainNeverBlocks
<1>8. CASE stop_server
  BY <1>1, <1>8 DEF stop_server, Phase, Opened, WorkersDone, MainNeverBlocks,
                    startVars, workVars
<1>9. QED
  BY <1>2, <1>3, <1>4, <1>5, <1>6, <1>7, <1>8

\* select() returns sockets something waits at.
LEMMA SelectIInv == ASSUME IInv, Select PROVE IInv'
<1> USE DEF IInv
<1>1. Readable \subseteq Service
  BY DEF Readable, Range, TypeOK
<1>2. TypeOK'
  BY <1>1 DEF Select, TypeOK, startVars, workVars
<1>3. Phase'
  BY DEF Select, Phase, WorkersDone, startVars, workVars
<1>4. MainNeverBlocks'
  BY DEF Select, Readable, MainNeverBlocks, workVars
<1>5. QED
  BY <1>2, <1>3, <1>4

\* A socket is looked at and leaves ready, so what its handler takes from the
\* backlog is not needed any more.
LEMMA DispatchIInv ==
    ASSUME IInv, NEW s \in Service, HandleInline(s) \/ StartWorker(s)
    PROVE  IInv'
<1> USE DEF IInv
<1>1. /\ pc = "dispatch" /\ ready' = ready \ {s}
      /\ pc' = IF ready' = {} THEN "loop" ELSE "dispatch"
      /\ UNCHANGED <<keep_running, sockets, relay_ssl_context, serving>>
  BY DEF HandleInline, StartWorker, Looked, startVars
<1>2. CASE HandleInline(s)
  <2>1. /\ backlog[s] # <<>> /\ accepting' = accepting
        /\ backlog' = [backlog EXCEPT ![s] = Tail(@)]
    BY <1>2 DEF HandleInline
  <2>2. Tail(backlog[s]) \in Seq(Client)
    BY <2>1, HeadTailProperties DEF TypeOK
  <2>3. TypeOK'
    BY <1>1, <2>1, <2>2 DEF TypeOK
  <2>4. Phase'
    BY <1>1 DEF Phase
  <2>5. MainNeverBlocks'
    BY <1>1, <2>1 DEF MainNeverBlocks, TypeOK
  <2>6. QED
    BY <2>3, <2>4, <2>5
<1>3. CASE StartWorker(s)
  <2>1. /\ s \in Tcp /\ backlog' = backlog
        /\ accepting' = [accepting EXCEPT ![s] = @ + 1]
    BY <1>3 DEF StartWorker
  <2>2. TypeOK'
    BY <1>1, <2>1 DEF TypeOK
  <2>3. Phase'
    BY <1>1 DEF Phase
  <2>4. MainNeverBlocks'
    BY <1>1, <2>1 DEF MainNeverBlocks
  <2>5. QED
    BY <2>2, <2>3, <2>4
<1>4. QED
  BY <1>2, <1>3

\* A worker accepts: it takes from its own TCP backlog only.
LEMMA WorkerAcceptIInv == ASSUME IInv, NEW s \in Tcp, WorkerAccept(s) PROVE IInv'
<1> USE DEF IInv
<1>0. /\ accepting[s] > 0 /\ backlog[s] # <<>>
      /\ accepting' = [accepting EXCEPT ![s] = @ - 1]
      /\ backlog' = [backlog EXCEPT ![s] = Tail(@)]
      /\ serving' = [serving EXCEPT ![Head(backlog[s])] = s]
      /\ UNCHANGED <<pc, keep_running, sockets, relay_ssl_context, ready>>
      /\ s \in Service
  BY DEF WorkerAccept, startVars, Service
<1>1. Head(backlog[s]) \in Client /\ Tail(backlog[s]) \in Seq(Client)
  BY <1>0, HeadTailProperties DEF TypeOK
<1>2. TypeOK'
  BY <1>0, <1>1 DEF TypeOK
<1>3. pc \in {"loop", "dispatch", "joining"}
  BY <1>0 DEF Phase, WorkersDone, TypeOK
<1>4. Phase'
  BY <1>0, <1>3 DEF Phase
<1>5. MainNeverBlocks'
  BY <1>0 DEF MainNeverBlocks, TypeOK
<1>6. QED
  BY <1>2, <1>4, <1>5

\* A worker ends.
LEMMA WorkerDoneIInv == ASSUME IInv, NEW c \in Client, WorkerDone(c) PROVE IInv'
<1> USE DEF IInv
<1>0. /\ serving' = [serving EXCEPT ![c] = NoService]
      /\ UNCHANGED <<pc, keep_running, sockets, relay_ssl_context, ready,
                     backlog, accepting>>
      /\ serving[c] # NoService
  BY DEF WorkerDone, startVars
<1>1. TypeOK' /\ MainNeverBlocks'
  BY <1>0 DEF TypeOK, MainNeverBlocks
<1>2. pc \in {"loop", "dispatch", "joining"}
  BY <1>0 DEF Phase, WorkersDone
<1>3. Phase'
  BY <1>0, <1>2 DEF Phase
<1>4. QED
  BY <1>1, <1>3

\* Something arrives at an open socket.
LEMMA ArriveIInv ==
    ASSUME IInv, NEW c \in Client, NEW s \in Service, Arrive(c, s) PROVE IInv'
<1> USE DEF IInv
<1>0. /\ backlog' = [backlog EXCEPT ![s] = Append(@, c)]
      /\ UNCHANGED <<pc, keep_running, sockets, relay_ssl_context, ready,
                     accepting, serving>>
      /\ sockets # <<>>
  BY DEF Arrive, startVars, Range
<1>1. Append(backlog[s], c) \in Seq(Client) /\ Append(backlog[s], c) # <<>>
  <2>1. backlog[s] \in Seq(Client)
    BY DEF TypeOK
  <2>2. QED
    BY <2>1
<1>2. TypeOK'
  BY <1>0, <1>1 DEF TypeOK
<1>3. Phase'
  BY <1>0 DEF Phase, Opened, WorkersDone
<1>4. MainNeverBlocks'
  BY <1>0, <1>1 DEF MainNeverBlocks, TypeOK
<1>5. QED
  BY <1>2, <1>3, <1>4

\* IInv is inductive.
LEMMA NextIInv == IInv /\ [Next]_vars => IInv'
<1> SUFFICES ASSUME IInv, [Next]_vars PROVE IInv'
  OBVIOUS
<1>1. CASE MainThread
  BY <1>1, OpenSocketIInv, StartStopIInv, SelectIInv, DispatchIInv
     DEF MainThread
<1>2. CASE \E s \in Tcp : WorkerAccept(s)
  BY <1>2, WorkerAcceptIInv
<1>3. CASE \E c \in Client : WorkerDone(c)
  BY <1>3, WorkerDoneIInv
<1>4. CASE \E c \in Client, s \in Service : Arrive(c, s)
  BY <1>4, ArriveIInv
<1>5. CASE stop_server
  BY <1>5, StartStopIInv
<1>6. CASE UNCHANGED vars
  BY <1>6 DEF IInv, TypeOK, Phase, Opened, WorkersDone, MainNeverBlocks, vars
<1>7. QED
  BY <1>1, <1>2, <1>3, <1>4, <1>5, <1>6 DEF Next

\* The inductive invariant holds in every reachable state.
THEOREM InductiveInvariant == Spec => []IInv
BY InitIInv, NextIInv, PTL DEF Spec

\* Type correctness, for every value of the constants.
THEOREM TypeCorrect == Spec => []TypeOK
<1>1. IInv => TypeOK
  BY DEF IInv
<1>2. QED
  BY <1>1, InductiveInvariant, PTL

\* The loop never waits for one socket while others are ready.
THEOREM MainThreadNeverBlocks == Spec => []MainNeverBlocks
<1>1. IInv => MainNeverBlocks
  BY DEF IInv
<1>2. QED
  BY <1>1, InductiveInvariant, PTL

\* No worker outlives the sockets and the TLS context it uses.
THEOREM WorkersKeepTheirSockets == Spec => []WorkersHaveTheirSockets
<1>1. IInv => WorkersHaveTheirSockets
  BY DEF IInv, Phase, WorkersHaveTheirSockets
<1>2. QED
  BY <1>1, InductiveInvariant, PTL

\* A server that has returned has released everything, however it ended.
THEOREM EverythingReleased == Spec => []NothingLeftBehind
<1>1. IInv => NothingLeftBehind
  BY DEF IInv, Phase, NothingLeftBehind
<1>2. QED
  BY <1>1, InductiveInvariant, PTL
=============================================================================

----------------------------- MODULE ServerLoop ------------------------------
(***************************************************************************)
(* run_server of src/server.cpp: the listening sockets are opened in order *)
(* and closed again if one of them fails; the main thread then selects,    *)
(* handles the datagrams and the health check itself and starts a worker   *)
(* thread per readable TCP listener; on a signal it joins every worker and *)
(* frees the TLS context and the sockets.                                  *)
(*                                                                         *)
(* accept() is called by the WORKER.  Until it has run, the listener stays *)
(* readable, so the main thread may start further workers for the same     *)
(* connection; those then wait in accept() for the next one.  The workers  *)
(* of a service that wait there are alike and are counted; a connection    *)
(* that was accepted is known by its client.                               *)
(***************************************************************************)
EXTENDS Integers, Sequences, Functions

CONSTANTS
    Udp,            \* services whose datagrams the main thread handles
    Tcp,            \* services with a worker thread per connection
    Health,         \* the health check
    OpenOrder,      \* the order in which the sockets are opened
    DispatchOrder,  \* the order in which readable sockets are looked at
    Client,         \* the programs that connect or send a datagram
    NoService,      \* the client is not being served
    Backlog,        \* 8: connections the kernel queues per listener
    MaxAccepting    \* bound on the workers of a service waiting in accept()

Service == Udp \cup Tcp \cup {Health}

ASSUME ServiceAssumption ==
    /\ Health \notin Udp \cup Tcp
    /\ Udp \cap Tcp = {}
    /\ NoService \notin Service
    /\ OpenOrder \in Seq(Service) /\ Range(OpenOrder) = Service
    /\ DispatchOrder \in Seq(Service) /\ Range(DispatchOrder) = Service
ASSUME BoundAssumption == Backlog \in Nat \ {0} /\ MaxAccepting \in Nat \ {0}

VARIABLES
    pc,                 \* where run_server is
    keep_running,       \* cleared by the signal handler
    sockets,            \* the listening sockets opened so far
    relay_ssl_context,  \* whether the TLS context is allocated
    ready,              \* readable sockets still to be looked at
    backlog,            \* connections and datagrams waiting in the kernel
    accepting,          \* workers of each TCP service waiting in accept()
    serving             \* the service whose worker serves each client

vars == <<pc, keep_running, sockets, relay_ssl_context, ready, backlog,
          accepting, serving>>
startVars == <<sockets, relay_ssl_context>>
workVars == <<backlog, accepting, serving>>

Init ==
    /\ pc = "opening"
    /\ keep_running = TRUE
    /\ sockets = <<>>
    /\ relay_ssl_context = FALSE
    /\ ready = {}
    /\ backlog = [s \in Service |-> <<>>]
    /\ accepting = [s \in Tcp |-> 0]
    /\ serving = [c \in Client |-> NoService]

-----------------------------------------------------------------------------
(* Startup.                                                                *)

OpenSocket ==
    /\ pc = "opening"
    /\ sockets' = Append(sockets, OpenOrder[Len(sockets) + 1])
    /\ pc' = IF Len(sockets') = Len(OpenOrder) THEN "context" ELSE "opening"
    /\ UNCHANGED <<keep_running, relay_ssl_context, ready, workVars>>

CreateContext ==
    /\ pc = "context"
    /\ relay_ssl_context' = TRUE
    /\ pc' = "loop"
    /\ UNCHANGED <<keep_running, sockets, ready, workVars>>

\* Closing the listeners resets whatever waits in their backlogs.
close_sockets ==
    /\ sockets' = <<>>
    /\ backlog' = [s \in Service |-> <<>>]

\* A bug NothingLeftBehind finds: a failed start closes nothing.
BugStartFailsOpen ==
    /\ pc \in {"opening", "context"}
    /\ pc' = "failed"
    /\ UNCHANGED <<keep_running, startVars, ready, workVars>>

\* A port that cannot be bound, or no TLS context: run_server returns 1.
StartFails ==
    /\ pc \in {"opening", "context"}
    /\ close_sockets
    /\ pc' = "failed"
    /\ UNCHANGED <<keep_running, relay_ssl_context, ready, accepting, serving>>

-----------------------------------------------------------------------------
(* The loop of the main thread.                                            *)

Readable == {s \in Range(sockets) : backlog[s] # <<>>}

\* A bug MainNeverBlocks finds: every socket is taken for readable.
BugSelectAll ==
    /\ pc = "loop"
    /\ keep_running
    /\ Readable # {}
    /\ \A s \in Tcp : accepting[s] < MaxAccepting
    /\ ready' = Range(sockets)
    /\ pc' = "dispatch"
    /\ UNCHANGED <<keep_running, startVars, workVars>>

\* select() finds something; a timeout or an interruption changes nothing.
Select ==
    /\ pc = "loop"
    /\ keep_running
    /\ Readable # {}
    /\ \A s \in Readable \cap Tcp : accepting[s] < MaxAccepting
    /\ ready' = Readable
    /\ pc' = "dispatch"
    /\ UNCHANGED <<keep_running, startVars, workVars>>

Position(s) == CHOOSE i \in 1 .. Len(DispatchOrder) : DispatchOrder[i] = s
First(s) == s \in ready /\ \A r \in ready : Position(s) <= Position(r)

\* A bug EveryArrivalTaken finds: select() again after the first socket.
BugLookedOnce(s) ==
    /\ pc = "dispatch"
    /\ First(s)
    /\ ready' = {}
    /\ pc' = "loop"
    /\ UNCHANGED <<keep_running, startVars>>

Looked(s) ==
    /\ pc = "dispatch"
    /\ First(s)
    /\ ready' = ready \ {s}
    /\ pc' = IF ready' = {} THEN "loop" ELSE "dispatch"
    /\ UNCHANGED <<keep_running, startVars>>

\* recvfrom() or accept() by the main thread: it waits if there is nothing.
HandleInline(s) ==
    /\ s \in Udp \cup {Health}
    /\ Looked(s)
    /\ backlog[s] # <<>>
    /\ backlog' = [backlog EXCEPT ![s] = Tail(@)]
    /\ UNCHANGED <<accepting, serving>>

StartWorker(s) ==
    /\ s \in Tcp
    /\ Looked(s)
    /\ accepting' = [accepting EXCEPT ![s] = @ + 1]
    /\ UNCHANGED <<backlog, serving>>

LeaveLoop ==
    /\ pc = "loop"
    /\ ~ keep_running
    /\ pc' = "joining"
    /\ UNCHANGED <<keep_running, startVars, ready, workVars>>

-----------------------------------------------------------------------------
(* Shutdown.                                                               *)

WorkersDone ==
    /\ \A s \in Tcp : accepting[s] = 0
    /\ \A c \in Client : serving[c] = NoService

\* Bugs WorkersHaveTheirSockets and ShutdownEndsIfNobodyAccepts find: the
\* workers are not waited for; the backlogs are.
BugJoinDetached ==
    /\ pc = "joining"
    /\ pc' = "freeing"
    /\ UNCHANGED <<keep_running, startVars, ready, workVars>>
BugJoinBacklog ==
    /\ pc = "joining"
    /\ WorkersDone
    /\ \A s \in Service : backlog[s] = <<>>
    /\ pc' = "freeing"
    /\ UNCHANGED <<keep_running, startVars, ready, workVars>>

JoinWorkers ==
    /\ pc = "joining"
    /\ WorkersDone
    /\ pc' = "freeing"
    /\ UNCHANGED <<keep_running, startVars, ready, workVars>>

FreeContext ==
    /\ pc = "freeing"
    /\ relay_ssl_context' = FALSE
    /\ pc' = "closing"
    /\ UNCHANGED <<keep_running, sockets, ready, workVars>>

CloseSockets ==
    /\ pc = "closing"
    /\ close_sockets
    /\ pc' = "stopped"
    /\ UNCHANGED <<keep_running, relay_ssl_context, ready, accepting, serving>>

-----------------------------------------------------------------------------
(* The workers, the clients and the signal.                                *)

\* A bug TypeOK finds: a connection is taken with no worker waiting.
BugAcceptByNobody(s) ==
    /\ backlog[s] # <<>>
    /\ accepting' = [accepting EXCEPT ![s] = @ - 1]
    /\ backlog' = [backlog EXCEPT ![s] = Tail(@)]
    /\ serving' = [serving EXCEPT ![Head(backlog[s])] = s]
    /\ UNCHANGED <<pc, keep_running, startVars, ready>>

WorkerAccept(s) ==
    /\ accepting[s] > 0
    /\ backlog[s] # <<>>
    /\ accepting' = [accepting EXCEPT ![s] = @ - 1]
    /\ backlog' = [backlog EXCEPT ![s] = Tail(@)]
    /\ serving' = [serving EXCEPT ![Head(backlog[s])] = s]
    /\ UNCHANGED <<pc, keep_running, startVars, ready>>

WorkerDone(c) ==
    /\ serving[c] # NoService
    /\ serving' = [serving EXCEPT ![c] = NoService]
    /\ UNCHANGED <<pc, keep_running, startVars, ready, backlog, accepting>>

Waiting(c, s) == c \in Range(backlog[s])

\* The kernel completes a connection, or queues a datagram, by itself.
Arrive(c, s) ==
    /\ s \in Range(sockets)
    /\ serving[c] = NoService
    /\ \A r \in Service : ~ Waiting(c, r)
    /\ Len(backlog[s]) < Backlog
    /\ backlog' = [backlog EXCEPT ![s] = Append(@, c)]
    /\ UNCHANGED <<pc, keep_running, startVars, ready, accepting, serving>>

stop_server ==
    /\ pc \notin {"stopped", "failed"}
    /\ keep_running
    /\ keep_running' = FALSE
    /\ UNCHANGED <<pc, startVars, ready, workVars>>

MainThread ==
    \/ OpenSocket \/ CreateContext \/ StartFails
    \/ Select \/ LeaveLoop
    \/ \E s \in Service : HandleInline(s) \/ StartWorker(s)
    \/ JoinWorkers \/ FreeContext \/ CloseSockets

Next ==
    \/ MainThread
    \/ \E s \in Tcp : WorkerAccept(s)
    \/ \E c \in Client : WorkerDone(c)
    \/ \E c \in Client, s \in Service : Arrive(c, s)
    \/ stop_server

Spec == Init /\ [][Next]_vars

(***************************************************************************)
(* Fairness: every thread that can run does.  That a worker ends assumes   *)
(* that its client does not keep the connection for ever, which only the   *)
(* services with a receive timeout make sure of; clients and signals come  *)
(* when they like.                                                         *)
(***************************************************************************)
FairSpec ==
    /\ Spec
    /\ WF_vars(MainThread)
    /\ \A s \in Tcp : WF_vars(WorkerAccept(s))
    /\ \A c \in Client : WF_vars(WorkerDone(c))

-----------------------------------------------------------------------------
(* Properties.                                                             *)

\* Every variable has its type.
TypeOK ==
    /\ pc \in {"opening", "context", "loop", "dispatch", "joining", "freeing",
               "closing", "stopped", "failed"}
    /\ keep_running \in BOOLEAN
    /\ sockets \in Seq(Service)
    /\ relay_ssl_context \in BOOLEAN
    /\ ready \subseteq Service
    /\ backlog \in [Service -> Seq(Client)]
    /\ accepting \in [Tcp -> Nat]
    /\ serving \in [Client -> Tcp \cup {NoService}]

(***************************************************************************)
(* A readable socket the main thread handles itself is still readable when *)
(* its turn comes, whatever the workers did since select(): recvfrom() and *)
(* accept() on blocking sockets never stop the loop that serves everybody. *)
(***************************************************************************)
MainNeverBlocks ==
    \A s \in ready \ Tcp : backlog[s] # <<>>

(***************************************************************************)
(* While a worker lives, waiting in accept() or serving a client, every    *)
(* listening socket and the TLS context it was given are there.            *)
(***************************************************************************)
WorkersHaveTheirSockets ==
    ~ WorkersDone => /\ sockets = OpenOrder
                     /\ relay_ssl_context

(***************************************************************************)
(* When run_server has returned, after a stop or a failed start at any of  *)
(* the sockets, nothing is left behind: no socket, no TLS context, no      *)
(* worker, no connection.                                                  *)
(***************************************************************************)
NothingLeftBehind ==
    pc \in {"stopped", "failed"} =>
        /\ sockets = <<>>
        /\ ~ relay_ssl_context
        /\ WorkersDone
        /\ \A s \in Service : backlog[s] = <<>>

(***************************************************************************)
(* No connection or datagram is forgotten: one that waits is taken by the  *)
(* main thread or a worker, or the server is told to stop.                 *)
(***************************************************************************)
EveryArrivalTaken ==
    \A c \in Client, s \in Service :
        Waiting(c, s) ~> (~ Waiting(c, s) \/ ~ keep_running)

(***************************************************************************)
(* Shutdown ends if no worker waits in accept() when it begins: no new one *)
(* is started any more.                                                    *)
(***************************************************************************)
ShutdownEndsIfNobodyAccepts ==
    pc = "joining" /\ (\A s \in Tcp : accepting[s] = 0) ~> pc = "stopped"

(***************************************************************************)
(* A signal ends the server gracefully (TODO.md:111), at least if every    *)
(* client served ends its connection.  The code does not have it: a worker *)
(* that waits in accept() for a connection that does not come is joined    *)
(* for ever.                                                               *)
(***************************************************************************)
ShutdownEnds ==
    ~ keep_running ~> pc \in {"stopped", "failed"}
=============================================================================

--------------------------- MODULE ProfileService ---------------------------
(***************************************************************************)
(* The GameSpy profile server, handle_profile_connection of                *)
(* src/server_profile.cpp.  Every connection has a worker thread with      *)
(* local credentials; the workers share active_profiles (which socket      *)
(* pushes to a profile go to) and pending_requests under buddy_mutex.  A   *)
(* push to another client happens with the mutex held and blocks while     *)
(* that client's socket buffer is full.  Socket descriptors are used again *)
(* once closed.                                                            *)
(*                                                                         *)
(* Each request is one action that waits for the mutex, changes the maps   *)
(* and, when it pushes, keeps the mutex until the action Push.  Requests   *)
(* that touch nothing but locals of their thread (keepalive, getprofile,   *)
(* updatepro) are left out: nobody else can see their effect.              *)
(***************************************************************************)
EXTENDS Integers, Sequences, Maps

CONSTANTS
    Conn,           \* connections, one worker thread each
    Fd,             \* socket descriptors
    Profile,        \* profile ids
    DefaultProfile, \* "1", what LoginCredentials start with
    None,           \* no descriptor, no holder, no push
    SocketBuffer,   \* pushes a client may leave unread
    LoginFirst      \* whether clients log in once, before anything else

ASSUME ConstantsAssumption ==
    /\ DefaultProfile \in Profile
    /\ None \notin Conn \cup Fd
    /\ SocketBuffer \in Nat \ {0}
    /\ LoginFirst \in BOOLEAN

VARIABLES
    pc,                 \* what each worker does
    client_socket,      \* its descriptor
    credentials,        \* its profile id
    logged_in,          \* whether a login has been handled
    hung_up,            \* whether the client has closed its end
    inbox,              \* pushes in the socket buffer of its client
    push,               \* the push its request is making
    active_profiles,    \* profile -> descriptor
    pending_requests,   \* profile -> profiles whose request is not answered
    buddy_mutex         \* its holder

connVars == <<client_socket, credentials, logged_in>>
vars == <<pc, connVars, hung_up, inbox, push, active_profiles,
          pending_requests, buddy_mutex>>

\* "2" asks for friendship, "4" accepts it.
Message == [command : {"2", "4"}, source : Profile, target : Profile]
PendingPush == [fd : Fd, message : Message]

Init ==
    /\ pc = [c \in Conn |-> "none"]
    /\ client_socket = [c \in Conn |-> None]
    /\ credentials = [c \in Conn |-> DefaultProfile]
    /\ logged_in = [c \in Conn |-> FALSE]
    /\ hung_up = [c \in Conn |-> FALSE]
    /\ inbox = [c \in Conn |-> <<>>]
    /\ push = [c \in Conn |-> None]
    /\ active_profiles = Empty
    /\ pending_requests = [p \in Profile |-> {}]
    /\ buddy_mutex = None

-----------------------------------------------------------------------------
\* accept() hands out a descriptor that is not in use.
Accept(c, fd) ==
    /\ pc[c] = "none"
    /\ \A d \in Conn : client_socket[d] # fd
    /\ pc' = [pc EXCEPT ![c] = "reading"]
    /\ client_socket' = [client_socket EXCEPT ![c] = fd]
    /\ UNCHANGED <<credentials, logged_in, hung_up, inbox, push,
                   active_profiles, pending_requests, buddy_mutex>>

\* A request of a client that behaves, if LoginFirst, as the game does.
Reading(c) ==
    /\ pc[c] = "reading"
    /\ ~ hung_up[c]
    /\ LoginFirst => logged_in[c]

\* credentials_for_token finds the profile of the token, or the default.
Login(c, p) ==
    /\ pc[c] = "reading"
    /\ ~ hung_up[c]
    /\ LoginFirst => ~ logged_in[c]
    /\ credentials' = [credentials EXCEPT ![c] = p]
    /\ logged_in' = [logged_in EXCEPT ![c] = TRUE]
    /\ UNCHANGED <<pc, client_socket, hung_up, inbox, push, active_profiles,
                   pending_requests, buddy_mutex>>

\* A bug TypeOK finds: key and value are swapped.
BugStatusSwapped(c) ==
    /\ Reading(c)
    /\ buddy_mutex = None
    /\ active_profiles' =
            Put(active_profiles, client_socket[c], credentials[c])
    /\ UNCHANGED <<pc, connVars, hung_up, inbox, push, pending_requests,
                   buddy_mutex>>

Status(c) ==
    /\ Reading(c)
    /\ buddy_mutex = None
    /\ active_profiles' =
            Put(active_profiles, credentials[c], client_socket[c])
    /\ UNCHANGED <<pc, connVars, hung_up, inbox, push, pending_requests,
                   buddy_mutex>>

\* A bug PushReachesAddressee finds: the mutex is released before the send.
BugPushToUnlocked(c, p, command) ==
    IF p \in DOMAIN active_profiles
    THEN /\ push' = [push EXCEPT ![c] =
                        [fd |-> active_profiles[p],
                         message |-> [command |-> command,
                                      source |-> credentials[c],
                                      target |-> p]]]
         /\ pc' = [pc EXCEPT ![c] = "pushing"]
         /\ UNCHANGED buddy_mutex
    ELSE UNCHANGED <<push, pc, buddy_mutex>>

\* With the mutex held: start pushing to p if it is active, else let go.
PushTo(c, p, command) ==
    IF p \in DOMAIN active_profiles
    THEN /\ push' = [push EXCEPT ![c] =
                        [fd |-> active_profiles[p],
                         message |-> [command |-> command,
                                      source |-> credentials[c],
                                      target |-> p]]]
         /\ pc' = [pc EXCEPT ![c] = "pushing"]
         /\ buddy_mutex' = c
    ELSE UNCHANGED <<push, pc, buddy_mutex>>

AddBuddy(c, target) ==
    /\ Reading(c)
    /\ target # credentials[c]
    /\ buddy_mutex = None
    /\ pending_requests' =
            [pending_requests EXCEPT ![target] = @ \cup {credentials[c]}]
    /\ PushTo(c, target, "2")
    /\ UNCHANGED <<connVars, hung_up, inbox, active_profiles>>

AuthAdd(c, source) ==
    /\ Reading(c)
    /\ buddy_mutex = None
    /\ pending_requests' =
            [pending_requests EXCEPT ![credentials[c]] = @ \ {source}]
    /\ PushTo(c, source, "4")
    /\ UNCHANGED <<connVars, hung_up, inbox, active_profiles>>

DelBuddy(c, target) ==
    /\ Reading(c)
    /\ buddy_mutex = None
    /\ pending_requests' =
            [pending_requests EXCEPT ![credentials[c]] = @ \ {target}]
    /\ UNCHANGED <<pc, connVars, hung_up, inbox, push, active_profiles,
                   buddy_mutex>>

Owner(d, fd) == pc[d] # "none" /\ client_socket[d] = fd

\* A bug DeadConnectionsEnd finds: the mutex is not released after the send.
BugPushKeepsMutex(c) ==
    /\ pc[c] = "pushing"
    /\ push' = [push EXCEPT ![c] = None]
    /\ pc' = [pc EXCEPT ![c] = "reading"]
    /\ UNCHANGED <<connVars, hung_up, inbox, active_profiles,
                   pending_requests, buddy_mutex>>

\* send_all returns: the message is in the buffer of the connection that has
\* the descriptor now, or lost with a connection that is going or gone.
Push(c) ==
    LET fd == push[c].fd
        owners == {d \in Conn : Owner(d, fd)}
    IN
    /\ pc[c] = "pushing"
    /\ \A d \in owners : hung_up[d] \/ Len(inbox[d]) < SocketBuffer
    /\ inbox' = [d \in Conn |-> IF d \in owners /\ ~ hung_up[d]
                                THEN Append(inbox[d], push[c].message)
                                ELSE inbox[d]]
    /\ push' = [push EXCEPT ![c] = None]
    /\ pc' = [pc EXCEPT ![c] = "reading"]
    /\ buddy_mutex' = None
    /\ UNCHANGED <<connVars, hung_up, active_profiles, pending_requests>>

\* A bug ActiveSocketsOpen finds: the descriptor is closed, its entry stays.
BugDisconnectKeepsEntry(c) ==
    /\ pc[c] = "reading"
    /\ hung_up[c]
    /\ buddy_mutex = None
    /\ pc' = [pc EXCEPT ![c] = "none"]
    /\ client_socket' = [client_socket EXCEPT ![c] = None]
    /\ credentials' = [credentials EXCEPT ![c] = DefaultProfile]
    /\ logged_in' = [logged_in EXCEPT ![c] = FALSE]
    /\ hung_up' = [hung_up EXCEPT ![c] = FALSE]
    /\ UNCHANGED <<inbox, push, active_profiles, pending_requests,
                   buddy_mutex>>

\* recv() returns 0 or fails: the entry of the profile goes, whoever made
\* it, and the descriptor is closed, all with the mutex held.
Disconnect(c) ==
    /\ pc[c] = "reading"
    /\ hung_up[c]
    /\ buddy_mutex = None
    /\ active_profiles' = Erase(active_profiles, {credentials[c]})
    /\ pc' = [pc EXCEPT ![c] = "none"]
    /\ client_socket' = [client_socket EXCEPT ![c] = None]
    /\ credentials' = [credentials EXCEPT ![c] = DefaultProfile]
    /\ logged_in' = [logged_in EXCEPT ![c] = FALSE]
    /\ hung_up' = [hung_up EXCEPT ![c] = FALSE]
    /\ UNCHANGED <<inbox, push, pending_requests, buddy_mutex>>

\* The clients: reading a push, and hanging up or vanishing.
Drain(c) ==
    /\ inbox[c] # <<>>
    /\ inbox' = [inbox EXCEPT ![c] = Tail(@)]
    /\ UNCHANGED <<pc, connVars, hung_up, push, active_profiles,
                   pending_requests, buddy_mutex>>

HangUp(c) ==
    /\ pc[c] # "none"
    /\ ~ hung_up[c]
    /\ hung_up' = [hung_up EXCEPT ![c] = TRUE]
    /\ inbox' = [inbox EXCEPT ![c] = <<>>]
    /\ UNCHANGED <<pc, connVars, push, active_profiles, pending_requests,
                   buddy_mutex>>

Next ==
    \E c \in Conn :
        \/ \E fd \in Fd : Accept(c, fd)
        \/ \E p \in Profile : Login(c, p) \/ AddBuddy(c, p) \/ AuthAdd(c, p)
                              \/ DelBuddy(c, p)
        \/ Status(c) \/ Push(c) \/ Disconnect(c)
        \/ Drain(c) \/ HangUp(c)

Spec == Init /\ [][Next]_vars

(***************************************************************************)
(* Fairness.  A send that can return does; a worker that waits for the     *)
(* mutex gets it when it is free again and again (SF); a client reads what *)
(* it is sent.  Without the last, one client that stops reading keeps the  *)
(* mutex held by whoever pushes to it, and with it every other worker.     *)
(***************************************************************************)
FairSpec ==
    Spec /\ \A c \in Conn :
                WF_vars(Push(c)) /\ SF_vars(Disconnect(c)) /\ WF_vars(Drain(c))

-----------------------------------------------------------------------------
(* Properties.                                                             *)

\* Every variable has its type.
TypeOK ==
    /\ pc \in [Conn -> {"none", "reading", "pushing"}]
    /\ client_socket \in [Conn -> Fd \cup {None}]
    /\ credentials \in [Conn -> Profile]
    /\ logged_in \in [Conn -> BOOLEAN]
    /\ hung_up \in [Conn -> BOOLEAN]
    /\ inbox \in [Conn -> Seq(Message)]
    /\ push \in [Conn -> PendingPush \cup {None}]
    /\ DOMAIN active_profiles \subseteq Profile
    /\ \A p \in DOMAIN active_profiles : active_profiles[p] \in Fd
    /\ pending_requests \in [Profile -> SUBSET Profile]
    /\ buddy_mutex \in Conn \cup {None}

(***************************************************************************)
(* The socket recorded for a profile is open and belongs to a connection   *)
(* logged in as that profile: no worker pushes through a closed descriptor *)
(* or one the kernel has handed to somebody else.                          *)
(***************************************************************************)
ActiveSocketsOpen ==
    \A p \in DOMAIN active_profiles : \E c \in Conn :
        Owner(c, active_profiles[p]) /\ credentials[c] = p

(***************************************************************************)
(* A push reaches the client it is addressed to and nobody else, though    *)
(* the connection may close and its descriptor be used again between the   *)
(* lookup in active_profiles and the send.                                 *)
(***************************************************************************)
PushReachesAddressee ==
    \A c \in Conn : \A i \in 1 .. Len(inbox[c]) :
        inbox[c][i].target = credentials[c]

(***************************************************************************)
(* A connection whose client is gone is torn down in the end, though other *)
(* workers hold the mutex while they push to slow clients.                 *)
(***************************************************************************)
DeadConnectionsEnd == \A c \in Conn : hung_up[c] ~> pc[c] = "none"

(***************************************************************************)
(* One client's disconnect does not take another that is still there out   *)
(* of active_profiles (TODO.md:72).  The code erases the entry of its      *)
(* profile id without looking whose socket it holds.                       *)
(***************************************************************************)
DisconnectKeepsOthers ==
    [][\A p \in DOMAIN active_profiles, d \in Conn :
            Owner(d, active_profiles[p]) /\ pc'[d] # "none" /\ ~ hung_up[d]
                => p \in DOMAIN active_profiles']_vars
=============================================================================

---------------------------- MODULE NasAccounts -----------------------------
(***************************************************************************)
(* Accounts, logins and the Sake records of src/nas_http.cpp, with the     *)
(* profile login of src/gamespy_profile.cpp that hands out the ticket Sake *)
(* records are kept under.  Every NAS request is run by a worker thread of *)
(* its own; a worker enters several critical sections one after the other, *)
(* so requests interleave between them, and a console that got no answer   *)
(* may ask again while its first request is still running.                 *)
(*                                                                         *)
(* Login tokens are drawn from a static generator with no lock, and so are *)
(* profile tickets from another.  A text is new as long as every draw is   *)
(* made alone; two that overlap may come out equal, or write an old state  *)
(* of the generator back, and then a later draw repeats an earlier text.   *)
(*                                                                         *)
(* Everything is kept in memory: a restart forgets it, the consoles do     *)
(* not.                                                                    *)
(***************************************************************************)
EXTENDS Integers, FiniteSets, Maps

CONSTANTS
    Console,        \* a MAC address and console number each
    Worker,         \* NAS worker threads
    Token,          \* the random texts of the NAS generator
    Ticket,         \* and those of the profile generator
    None,           \* nothing received yet
    MaxRestarts,    \* bound on the restarts
    MaxRecords      \* bound on the Sake records of one server life

ASSUME ConstantsAssumption ==
    /\ None \notin Ticket \cup Nat
    /\ MaxRestarts \in Nat
    /\ MaxRecords \in Nat

VARIABLES
    account_user_ids,           \* console -> user id
    next_user_id,               \* counted from 1, not from 1000000000001
    user_profile_ids,           \* user key -> profile id
    next_profile_id,
    login_sessions,             \* user key -> session
    friend_info_records,
    next_friend_info_record_id,
    nas,                        \* the request each worker runs
    user,                       \* what each console has saved: its user id,
    token,                      \* the token of its last login and the key
                                \*   it logged in with,
    ticket,                     \* the ticket of its last profile login
    racy,                       \* two NAS draws of this life overlapped
    drawn,                      \* history: the tokens and tickets drawn,
    repeated,                   \* those drawn more than once,
    restarts                    \* and the restarts

accountVars == <<account_user_ids, next_user_id, user_profile_ids, next_profile_id>>
sakeVars == <<friend_info_records, next_friend_info_record_id>>
consoleVars == <<user, token, ticket>>
textVars == <<racy, drawn, repeated>>
vars == <<accountVars, login_sessions, sakeVars, nas, consoleVars, textVars,
          restarts>>

\* Creating an account files the profile id under the decimal user id; a
\* login looks it up under the encoded user id it was sent.
Decimal(u) == <<"decimal", u>>
Encoded(u) == <<"encoded", u>>
Key == {"decimal", "encoded"} \X Nat

DefaultProfile == 1

LoginSession == [token : Token, profile_id : Nat]
FriendInfoRecord == [record_id : Nat, owner : Ticket, writer : Console]

Idle == [pc |-> "idle"]
Request == {Idle}
    \cup [pc : {"created"}, console : Console, user_id : Nat]
    \cup [pc : {"draw"}, console : Console, key : Key, profile_id : Nat]
    \cup [pc : {"store"}, console : Console, key : Key, profile_id : Nat, token : Token]

Init ==
    /\ account_user_ids = Empty
    /\ next_user_id = 1
    /\ user_profile_ids = Empty
    /\ next_profile_id = 1
    /\ login_sessions = Empty
    /\ friend_info_records = {}
    /\ next_friend_info_record_id = 1
    /\ nas = [w \in Worker |-> Idle]
    /\ user = [c \in Console |-> None]
    /\ token = [c \in Console |-> None]
    /\ ticket = [c \in Console |-> None]
    /\ racy = FALSE
    /\ drawn = {}
    /\ repeated = {}
    /\ restarts = 0

-----------------------------------------------------------------------------
(* Accounts.                                                               *)

ProfileId(key) ==
    IF key \in DOMAIN user_profile_ids THEN user_profile_ids[key]
                                       ELSE next_profile_id

\* A bug ProfilesDistinct finds: the counter is not advanced.
BugProfileNotCounted(key) ==
    /\ user_profile_ids' = Put(user_profile_ids, key, ProfileId(key))
    /\ UNCHANGED next_profile_id

profile_id_for_user(key) ==
    /\ user_profile_ids' = Put(user_profile_ids, key, ProfileId(key))
    /\ next_profile_id' = IF key \in DOMAIN user_profile_ids
                          THEN next_profile_id ELSE next_profile_id + 1

\* nas_account_create_response, its first critical section.
CreateAccount(w, c) ==
    LET known == c \in DOMAIN account_user_ids
        user_id == IF known THEN account_user_ids[c] ELSE next_user_id
    IN
    /\ nas[w] = Idle
    /\ account_user_ids' = Put(account_user_ids, c, user_id)
    /\ next_user_id' = IF known THEN next_user_id ELSE next_user_id + 1
    /\ nas' = [nas EXCEPT ![w] = [pc |-> "created", console |-> c,
                                  user_id |-> user_id]]
    /\ UNCHANGED <<user_profile_ids, next_profile_id, login_sessions, sakeVars,
                   consoleVars, textVars, restarts>>

\* Its second one, and the answer, which the console may not wait for.
AnswerAccount(w) ==
    LET r == nas[w] IN
    /\ r.pc = "created"
    /\ profile_id_for_user(Decimal(r.user_id))
    /\ user' \in {user, [user EXCEPT ![r.console] = r.user_id]}
    /\ nas' = [nas EXCEPT ![w] = Idle]
    /\ UNCHANGED <<account_user_ids, next_user_id, login_sessions, sakeVars,
                   token, ticket, textVars, restarts>>

-----------------------------------------------------------------------------
(* Logins: nas_response_for_request.                                       *)

\* A bug SessionsMatchAccounts finds: the profile is filed under the decimal
\* user id and the session under the encoded one.
BugLoginByDecimal(w, c) ==
    /\ nas[w] = Idle
    /\ user[c] # None
    /\ profile_id_for_user(Decimal(user[c]))
    /\ nas' = [nas EXCEPT ![w] =
                [pc |-> "draw", console |-> c, key |-> Encoded(user[c]),
                 profile_id |-> ProfileId(Decimal(user[c]))]]
    /\ UNCHANGED <<account_user_ids, next_user_id, login_sessions, sakeVars,
                   consoleVars, textVars, restarts>>

Drawing == {w \in Worker : nas[w].pc = "draw"}

\* Bound: a login starts only while a new token is left for its draw.
TokensLeft == Cardinality(Drawing) < Cardinality(Token \ drawn)

Login(w, c) ==
    LET key == Encoded(user[c]) IN
    /\ nas[w] = Idle
    /\ user[c] # None
    /\ TokensLeft
    /\ profile_id_for_user(key)
    /\ nas' = [nas EXCEPT ![w] = [pc |-> "draw", console |-> c, key |-> key,
                                  profile_id |-> ProfileId(key)]]
    /\ UNCHANGED <<account_user_ids, next_user_id, login_sessions, sakeVars,
                   consoleVars, textVars, restarts>>

\* A bug TypeOK finds: the token is drawn and not put into the session.
BugWithoutToken(r, t) == [r EXCEPT !.pc = "store"]

WithToken(r, t) == [pc |-> "store", console |-> r.console, key |-> r.key,
                    profile_id |-> r.profile_id, token |-> t]

\* The history of the texts, with one more.
Record(t) ==
    /\ drawn' = drawn \cup {t}
    /\ repeated' = repeated \cup (drawn \cap {t})

\* A bug TokenLeadsHome finds: the generator starts anew for every request,
\* so that a text may come again.
BugDrawReseeded(w) ==
    /\ w \in Drawing
    /\ \E t \in Token : nas' = [nas EXCEPT ![w] = WithToken(@, t)]
    /\ UNCHANGED <<accountVars, login_sessions, sakeVars, consoleVars, textVars,
                   restarts>>

DrawToken(w) ==
    /\ w \in Drawing
    /\ racy' = (racy \/ Drawing # {w})
    /\ \E t \in IF racy' THEN Token ELSE Token \ drawn :
        /\ nas' = [nas EXCEPT ![w] = WithToken(@, t)]
        /\ Record(t)
    /\ UNCHANGED <<accountVars, login_sessions, sakeVars, consoleVars, restarts>>

\* The session replaces any older one of the user, whoever drew it when.
StoreSession(w) ==
    LET r == nas[w] IN
    /\ r.pc = "store"
    /\ login_sessions' = Put(login_sessions, r.key,
                             [token |-> r.token, profile_id |-> r.profile_id])
    /\ token' \in {token, [token EXCEPT ![r.console] = [text |-> r.token,
                                                        key |-> r.key]]}
    /\ nas' = [nas EXCEPT ![w] = Idle]
    /\ UNCHANGED <<accountVars, sakeVars, user, ticket, textVars, restarts>>

\* The profiles a token may lead to: the first match in the unordered map.
credentials_for_token(t) ==
    LET found == {k \in DOMAIN login_sessions : login_sessions[k].token = t} IN
    IF found = {} THEN {DefaultProfile}
                  ELSE {login_sessions[k].profile_id : k \in found}

-----------------------------------------------------------------------------
(* The profile login answers any token with a new ticket.  Sessions of     *)
(* other consoles draw from the same generator at any time.                *)

ProfileLogin(c) ==
    /\ token[c] # None
    /\ \E t \in Ticket :
        /\ ticket' = [ticket EXCEPT ![c] = t]
        /\ Record(t)
    /\ UNCHANGED <<accountVars, login_sessions, sakeVars, nas, user, token,
                   racy, restarts>>

-----------------------------------------------------------------------------
(* Sake.  A record belongs to the text of the ticket it was sent with.     *)

\* A bug RecordsPrivate finds: the records of every owner are returned.
BugRecordsOfAll(owner) == friend_info_records

sake_get_my_records(owner) ==
    {record \in friend_info_records : record.owner = owner}

\* sake_create_record_response.
CreateRecord(c) ==
    LET id == next_friend_info_record_id IN
    /\ ticket[c] # None
    /\ id <= MaxRecords
    /\ friend_info_records' = friend_info_records \cup
            {[record_id |-> id, owner |-> ticket[c], writer |-> c]}
    /\ next_friend_info_record_id' = id + 1
    /\ UNCHANGED <<accountVars, login_sessions, nas, consoleVars, textVars,
                   restarts>>

\* The server is stopped, or crashes, and starts again.
Restart ==
    /\ restarts < MaxRestarts
    /\ restarts' = restarts + 1
    /\ account_user_ids' = Empty
    /\ next_user_id' = 1
    /\ user_profile_ids' = Empty
    /\ next_profile_id' = 1
    /\ login_sessions' = Empty
    /\ friend_info_records' = {}
    /\ next_friend_info_record_id' = 1
    /\ nas' = [w \in Worker |-> Idle]
    /\ racy' = FALSE
    /\ UNCHANGED <<consoleVars, drawn, repeated>>

Next ==
    \/ \E w \in Worker, c \in Console : CreateAccount(w, c) \/ Login(w, c)
    \/ \E w \in Worker : AnswerAccount(w) \/ DrawToken(w) \/ StoreSession(w)
    \/ \E c \in Console : ProfileLogin(c) \/ CreateRecord(c)
    \/ Restart

Spec == Init /\ [][Next]_vars

-----------------------------------------------------------------------------
(* Properties.                                                             *)

\* Every variable has its type.
TypeOK ==
    /\ DOMAIN account_user_ids \subseteq Console
    /\ \A c \in DOMAIN account_user_ids : account_user_ids[c] \in Nat
    /\ DOMAIN user_profile_ids \subseteq Key
    /\ \A k \in DOMAIN user_profile_ids : user_profile_ids[k] \in Nat
    /\ DOMAIN login_sessions \subseteq Key
    /\ \A k \in DOMAIN login_sessions : login_sessions[k] \in LoginSession
    /\ friend_info_records \subseteq FriendInfoRecord
    /\ {next_user_id, next_profile_id, next_friend_info_record_id} \subseteq Nat
    /\ nas \in [Worker -> Request]
    /\ user \in [Console -> Nat \cup {None}]
    /\ token \in [Console -> [text : Token, key : Key] \cup {None}]
    /\ ticket \in [Console -> Ticket \cup {None}]
    /\ racy \in BOOLEAN
    /\ repeated \subseteq drawn /\ drawn \subseteq Token \cup Ticket
    /\ restarts \in 0 .. MaxRestarts

(***************************************************************************)
(* In one life of the server, no two consoles get the same user id and no  *)
(* two users the same profile id, however their requests and retries       *)
(* interleave.                                                             *)
(***************************************************************************)
ProfilesDistinct ==
    /\ \A c, d \in DOMAIN account_user_ids :
            account_user_ids[c] = account_user_ids[d] => c = d
    /\ \A k, l \in DOMAIN user_profile_ids :
            user_profile_ids[k] = user_profile_ids[l] => k = l

(***************************************************************************)
(* The login sessions agree with the accounts: the profile id a login put  *)
(* into a session is the one its user has.  The two maps have a mutex      *)
(* each, and a login is in neither while it draws its token.               *)
(***************************************************************************)
SessionsMatchAccounts ==
    \A k \in DOMAIN login_sessions :
        /\ k \in DOMAIN user_profile_ids
        /\ login_sessions[k].profile_id = user_profile_ids[k]

(***************************************************************************)
(* A console that presents its token is taken for its own user or for      *)
(* nobody, and then gets the default profile id; after retries, logins     *)
(* that overtake each other, and restarts.  A token that was drawn twice   *)
(* is the one exception.                                                   *)
(***************************************************************************)
TokenLeadsHome ==
    \A c \in Console : token[c] # None /\ token[c].text \notin repeated =>
        \A p \in credentials_for_token(token[c].text) :
            \/ p = DefaultProfile
            \/ /\ token[c].key \in DOMAIN user_profile_ids
               /\ p = user_profile_ids[token[c].key]

(***************************************************************************)
(* GetMyRecords returns nobody else's records to a console, unless its     *)
(* ticket was drawn twice.                                                 *)
(***************************************************************************)
RecordsPrivate ==
    \A c \in Console : ticket[c] # None /\ ticket[c] \notin repeated =>
        \A record \in sake_get_my_records(ticket[c]) : record.writer = c

(***************************************************************************)
(* GetMyRecords returns the client's own records (TODO.md:22): every       *)
(* record a console has created is among those it gets.  The code does not *)
(* have it: the owner of a record is the ticket, and every profile login   *)
(* draws a new one.                                                        *)
(***************************************************************************)
OwnRecordsReturned ==
    \A record \in friend_info_records :
        record \in sake_get_my_records(ticket[record.writer])
=============================================================================

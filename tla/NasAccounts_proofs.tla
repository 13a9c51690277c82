-------------------------- MODULE NasAccounts_proofs --------------------------
(***************************************************************************)
(* Proofs about accounts, logins and Sake records, for any consoles,       *)
(* workers, tokens, tickets and bounds.                                    *)
(***************************************************************************)
EXTENDS NasAccounts, TLAPS

(***************************************************************************)
(* The inductive invariant.  Ids in use are below the counters; a login    *)
(* between its critical sections carries the profile id its user has; and  *)
(* every text is drawn before it is held, by one holder unless it was      *)
(* drawn twice.                                                            *)
(***************************************************************************)
IdsBelowCounters ==
    /\ \A c \in DOMAIN account_user_ids : account_user_ids[c] < next_user_id
    /\ \A k \in DOMAIN user_profile_ids : user_profile_ids[k] < next_profile_id

LoginsMatchAccounts ==
    \A w \in Worker : nas[w].pc \in {"draw", "store"} =>
        /\ nas[w].key \in DOMAIN user_profile_ids
        /\ nas[w].profile_id = user_profile_ids[nas[w].key]

\* The token is on its way, in a session or on a console for the key.
Carries(t, k) ==
    \/ \E w \in Worker : nas[w].pc = "store" /\ nas[w].token = t /\ nas[w].key = k
    \/ k \in DOMAIN login_sessions /\ login_sessions[k].token = t
    \/ \E c \in Console : token[c] # None /\ token[c].text = t /\ token[c].key = k

TokensOfOneKey ==
    \A t \in Token, k, l \in Key :
        /\ Carries(t, k) => t \in drawn
        /\ Carries(t, k) /\ Carries(t, l) /\ t \notin repeated => k = l

\* The ticket is the console's last one or the owner of a record of its.
Holds(t, c) ==
    \/ ticket[c] = t
    \/ \E record \in friend_info_records : record.owner = t /\ record.writer = c

TicketsOfOneConsole ==
    \A t \in Ticket, c, d \in Console :
        /\ Holds(t, c) => t \in drawn
        /\ Holds(t, c) /\ Holds(t, d) /\ t \notin repeated => c = d

AccountsInv == IdsBelowCounters /\ ProfilesDistinct

SessionsInv == LoginsMatchAccounts /\ SessionsMatchAccounts

IInv == TypeOK /\ AccountsInv /\ SessionsInv /\ TokensOfOneKey /\ TicketsOfOneConsole

-----------------------------------------------------------------------------
LEMMA PutLemma ==
    ASSUME NEW f, NEW k, NEW v
    PROVE  /\ DOMAIN Put(f, k, v) = DOMAIN f \cup {k}
           /\ Put(f, k, v)[k] = v
           /\ \A l \in DOMAIN f : l # k => Put(f, k, v)[l] = f[l]
BY DEF Put

LEMMA EmptyLemma == DOMAIN Empty = {}
BY DEF Empty

\* A request in a step of its own has the fields of that step.
LEMMA RequestLemma ==
    ASSUME NEW r \in Request
    PROVE  /\ r.pc = "created" => r.console \in Console /\ r.user_id \in Nat
           /\ r.pc = "draw" =>
                /\ r.console \in Console /\ r.key \in Key /\ r.profile_id \in Nat
           /\ r.pc = "store" =>
                /\ r.console \in Console /\ r.key \in Key /\ r.profile_id \in Nat
                /\ r.token \in Token
BY DEF Request, Idle

\* Filing a profile id for a key keeps the ids distinct and those given out.
LEMMA ProfileLemma ==
    ASSUME TypeOK, AccountsInv, NEW key \in Key, profile_id_for_user(key)
    PROVE  /\ DOMAIN user_profile_ids' = DOMAIN user_profile_ids \cup {key}
           /\ user_profile_ids'[key] = ProfileId(key)
           /\ \A k \in DOMAIN user_profile_ids :
                user_profile_ids'[k] = user_profile_ids[k]
           /\ ProfileId(key) \in Nat
           /\ next_profile_id' \in Nat
           /\ \A k \in DOMAIN user_profile_ids' :
                /\ user_profile_ids'[k] \in Nat
                /\ user_profile_ids'[k] < next_profile_id'
           /\ \A k, l \in DOMAIN user_profile_ids' :
                user_profile_ids'[k] = user_profile_ids'[l] => k = l
<1>1. /\ DOMAIN user_profile_ids' = DOMAIN user_profile_ids \cup {key}
      /\ user_profile_ids'[key] = ProfileId(key)
      /\ \A k \in DOMAIN user_profile_ids :
            k # key => user_profile_ids'[k] = user_profile_ids[k]
  <2>1. user_profile_ids' = Put(user_profile_ids, key, ProfileId(key))
    BY DEF profile_id_for_user
  <2>2. QED
    BY <2>1 DEF Put
<1>2. /\ next_profile_id \in Nat
      /\ \A k \in DOMAIN user_profile_ids :
            user_profile_ids[k] \in Nat /\ user_profile_ids[k] < next_profile_id
  BY DEF TypeOK, AccountsInv, IdsBelowCounters
<1>3. next_profile_id' = IF key \in DOMAIN user_profile_ids
                         THEN next_profile_id ELSE next_profile_id + 1
  BY DEF profile_id_for_user
<1>4. \A k, l \in DOMAIN user_profile_ids :
        user_profile_ids[k] = user_profile_ids[l] => k = l
  BY DEF AccountsInv, ProfilesDistinct
<1>5. CASE key \in DOMAIN user_profile_ids
  <2>1. ProfileId(key) = user_profile_ids[key] /\ next_profile_id' = next_profile_id
    BY <1>5, <1>3 DEF ProfileId
  <2>2. QED
    BY <1>1, <1>2, <1>4, <1>5, <2>1
<1>6. CASE key \notin DOMAIN user_profile_ids
  <2>1. ProfileId(key) = next_profile_id /\ next_profile_id' = next_profile_id + 1
    BY <1>6, <1>3 DEF ProfileId
  <2>2. QED
    BY <1>1, <1>2, <1>4, <1>6, <2>1
<1>7. QED
  BY <1>5, <1>6

-----------------------------------------------------------------------------
LEMMA InitLemma == Init => IInv
<1> SUFFICES ASSUME Init
             PROVE  IInv
  OBVIOUS
<1> USE EmptyLemma, ConstantsAssumption
<1>1. TypeOK
  <2>1. nas \in [Worker -> Request]
    BY DEF Init, Request
  <2>2. /\ DOMAIN account_user_ids = {} /\ DOMAIN user_profile_ids = {}
        /\ DOMAIN login_sessions = {}
    BY DEF Init
  <2>3. /\ user \in [Console -> Nat \cup {None}]
        /\ token \in [Console -> [text : Token, key : Key] \cup {None}]
        /\ ticket \in [Console -> Ticket \cup {None}]
    BY DEF Init
  <2>4. restarts \in 0 .. MaxRestarts
    BY DEF Init, ConstantsAssumption
  <2>5. /\ friend_info_records \subseteq FriendInfoRecord
        /\ repeated \subseteq drawn /\ drawn \subseteq Token \cup Ticket
    BY DEF Init
  <2>6. next_user_id \in Nat /\ next_profile_id \in Nat
        /\ next_friend_info_record_id \in Nat
    BY DEF Init
  <2>7. racy \in BOOLEAN
    BY DEF Init
  <2>8. QED
    BY <2>1, <2>2, <2>3, <2>4, <2>5, <2>6, <2>7 DEF TypeOK
<1>2. AccountsInv
  BY DEF Init, AccountsInv, IdsBelowCounters, ProfilesDistinct
<1>3. SessionsInv
  BY DEF Init, SessionsInv, LoginsMatchAccounts, SessionsMatchAccounts, Idle
<1>4. TokensOfOneKey
  BY DEF Init, TokensOfOneKey, Carries, Idle
<1>5. TicketsOfOneConsole
  BY DEF Init, TicketsOfOneConsole, Holds
<1>6. QED
  BY <1>1, <1>2, <1>3, <1>4, <1>5 DEF IInv

\* A step after which no token is carried that was not, and no text is
\* forgotten, keeps every token with one key; likewise for the tickets.
LEMMA TokensKept ==
    ASSUME TokensOfOneKey,
           drawn \subseteq drawn', repeated \subseteq repeated',
           \A t \in Token, k \in Key : Carries(t, k)' => Carries(t, k)
    PROVE  TokensOfOneKey'
BY DEF TokensOfOneKey

LEMMA TicketsKept ==
    ASSUME TicketsOfOneConsole,
           drawn \subseteq drawn', repeated \subseteq repeated',
           \A t \in Ticket, c \in Console : Holds(t, c)' => Holds(t, c)
    PROVE  TicketsOfOneConsole'
BY DEF TicketsOfOneConsole

\* The same when one text is drawn, and only its drawer has it anew.
LEMMA TokenDrawn ==
    ASSUME TokensOfOneKey, NEW s \in Token, NEW j \in Key, Record(s),
           \A t \in Token, k \in Key :
                Carries(t, k)' => Carries(t, k) \/ (t = s /\ k = j)
    PROVE  TokensOfOneKey'
BY DEF TokensOfOneKey, Record

LEMMA TicketDrawn ==
    ASSUME TicketsOfOneConsole, NEW s \in Ticket, NEW e \in Console, Record(s),
           \A t \in Ticket, c \in Console :
                Holds(t, c)' => Holds(t, c) \/ (t = s /\ c = e)
    PROVE  TicketsOfOneConsole'
BY DEF TicketsOfOneConsole, Record

-----------------------------------------------------------------------------
\* Creating an account, its first critical section.
LEMMA CreateAccountLemma ==
    ASSUME IInv, NEW w \in Worker, NEW c \in Console, CreateAccount(w, c)
    PROVE  IInv'
<1> DEFINE user_id == IF c \in DOMAIN account_user_ids
                      THEN account_user_ids[c] ELSE next_user_id
<1> USE DEF IInv
<1>1. /\ DOMAIN account_user_ids' = DOMAIN account_user_ids \cup {c}
      /\ account_user_ids'[c] = user_id
      /\ \A d \in DOMAIN account_user_ids :
            d # c => account_user_ids'[d] = account_user_ids[d]
  <2>1. account_user_ids' = Put(account_user_ids, c, user_id)
    BY DEF CreateAccount
  <2> HIDE DEF user_id
  <2>2. QED
    BY <2>1 DEF Put
<1>2. /\ next_user_id \in Nat
      /\ \A d \in DOMAIN account_user_ids :
            account_user_ids[d] \in Nat /\ account_user_ids[d] < next_user_id
      /\ \A d, e \in DOMAIN account_user_ids :
            account_user_ids[d] = account_user_ids[e] => d = e
  BY DEF TypeOK, AccountsInv, IdsBelowCounters, ProfilesDistinct
<1>3. /\ next_user_id' = IF c \in DOMAIN account_user_ids
                         THEN next_user_id ELSE next_user_id + 1
      /\ nas' = [nas EXCEPT ![w] = [pc |-> "created", console |-> c,
                                    user_id |-> user_id]]
      /\ UNCHANGED <<user_profile_ids, next_profile_id, login_sessions,
                     friend_info_records, next_friend_info_record_id, user,
                     token, ticket, racy, drawn, repeated, restarts>>
  BY DEF CreateAccount, sakeVars, consoleVars, textVars
<1>4. user_id \in Nat
  BY <1>2
<1>5. /\ next_user_id' \in Nat
      /\ \A d \in DOMAIN account_user_ids' :
            account_user_ids'[d] \in Nat /\ account_user_ids'[d] < next_user_id'
      /\ \A d, e \in DOMAIN account_user_ids' :
            account_user_ids'[d] = account_user_ids'[e] => d = e
  BY <1>1, <1>2, <1>3
<1>6. nas \in [Worker -> Request] /\ nas' \in [Worker -> Request]
  <2>1. [pc |-> "created", console |-> c, user_id |-> user_id] \in Request
    BY <1>4 DEF Request
  <2>2. nas \in [Worker -> Request]
    BY DEF TypeOK
  <2> HIDE DEF user_id
  <2>3. QED
    BY <1>3, <2>1, <2>2
<1>7. nas'[w].pc = "created" /\ \A v \in Worker : v # w => nas'[v] = nas[v]
  BY <1>3, <1>6
<1> HIDE DEF user_id
<1>8. TypeOK'
  <2>1. DOMAIN account_user_ids' \subseteq Console
    BY <1>1 DEF TypeOK
  <2>2. QED
    BY <1>3, <1>5, <1>6, <2>1 DEF TypeOK
<1>9. AccountsInv'
  BY <1>3, <1>5 DEF AccountsInv, IdsBelowCounters, ProfilesDistinct
<1>10. SessionsInv'
  BY <1>3, <1>7 DEF SessionsInv, LoginsMatchAccounts, SessionsMatchAccounts
<1>11. TokensOfOneKey'
  BY <1>3, <1>7, TokensKept DEF Carries
<1>12. TicketsOfOneConsole'
  BY <1>3, TicketsKept DEF Holds
<1>13. QED
  BY <1>8, <1>9, <1>10, <1>11, <1>12

\* Its second one, and the answer.
LEMMA AnswerAccountLemma ==
    ASSUME IInv, NEW w \in Worker, AnswerAccount(w)
    PROVE  IInv'
<1> DEFINE r == nas[w]
           key == Decimal(r.user_id)
<1> USE DEF IInv
<1>1. r.pc = "created" /\ r.console \in Console /\ r.user_id \in Nat
  <2>1. r.pc = "created" /\ r \in Request
    BY DEF AnswerAccount, TypeOK
  <2>2. QED
    BY <2>1, RequestLemma
<1>2. key \in Key /\ profile_id_for_user(key)
  BY <1>1 DEF AnswerAccount, Key, Decimal
<1>3. /\ user' \in {user, [user EXCEPT ![r.console] = r.user_id]}
      /\ nas' = [nas EXCEPT ![w] = Idle]
      /\ UNCHANGED <<account_user_ids, next_user_id, login_sessions,
                     friend_info_records, next_friend_info_record_id,
                     token, ticket, racy, drawn, repeated, restarts>>
  BY DEF AnswerAccount, sakeVars, textVars
<1> HIDE DEF r, key
<1>4. /\ nas \in [Worker -> Request] /\ nas' \in [Worker -> Request]
      /\ nas'[w].pc = "idle" /\ \A v \in Worker : v # w => nas'[v] = nas[v]
  <2>1. Idle \in Request /\ Idle.pc = "idle"
    BY DEF Request, Idle
  <2>2. nas \in [Worker -> Request]
    BY DEF TypeOK
  <2>3. QED
    BY <1>3, <2>1, <2>2
<1>5. TypeOK'
  <2>1. user' \in [Console -> Nat \cup {None}]
    BY <1>1, <1>3 DEF TypeOK
  <2>2. DOMAIN user_profile_ids' \subseteq Key /\ next_profile_id' \in Nat
        /\ \A k \in DOMAIN user_profile_ids' : user_profile_ids'[k] \in Nat
    BY <1>2, ProfileLemma DEF TypeOK
  <2>3. QED
    BY <1>3, <1>4, <2>1, <2>2 DEF TypeOK
<1>6. AccountsInv'
  BY <1>2, <1>3, ProfileLemma DEF AccountsInv, IdsBelowCounters, ProfilesDistinct
<1>7. SessionsInv'
  <2>1. \A k \in DOMAIN user_profile_ids :
           k \in DOMAIN user_profile_ids' /\ user_profile_ids'[k] = user_profile_ids[k]
    BY <1>2, ProfileLemma
  <2>2. SessionsMatchAccounts'
    BY <1>3, <2>1 DEF SessionsInv, SessionsMatchAccounts
  <2>3. LoginsMatchAccounts'
    <3> SUFFICES ASSUME NEW v \in Worker, nas'[v].pc \in {"draw", "store"}
                 PROVE  /\ nas'[v].key \in DOMAIN user_profile_ids'
                        /\ nas'[v].profile_id = user_profile_ids'[nas'[v].key]
      BY DEF LoginsMatchAccounts
    <3>1. nas'[v] = nas[v]
      BY <1>4
    <3>2. QED
      BY <2>1, <3>1 DEF SessionsInv, LoginsMatchAccounts
  <2>4. QED
    BY <2>2, <2>3 DEF SessionsInv
<1>8. TokensOfOneKey'
  BY <1>3, <1>4, TokensKept DEF Carries
<1>9. TicketsOfOneConsole'
  BY <1>3, TicketsKept DEF Holds
<1>10. QED
  BY <1>5, <1>6, <1>7, <1>8, <1>9

\* A login, until it draws its token.
LEMMA LoginLemma ==
    ASSUME IInv, NEW w \in Worker, NEW c \in Console, Login(w, c)
    PROVE  IInv'
<1> DEFINE key == Encoded(user[c])
           r == [pc |-> "draw", console |-> c, key |-> key,
                 profile_id |-> ProfileId(key)]
<1> USE DEF IInv
<1>1. key \in Key /\ profile_id_for_user(key)
  <2>1. user[c] \in Nat
    BY DEF Login, TypeOK
  <2>2. QED
    BY <2>1 DEF Login, Key, Encoded
<1>2. /\ nas' = [nas EXCEPT ![w] = r]
      /\ UNCHANGED <<account_user_ids, next_user_id, login_sessions,
                     friend_info_records, next_friend_info_record_id, user,
                     token, ticket, racy, drawn, repeated, restarts>>
  BY DEF Login, sakeVars, consoleVars, textVars
<1> HIDE DEF key
<1>3. r \in Request
  BY <1>1, ProfileLemma DEF Request
<1>4. r.pc = "draw" /\ r.key = key /\ r.profile_id = ProfileId(key)
  OBVIOUS
<1> HIDE DEF r
<1>5. /\ nas \in [Worker -> Request] /\ nas' \in [Worker -> Request]
      /\ nas'[w] = r /\ \A v \in Worker : v # w => nas'[v] = nas[v]
  <2>1. nas \in [Worker -> Request]
    BY DEF TypeOK
  <2>2. QED
    BY <1>2, <1>3, <2>1
<1>6. TypeOK'
  <2>1. DOMAIN user_profile_ids' \subseteq Key /\ next_profile_id' \in Nat
        /\ \A k \in DOMAIN user_profile_ids' : user_profile_ids'[k] \in Nat
    BY <1>1, ProfileLemma DEF TypeOK
  <2>2. QED
    BY <1>2, <1>5, <2>1 DEF TypeOK
<1>7. AccountsInv'
  <2>1. /\ \A k \in DOMAIN user_profile_ids' : user_profile_ids'[k] < next_profile_id'
        /\ \A k, l \in DOMAIN user_profile_ids' :
                user_profile_ids'[k] = user_profile_ids'[l] => k = l
    BY <1>1, ProfileLemma
  <2>2. QED
    BY <1>2, <2>1 DEF AccountsInv, IdsBelowCounters, ProfilesDistinct
<1>8. SessionsInv'
  <2>1. /\ key \in DOMAIN user_profile_ids' /\ user_profile_ids'[key] = ProfileId(key)
        /\ \A k \in DOMAIN user_profile_ids :
            k \in DOMAIN user_profile_ids' /\ user_profile_ids'[k] = user_profile_ids[k]
    BY <1>1, ProfileLemma
  <2>2. LoginsMatchAccounts'
    BY <1>4, <1>5, <2>1 DEF SessionsInv, LoginsMatchAccounts
  <2>3. QED
    BY <1>2, <2>1, <2>2 DEF SessionsInv, SessionsMatchAccounts
<1>9. TokensOfOneKey'
  BY <1>2, <1>4, <1>5, TokensKept DEF Carries
<1>10. TicketsOfOneConsole'
  BY <1>2, TicketsKept DEF Holds
<1>11. QED
  BY <1>6, <1>7, <1>8, <1>9, <1>10

\* The draw itself.
LEMMA DrawTokenLemma ==
    ASSUME IInv, NEW w \in Worker, DrawToken(w)
    PROVE  IInv'
<1> USE DEF IInv
<1>1. /\ nas[w].pc = "draw" /\ nas[w].console \in Console
      /\ nas[w].key \in Key /\ nas[w].profile_id \in Nat
  <2>1. nas[w].pc = "draw" /\ nas[w] \in Request
    BY DEF DrawToken, Drawing, TypeOK
  <2>2. QED
    BY <2>1, RequestLemma
<1>2. PICK s \in Token : nas' = [nas EXCEPT ![w] = WithToken(@, s)] /\ Record(s)
  BY DEF DrawToken
<1>3. /\ racy' \in BOOLEAN
      /\ UNCHANGED <<account_user_ids, next_user_id, user_profile_ids,
                     next_profile_id, login_sessions,
                     friend_info_records, next_friend_info_record_id, user,
                     token, ticket, restarts>>
  BY DEF DrawToken, TypeOK, accountVars, sakeVars, consoleVars
<1>4. /\ nas \in [Worker -> Request] /\ nas' \in [Worker -> Request]
      /\ nas'[w].pc = "store" /\ nas'[w].key = nas[w].key /\ nas'[w].token = s
      /\ nas'[w].profile_id = nas[w].profile_id
      /\ \A v \in Worker : v # w => nas'[v] = nas[v]
  <2>1. WithToken(nas[w], s) \in Request
    BY <1>1 DEF WithToken, Request
  <2>2. nas \in [Worker -> Request] /\ nas' = [nas EXCEPT ![w] = WithToken(nas[w], s)]
    BY <1>2 DEF TypeOK
  <2>3. nas' \in [Worker -> Request] /\ nas'[w] = WithToken(nas[w], s)
        /\ \A v \in Worker : v # w => nas'[v] = nas[v]
    BY <2>1, <2>2
  <2>4. QED
    BY <2>2, <2>3 DEF WithToken
<1>5. TypeOK'
  BY <1>2, <1>3, <1>4 DEF TypeOK, Record
<1>6. AccountsInv'
  BY <1>3 DEF AccountsInv, IdsBelowCounters, ProfilesDistinct
<1>7. SessionsInv'
  BY <1>1, <1>3, <1>4 DEF SessionsInv, LoginsMatchAccounts, SessionsMatchAccounts
<1>8. TokensOfOneKey'
  <2>1. \A t \in Token, k \in Key :
            Carries(t, k)' => Carries(t, k) \/ (t = s /\ k = nas[w].key)
    BY <1>3, <1>4 DEF Carries
  <2>2. QED
    BY <1>1, <1>2, <2>1, TokenDrawn
<1>9. TicketsOfOneConsole'
  BY <1>2, <1>3, TicketsKept DEF Holds, Record
<1>10. QED
  BY <1>5, <1>6, <1>7, <1>8, <1>9

\* The session, and the answer.
LEMMA StoreSessionLemma ==
    ASSUME IInv, NEW w \in Worker, StoreSession(w)
    PROVE  IInv'
<1> DEFINE r == nas[w]
           session == [token |-> r.token, profile_id |-> r.profile_id]
           received == [text |-> r.token, key |-> r.key]
<1> USE DEF IInv
<1>1. /\ r.pc = "store" /\ r.console \in Console
      /\ r.key \in Key /\ r.profile_id \in Nat /\ r.token \in Token
  <2>1. r.pc = "store" /\ r \in Request
    BY DEF StoreSession, TypeOK
  <2>2. QED
    BY <2>1, RequestLemma
<1>2. /\ login_sessions' = Put(login_sessions, r.key, session)
      /\ token' \in {token, [token EXCEPT ![r.console] = received]}
      /\ nas' = [nas EXCEPT ![w] = Idle]
      /\ UNCHANGED <<account_user_ids, next_user_id, user_profile_ids,
                     next_profile_id, friend_info_records,
                     next_friend_info_record_id, user, ticket, racy, drawn,
                     repeated, restarts>>
  BY DEF StoreSession, accountVars, sakeVars, textVars
<1>3. /\ session \in LoginSession
      /\ session.token = r.token /\ session.profile_id = r.profile_id
  BY <1>1 DEF LoginSession
<1>4. /\ received \in [text : Token, key : Key]
      /\ received.text = r.token /\ received.key = r.key
  BY <1>1
<1> HIDE DEF r, session, received
<1>5. /\ DOMAIN login_sessions' = DOMAIN login_sessions \cup {r.key}
      /\ login_sessions'[r.key] = session
      /\ \A k \in DOMAIN login_sessions :
            k # r.key => login_sessions'[k] = login_sessions[k]
  BY <1>2 DEF Put
<1>6. /\ nas \in [Worker -> Request] /\ nas' \in [Worker -> Request]
      /\ nas'[w].pc = "idle" /\ \A v \in Worker : v # w => nas'[v] = nas[v]
  <2>1. Idle \in Request /\ Idle.pc = "idle"
    BY DEF Request, Idle
  <2>2. nas \in [Worker -> Request]
    BY DEF TypeOK
  <2>3. QED
    BY <1>2, <2>1, <2>2
<1>7. /\ token' \in [Console -> [text : Token, key : Key] \cup {None}]
      /\ \A c \in Console : token'[c] \in {token[c], received}
  BY <1>1, <1>2, <1>4 DEF TypeOK
<1>8. TypeOK'
  <2>1. DOMAIN login_sessions' \subseteq Key
        /\ \A k \in DOMAIN login_sessions' : login_sessions'[k] \in LoginSession
    BY <1>1, <1>3, <1>5 DEF TypeOK
  <2>2. QED
    BY <1>2, <1>6, <1>7, <2>1 DEF TypeOK
<1>9. AccountsInv'
  BY <1>2 DEF AccountsInv, IdsBelowCounters, ProfilesDistinct
<1>10. SessionsInv'
  <2>1. r.key \in DOMAIN user_profile_ids /\ r.profile_id = user_profile_ids[r.key]
    BY <1>1 DEF SessionsInv, LoginsMatchAccounts, r
  <2>2. QED
    BY <1>2, <1>3, <1>5, <1>6, <2>1
       DEF SessionsInv, LoginsMatchAccounts, SessionsMatchAccounts
<1>11. TokensOfOneKey'
  <2>1. Carries(r.token, r.key)
    BY <1>1 DEF Carries, r
  <2>2. ASSUME NEW t \in Token, NEW k \in Key, Carries(t, k)'
        PROVE  Carries(t, k)
    <3>1. ASSUME NEW v \in Worker, nas'[v].pc = "store", nas'[v].token = t,
                 nas'[v].key = k
          PROVE  Carries(t, k)
      BY <1>6, <3>1 DEF Carries
    <3>2. ASSUME k \in DOMAIN login_sessions', login_sessions'[k].token = t
          PROVE  Carries(t, k)
      BY <1>3, <1>5, <2>1, <3>2 DEF Carries
    <3>3. ASSUME NEW c \in Console, token'[c] # None, token'[c].text = t,
                 token'[c].key = k
          PROVE  Carries(t, k)
      BY <1>4, <1>7, <2>1, <3>3 DEF Carries
    <3>4. QED
      BY <2>2, <3>1, <3>2, <3>3 DEF Carries
  <2>3. QED
    BY <1>2, <2>2, TokensKept
<1>12. TicketsOfOneConsole'
  BY <1>2, TicketsKept DEF Holds
<1>13. QED
  BY <1>8, <1>9, <1>10, <1>11, <1>12

\* The ticket of a profile login.
LEMMA ProfileLoginLemma ==
    ASSUME IInv, NEW c \in Console, ProfileLogin(c)
    PROVE  IInv'
<1> USE DEF IInv
<1>1. PICK s \in Ticket : ticket' = [ticket EXCEPT ![c] = s] /\ Record(s)
  BY DEF ProfileLogin
<1>2. UNCHANGED <<account_user_ids, next_user_id, user_profile_ids,
                  next_profile_id, login_sessions, friend_info_records,
                  next_friend_info_record_id, nas, user, token, racy, restarts>>
  BY DEF ProfileLogin, accountVars, sakeVars
<1>3. /\ ticket' \in [Console -> Ticket \cup {None}]
      /\ ticket'[c] = s /\ \A d \in Console : d # c => ticket'[d] = ticket[d]
  BY <1>1 DEF TypeOK
<1>4. TypeOK'
  BY <1>1, <1>2, <1>3 DEF TypeOK, Record
<1>5. AccountsInv' /\ SessionsInv'
  BY <1>2 DEF AccountsInv, IdsBelowCounters, ProfilesDistinct, SessionsInv,
              LoginsMatchAccounts, SessionsMatchAccounts
<1>6. TokensOfOneKey'
  BY <1>1, <1>2, TokensKept DEF Carries, Record
<1>7. TicketsOfOneConsole'
  <2>1. \A t \in Ticket, d \in Console :
            Holds(t, d)' => Holds(t, d) \/ (t = s /\ d = c)
    BY <1>2, <1>3 DEF Holds
  <2>2. QED
    BY <1>1, <2>1, TicketDrawn
<1>8. QED
  BY <1>4, <1>5, <1>6, <1>7

\* A record is its console's, under the console's ticket.
LEMMA CreateRecordLemma ==
    ASSUME IInv, NEW c \in Console, CreateRecord(c)
    PROVE  IInv'
<1> DEFINE record == [record_id |-> next_friend_info_record_id,
                      owner |-> ticket[c], writer |-> c]
<1> USE DEF IInv
<1>1. /\ friend_info_records' = friend_info_records \cup {record}
      /\ next_friend_info_record_id' = next_friend_info_record_id + 1
      /\ UNCHANGED <<account_user_ids, next_user_id, user_profile_ids,
                     next_profile_id, login_sessions, nas, user, token, ticket,
                     racy, drawn, repeated, restarts>>
  BY DEF CreateRecord, accountVars, consoleVars, textVars
<1>2. record \in FriendInfoRecord /\ record.owner = ticket[c] /\ record.writer = c
  BY DEF CreateRecord, TypeOK, FriendInfoRecord
<1> HIDE DEF record
<1>3. TypeOK'
  BY <1>1, <1>2 DEF TypeOK
<1>4. AccountsInv' /\ SessionsInv'
  BY <1>1 DEF AccountsInv, IdsBelowCounters, ProfilesDistinct, SessionsInv,
              LoginsMatchAccounts, SessionsMatchAccounts
<1>5. TokensOfOneKey'
  BY <1>1, TokensKept DEF Carries
<1>6. TicketsOfOneConsole'
  BY <1>1, <1>2, TicketsKept DEF Holds
<1>7. QED
  BY <1>3, <1>4, <1>5, <1>6

\* A restart forgets everything but what the consoles have.
LEMMA RestartLemma ==
    ASSUME IInv, Restart
    PROVE  IInv'
<1> USE DEF IInv
<1>1. /\ DOMAIN account_user_ids' = {} /\ DOMAIN user_profile_ids' = {}
      /\ DOMAIN login_sessions' = {} /\ friend_info_records' = {}
  BY EmptyLemma DEF Restart
<1>2. /\ nas' \in [Worker -> Request]
      /\ \A w \in Worker : nas'[w].pc = "idle"
  BY DEF Restart, Request, Idle
<1>3. UNCHANGED <<user, token, ticket, drawn, repeated>>
  BY DEF Restart, consoleVars
<1>4. TypeOK'
  <2>1. restarts' \in 0 .. MaxRestarts
    BY ConstantsAssumption DEF Restart, TypeOK
  <2>2. /\ next_user_id' \in Nat /\ next_profile_id' \in Nat
        /\ next_friend_info_record_id' \in Nat
    BY DEF Restart
  <2>3. racy' \in BOOLEAN
    BY DEF Restart
  <2>4. QED
    BY <1>1, <1>2, <1>3, <2>1, <2>2, <2>3 DEF TypeOK
<1>5. AccountsInv'
  BY <1>1 DEF AccountsInv, IdsBelowCounters, ProfilesDistinct
<1>6. SessionsInv'
  BY <1>1, <1>2 DEF SessionsInv, LoginsMatchAccounts, SessionsMatchAccounts
<1>7. TokensOfOneKey'
  BY <1>1, <1>2, <1>3, TokensKept DEF Carries
<1>8. TicketsOfOneConsole'
  BY <1>1, <1>3, TicketsKept DEF Holds
<1>9. QED
  BY <1>4, <1>5, <1>6, <1>7, <1>8

LEMMA StutterLemma == IInv /\ UNCHANGED vars => IInv'
BY DEF IInv, TypeOK, AccountsInv, IdsBelowCounters, ProfilesDistinct, SessionsInv,
       LoginsMatchAccounts, SessionsMatchAccounts, TokensOfOneKey, Carries,
       TicketsOfOneConsole, Holds, vars, accountVars, sakeVars, consoleVars, textVars

-----------------------------------------------------------------------------
(***************************************************************************)
(* Every reachable state satisfies the inductive invariant: the ids below  *)
(* their counters, the logins and sessions in step with the accounts, and  *)
(* every token and ticket with one holder.                                 *)
(***************************************************************************)
THEOREM InductiveInvariant == Spec => []IInv
<1>1. IInv /\ [Next]_vars => IInv'
  <2> SUFFICES ASSUME IInv, [Next]_vars
               PROVE  IInv'
    OBVIOUS
  <2>1. ASSUME NEW w \in Worker, NEW c \in Console, CreateAccount(w, c) \/ Login(w, c)
        PROVE  IInv'
    BY <2>1, CreateAccountLemma, LoginLemma
  <2>2. ASSUME NEW w \in Worker, AnswerAccount(w) \/ DrawToken(w) \/ StoreSession(w)
        PROVE  IInv'
    BY <2>2, AnswerAccountLemma, DrawTokenLemma, StoreSessionLemma
  <2>3. ASSUME NEW c \in Console, ProfileLogin(c) \/ CreateRecord(c)
        PROVE  IInv'
    BY <2>3, ProfileLoginLemma, CreateRecordLemma
  <2>4. CASE Restart
    BY <2>4, RestartLemma
  <2>5. CASE UNCHANGED vars
    BY <2>5, StutterLemma
  <2>6. QED
    BY <2>1, <2>2, <2>3, <2>4, <2>5 DEF Next
<1>2. QED
  BY InitLemma, <1>1, PTL DEF Spec

\* Every variable of the account server has its type.
THEOREM TypeCorrect == Spec => []TypeOK
<1>1. IInv => TypeOK
  BY DEF IInv
<1>2. QED
  BY InductiveInvariant, <1>1, PTL

\* No two consoles get one user id and no two users one profile id, however
\* the critical sections of account creations and logins interleave.
THEOREM IdsStayDistinct == Spec => []ProfilesDistinct
<1>1. IInv => ProfilesDistinct
  BY DEF IInv, AccountsInv
<1>2. QED
  BY InductiveInvariant, <1>1, PTL

\* A session stored by a login that was overtaken still agrees with the
\* accounts.
THEOREM SessionsAlwaysMatch == Spec => []SessionsMatchAccounts
<1>1. IInv => SessionsMatchAccounts
  BY DEF IInv, SessionsInv
<1>2. QED
  BY InductiveInvariant, <1>1, PTL

\* credentials_for_token takes a console for its own user or for nobody,
\* unless its token was drawn twice.
THEOREM TokensLeadHome == Spec => []TokenLeadsHome
<1>1. IInv => TokenLeadsHome
  <2> SUFFICES ASSUME IInv, NEW c \in Console, token[c] # None,
                      token[c].text \notin repeated,
                      NEW p \in credentials_for_token(token[c].text),
                      p # DefaultProfile
               PROVE  /\ token[c].key \in DOMAIN user_profile_ids
                      /\ p = user_profile_ids[token[c].key]
    BY DEF TokenLeadsHome
  <2>1. token[c].text \in Token /\ token[c].key \in Key
    BY DEF IInv, TypeOK
  <2>2. PICK k \in DOMAIN login_sessions :
            login_sessions[k].token = token[c].text /\ p = login_sessions[k].profile_id
    BY DEF credentials_for_token
  <2>3. k \in Key /\ Carries(token[c].text, k)
    BY <2>2 DEF Carries, IInv, TypeOK
  <2>4. Carries(token[c].text, token[c].key)
    BY DEF Carries
  <2>5. k = token[c].key
    BY <2>1, <2>3, <2>4 DEF IInv, TokensOfOneKey
  <2>6. QED
    BY <2>2, <2>5 DEF IInv, SessionsInv, SessionsMatchAccounts
<1>2. QED
  BY InductiveInvariant, <1>1, PTL

\* GetMyRecords shows a console no record of another, unless its ticket was
\* drawn twice.
THEOREM RecordsStayPrivate == Spec => []RecordsPrivate
<1>1. IInv => RecordsPrivate
  <2> SUFFICES ASSUME IInv, NEW c \in Console, ticket[c] # None,
                      ticket[c] \notin repeated,
                      NEW record \in sake_get_my_records(ticket[c])
               PROVE  record.writer = c
    BY DEF RecordsPrivate
  <2>1. ticket[c] \in Ticket /\ Holds(ticket[c], c)
    BY DEF IInv, TypeOK, Holds
  <2>2. record \in friend_info_records /\ record.owner = ticket[c]
    BY DEF sake_get_my_records
  <2>3. record.writer \in Console
    BY <2>2 DEF IInv, TypeOK, FriendInfoRecord
  <2>4. Holds(ticket[c], record.writer)
    BY <2>2 DEF Holds
  <2>5. QED
    BY <2>1, <2>3, <2>4 DEF IInv, TicketsOfOneConsole
<1>2. QED
  BY InductiveInvariant, <1>1, PTL
=============================================================================

------------------------- MODULE LegacyPlatformProofs -------------------------
(***************************************************************************)
(* Proofs about the platform services of the archived v2, as               *)
(* LegacyPlatform composes them.  For any persons, requests and slots, a   *)
(* request to log in is used once, a local account has a key of its own    *)
(* and an account one membership; for any readers and tickets, counters    *)
(* are the rows they count and dates say what the status says; for any     *)
(* services, rules and recipients, an outage has been reported and an      *)
(* alert that counts as sent was sent; for any servers, accounts and       *)
(* hands, every user on a server is accounted for and bindings say what    *)
(* the servers do, whatever steps cross.                                   *)
(***************************************************************************)
EXTENDS LegacyPlatform, FiniteSetTheorems, TLAPS

-----------------------------------------------------------------------------
(* The way in: logins, local accounts and memberships. *)

Status == {"pending", "claimed", "approved", "rejected", "consumed", "expired"}
Row == [status : Status, wanted : Person \union {Nobody}, approved : Person \union {Nobody}, purpose : Purposes]
Entry == [account : Key \union {Nobody}, from : Request \union {"emby", "local"}, live : BOOLEAN]

\* The sessions a request has opened.
Opened(entries, r) == {i \in DOMAIN entries : entries[i].from = r}

\* What the status of a request says of decisions and sessions.
Sound(r, row, answers, entries) ==
    /\ row = Nobody => answers = {} /\ Opened(entries, r) = {}
    /\ row \in Row /\ row.status \in {"pending", "claimed"} => answers = {} /\ Opened(entries, r) = {}
    /\ row \in Row /\ row.status = "approved" => answers = {<<row.approved, TRUE>>} /\ Opened(entries, r) = {}
    /\ answers = {} \/ \E d \in Person \X BOOLEAN : answers = {d}
    /\ Opened(entries, r) = {} \/ \E i \in DOMAIN entries :
           Opened(entries, r) = {i} /\ answers = {<<entries[i].account, TRUE>>}

LoginIInv ==
    /\ request \in [Request -> {Nobody} \union Row]
    /\ late \subseteq Request /\ polled \subseteq late
    /\ \A r \in late : request[r] \in Row
    /\ decided \in [Request -> SUBSET (Person \X BOOLEAN)]
    /\ session \in Seq(Entry)
    /\ \A r \in Request : Sound(r, request[r], decided[r], session)

Creating(s) == busy[s] # Nobody /\ busy[s].kind = "create"

\* Local accounts have the keys from -1 down, and a handler that creates one has read
\* the next of them, or one that is taken by now.
KeyIInv ==
    /\ created \in 0 .. begun /\ begun \in 0 .. MaxBegun
    /\ DOMAIN busy = Slot
    /\ account \in [Key -> {Nobody, "active", "suspended"}]
    /\ identity \in [Name -> Key \union {Nobody}]
    /\ \A k \in LocalKeys : HasAccount(k) <=> k \in -created .. -1
    /\ \A s \in Slot : Creating(s) => busy[s].key \in -(created + 1) .. -1 /\ busy[s].key >= -begun

Doing(s) == busy[s] # Nobody /\ busy[s].kind = "assign"
Choosing(s) == busy[s] # Nobody /\ busy[s].kind = "default"

\* Handlers that assign a plan hold different accounts, and what they have read stands.
MemberIInv ==
    /\ DOMAIN busy = Slot
    /\ member \in [Key -> Seq({"active", "suspended", "replaced", "expired"})]
    /\ \A k \in Key : \A i, j \in Current(k) : i = j
    /\ \A s \in Slot : Choosing(s) => busy[s].key \in Key
    /\ \A s \in Slot : Doing(s) => busy[s].key \in Key /\ busy[s].current = Newest(busy[s].key)
    /\ \A s, t \in Slot : Doing(s) /\ Doing(t) /\ busy[s].key = busy[t].key => s = t

-----------------------------------------------------------------------------

LEMMA KeysTyped ==
    /\ Person \subseteq Key /\ LocalKeys \subseteq Key /\ Key \subseteq Int /\ Nobody \notin Key
    /\ \A p \in Person : p \notin LocalKeys
<1>1. /\ Person \subseteq Nat \ {0} /\ MaxBegun \in Nat /\ Nobody \notin Int
      BY AccessAssumption
<1>2. LocalKeys \subseteq Int /\ \A k \in LocalKeys : k < 0
      BY <1>1 DEF LocalKeys
<1>3. Key \subseteq Int
      BY <1>1, <1>2 DEF Key
<1>4. \A p \in Person : p \notin LocalKeys
      BY <1>1, <1>2
<1> QED BY <1>1, <1>2, <1>3, <1>4 DEF Key

LEMMA NobodyIsNoRow == Nobody \notin Row
      BY AccessAssumption DEF Row, Status, Purposes

LEMMA SessionAdded ==
    ASSUME NEW entries \in Seq(Entry), NEW e \in Entry
    PROVE  /\ Append(entries, e) \in Seq(Entry)
           /\ \A r : e.from # r => Opened(Append(entries, e), r) = Opened(entries, r)
           /\ \A r : e.from = r => Opened(Append(entries, e), r) = Opened(entries, r) \union {Len(entries) + 1}
           /\ \A i \in DOMAIN entries : i \in DOMAIN Append(entries, e) /\ Append(entries, e)[i] = entries[i]
           /\ Len(entries) + 1 \in DOMAIN Append(entries, e)
           /\ Append(entries, e)[Len(entries) + 1] = e
<1>1. /\ Append(entries, e) \in Seq(Entry)
      /\ Len(entries) \in Nat /\ DOMAIN entries = 1 .. Len(entries)
      /\ DOMAIN Append(entries, e) = 1 .. Len(entries) + 1
      /\ \A i \in 1 .. Len(entries) : Append(entries, e)[i] = entries[i]
      /\ Append(entries, e)[Len(entries) + 1] = e
      OBVIOUS
<1>2. DOMAIN Append(entries, e) = DOMAIN entries \union {Len(entries) + 1}
      BY <1>1
<1>3. \A r : Opened(Append(entries, e), r)
                = Opened(entries, r) \union (IF e.from = r THEN {Len(entries) + 1} ELSE {})
      BY <1>1, <1>2 DEF Opened
<1> QED BY <1>1, <1>2, <1>3

\* Sessions of others, and what becomes of the session, do not matter.
LEMMA SoundKept ==
    ASSUME NEW r, NEW row, NEW answers, NEW old, NEW new,
           Sound(r, row, answers, old), Opened(new, r) = Opened(old, r),
           \A i \in Opened(old, r) : i \in DOMAIN new /\ new[i].account = old[i].account
    PROVE  Sound(r, row, answers, new)
      BY DEF Sound

\* A request that is over stays as it was.
LEMMA SoundOver ==
    ASSUME NEW r, NEW row, NEW answers, NEW entries, NEW over \in Row,
           Sound(r, row, answers, entries), over.status \in {"rejected", "consumed", "expired"}
    PROVE  Sound(r, over, answers, entries)
      BY NobodyIsNoRow DEF Sound

\* A step at one request leaves the others as they were.
LEMMA OneRequest ==
    ASSUME LoginIInv, NEW r \in Request, NEW row \in Row, NEW answers \in SUBSET (Person \X BOOLEAN),
           request' = [request EXCEPT ![r] = row], decided' = [decided EXCEPT ![r] = answers],
           session' = session, late' = late, polled' \subseteq polled,
           Sound(r, row, answers, session)
    PROVE  LoginIInv'
<1>1. \A q \in Request : /\ request'[q] = IF q = r THEN row ELSE request[q]
                         /\ decided'[q] = IF q = r THEN answers ELSE decided[q]
      BY DEF LoginIInv
<1>2. request' \in [Request -> {Nobody} \union Row] /\ decided' \in [Request -> SUBSET (Person \X BOOLEAN)]
      BY DEF LoginIInv
<1>3. \A q \in late' : request'[q] \in Row
      BY <1>1 DEF LoginIInv
<1>4. \A q \in Request : Sound(q, request'[q], decided'[q], session')
      <2> SUFFICES ASSUME NEW q \in Request PROVE Sound(q, request'[q], decided'[q], session')
          OBVIOUS
      <2>1. CASE q = r
            BY <1>1, <2>1
      <2>2. CASE q # r
            <3>1. Sound(q, request[q], decided[q], session)
                  BY DEF LoginIInv
            <3>2. request'[q] = request[q] /\ decided'[q] = decided[q] /\ session' = session
                  BY <1>1, <2>2
            <3> QED BY <3>1, <3>2
      <2> QED BY <2>1, <2>2
<1> QED BY <1>2, <1>3, <1>4 DEF LoginIInv

\* A session that no request has opened, or a session's end.
LEMMA NoRequest ==
    ASSUME LoginIInv, UNCHANGED <<request, decided>>, late' = late, polled' = polled,
           session' \in Seq(Entry),
           \A r \in Request : Opened(session', r) = Opened(session, r),
           \A i \in DOMAIN session : i \in DOMAIN session' /\ session'[i].account = session[i].account
    PROVE  LoginIInv'
<1>1. \A r \in Request : Sound(r, request'[r], decided'[r], session')
      <2> SUFFICES ASSUME NEW r \in Request PROVE Sound(r, request[r], decided[r], session')
          OBVIOUS
      <2>1. Sound(r, request[r], decided[r], session)
            BY DEF LoginIInv
      <2>2. \A i \in Opened(session, r) : i \in DOMAIN session' /\ session'[i].account = session[i].account
            BY DEF Opened
      <2> QED BY <2>1, <2>2, SoundKept
<1> QED BY <1>1 DEF LoginIInv

LEMMA SessionOfNobody ==
    ASSUME LoginIInv, UNCHANGED <<request, decided, late, polled>>,
           NEW k \in Key \union {Nobody}, NEW from \in {"emby", "local"}, CreateSession(k, from)
    PROVE  LoginIInv'
<1> DEFINE e == [account |-> k, from |-> from, live |-> TRUE]
<1>1. e \in Entry /\ e.from = from
      BY DEF Entry
<1>2. session' = Append(session, e) /\ session \in Seq(Entry)
      BY DEF CreateSession, LoginIInv
<1>3. \A r \in Request : e.from # r
      BY <1>1, AccessAssumption
<1> HIDE DEF e
<1>4. session' \in Seq(Entry) /\ \A r \in Request : Opened(session', r) = Opened(session, r)
      BY <1>1, <1>2, <1>3, SessionAdded
<1>5. \A i \in DOMAIN session : i \in DOMAIN session' /\ session'[i].account = session[i].account
      BY <1>1, <1>2, SessionAdded
<1> QED BY <1>4, <1>5, NoRequest

-----------------------------------------------------------------------------

\* What a handler has read is a key.
LEMMA LocalKeyFits == KeyIInv => \A s \in Slot : Creating(s) => busy[s].key \in LocalKeys /\ busy[s].key \in Key
<1> SUFFICES ASSUME KeyIInv, NEW s \in Slot, Creating(s) PROVE busy[s].key \in LocalKeys /\ busy[s].key \in Key
    OBVIOUS
<1>1. /\ MaxBegun \in Nat /\ begun \in 0 .. MaxBegun /\ created \in 0 .. begun
      /\ busy[s].key \in -(created + 1) .. -1 /\ busy[s].key >= -begun
      BY AccessAssumption DEF KeyIInv
<1>2. busy[s].key \in LocalKeys
      BY <1>1 DEF LocalKeys
<1> QED BY <1>2, KeysTyped

\* A request is claimed while it is undecided, decided while it is open, exchanged
\* when it is approved, and over after that.
LEMMA LoginStep == LoginIInv /\ KeyIInv /\ AccessNext => LoginIInv'
<1> SUFFICES ASSUME LoginIInv, KeyIInv, AccessNext PROVE LoginIInv'
    OBVIOUS
<1>a. /\ request \in [Request -> {Nobody} \union Row] /\ late \subseteq Request /\ polled \subseteq late
      /\ \A r \in late : request[r] \in Row
      /\ decided \in [Request -> SUBSET (Person \X BOOLEAN)] /\ session \in Seq(Entry)
      /\ \A r \in Request : Sound(r, request[r], decided[r], session)
      BY DEF LoginIInv
<1>b. \A r \in Request : decided[r] \in SUBSET (Person \X BOOLEAN) /\ decided = [decided EXCEPT ![r] = decided[r]]
      BY <1>a
<1>c. \A r \in Request : request[r] # Nobody => request[r] \in Row
      BY <1>a
<1>1. ASSUME UNCHANGED <<request, late, polled, decided, session>> PROVE LoginIInv'
      BY <1>1 DEF LoginIInv
<1>2. ASSUME NEW r \in Request, NEW wanted \in Person \union {Nobody}, NEW purpose \in Purposes,
             CreateTelegramLogin(r, wanted, purpose)
      PROVE  LoginIInv'
      <2> DEFINE row == NewRequest(wanted, purpose)
      <2>1. row \in Row /\ row.status = "pending"
            BY DEF NewRequest, Row, Status
      <2>2. request[r] = Nobody /\ request' = [request EXCEPT ![r] = row]
            /\ UNCHANGED <<late, polled, decided, session>>
            BY <1>2 DEF CreateTelegramLogin
      <2> HIDE DEF row
      <2>3. decided[r] = {} /\ Opened(session, r) = {}
            BY <1>a, <2>2 DEF Sound
      <2>4. Sound(r, row, decided[r], session)
            BY <2>1, <2>3, NobodyIsNoRow DEF Sound
      <2> QED BY <1>b, <2>1, <2>2, <2>4, OneRequest
<1>3. ASSUME NEW r \in Request, Expires(r) PROVE LoginIInv'
      <2>1. request[r] \in Row /\ late' = late \union {r} /\ UNCHANGED <<request, polled, decided, session>>
            BY <1>3, <1>c DEF Expires
      <2> QED BY <1>3, <1>a, <2>1 DEF LoginIInv
\* The request is marked as expired, by a poll or whoever holds it.
<1>4. ASSUME NEW r \in late, request' = [request EXCEPT ![r].status = "expired"],
             polled' \subseteq polled, UNCHANGED <<late, decided, session>>
      PROVE  LoginIInv'
      <2> DEFINE row == [request[r] EXCEPT !.status = "expired"]
      <2>1. r \in Request /\ request[r] \in Row
            BY <1>a, <1>4
      <2>2. row \in Row /\ row.status = "expired"
            BY <2>1 DEF Row, Status
      <2>3. request' = [request EXCEPT ![r] = row]
            BY <1>4
      <2> HIDE DEF row
      <2>4. Sound(r, row, decided[r], session)
            BY <1>a, <2>1, <2>2, SoundOver
      <2> QED BY <1>4, <1>b, <2>1, <2>2, <2>3, <2>4, OneRequest
<1>5. ASSUME NEW r \in Request, MarkExpired(r) PROVE LoginIInv'
      BY <1>4, <1>5 DEF MarkExpired
<1>6. ASSUME NEW r \in Request, PollReads(r) PROVE LoginIInv'
      BY <1>a, <1>6 DEF PollReads, LoginIInv
<1>7. ASSUME NEW r \in Request, PollWrites(r) PROVE LoginIInv'
      BY <1>4, <1>7, <1>a DEF PollWrites, Polled
<1>8. ASSUME NEW r \in Request, NEW tg \in Person, NEW purpose \in Purposes, ClaimTelegramLogin(r, tg, purpose)
      PROVE  LoginIInv'
      <2> DEFINE row == [request[r] EXCEPT !.wanted = tg, !.status = "claimed"]
      <2>1. request[r] \in Row /\ request[r].status \in {"pending", "claimed"}
            BY <1>8, <1>c DEF ClaimTelegramLogin
      <2>2. row \in Row /\ row.status = "claimed"
            BY <2>1 DEF Row, Status
      <2>3. request' = [request EXCEPT ![r] = row] /\ UNCHANGED <<late, polled, decided, session>>
            BY <1>8 DEF ClaimTelegramLogin
      <2> HIDE DEF row
      <2>4. decided[r] = {} /\ Opened(session, r) = {}
            BY <1>a, <2>1 DEF Sound
      <2>5. Sound(r, row, decided[r], session)
            BY <2>2, <2>4, NobodyIsNoRow DEF Sound
      <2> QED BY <1>b, <2>2, <2>3, <2>5, OneRequest
<1>9. ASSUME NEW r \in Request, NEW tg \in Person, NEW approve \in BOOLEAN, DecideTelegramLogin(r, tg, approve)
      PROVE  LoginIInv'
      <2> DEFINE status == IF approve THEN "approved" ELSE "rejected"
                 approved == IF approve THEN tg ELSE Nobody
                 row == [request[r] EXCEPT !.status = status, !.approved = approved]
                 answers == decided[r] \union {<<tg, approve>>}
      <2>1. request[r] \in Row /\ request[r].status \in {"pending", "claimed"}
            BY <1>9, <1>c DEF DecideTelegramLogin
      <2>2. row \in Row /\ row.status = status /\ row.approved = approved
            BY <2>1 DEF Row, Status
      <2>3. /\ request' = [request EXCEPT ![r] = row] /\ decided' = [decided EXCEPT ![r] = answers]
            /\ UNCHANGED <<late, polled, session>>
            BY <1>9 DEF DecideTelegramLogin
      <2>4. decided[r] = {} /\ Opened(session, r) = {}
            BY <1>a, <2>1 DEF Sound
      <2>5. answers = {<<tg, approve>>} /\ <<tg, approve>> \in Person \X BOOLEAN
            BY <2>4
      <2>6. answers \in SUBSET (Person \X BOOLEAN)
            BY <2>5
      <2>7. status = "approved" => approve = TRUE /\ approved = tg
            OBVIOUS
      <2>8. status \in {"approved", "rejected"}
            OBVIOUS
      <2> HIDE DEF row, answers, status, approved
      <2>9. Sound(r, row, answers, session)
            BY <2>2, <2>4, <2>5, <2>7, <2>8, NobodyIsNoRow DEF Sound
      <2> QED BY <2>2, <2>3, <2>6, <2>9, OneRequest
<1>10. ASSUME NEW r \in Request, NEW purpose \in Purposes, ExchangeTelegramLogin(r, purpose) PROVE LoginIInv'
      <2> DEFINE tg == request[r].approved
                 e == [account |-> tg, from |-> r, live |-> TRUE]
                 row == [request[r] EXCEPT !.status = "consumed"]
      <2>1. request[r] \in Row /\ request[r].status = "approved" /\ tg \in Person
            BY <1>10, <1>c DEF ExchangeTelegramLogin, Row
      <2>2. row \in Row /\ row.status = "consumed"
            BY <2>1 DEF Row, Status
      <2>3. e \in Entry /\ e.from = r /\ e.account = tg
            BY <2>1, KeysTyped DEF Entry
      <2>4. /\ request' = [request EXCEPT ![r] = row] /\ session' = Append(session, e)
            /\ UNCHANGED <<late, polled, decided>>
            BY <1>10 DEF ExchangeTelegramLogin, CreateSession
      <2>5. decided[r] = {<<tg, TRUE>>} /\ Opened(session, r) = {}
            BY <1>a, <2>1 DEF Sound
      <2>6. <<tg, TRUE>> \in Person \X BOOLEAN
            BY <2>1
      <2> HIDE DEF row, e, tg
      <2>7. /\ session' \in Seq(Entry)
            /\ \A q \in Request \ {r} : Opened(session', q) = Opened(session, q)
            /\ Opened(session', r) = {Len(session) + 1}
            /\ Len(session) + 1 \in DOMAIN session' /\ session'[Len(session) + 1].account = tg
            /\ \A i \in DOMAIN session : i \in DOMAIN session' /\ session'[i] = session[i]
            <3>1. /\ Append(session, e) \in Seq(Entry)
                  /\ \A q : e.from # q => Opened(Append(session, e), q) = Opened(session, q)
                  /\ \A q : e.from = q => Opened(Append(session, e), q) = Opened(session, q) \union {Len(session) + 1}
                  /\ \A i \in DOMAIN session : i \in DOMAIN Append(session, e) /\ Append(session, e)[i] = session[i]
                  /\ Len(session) + 1 \in DOMAIN Append(session, e)
                  /\ Append(session, e)[Len(session) + 1] = e
                  BY <1>a, <2>3, SessionAdded
            <3>2. Opened(session', r) = {Len(session) + 1}
                  BY <2>3, <2>4, <2>5, <3>1
            <3> QED BY <2>3, <2>4, <3>1, <3>2
      <2>8. Sound(r, row, decided[r], session')
            BY <2>2, <2>5, <2>6, <2>7, NobodyIsNoRow DEF Sound
      <2>9. \A q \in Request \ {r} : Sound(q, request[q], decided[q], session')
            <3> SUFFICES ASSUME NEW q \in Request \ {r} PROVE Sound(q, request[q], decided[q], session')
                OBVIOUS
            <3>1. \A i \in Opened(session, q) : i \in DOMAIN session' /\ session'[i].account = session[i].account
                  BY <2>7 DEF Opened
            <3> QED BY <1>a, <2>7, <3>1, SoundKept
      <2>10. \A q \in Request : request'[q] = IF q = r THEN row ELSE request[q]
            BY <1>a, <2>4
      <2>11. request' \in [Request -> {Nobody} \union Row]
            BY <1>a, <2>2, <2>4
      <2>12. \A q \in Request : Sound(q, request'[q], decided'[q], session')
            <3> TAKE q \in Request
            <3>1. CASE q = r
                  BY <2>4, <2>8, <2>10, <3>1
            <3>2. CASE q # r
                  BY <2>4, <2>9, <2>10, <3>2
            <3> QED BY <3>1, <3>2
      <2>13. \A q \in late' : request'[q] \in Row
            BY <1>a, <2>2, <2>4, <2>10
      <2> QED BY <1>a, <2>4, <2>7, <2>11, <2>12, <2>13 DEF LoginIInv
<1>11. ASSUME NEW tg \in Person, EmbyLogin(tg) PROVE LoginIInv'
      BY <1>11, SessionOfNobody, KeysTyped DEF EmbyLogin
<1>12. ASSUME NEW n \in Name, LocalLogin(n) PROVE LoginIInv'
      <2>1. identity[n] \in Key \union {Nobody}
            BY DEF KeyIInv
      <2> QED BY <1>12, <2>1, SessionOfNobody DEF LocalLogin
\* A session that ends keeps its account and where it came from.
<1>13. ASSUME UNCHANGED <<request, late, polled, decided>>, session' \in Seq(Entry), DOMAIN session' = DOMAIN session,
             \A i \in DOMAIN session : session'[i].account = session[i].account /\ session'[i].from = session[i].from
      PROVE  LoginIInv'
      <2>1. \A r \in Request : Opened(session', r) = Opened(session, r)
            BY <1>13 DEF Opened
      <2> QED BY <1>13, <2>1, NoRequest
<1>14. \A i \in DOMAIN session : /\ [session[i] EXCEPT !.live = FALSE] \in Entry
                                 /\ [session[i] EXCEPT !.live = FALSE].account = session[i].account
                                 /\ [session[i] EXCEPT !.live = FALSE].from = session[i].from
      <2> TAKE i \in DOMAIN session
      <2>1. session[i] \in Entry
            BY <1>a
      <2> QED BY <2>1 DEF Entry
<1>15. ASSUME NEW i \in DOMAIN session, Logout(i) PROVE LoginIInv'
      <2> DEFINE e == [session[i] EXCEPT !.live = FALSE]
      <2>1. session' = [session EXCEPT ![i] = e] /\ UNCHANGED <<request, late, polled, decided>>
            BY <1>15 DEF Logout
      <2>2. e \in Entry /\ e.account = session[i].account /\ e.from = session[i].from
            BY <1>14
      <2> HIDE DEF e
      <2>3. session' \in Seq(Entry) /\ DOMAIN session' = DOMAIN session
            BY <1>a, <2>1, <2>2
      <2>4. \A j \in DOMAIN session : session'[j] = IF j = i THEN e ELSE session[j]
            BY <1>a, <2>1
      <2> QED BY <1>13, <2>1, <2>2, <2>3, <2>4
<1>16. ASSUME NEW i \in DOMAIN session, LogoutAll(i) PROVE LoginIInv'
      <2>1. /\ session' = [j \in DOMAIN session |->
                   IF session[j].account = session[i].account THEN [session[j] EXCEPT !.live = FALSE] ELSE session[j]]
            /\ UNCHANGED <<request, late, polled, decided>>
            BY <1>16 DEF LogoutAll
      <2>2. \A j \in DOMAIN session : session'[j] \in {session[j], [session[j] EXCEPT !.live = FALSE]}
            BY <2>1
      <2>3. \A j \in DOMAIN session : session'[j] \in Entry
            BY <1>14, <1>a, <2>2
      <2>4. session' \in Seq(Entry) /\ DOMAIN session' = DOMAIN session
            <3>1. DOMAIN session = 1 .. Len(session) /\ Len(session) \in Nat
                  BY <1>a
            <3>2. session' \in [1 .. Len(session) -> Entry]
                  BY <2>1, <2>3, <3>1
            <3> QED BY <3>1, <3>2
      <2>5. \A j \in DOMAIN session : session'[j].account = session[j].account /\ session'[j].from = session[j].from
            BY <1>14, <2>2
      <2> QED BY <1>13, <2>1, <2>4, <2>5
<1>17. ASSUME NEW s \in Slot, LocalStartWrites(s) PROVE LoginIInv'
      <2>1. UNCHANGED <<request, late, polled, decided>>
            BY <1>17 DEF LocalStartWrites
      <2>2. CASE Insertable(busy[s])
            <3>1. busy[s].key \in Key
                  BY <1>17, LocalKeyFits DEF LocalStartWrites, Creating
            <3> QED BY <1>17, <2>1, <2>2, <3>1, SessionOfNobody DEF LocalStartWrites
      <2>3. CASE ~Insertable(busy[s])
            BY <1>1, <1>17, <2>3 DEF LocalStartWrites
      <2> QED BY <2>2, <2>3
<1>18. ASSUME NEW n \in Name, BootstrapOwner(n) \/ \E k \in Key : SetLocalIdentity(k, n) PROVE LoginIInv'
      BY <1>1, <1>18 DEF BootstrapOwner, SetLocalIdentity
<1>20. ASSUME NEW s \in Slot,
              \/ \E n \in Name : LocalStartReads(s, n)
              \/ AssignDefault(s) \/ AssignCommits(s) \/ PlanWrites(s)
       PROVE  LoginIInv'
      BY <1>1, <1>20 DEF LocalStartReads, AssignDefault, AssignCommits, PlanWrites
<1>21. ASSUME NEW s \in Slot,
              \/ \E k \in Key, p \in Plan : AssignMembership(s, k, p) \/ ChooseDefault(s, k, p)
              \/ \E p \in Plan, change \in {"default", "disable", "enable"} : PlanReads(s, p, change)
       PROVE  LoginIInv'
      BY <1>1, <1>21 DEF AssignMembership, AssignLocks, ChooseDefault, PlanReads
<1>22. ASSUME NEW k \in Key,
              \/ \E status \in {"active", "suspended"} : SetAccountStatus(k, status)
              \/ ExpireMembership(k) \/ ExtendMembership(k)
       PROVE  LoginIInv'
      BY <1>1, <1>22 DEF SetAccountStatus, ExpireMembership, ExtendMembership, SetMembership
<1>19. CASE \E r \in Request :
         \/ \E wanted \in Person \union {Nobody} : TelegramStart(r, wanted) \/ TelegramRegistrationStart(r, wanted)
         \/ Expires(r) \/ MarkExpired(r) \/ PollReads(r) \/ PollWrites(r)
         \/ \E tg \in Person : HandleWebLoginStart(r, tg) \/ WebLoginDecision(r, tg)
         \/ TelegramExchange(r) \/ TelegramRegistrationExchange(r)
      <2> PICK r \in Request :
         \/ \E wanted \in Person \union {Nobody} : TelegramStart(r, wanted) \/ TelegramRegistrationStart(r, wanted)
         \/ Expires(r) \/ MarkExpired(r) \/ PollReads(r) \/ PollWrites(r)
         \/ \E tg \in Person : HandleWebLoginStart(r, tg) \/ WebLoginDecision(r, tg)
         \/ TelegramExchange(r) \/ TelegramRegistrationExchange(r)
          BY <1>19
      <2>1. CASE \E wanted \in Person \union {Nobody} : TelegramStart(r, wanted) \/ TelegramRegistrationStart(r, wanted)
            BY <1>2, <2>1 DEF TelegramStart, TelegramRegistrationStart, Purposes
      <2>2. CASE \E tg \in Person : HandleWebLoginStart(r, tg) \/ WebLoginDecision(r, tg)
            BY <1>8, <1>9, <2>2 DEF HandleWebLoginStart, WebLoginDecision
      <2>3. CASE TelegramExchange(r) \/ TelegramRegistrationExchange(r)
            BY <1>10, <2>3 DEF TelegramExchange, TelegramRegistrationExchange, Purposes
      <2> QED BY <1>3, <1>5, <1>6, <1>7, <2>1, <2>2, <2>3
<1> QED BY <1>11, <1>12, <1>15, <1>16, <1>17, <1>18, <1>19, <1>20, <1>21, <1>22 DEF AccessNext

-----------------------------------------------------------------------------

\* The next key is the one below those that are taken.
LEMMA NextIsBelow == KeyIInv => NextLocalKey = -(created + 1)
<1> SUFFICES ASSUME KeyIInv PROVE NextLocalKey = -(created + 1)
    OBVIOUS
<1> DEFINE S == {0} \union {k \in Key : HasAccount(k)}
<1>1. created \in Nat /\ created <= MaxBegun /\ MaxBegun \in Nat
      <2>1. MaxBegun \in Nat
            BY AccessAssumption
      <2>2. begun \in 0 .. MaxBegun /\ created \in 0 .. begun
            BY DEF KeyIInv
      <2> QED BY <2>1, <2>2
<1>2. -created \in S
      <2>1. CASE created = 0
            <3>1. 0 \in S
                  OBVIOUS
            <3>2. -created = 0 - created
                  BY <1>1
            <3>3. 0 - created = 0
                  BY <2>1
            <3> QED BY <3>1, <3>2, <3>3
      <2>2. CASE created # 0
            <3>1. -created \in LocalKeys /\ -created \in -created .. -1
                  BY <1>1, <2>2 DEF LocalKeys
            <3> QED BY <3>1, KeysTyped DEF KeyIInv
      <2> QED BY <2>1, <2>2
<1>3. \A k \in S : k \in Int /\ -created <= k
      <2> TAKE k \in S
      <2>1. CASE k = 0
            BY <1>1, <2>1
      <2>2. CASE k \in Person
            BY <1>1, <2>2, AccessAssumption
      <2>3. CASE k \in LocalKeys /\ HasAccount(k)
            BY <1>1, <2>3 DEF KeyIInv
      <2> QED BY <2>1, <2>2, <2>3 DEF Key
<1>4. Min(S) \in S /\ \A k \in S : Min(S) <= k
      BY <1>2, <1>3 DEF Min
<1> HIDE DEF S
<1>5. Min(S) = -created
      BY <1>1, <1>2, <1>3, <1>4
<1> QED BY <1>1, <1>5 DEF NextLocalKey, S

LEMMA SlotTaken ==
    ASSUME DOMAIN busy = Slot, NEW s \in Slot, NEW held, busy' = [busy EXCEPT ![s] = held]
    PROVE  DOMAIN busy' = Slot /\ \A t \in Slot : busy'[t] = IF t = s THEN held ELSE busy[t]
      OBVIOUS

\* A step that creates no local account.
LEMMA KeysKept ==
    ASSUME KeyIInv, created' = created, begun' = begun \/ Begin, DOMAIN busy' = Slot,
           account' \in [Key -> {Nobody, "active", "suspended"}],
           \A k \in LocalKeys : account'[k] # Nobody <=> account[k] # Nobody,
           identity' \in [Name -> Key \union {Nobody}],
           \A s \in Slot : busy'[s] # Nobody /\ busy'[s].kind = "create" =>
               busy'[s].key \in -(created + 1) .. -1 /\ busy'[s].key >= -begun'
    PROVE  KeyIInv'
<1>1. MaxBegun \in Nat
      BY AccessAssumption
<1>2. begun \in 0 .. MaxBegun /\ created \in 0 .. begun
      BY DEF KeyIInv
<1>3. begun' \in 0 .. MaxBegun /\ created' \in 0 .. begun'
      BY <1>1, <1>2 DEF Begin
<1>4. \A k \in LocalKeys : account'[k] # Nobody <=> k \in -created .. -1
      BY DEF KeyIInv, HasAccount
<1> QED BY <1>3, <1>4 DEF KeyIInv, HasAccount, Creating

LEMMA Lower == ASSUME NEW i \in Int, NEW b \in Nat, NEW c \in Nat, c = b \/ c = b + 1, i >= -b PROVE i >= -c
      OBVIOUS

\* The handlers stay where they are, or one of them goes on to something else.
LEMMA CreatorsKept ==
    ASSUME KeyIInv, begun' = begun \/ Begin,
           \/ busy' = busy
           \/ \E s \in Slot : \E held : busy' = [busy EXCEPT ![s] = held] /\ (held # Nobody => held.kind # "create")
    PROVE  /\ DOMAIN busy' = Slot
           /\ \A s \in Slot : busy'[s] # Nobody /\ busy'[s].kind = "create" =>
                  busy'[s].key \in -(created + 1) .. -1 /\ busy'[s].key >= -begun'
<1>1. MaxBegun \in Nat
      BY AccessAssumption
<1>2. begun \in 0 .. MaxBegun /\ created \in 0 .. begun
      BY DEF KeyIInv
<1>3. DOMAIN busy = Slot /\ \A s \in Slot : busy[s] # Nobody /\ busy[s].kind = "create" =>
          busy[s].key \in -(created + 1) .. -1 /\ busy[s].key >= -begun
      BY DEF KeyIInv, Creating
<1>4. DOMAIN busy' = Slot /\ \A s \in Slot : busy'[s] # Nobody /\ busy'[s].kind = "create" => busy'[s] = busy[s]
      <2>1. CASE busy' = busy
            BY <1>3, <2>1
      <2>2. CASE \E s \in Slot : \E held : busy' = [busy EXCEPT ![s] = held] /\ (held # Nobody => held.kind # "create")
            <3> PICK s \in Slot : \E held : busy' = [busy EXCEPT ![s] = held] /\ (held # Nobody => held.kind # "create")
                BY <2>2
            <3> PICK held : busy' = [busy EXCEPT ![s] = held] /\ (held # Nobody => held.kind # "create")
                OBVIOUS
            <3> QED BY <1>3, SlotTaken
      <2> QED BY <2>1, <2>2
<1>5. begun \in Nat /\ begun' \in Nat /\ (begun' = begun \/ begun' = begun + 1)
      BY <1>1, <1>2 DEF Begin
<1>6. \A i \in Int : i >= -begun => i >= -begun'
      BY <1>5, Lower
<1> SUFFICES ASSUME NEW s \in Slot, busy'[s] # Nobody, busy'[s].kind = "create"
             PROVE  busy'[s].key \in -(created + 1) .. -1 /\ busy'[s].key >= -begun'
    BY <1>4
<1>7. busy[s].key \in -(created + 1) .. -1 /\ busy[s].key >= -begun /\ busy'[s] = busy[s]
      BY <1>3, <1>4
<1>8. busy[s].key \in Int
      BY <1>7
<1> QED BY <1>6, <1>7, <1>8

LEMMA KeyStep == LoginIInv /\ KeyIInv /\ AccessNext => KeyIInv'
<1> SUFFICES ASSUME LoginIInv, KeyIInv, AccessNext PROVE KeyIInv'
    OBVIOUS
<1>a. /\ account \in [Key -> {Nobody, "active", "suspended"}] /\ identity \in [Name -> Key \union {Nobody}]
      /\ DOMAIN busy = Slot
      BY DEF KeyIInv
\* Neither an account nor a name.
<1>1. ASSUME UNCHANGED <<account, identity, created>>, begun' = begun \/ Begin,
             \/ busy' = busy
             \/ \E s \in Slot : \E held : busy' = [busy EXCEPT ![s] = held] /\ (held # Nobody => held.kind # "create")
      PROVE  KeyIInv'
      <2>1. /\ DOMAIN busy' = Slot
            /\ \A s \in Slot : busy'[s] # Nobody /\ busy'[s].kind = "create" =>
                   busy'[s].key \in -(created + 1) .. -1 /\ busy'[s].key >= -begun'
            BY <1>1, CreatorsKept
      <2> QED BY <1>1, <1>a, <2>1, KeysKept
\* An account of a person, whose key is positive, and perhaps a name.
<1>2. ASSUME UNCHANGED <<busy, created>>, begun' = begun \/ Begin,
             account' \in [Key -> {Nobody, "active", "suspended"}],
             \A k \in LocalKeys : account'[k] # Nobody <=> account[k] # Nobody,
             identity' \in [Name -> Key \union {Nobody}]
      PROVE  KeyIInv'
      <2>1. /\ DOMAIN busy' = Slot
            /\ \A s \in Slot : busy'[s] # Nobody /\ busy'[s].kind = "create" =>
                   busy'[s].key \in -(created + 1) .. -1 /\ busy'[s].key >= -begun'
            BY <1>2, CreatorsKept
      <2> QED BY <1>2, <2>1, KeysKept
<1>3. \A tg \in Person : /\ WithAccount(tg) \in [Key -> {Nobody, "active", "suspended"}]
                         /\ \A k \in LocalKeys : WithAccount(tg)[k] = account[k]
      BY <1>a, KeysTyped DEF WithAccount
<1>4. ASSUME NEW r \in Request,
             \/ \E wanted \in Person \union {Nobody} : TelegramStart(r, wanted) \/ TelegramRegistrationStart(r, wanted)
             \/ Expires(r) \/ MarkExpired(r) \/ PollReads(r) \/ PollWrites(r)
             \/ \E tg \in Person : WebLoginDecision(r, tg)
      PROVE  KeyIInv'
      BY <1>1, <1>4 DEF TelegramStart, TelegramRegistrationStart, CreateTelegramLogin, Expires, MarkExpired, PollReads,
             PollWrites, WebLoginDecision, DecideTelegramLogin
<1>5. ASSUME NEW r \in Request, NEW tg \in Person, HandleWebLoginStart(r, tg) PROVE KeyIInv'
      <2>1. account' = WithAccount(tg) /\ UNCHANGED <<busy, created, begun, identity>>
            BY <1>5 DEF HandleWebLoginStart, ClaimTelegramLogin
      <2> QED BY <1>2, <1>3, <1>a, <2>1
<1>6. ASSUME NEW r \in Request, TelegramExchange(r) \/ TelegramRegistrationExchange(r) PROVE KeyIInv'
      <2>1. /\ account' = WithAccount(request[r].approved) /\ UNCHANGED <<busy, created, begun, identity>>
            /\ request[r] # Nobody /\ request[r].approved # Nobody
            BY <1>6 DEF TelegramExchange, TelegramRegistrationExchange, ExchangeTelegramLogin
      <2>2. request[r] \in Row
            BY <2>1 DEF LoginIInv
      <2>3. request[r].approved \in Person
            BY <2>1, <2>2 DEF Row
      <2> QED BY <1>2, <1>3, <1>a, <2>1, <2>3
<1>7. ASSUME NEW tg \in Person, EmbyLogin(tg) PROVE KeyIInv'
      <2>1. account' = WithAccount(tg) /\ Begin /\ UNCHANGED <<busy, created, identity>>
            BY <1>7 DEF EmbyLogin
      <2> QED BY <1>2, <1>3, <1>a, <2>1
<1>8. ASSUME NEW n \in Name, LocalLogin(n) PROVE KeyIInv'
      BY <1>1, <1>8 DEF LocalLogin
<1>9. ASSUME NEW n \in Name, BootstrapOwner(n) PROVE KeyIInv'
      <2>1. Owner \in Person /\ Owner \in Key
            BY AccessAssumption, KeysTyped
      <2>2. account' = WithAccount(Owner) /\ Begin /\ identity' = [identity EXCEPT ![n] = Owner] /\ UNCHANGED <<busy, created>>
            BY <1>9 DEF BootstrapOwner
      <2>3. identity' \in [Name -> Key \union {Nobody}]
            BY <1>a, <2>1, <2>2
      <2> QED BY <1>2, <1>3, <2>1, <2>2, <2>3
<1>10. ASSUME NEW n \in Name, NEW k \in Key, SetLocalIdentity(k, n) PROVE KeyIInv'
      <2>1. /\ identity' = [m \in Name |-> IF m = n THEN k ELSE IF identity[m] = k THEN Nobody ELSE identity[m]]
            /\ Begin /\ UNCHANGED <<account, busy, created>>
            BY <1>10 DEF SetLocalIdentity
      <2>2. identity' \in [Name -> Key \union {Nobody}]
            BY <1>a, <2>1
      <2> QED BY <1>2, <1>a, <2>1, <2>2
<1>11. ASSUME NEW i \in DOMAIN session, Logout(i) \/ LogoutAll(i) PROVE KeyIInv'
      BY <1>1, <1>11 DEF Logout, LogoutAll
<1>12. ASSUME NEW s \in Slot, NEW n \in Name, LocalStartReads(s, n) PROVE KeyIInv'
      <2> DEFINE held == [kind |-> "create", name |-> n, key |-> -(created + 1)]
      <2>1. /\ busy' = [busy EXCEPT ![s] = held]
            /\ Begin /\ UNCHANGED <<account, identity, created>>
            BY <1>12, NextIsBelow DEF LocalStartReads
      <2>2. held.key = -(created + 1)
            OBVIOUS
      <2> HIDE DEF held
      <2>3. DOMAIN busy' = Slot /\ \A t \in Slot : busy'[t] = IF t = s THEN held ELSE busy[t]
            BY <1>a, <2>1, SlotTaken
      <2>4. begun \in Nat /\ created \in Nat /\ created <= begun /\ begun' = begun + 1
            <3>1. MaxBegun \in Nat
                  BY AccessAssumption
            <3>2. begun \in 0 .. MaxBegun /\ created \in 0 .. begun
                  BY DEF KeyIInv
            <3> QED BY <2>1, <3>1, <3>2 DEF Begin
      <2>5. \A t \in Slot : busy'[t] # Nobody /\ busy'[t].kind = "create" =>
                busy'[t].key \in -(created + 1) .. -1 /\ busy'[t].key >= -begun'
            <3> SUFFICES ASSUME NEW t \in Slot, busy'[t] # Nobody, busy'[t].kind = "create"
                         PROVE  busy'[t].key \in -(created + 1) .. -1 /\ busy'[t].key >= -begun'
                OBVIOUS
            <3>1. CASE t = s
                  BY <2>2, <2>3, <2>4, <3>1
            <3>2. CASE t # s
                  <4>1. busy'[t] = busy[t]
                        BY <2>3, <3>2
                  <4>2. busy[t].key \in -(created + 1) .. -1 /\ busy[t].key >= -begun
                        BY <4>1 DEF KeyIInv, Creating
                  <4> QED BY <2>4, <4>1, <4>2
            <3> QED BY <3>1, <3>2
      <2> QED BY <1>a, <2>1, <2>3, <2>5, KeysKept
<1>13. ASSUME NEW s \in Slot, LocalStartWrites(s) PROVE KeyIInv'
      <2> DEFINE key == busy[s].key
      <2>1. Creating(s) /\ busy' = [busy EXCEPT ![s] = Nobody] /\ begun' = begun
            BY <1>13 DEF LocalStartWrites, Creating
      <2>2. CASE ~Insertable(busy[s])
            <3>1. UNCHANGED <<account, identity, created>>
                  BY <1>13, <2>2 DEF LocalStartWrites
            <3> QED BY <1>1, <2>1, <3>1
      <2>3. CASE Insertable(busy[s])
            <3>1. /\ identity' = [identity EXCEPT ![busy[s].name] = key]
                  /\ account' = [account EXCEPT ![key] = "active"]
                  /\ created' = created + 1
                  BY <1>13, <2>3 DEF LocalStartWrites
            <3>2. key \in LocalKeys /\ key \in Key /\ ~HasAccount(key)
                  BY <2>1, <2>3, LocalKeyFits DEF Insertable
            <3>3. begun \in Nat /\ begun \in 0 .. MaxBegun /\ created \in Nat /\ created <= begun
                  <4>1. MaxBegun \in Nat
                        BY AccessAssumption
                  <4>2. begun \in 0 .. MaxBegun /\ created \in 0 .. begun
                        BY DEF KeyIInv
                  <4> QED BY <4>1, <4>2
            <3>4. key \in -(created + 1) .. -1 /\ key >= -begun /\ key \notin -created .. -1
                  BY <2>1, <3>2 DEF KeyIInv
            <3> HIDE DEF key
            <3>5. key = -(created + 1) /\ created + 1 <= begun
                  BY <3>3, <3>4
            <3>6. created' \in 0 .. begun' /\ begun' \in 0 .. MaxBegun
                  BY <2>1, <3>1, <3>3, <3>5
            <3>7. account' \in [Key -> {Nobody, "active", "suspended"}] /\ identity' \in [Name -> Key \union {Nobody}]
                  BY <1>a, <3>1, <3>2
            <3>8. \A k \in LocalKeys : account'[k] # Nobody <=> k \in -created' .. -1
                  <4> SUFFICES ASSUME NEW k \in LocalKeys PROVE account'[k] # Nobody <=> k \in -created' .. -1
                      OBVIOUS
                  <4>1. k \in Int /\ k \in Key /\ k \in -MaxBegun .. -1
                        BY KeysTyped DEF LocalKeys
                  <4>2. account'[k] # Nobody <=> k = key \/ HasAccount(k)
                        BY <1>a, <3>1, <4>1, AccessAssumption DEF HasAccount
                  <4>3. HasAccount(k) <=> k \in -created .. -1
                        BY DEF KeyIInv
                  <4>4. k \in -(created + 1) .. -1 <=> k = key \/ k \in -created .. -1
                        BY <3>3, <3>5, <4>1
                  <4> QED BY <3>1, <4>2, <4>3, <4>4
            <3>9. DOMAIN busy' = Slot /\ \A t \in Slot : busy'[t] = IF t = s THEN Nobody ELSE busy[t]
                  BY <1>a, <2>1, SlotTaken
            <3>10. \A t \in Slot : busy'[t] # Nobody /\ busy'[t].kind = "create" =>
                       busy'[t].key \in -(created' + 1) .. -1 /\ busy'[t].key >= -begun'
                  <4> SUFFICES ASSUME NEW t \in Slot, busy'[t] # Nobody, busy'[t].kind = "create"
                               PROVE  busy'[t].key \in -(created' + 1) .. -1 /\ busy'[t].key >= -begun'
                      OBVIOUS
                  <4>1. busy'[t] = busy[t]
                        BY <3>9
                  <4>2. busy[t].key \in -(created + 1) .. -1 /\ busy[t].key >= -begun
                        BY <4>1 DEF KeyIInv, Creating
                  <4> QED BY <2>1, <3>1, <3>3, <4>1, <4>2
            <3> QED BY <3>6, <3>7, <3>8, <3>9, <3>10 DEF KeyIInv, HasAccount, Creating
      <2> QED BY <2>2, <2>3
<1>14. ASSUME NEW s \in Slot,
              \/ AssignDefault(s) \/ AssignCommits(s) \/ PlanWrites(s)
              \/ \E k \in Key, p \in Plan : AssignMembership(s, k, p) \/ ChooseDefault(s, k, p)
              \/ \E p \in Plan, change \in {"default", "disable", "enable"} : PlanReads(s, p, change)
       PROVE  KeyIInv'
      <2>1. UNCHANGED <<account, identity, created>> /\ (begun' = begun \/ Begin)
            BY <1>14 DEF AssignDefault, AssignCommits, PlanWrites, AssignMembership, AssignLocks, ChooseDefault, PlanReads
      <2>2. \E held : busy' = [busy EXCEPT ![s] = held] /\ (held # Nobody => held.kind # "create")
            BY <1>14, SMTT(30) DEF AssignDefault, AssignCommits, PlanWrites, AssignMembership, AssignLocks, ChooseDefault, PlanReads
      <2> QED BY <1>1, <2>1, <2>2
<1>15. ASSUME NEW k \in Key, NEW status \in {"active", "suspended"}, SetAccountStatus(k, status) PROVE KeyIInv'
      <2>1. /\ HasAccount(k) /\ account' = [account EXCEPT ![k] = status] /\ Begin
            /\ UNCHANGED <<busy, created, identity>>
            BY <1>15 DEF SetAccountStatus
      <2>2. account' \in [Key -> {Nobody, "active", "suspended"}]
            BY <1>a, <2>1
      <2>3. \A q \in LocalKeys : account'[q] # Nobody <=> account[q] # Nobody
            BY <1>a, <2>1, AccessAssumption, KeysTyped DEF HasAccount
      <2> QED BY <1>2, <1>a, <2>1, <2>2, <2>3
<1>16. ASSUME NEW k \in Key, ExpireMembership(k) \/ ExtendMembership(k) PROVE KeyIInv'
      BY <1>1, <1>16 DEF ExpireMembership, ExtendMembership, SetMembership
<1> QED BY <1>4, <1>5, <1>6, <1>7, <1>8, <1>9, <1>10, <1>11, <1>12, <1>13, <1>14, <1>15, <1>16 DEF AccessNext

-----------------------------------------------------------------------------

MemberStatus == {"active", "suspended", "replaced", "expired"}

\* Not assigning, though perhaps about to.
Idle(held) ==
    held # Nobody => held.kind \notin {"assign", "default"} \/ (held.kind = "default" /\ held.key \in Key)

\* A step that neither begins nor ends an assignment, nor writes a membership.
LEMMA MembersKept ==
    ASSUME MemberIInv, member' = member,
           \/ busy' = busy
           \/ \E s \in Slot : \E held : busy' = [busy EXCEPT ![s] = held] /\ Idle(held)
    PROVE  MemberIInv'
<1>1. DOMAIN busy = Slot
      BY DEF MemberIInv
<1>2. DOMAIN busy' = Slot /\ \A s \in Slot :
          \/ busy'[s] = busy[s]
          \/ Idle(busy'[s])
      <2>1. CASE busy' = busy
            BY <1>1, <2>1
      <2>2. CASE busy' # busy
            <3> PICK s \in Slot : \E held : busy' = [busy EXCEPT ![s] = held] /\ Idle(held)
                BY <2>2
            <3> PICK held : busy' = [busy EXCEPT ![s] = held] /\ Idle(held)
                OBVIOUS
            <3> QED BY <1>1, SlotTaken
      <2> QED BY <2>1, <2>2
<1>3. \A s \in Slot : Choosing(s)' => busy'[s].key \in Key
      BY <1>2 DEF MemberIInv, Choosing, Idle
<1>4. \A s \in Slot : Doing(s)' => Doing(s) /\ busy'[s] = busy[s]
      BY <1>2 DEF Doing, Idle
<1>5. \A k \in Key : Current(k)' = Current(k) /\ Newest(k)' = Newest(k)
      BY DEF Current, Newest
<1>6. \A s \in Slot : Doing(s)' => busy'[s].key \in Key /\ busy'[s].current = Newest(busy[s].key)'
      BY <1>4, <1>5 DEF MemberIInv
<1>7. \A s, t \in Slot : Doing(s)' /\ Doing(t)' /\ busy'[s].key = busy'[t].key => s = t
      BY <1>4 DEF MemberIInv
<1>8. \A k \in Key : \A i, j \in Current(k)' : i = j
      BY <1>5 DEF MemberIInv
<1> QED BY <1>2, <1>3, <1>6, <1>7, <1>8 DEF MemberIInv

\* A membership that is written while nobody assigns a plan to the account.
LEMMA MembersWritten ==
    ASSUME MemberIInv, busy' = busy, NEW k \in Key, AccountFree(k), NEW status \in {"active", "suspended", "expired"},
           member' = WithMember(k, status)
    PROVE  MemberIInv'
<1>1. member \in [Key -> Seq(MemberStatus)]
      BY DEF MemberIInv, MemberStatus
<1> DEFINE row == [i \in DOMAIN member[k] |-> IF i = Newest(k) THEN status ELSE member[k][i]]
<1>2. member' = [member EXCEPT ![k] = row]
      BY DEF WithMember
<1>3. row \in Seq(MemberStatus) /\ DOMAIN row = DOMAIN member[k]
      <2>1. member[k] \in Seq(MemberStatus)
            BY <1>1
      <2>2. DOMAIN member[k] = 1 .. Len(member[k]) /\ Len(member[k]) \in Nat
            BY <2>1
      <2>3. row \in [1 .. Len(member[k]) -> MemberStatus]
            BY <2>1, <2>2 DEF MemberStatus
      <2> QED BY <2>2, <2>3
<1>4. \A i \in DOMAIN member[k] : row[i] = IF i = Newest(k) THEN status ELSE member[k][i]
      OBVIOUS
<1> HIDE DEF row
<1>5. member' \in [Key -> Seq(MemberStatus)] /\ member'[k] = row
      /\ \A q \in Key \ {k} : member'[q] = member[q]
      BY <1>1, <1>2, <1>3
<1>6. \A q \in Key \ {k} : Current(q)' = Current(q) /\ Newest(q)' = Newest(q)
      BY <1>5 DEF Current, Newest
<1>7. Current(k)' \subseteq Current(k) \union {Newest(k)}
      BY <1>3, <1>4, <1>5 DEF Current
\* Only what was current is written.
<1>8. \A i, j \in Current(k)' : i = j
      <2>1. CASE Current(k) = {}
            <3>1. Newest(k) = 0 /\ 0 \notin DOMAIN member[k]
                  BY <1>1, <2>1 DEF Newest
            <3>2. Current(k)' \subseteq DOMAIN member[k]
                  BY <1>3, <1>5 DEF Current
            <3> QED BY <1>7, <2>1, <3>1, <3>2
      <2>2. CASE Current(k) # {}
            <3>1. PICK i \in Current(k) : Current(k) = {i}
                  BY <2>2 DEF MemberIInv
            <3>2. i \in Int
                  BY <1>1 DEF Current
            <3>3. Newest(k) = i
                  BY <2>2, <3>1, <3>2 DEF Newest, Max
            <3> QED BY <1>7, <3>1, <3>3
      <2> QED BY <2>1, <2>2
<1>9. \A s \in Slot : Doing(s) => busy[s].key # k
      BY DEF AccountFree, Assigning, Doing
<1>10. \A s \in Slot : Doing(s) => busy[s].key \in Key /\ busy[s].current = Newest(busy[s].key)'
      BY <1>6, <1>9 DEF MemberIInv
<1>11. \A q \in Key : \A i, j \in Current(q)' : i = j
      BY <1>6, <1>8 DEF MemberIInv
<1> QED BY <1>5, <1>10, <1>11 DEF MemberIInv, MemberStatus, Doing, Choosing

\* A plan is assigned by one handler at a time, from the membership there is ...
LEMMA AssignmentBegins ==
    ASSUME MemberIInv, NEW s \in Slot, NEW k \in Key, AccountFree(k), member' = member,
           busy' = [busy EXCEPT ![s] = [kind |-> "assign", key |-> k, current |-> Newest(k)]]
    PROVE  MemberIInv'
<1> DEFINE held == [kind |-> "assign", key |-> k, current |-> Newest(k)]
<1>1. held.kind = "assign" /\ held.key = k /\ held.current = Newest(k)
      OBVIOUS
<1>2. busy' = [busy EXCEPT ![s] = held]
      OBVIOUS
<1> HIDE DEF held
<1>3. DOMAIN busy' = Slot /\ \A t \in Slot : busy'[t] = IF t = s THEN held ELSE busy[t]
      BY <1>2, SlotTaken DEF MemberIInv
<1>4. \A q \in Key : Current(q)' = Current(q) /\ Newest(q)' = Newest(q)
      BY DEF Current, Newest
<1>5. \A t \in Slot : Choosing(t)' => busy'[t].key \in Key
      BY <1>1, <1>3 DEF MemberIInv, Choosing
<1>6. \A t \in Slot : Doing(t)' => busy'[t].key \in Key /\ busy'[t].current = Newest(busy'[t].key)
      BY <1>1, <1>3 DEF MemberIInv, Doing
<1>7. \A t \in Slot : Doing(t) => busy[t].key # k
      BY DEF AccountFree, Assigning, Doing
<1>8. \A t, u \in Slot : Doing(t)' /\ Doing(u)' /\ busy'[t].key = busy'[u].key => t = u
      BY <1>1, <1>3, <1>7 DEF MemberIInv, Doing
<1>9. \A q \in Key : \A i, j \in Current(q)' : i = j
      BY <1>4 DEF MemberIInv
<1> QED BY <1>3, <1>4, <1>5, <1>6, <1>8, <1>9 DEF MemberIInv

\* ... which the new one replaces.
LEMMA AssignmentCommits == ASSUME MemberIInv, NEW s \in Slot, AssignCommits(s) PROVE MemberIInv'
<1> PICK k \in Key : k = busy[s].key
    BY DEF AssignCommits, MemberIInv, Doing
<1>1. Doing(s) /\ k \in Key /\ busy[s].current = Newest(k)
      BY DEF AssignCommits, MemberIInv, Doing
<1>2. member \in [Key -> Seq(MemberStatus)] /\ member[k] \in Seq(MemberStatus)
      BY <1>1 DEF MemberIInv, MemberStatus
<1> DEFINE row == [i \in DOMAIN member[k] |-> IF i = Newest(k) THEN "replaced" ELSE member[k][i]]
<1>3. member' = [member EXCEPT ![k] = Append(row, "active")] /\ busy' = [busy EXCEPT ![s] = Nobody]
      BY <1>1 DEF AssignCommits
<1>4. row \in Seq(MemberStatus) /\ DOMAIN row = DOMAIN member[k]
      <2>1. DOMAIN member[k] = 1 .. Len(member[k]) /\ Len(member[k]) \in Nat
            BY <1>2
      <2>2. row \in [1 .. Len(member[k]) -> MemberStatus]
            BY <1>2, <2>1 DEF MemberStatus
      <2> QED BY <2>1, <2>2
\* Nothing of what there was is current any more.
<1>5. \A i \in DOMAIN row : row[i] \notin {"active", "suspended"}
      <2> SUFFICES ASSUME NEW i \in DOMAIN row, i # Newest(k), member[k][i] \in {"active", "suspended"} PROVE FALSE
          OBVIOUS
      <2>1. i \in Current(k) /\ i \in Int
            BY <1>2, <1>4 DEF Current
      <2>2. Current(k) = {i}
            BY <1>1, <2>1 DEF MemberIInv
      <2>3. Newest(k) = i
            BY <2>1, <2>2 DEF Newest, Max
      <2> QED BY <2>3
<1> HIDE DEF row
<1>6. /\ Append(row, "active") \in Seq(MemberStatus)
      /\ DOMAIN Append(row, "active") = DOMAIN row \union {Len(row) + 1}
      /\ \A i \in DOMAIN row : Append(row, "active")[i] = row[i]
      BY <1>4 DEF MemberStatus
<1>7. /\ member' \in [Key -> Seq(MemberStatus)] /\ member'[k] = Append(row, "active")
      /\ \A q \in Key \ {k} : member'[q] = member[q]
      BY <1>1, <1>2, <1>3, <1>6
<1>8. Current(k)' \subseteq {Len(row) + 1}
      <2> SUFFICES ASSUME NEW i \in Current(k)', i \in DOMAIN row PROVE FALSE
          BY <1>6, <1>7 DEF Current
      <2>1. Append(row, "active")[i] \in {"active", "suspended"}
            BY <1>7 DEF Current
      <2> QED BY <1>5, <1>6, <2>1
<1>9. \A q \in Key \ {k} : Current(q)' = Current(q) /\ Newest(q)' = Newest(q)
      BY <1>7 DEF Current, Newest
<1>10. DOMAIN busy' = Slot /\ \A t \in Slot : busy'[t] = IF t = s THEN Nobody ELSE busy[t]
      BY <1>3, SlotTaken DEF MemberIInv
<1>11. \A t \in Slot : Doing(t)' => t # s /\ Doing(t) /\ busy'[t] = busy[t]
      BY <1>10 DEF Doing
<1>12. \A t \in Slot : Doing(t)' => busy'[t].key \in Key \ {k} /\ busy'[t].current = Newest(busy[t].key)'
      BY <1>1, <1>9, <1>11 DEF MemberIInv
<1>13. \A t, u \in Slot : Doing(t)' /\ Doing(u)' /\ busy'[t].key = busy'[u].key => t = u
      BY <1>11 DEF MemberIInv
<1>14. \A t \in Slot : Choosing(t)' => busy'[t].key \in Key
      BY <1>10 DEF MemberIInv, Choosing
<1>15. \A q \in Key : \A i, j \in Current(q)' : i = j
      BY <1>8, <1>9 DEF MemberIInv
<1> QED BY <1>7, <1>10, <1>12, <1>13, <1>14, <1>15 DEF MemberIInv, MemberStatus

LEMMA MemberStep == MemberIInv /\ AccessNext => MemberIInv'
<1> SUFFICES ASSUME MemberIInv, AccessNext PROVE MemberIInv'
    OBVIOUS
<1>1. ASSUME UNCHANGED <<member, busy>> PROVE MemberIInv'
      BY <1>1, MembersKept
<1>2. ASSUME NEW r \in Request,
             \/ \E wanted \in Person \union {Nobody} : TelegramStart(r, wanted) \/ TelegramRegistrationStart(r, wanted)
             \/ Expires(r) \/ MarkExpired(r) \/ PollReads(r) \/ PollWrites(r)
             \/ \E tg \in Person : HandleWebLoginStart(r, tg) \/ WebLoginDecision(r, tg)
             \/ TelegramExchange(r) \/ TelegramRegistrationExchange(r)
      PROVE  MemberIInv'
      <2>1. UNCHANGED <<member, busy>>
            BY <1>2 DEF TelegramStart, TelegramRegistrationStart, CreateTelegramLogin, Expires, MarkExpired, PollReads,
                   PollWrites, WebLoginDecision, DecideTelegramLogin, HandleWebLoginStart, ClaimTelegramLogin,
                   TelegramExchange, TelegramRegistrationExchange, ExchangeTelegramLogin
      <2> QED BY <1>1, <2>1
<1>3. ASSUME \/ \E tg \in Person : EmbyLogin(tg)
             \/ \E n \in Name : LocalLogin(n) \/ BootstrapOwner(n) \/ \E k \in Key : SetLocalIdentity(k, n)
             \/ \E i \in DOMAIN session : Logout(i) \/ LogoutAll(i)
      PROVE  MemberIInv'
      <2>1. UNCHANGED <<member, busy>>
            BY <1>3 DEF EmbyLogin, LocalLogin, BootstrapOwner, SetLocalIdentity, Logout, LogoutAll
      <2> QED BY <1>1, <2>1
<1>4. ASSUME NEW s \in Slot, LocalStartWrites(s) \/ PlanWrites(s) PROVE MemberIInv'
      <2>1. member' = member /\ busy' = [busy EXCEPT ![s] = Nobody]
            BY <1>4 DEF LocalStartWrites, PlanWrites
      <2> QED BY <2>1, MembersKept DEF Idle
<1>5. ASSUME NEW s \in Slot, NEW n \in Name, LocalStartReads(s, n) PROVE MemberIInv'
      <2>1. member' = member /\ busy' = [busy EXCEPT ![s] = [kind |-> "create", name |-> n, key |-> NextLocalKey]]
            BY <1>5 DEF LocalStartReads
      <2> DEFINE held == [kind |-> "create", name |-> n, key |-> NextLocalKey]
      <2>2. busy' = [busy EXCEPT ![s] = held] /\ Idle(held)
            BY <2>1 DEF Idle
      <2> HIDE DEF held
      <2> QED BY <2>1, <2>2, MembersKept
<1>6. ASSUME NEW s \in Slot, NEW p \in Plan, NEW change \in {"default", "disable", "enable"}, PlanReads(s, p, change)
      PROVE  MemberIInv'
      <2>1. /\ member' = member
            /\ busy' = [busy EXCEPT ![s] = [kind |-> "plan", plan |-> p, change |-> change, seen |-> plan]]
            BY <1>6 DEF PlanReads
      <2> DEFINE held == [kind |-> "plan", plan |-> p, change |-> change, seen |-> plan]
      <2>2. busy' = [busy EXCEPT ![s] = held] /\ Idle(held)
            BY <2>1 DEF Idle
      <2> HIDE DEF held
      <2> QED BY <2>1, <2>2, MembersKept
<1>7. ASSUME NEW s \in Slot, NEW k \in Key, NEW p \in Plan, ChooseDefault(s, k, p) PROVE MemberIInv'
      <2>1. member' = member /\ busy' = [busy EXCEPT ![s] = [kind |-> "default", key |-> k, plan |-> p]]
            BY <1>7 DEF ChooseDefault
      <2>2. Idle([kind |-> "default", key |-> k, plan |-> p])
            BY DEF Idle
      <2> QED BY <2>1, <2>2, MembersKept
<1>8. ASSUME NEW s \in Slot, NEW k \in Key, NEW p \in Plan, AssignMembership(s, k, p) PROVE MemberIInv'
      BY <1>8, AssignmentBegins DEF AssignMembership, AssignLocks
<1>9. ASSUME NEW s \in Slot, AssignDefault(s) PROVE MemberIInv'
      <2>1. Choosing(s) /\ member' = member /\ AccountFree(busy[s].key)
            BY <1>9 DEF AssignDefault, Choosing
      <2>2. busy[s].key \in Key
            BY <2>1 DEF MemberIInv
      <2>3. \/ busy' = [busy EXCEPT ![s] = [kind |-> "assign", key |-> busy[s].key, current |-> Newest(busy[s].key)]]
            \/ busy' = [busy EXCEPT ![s] = Nobody]
            BY <1>9 DEF AssignDefault
      <2>4. CASE busy' = [busy EXCEPT ![s] = Nobody]
            BY <2>1, <2>4, MembersKept DEF Idle
      <2>5. CASE busy' = [busy EXCEPT ![s] = [kind |-> "assign", key |-> busy[s].key, current |-> Newest(busy[s].key)]]
            BY <2>1, <2>2, <2>5, AssignmentBegins
      <2> QED BY <2>3, <2>4, <2>5
<1>10. ASSUME NEW s \in Slot, AssignCommits(s) PROVE MemberIInv'
      BY <1>10, AssignmentCommits
<1>11. ASSUME NEW k \in Key, NEW status \in {"active", "suspended"}, SetAccountStatus(k, status) PROVE MemberIInv'
      BY <1>11, MembersWritten DEF SetAccountStatus
<1>12. ASSUME NEW k \in Key, ExpireMembership(k) \/ ExtendMembership(k) PROVE MemberIInv'
      BY <1>12, MembersWritten DEF ExpireMembership, ExtendMembership, SetMembership
<1> QED BY <1>2, <1>3, <1>4, <1>5, <1>6, <1>7, <1>8, <1>9, <1>10, <1>11, <1>12 DEF AccessNext

-----------------------------------------------------------------------------

AccessIInv == LoginIInv /\ KeyIInv /\ MemberIInv

LEMMA AccessInvariant == Spec => []AccessIInv
<1>1. Init => AccessIInv
      <2> SUFFICES ASSUME AccessInit PROVE AccessIInv
          BY DEF Init
      <2>1. LoginIInv
            <3>1. \A r \in Request : Opened(session, r) = {}
                  BY DEF AccessInit, Opened
            <3>2. \A r \in Request : Sound(r, request[r], decided[r], session)
                  BY <3>1, NobodyIsNoRow DEF AccessInit, Sound
            <3>3. session \in Seq(Entry)
                  BY DEF AccessInit
            <3> QED BY <3>2, <3>3 DEF AccessInit, LoginIInv
      <2>2. KeyIInv
            <3>1. MaxBegun \in Nat
                  BY AccessAssumption
            <3>2. -0 .. -1 = {}
                  OBVIOUS
            <3>3. \A k \in LocalKeys : HasAccount(k) <=> k \in -created .. -1
                  BY <3>2, KeysTyped DEF AccessInit, HasAccount
            <3> QED BY <3>1, <3>3 DEF AccessInit, KeyIInv, Creating
      <2>3. MemberIInv
            BY DEF AccessInit, MemberIInv, Current, Choosing, Doing
      <2> QED BY <2>1, <2>2, <2>3 DEF AccessIInv
<1>2. AccessIInv /\ [Next]_platformVars => AccessIInv'
      <2> SUFFICES ASSUME AccessIInv, [Next]_platformVars PROVE AccessIInv'
          OBVIOUS
      <2>1. AccessNext \/ UNCHANGED accessVars
            BY DEF Next, MoveCommunity, MoveAccess, MoveInstances, MoveMonitoring, platformVars
      <2>2. CASE UNCHANGED accessVars
            <3>1. LoginIInv'
                  BY <2>2 DEF accessVars, AccessIInv, LoginIInv
            <3>2. KeyIInv'
                  BY <2>2 DEF accessVars, AccessIInv, KeyIInv, HasAccount, Creating
            <3>3. MemberIInv'
                  BY <2>2, MembersKept DEF accessVars, AccessIInv
            <3> QED BY <3>1, <3>2, <3>3 DEF AccessIInv
      <2> QED BY <2>1, <2>2, LoginStep, KeyStep, MemberStep DEF AccessIInv
<1> QED BY <1>1, <1>2, PTL DEF Spec

LEMMA AtMostOne == ASSUME NEW S, \A x, y \in S : x = y PROVE Cardinality(S) <= 1
<1>1. CASE S = {}
      BY <1>1, FS_EmptySet
<1>2. CASE S # {}
      <2>1. PICK x : x \in S
            BY <1>2
      <2>2. S = {x}
            BY <2>1
      <2>3. Cardinality(S) = 1
            BY <2>2, FS_Singleton
      <2> QED BY <2>3
<1> QED BY <1>1, <1>2

\* A request to log in opens at most one session, of the one person who approved it;
\* local accounts have keys of their own; an account has one membership.
THEOREM AccessStaysExclusive == Spec => []AccessIsExclusive
<1>1. AccessIInv => LoginOnce
      <2> SUFFICES ASSUME LoginIInv, NEW r \in Request
                   PROVE  /\ Cardinality(decided[r]) <= 1
                          /\ Cardinality(Opened(session, r)) <= 1
                          /\ \A i \in Opened(session, r) : decided[r] = {<<session[i].account, TRUE>>}
          BY DEF AccessIInv, LoginOnce, Opened
      <2>1. Sound(r, request[r], decided[r], session)
            BY DEF LoginIInv
      <2>2. \A x, y \in decided[r] : x = y
            BY <2>1 DEF Sound
      <2>3. \A i, j \in Opened(session, r) : i = j
            BY <2>1 DEF Sound
      <2>4. \A i \in Opened(session, r) : decided[r] = {<<session[i].account, TRUE>>}
            BY <2>1 DEF Sound
      <2> QED BY <2>2, <2>3, <2>4, AtMostOne
<1>2. AccessIInv => KeysAreNew
      <2> SUFFICES ASSUME KeyIInv PROVE KeysAreNew
          BY DEF AccessIInv
      <2>1. MaxBegun \in Nat /\ created \in Nat /\ created <= MaxBegun
            <3>1. MaxBegun \in Nat
                  BY AccessAssumption
            <3>2. begun \in 0 .. MaxBegun /\ created \in 0 .. begun
                  BY DEF KeyIInv
            <3> QED BY <3>1, <3>2
      <2>2. -created .. -1 \subseteq LocalKeys
            BY <2>1 DEF LocalKeys
      <2>3. {k \in LocalKeys : HasAccount(k)} = -created .. -1
            BY <2>2 DEF KeyIInv
      <2>4. -created \in Int /\ -1 \in Int
            BY <2>1
      <2>5. Cardinality(-created .. -1) = IF -created > -1 THEN 0 ELSE -1 - (-created) + 1
            BY <2>4, FS_Interval, Zenon
      <2>6. (IF -created > -1 THEN 0 ELSE -1 - (-created) + 1) = created
            BY <2>1
      <2> QED BY <2>3, <2>5, <2>6 DEF KeysAreNew
<1>3. AccessIInv => OneMembership
      <2> SUFFICES ASSUME MemberIInv, NEW k \in Key PROVE Cardinality(Current(k)) <= 1
          BY DEF AccessIInv, OneMembership
      <2>1. \A i, j \in Current(k) : i = j
            BY DEF MemberIInv
      <2> QED BY <2>1, AtMostOne
<1>4. AccessIInv => AccessIsExclusive
      BY <1>1, <1>2, <1>3 DEF AccessIsExclusive
<1> QED BY <1>4, AccessInvariant, PTL

-----------------------------------------------------------------------------
(* Reviews, tickets and risk events. *)

Review == [status : {"pending", "published", "rejected", "hidden"}, likes : Nat, reports : Nat]
TicketStatus == {"open", "pending_staff", "pending_user", "resolved", "closed"}
TicketRow == [status : TicketStatus, resolved : BOOLEAN, closed : BOOLEAN]
RiskRow == [status : {"open", "acknowledged", "resolved", "ignored"}, resolved : BOOLEAN]

ReviewTypeOK ==
    /\ review \in [Reader -> {Absent} \cup Review]
    /\ liked \subseteq Reader \X Reader
    /\ reported \subseteq Reader \X Reader

DateTypeOK ==
    /\ ticket \in [Ticket -> {Absent} \cup TicketRow]
    /\ risk \in [Risk -> RiskRow]

\* Who has a row at the review of a.
By(pairs, a) == {u \in Reader : <<a, u>> \in pairs}

ReviewIInv == ReviewTypeOK /\ CountsAgree
DateIInv == DateTypeOK /\ DatesAgree

-----------------------------------------------------------------------------

LEMMA ByFinite == \A pairs, a : IsFiniteSet(By(pairs, a)) /\ Cardinality(By(pairs, a)) \in Nat
      BY CommunityAssumption, FS_Subset, FS_CardinalityType DEF By

\* The counts of one review: r is its row, Absent or with its counters.
Counted(a, r, likes, reports) ==
    /\ r # Absent => r.likes = Cardinality(By(likes, a)) /\ r.reports = Cardinality(By(reports, a))
    /\ r = Absent => By(likes, a) = {} /\ By(reports, a) = {}

LEMMA CountsAreCounted == CountsAgree <=> \A a \in Reader : Counted(a, review[a], liked, reported)
<1>1. \A a \in Reader : (\A u \in Reader : <<a, u>> \notin liked \union reported)
                            <=> By(liked, a) = {} /\ By(reported, a) = {}
      BY DEF By
<1>2. \A a \in Reader : /\ By(liked, a) = {u \in Reader : <<a, u>> \in liked}
                        /\ By(reported, a) = {u \in Reader : <<a, u>> \in reported}
      BY DEF By
<1> QED BY <1>1, <1>2 DEF CountsAgree, Counted, Reviewed

\* A step at one review keeps all counts if it keeps that of the one.
LEMMA OneReview ==
    ASSUME ReviewIInv, NEW a \in Reader, NEW r \in {Absent} \cup Review,
           review' = [review EXCEPT ![a] = r],
           liked' \subseteq Reader \X Reader, reported' \subseteq Reader \X Reader,
           \A b \in Reader \ {a} : By(liked', b) = By(liked, b) /\ By(reported', b) = By(reported, b),
           Counted(a, r, liked', reported')
    PROVE  ReviewIInv'
<1>1. ReviewTypeOK'
      BY DEF ReviewIInv, ReviewTypeOK
<1>2. \A b \in Reader : Counted(b, review'[b], liked', reported')
      <2> SUFFICES ASSUME NEW b \in Reader PROVE Counted(b, review'[b], liked', reported')
          OBVIOUS
      <2>1. CASE b = a
            BY <2>1 DEF ReviewIInv, ReviewTypeOK
      <2>2. CASE b # a
            <3>1. review'[b] = review[b]
                  BY <2>2 DEF ReviewIInv, ReviewTypeOK
            <3>2. Counted(b, review[b], liked, reported)
                  BY CountsAreCounted DEF ReviewIInv
            <3> QED BY <2>2, <3>1, <3>2 DEF Counted
      <2> QED BY <2>1, <2>2
<1>3. CountsAgree'
      <2>1. \A b \in Reader : (\A u \in Reader : <<b, u>> \notin liked' \union reported')
                                  <=> By(liked', b) = {} /\ By(reported', b) = {}
            BY DEF By
      <2>2. \A b \in Reader : /\ By(liked', b) = {u \in Reader : <<b, u>> \in liked'}
                              /\ By(reported', b) = {u \in Reader : <<b, u>> \in reported'}
            BY DEF By
      <2> QED BY <1>2, <2>1, <2>2 DEF CountsAgree, Counted, Reviewed
<1> QED BY <1>1, <1>3 DEF ReviewIInv

\* One row more or less of one reader at one review.
LEMMA ByAdded ==
    ASSUME NEW pairs, NEW a \in Reader, NEW u \in Reader, <<a, u>> \notin pairs
    PROVE  /\ Cardinality(By(pairs \union {<<a, u>>}, a)) = Cardinality(By(pairs, a)) + 1
           /\ \A b \in Reader \ {a} : By(pairs \union {<<a, u>>}, b) = By(pairs, b)
<1>1. By(pairs \union {<<a, u>>}, a) = By(pairs, a) \cup {u} /\ u \notin By(pairs, a)
      BY DEF By
<1>2. Cardinality(By(pairs, a) \cup {u}) = Cardinality(By(pairs, a)) + 1
      BY <1>1, ByFinite, FS_AddElement
<1>3. \A b \in Reader \ {a} : By(pairs \union {<<a, u>>}, b) = By(pairs, b)
      BY DEF By
<1> QED BY <1>1, <1>2, <1>3

LEMMA ByRemoved ==
    ASSUME NEW pairs, NEW a \in Reader, NEW u \in Reader, <<a, u>> \in pairs
    PROVE  /\ Cardinality(By(pairs \ {<<a, u>>}, a)) = Cardinality(By(pairs, a)) - 1
           /\ Cardinality(By(pairs, a)) > 0
           /\ \A b \in Reader \ {a} : By(pairs \ {<<a, u>>}, b) = By(pairs, b)
<1>1. By(pairs \ {<<a, u>>}, a) = By(pairs, a) \ {u} /\ u \in By(pairs, a)
      BY DEF By
<1>2. Cardinality(By(pairs, a) \ {u}) = Cardinality(By(pairs, a)) - 1
      BY <1>1, ByFinite, FS_RemoveElement
<1>3. Cardinality(By(pairs, a)) > 0
      <2>1. Cardinality(By(pairs, a)) # 0
            BY <1>1, ByFinite, FS_EmptySet
      <2> QED BY <2>1, ByFinite
<1>4. \A b \in Reader \ {a} : By(pairs \ {<<a, u>>}, b) = By(pairs, b)
      BY DEF By
<1> QED BY <1>1, <1>2, <1>3, <1>4

-----------------------------------------------------------------------------

\* Every handler writes the counter with the row it counts.
LEMMA ReviewStep == ReviewIInv /\ CommunityNext => ReviewIInv'
<1> SUFFICES ASSUME ReviewIInv, CommunityNext PROVE ReviewIInv'
    OBVIOUS
<1> USE CommunityAssumption
<1>a. ReviewTypeOK /\ \A a \in Reader : Counted(a, review[a], liked, reported)
      BY CountsAreCounted DEF ReviewIInv
<1>b. \A a \in Reader : Reviewed(a) => review[a] \in Review
      BY <1>a DEF ReviewTypeOK, Reviewed
<1>c. Absent \notin Review
      BY DEF Review
<1>1. ASSUME UNCHANGED <<review, liked, reported>> PROVE ReviewIInv'
      BY <1>1 DEF ReviewIInv, ReviewTypeOK, CountsAgree, Reviewed
\* A review that was not there has no rows.
<1>2. ASSUME NEW a \in Reader, ~Reviewed(a), review' = [review EXCEPT ![a] = NewReview],
             UNCHANGED <<liked, reported>>
      PROVE  ReviewIInv'
      <2>1. By(liked, a) = {} /\ By(reported, a) = {}
            BY <1>a, <1>2 DEF Counted, Reviewed
      <2>2. NewReview \in Review /\ NewReview.likes = 0 /\ NewReview.reports = 0
            BY DEF NewReview, Review
      <2>3. Counted(a, NewReview, liked, reported)
            BY <1>c, <2>1, <2>2, FS_EmptySet DEF Counted
      <2> QED BY <1>a, <1>2, <2>2, <2>3, OneReview DEF ReviewTypeOK
\* A change of the status keeps the counts.
<1>3. ASSUME NEW a \in Reader, Reviewed(a), NEW status \in {"pending", "published", "rejected", "hidden"},
             review' = [review EXCEPT ![a].status = status], UNCHANGED <<liked, reported>>
      PROVE  ReviewIInv'
      <2> DEFINE r == [review[a] EXCEPT !.status = status]
      <2>1. r \in Review /\ r.likes = review[a].likes /\ r.reports = review[a].reports
            BY <1>b, <1>3 DEF Review
      <2>2. review' = [review EXCEPT ![a] = r]
            BY <1>3
      <2> HIDE DEF r
      <2>3. Counted(a, r, liked, reported)
            BY <1>a, <1>c, <1>3, <2>1 DEF Counted, Reviewed
      <2> QED BY <1>a, <1>3, <2>1, <2>2, <2>3, OneReview DEF ReviewTypeOK
<1>4. ASSUME NEW a \in Reader, CreateInserts(a) PROVE ReviewIInv'
      <2>1. CASE Reviewed(a)
            <3>1. review' = [review EXCEPT ![a] = review[a]] /\ UNCHANGED <<liked, reported>>
                  BY <1>4, <2>1 DEF CreateInserts, Inserted, Reviewed
            <3>2. review' = review
                  BY <1>a, <3>1 DEF ReviewTypeOK
            <3> QED BY <1>1, <3>1, <3>2
      <2>2. CASE ~Reviewed(a)
            BY <1>2, <1>4, <2>2 DEF CreateInserts, Inserted, Reviewed
      <2> QED BY <2>1, <2>2
<1>5. ASSUME NEW a \in Reader, CreateReview(a) PROVE ReviewIInv'
      BY <1>2, <1>5 DEF CreateReview
<1>6. ASSUME NEW a \in Reader, UpdateMine(a) PROVE ReviewIInv'
      BY <1>3, <1>6 DEF UpdateMine
<1>7. ASSUME NEW a \in Reader, NEW status \in {"published", "rejected", "hidden"}, Moderate(a, status)
      PROVE  ReviewIInv'
      BY <1>3, <1>7 DEF Moderate
<1>8. ASSUME NEW a \in Reader, DeleteMine(a) PROVE ReviewIInv'
      <2>1. /\ review' = [review EXCEPT ![a] = Absent]
            /\ liked' = {x \in liked : x[1] # a} /\ reported' = {x \in reported : x[1] # a}
            BY <1>8 DEF DeleteMine, RowsOf
      <2>2. By(liked', a) = {} /\ By(reported', a) = {}
            BY <2>1 DEF By
      <2>3. \A b \in Reader \ {a} : By(liked', b) = By(liked, b) /\ By(reported', b) = By(reported, b)
            BY <2>1 DEF By
      <2>4. liked' \subseteq Reader \X Reader /\ reported' \subseteq Reader \X Reader
            BY <1>a, <2>1 DEF ReviewTypeOK
      <2>5. Counted(a, Absent, liked', reported')
            BY <2>2 DEF Counted
      <2> QED BY <2>1, <2>3, <2>4, <2>5, OneReview
<1>9. ASSUME NEW a \in Reader, NEW u \in Reader, Report(a, u) PROVE ReviewIInv'
      <2> DEFINE r == [review[a] EXCEPT !.reports = @ + 1]
      <2>1. /\ Reviewed(a) /\ <<a, u>> \notin reported
            /\ reported' = reported \union {<<a, u>>} /\ liked' = liked
            /\ review' = [review EXCEPT ![a] = r]
            BY <1>9 DEF Report, Published
      <2>2. review[a] \in Review
            BY <1>b, <2>1
      <2>3. r \in Review /\ r.likes = review[a].likes /\ r.reports = review[a].reports + 1
            BY <2>2 DEF Review
      <2> HIDE DEF r
      <2>4. Counted(a, r, liked', reported')
            BY <1>a, <1>c, <2>1, <2>3, ByAdded DEF Counted, Reviewed
      <2>5. \A b \in Reader \ {a} : By(reported', b) = By(reported, b)
            BY <2>1, ByAdded
      <2>6. liked' \subseteq Reader \X Reader /\ reported' \subseteq Reader \X Reader
            BY <1>a, <2>1 DEF ReviewTypeOK
      <2> QED BY <2>1, <2>3, <2>4, <2>5, <2>6, OneReview
<1>10. ASSUME NEW a \in Reader, NEW u \in Reader, NEW enabled \in BOOLEAN, React(a, u, enabled)
       PROVE  ReviewIInv'
      <2> DEFINE likes == IF enabled /\ <<a, u>> \notin liked THEN review[a].likes + 1
                          ELSE IF ~enabled /\ <<a, u>> \in liked THEN Max({0, review[a].likes - 1})
                          ELSE review[a].likes
                 r == [review[a] EXCEPT !.likes = likes]
      <2>1. /\ Reviewed(a) /\ reported' = reported
            /\ liked' = IF enabled THEN liked \union {<<a, u>>} ELSE liked \ {<<a, u>>}
            /\ review' = [review EXCEPT ![a] = r]
            BY <1>10 DEF React, Published
      <2>2. review[a] \in Review /\ review[a].likes = Cardinality(By(liked, a))
            BY <1>a, <1>b, <2>1 DEF Counted, Reviewed
      <2>3. liked' \subseteq Reader \X Reader /\ reported' \subseteq Reader \X Reader
            BY <1>a, <2>1 DEF ReviewTypeOK
      <2>4. /\ likes = Cardinality(By(liked', a))
            /\ \A b \in Reader \ {a} : By(liked', b) = By(liked, b)
            <3>1. CASE enabled /\ <<a, u>> \notin liked
                  BY <2>1, <2>2, <3>1, ByAdded
            <3>2. CASE ~enabled /\ <<a, u>> \in liked
                  <4>1. \A n \in Nat : n > 0 => Max({0, n - 1}) = n - 1
                        BY DEF Max
                  <4>2. likes = review[a].likes - 1
                        BY <2>2, <3>2, <4>1, ByRemoved, ByFinite
                  <4>3. liked' = liked \ {<<a, u>>}
                        BY <2>1, <3>2
                  <4> HIDE DEF likes
                  <4> QED BY <2>2, <3>2, <4>2, <4>3, ByRemoved
            <3>3. CASE enabled <=> <<a, u>> \in liked
                  <4>1. liked' = liked
                        BY <2>1, <3>3
                  <4> QED BY <2>2, <3>3, <4>1
            <3> QED BY <3>1, <3>2, <3>3
      <2> HIDE DEF likes
      <2>5. likes \in Nat
            BY <2>4, ByFinite
      <2>6. r \in Review /\ r.likes = likes /\ r.reports = review[a].reports
            BY <2>2, <2>5 DEF Review
      <2> HIDE DEF r
      <2>7. Counted(a, r, liked', reported')
            BY <1>a, <1>c, <2>1, <2>4, <2>6 DEF Counted, Reviewed
      <2> QED BY <2>1, <2>3, <2>4, <2>6, <2>7, OneReview
<1>11. ASSUME NEW a \in Reader, CreateLooks(a) PROVE ReviewIInv'
      BY <1>1, <1>11 DEF CreateLooks
<1>12. ASSUME NEW t \in Ticket,
              \/ CreateTicket(t) \/ ReplyMyTicket(t)
              \/ \E u \in Reader, internal \in BOOLEAN : AdminTicketReply(t, u, internal)
              \/ \E status \in TicketStatus : UpdateTicket(t, status)
       PROVE  ReviewIInv'
      BY <1>1, <1>12 DEF CreateTicket, ReplyMyTicket, AdminTicketReply, UpdateTicket
<1>13. ASSUME \/ \E r \in Risk, status \in {"open", "acknowledged", "resolved", "ignored"} : UpdateRiskEvent(r, status)
              \/ \E u \in Reader : MarkRead(u) \/ MarkAllRead(u) \/ \E on \in SUBSET Channels : UpdatePreference(u, on)
              \/ \E U \in SUBSET Reader : Broadcast(U)
       PROVE  ReviewIInv'
      BY <1>1, <1>13 DEF UpdateRiskEvent, MarkRead, MarkAllRead, UpdatePreference, Broadcast
<1> QED BY <1>4, <1>5, <1>6, <1>7, <1>8, <1>9, <1>10, <1>11, <1>12, <1>13 DEF CommunityNext, TicketStatus

\* Whoever changes a status writes the dates that go with it.
LEMMA DateStep == DateIInv /\ CommunityNext => DateIInv'
<1> SUFFICES ASSUME DateIInv, CommunityNext PROVE DateIInv'
    OBVIOUS
<1>a. DateTypeOK /\ DatesAgree
      BY DEF DateIInv
<1>1. ASSUME UNCHANGED <<ticket, risk>> PROVE DateIInv'
      BY <1>1 DEF DateIInv, DateTypeOK, DatesAgree
<1>2. ASSUME NEW t \in Ticket, NEW row \in TicketRow, ticket' = [ticket EXCEPT ![t] = row], risk' = risk,
             row.resolved <=> row.status = "resolved", row.closed <=> row.status = "closed"
      PROVE  DateIInv'
      <2>1. DateTypeOK'
            BY <1>a, <1>2 DEF DateTypeOK
      <2>2. \A v \in Ticket : ticket'[v] = IF v = t THEN row ELSE ticket[v]
            BY <1>a, <1>2 DEF DateTypeOK
      <2>3. DatesAgree'
            BY <1>a, <1>2, <2>2 DEF DatesAgree
      <2> QED BY <2>1, <2>3 DEF DateIInv
<1>3. ASSUME NEW t \in Ticket, CanReply(t), NEW status \in {"pending_staff", "pending_user"},
             ticket' = [ticket EXCEPT ![t] = Replied(@, status)], risk' = risk
      PROVE  DateIInv'
      <2>1. ticket[t] \in TicketRow /\ ~ticket[t].closed
            BY <1>a, <1>3 DEF CanReply, DateTypeOK, DatesAgree
      <2> DEFINE row == [ticket[t] EXCEPT !.status = status, !.resolved = FALSE]
      <2>2. row \in TicketRow /\ row.status = status /\ ~row.resolved /\ ~row.closed
            BY <2>1 DEF TicketRow, TicketStatus
      <2>3. ticket' = [ticket EXCEPT ![t] = row]
            BY <1>3 DEF Replied
      <2> HIDE DEF row
      <2> QED BY <1>2, <1>3, <2>2, <2>3
<1>4. ASSUME NEW t \in Ticket, CreateTicket(t) PROVE DateIInv'
      <2>1. /\ NewTicket \in TicketRow /\ NewTicket.status = "open"
            /\ ~NewTicket.resolved /\ ~NewTicket.closed
            BY DEF NewTicket, TicketRow, TicketStatus
      <2> QED BY <1>2, <1>4, <2>1 DEF CreateTicket
<1>5. ASSUME NEW t \in Ticket, ReplyMyTicket(t) PROVE DateIInv'
      BY <1>3, <1>5 DEF ReplyMyTicket
<1>6. ASSUME NEW t \in Ticket, NEW u \in Reader, NEW internal \in BOOLEAN, AdminTicketReply(t, u, internal)
      PROVE  DateIInv'
      BY <1>1, <1>3, <1>6 DEF AdminTicketReply
<1>7. ASSUME NEW t \in Ticket, NEW status \in TicketStatus, UpdateTicket(t, status) PROVE DateIInv'
      <2> DEFINE row == [status |-> status, resolved |-> (status = "resolved"), closed |-> (status = "closed")]
      <2>1. row \in TicketRow
            BY DEF TicketRow
      <2>2. row.status = status /\ row.resolved = (status = "resolved") /\ row.closed = (status = "closed")
            OBVIOUS
      <2>3. ticket' = [ticket EXCEPT ![t] = row] /\ risk' = risk
            BY <1>7 DEF UpdateTicket
      <2> HIDE DEF row
      <2> QED BY <1>2, <2>1, <2>2, <2>3
<1>8. ASSUME NEW r \in Risk, NEW status \in {"open", "acknowledged", "resolved", "ignored"},
             UpdateRiskEvent(r, status)
      PROVE  DateIInv'
      <2> DEFINE row == [status |-> status, resolved |-> status \in {"resolved", "ignored"}]
      <2>1. row \in RiskRow
            BY DEF RiskRow
      <2>2. row.status = status /\ row.resolved = (status \in {"resolved", "ignored"})
            OBVIOUS
      <2>3. risk' = [risk EXCEPT ![r] = row] /\ ticket' = ticket
            BY <1>8 DEF UpdateRiskEvent
      <2> HIDE DEF row
      <2>4. DateTypeOK'
            BY <1>a, <2>1, <2>3 DEF DateTypeOK
      <2>5. \A q \in Risk : risk'[q] = IF q = r THEN row ELSE risk[q]
            BY <1>a, <2>3 DEF DateTypeOK
      <2>6. DatesAgree'
            BY <1>a, <2>2, <2>3, <2>5 DEF DatesAgree
      <2> QED BY <2>4, <2>6 DEF DateIInv
<1>9. ASSUME NEW a \in Reader,
             \/ CreateLooks(a) \/ CreateInserts(a) \/ CreateReview(a) \/ UpdateMine(a) \/ DeleteMine(a)
             \/ \E status \in {"published", "rejected", "hidden"} : Moderate(a, status)
             \/ \E u \in Reader : Report(a, u) \/ \E enabled \in BOOLEAN : React(a, u, enabled)
      PROVE  DateIInv'
      BY <1>1, <1>9 DEF CreateLooks, CreateInserts, CreateReview, UpdateMine, DeleteMine, Moderate, Report, React
<1>10. ASSUME \/ \E u \in Reader : MarkRead(u) \/ MarkAllRead(u) \/ \E on \in SUBSET Channels : UpdatePreference(u, on)
              \/ \E U \in SUBSET Reader : Broadcast(U)
       PROVE  DateIInv'
      BY <1>1, <1>10 DEF MarkRead, MarkAllRead, UpdatePreference, Broadcast
<1> QED BY <1>4, <1>5, <1>6, <1>7, <1>8, <1>9, <1>10 DEF CommunityNext, TicketStatus

-----------------------------------------------------------------------------

\* The parts of LegacyPlatform share no variable: a step is one of the community or
\* leaves it alone.
LEMMA CommunityInvariant == Spec => [](ReviewIInv /\ DateIInv)
<1>1. Init => ReviewIInv /\ DateIInv
      BY DEF Init, CommunityInit, ReviewIInv, ReviewTypeOK, CountsAgree, Reviewed,
             DateIInv, DateTypeOK, DatesAgree, RiskRow
<1>2. ReviewIInv /\ DateIInv /\ [Next]_platformVars => (ReviewIInv /\ DateIInv)'
      <2> SUFFICES ASSUME ReviewIInv, DateIInv, [Next]_platformVars PROVE (ReviewIInv /\ DateIInv)'
          OBVIOUS
      <2>1. CommunityNext \/ UNCHANGED communityVars
            BY DEF Next, MoveCommunity, MoveAccess, MoveInstances, MoveMonitoring, platformVars
      <2>2. UNCHANGED communityVars => (ReviewIInv /\ DateIInv)'
            BY DEF communityVars, ReviewIInv, ReviewTypeOK, CountsAgree, Reviewed,
                   DateIInv, DateTypeOK, DatesAgree
      <2> QED BY <2>1, <2>2, ReviewStep, DateStep
<1> QED BY <1>1, <1>2, PTL DEF Spec

\* Counters are the rows they count, dates what the status says.
THEOREM CountersAgree == Spec => []CommunityAgrees
<1>1. ReviewIInv /\ DateIInv => CommunityAgrees
      BY DEF ReviewIInv, DateIInv, CommunityAgrees
<1> QED BY <1>1, CommunityInvariant, PTL

-----------------------------------------------------------------------------
(* Monitoring and alerts. *)

Optional(S) == S \cup {Unseen}
Probe == [healthy : BOOLEAN, at : Nat]
RuleRow == [enabled : BOOLEAN, alert : BOOLEAN, revision : Nat]
Alert == [status : {"pending", "failed", "sent"}, attempts : Nat, told : Nat]
Snapshot == [Service -> Optional(Probe)]
Alerts == SUBSET (Rule \X BOOLEAN)
Diagnosis == [at : Nat, found : SUBSET Service, read : Optional(Snapshot \cup Alerts),
              phase : {"probed", "read", "persisted", "due"}]
Telling == [alert : Nat, out : BOOLEAN]

MonitoringTypeOK ==
    /\ probed \in Snapshot
    /\ failures \in [Service -> Nat]
    /\ rule \in [Rule -> Optional(RuleRow)]
    /\ delivery \in Seq(Alert)
    /\ diagnosis \in [Worker -> Optional(Diagnosis)]
    /\ telling \in [Worker -> Optional(Telling)]
    /\ slots \in [diagnoses : Nat, edits : Nat]

\* What a diagnosis keeps between its steps is of the kind its phase says, and an outage
\* it has read of was reported before.
Informed(d) ==
    d # Unseen =>
        /\ d.phase = "read" => d.read \in Snapshot
        /\ d.phase = "due" => d.read \in Alerts
        /\ d.phase = "read" =>
             \A x \in Service : d.read[x] # Unseen /\ ~d.read[x].healthy => failures[x] > 0

DiagnosesInformed == \A w \in Worker : Informed(diagnosis[w])

\* A worker tells of an alert there is, and has told of it when its message is out.
TellingSound ==
    \A w \in Worker : telling[w] # Unseen =>
        /\ telling[w].alert \in DOMAIN delivery
        /\ telling[w].out => delivery[telling[w].alert].told > 0

\* Who has counted an attempt at alert n and not sent its message yet.
Unsent(n) == {w \in Worker : telling[w] # Unseen /\ telling[w].alert = n /\ ~telling[w].out}

AttemptsCovered ==
    \A n \in DOMAIN delivery :
        /\ delivery[n].status = "sent" => delivery[n].told > 0
        /\ delivery[n].told + Cardinality(Unsent(n)) <= delivery[n].attempts

MonitoringIInv ==
    /\ MonitoringTypeOK
    /\ DiagnosesInformed /\ ServicesReported
    /\ TellingSound /\ AttemptsCovered

-----------------------------------------------------------------------------

\* Nothing is seen and nothing sent at first.
LEMMA MonitoringInitIInv == MonitoringInit => MonitoringIInv
<1> SUFFICES ASSUME MonitoringInit PROVE MonitoringIInv
    OBVIOUS
<1>1. MonitoringTypeOK
      BY DEF MonitoringInit, MonitoringTypeOK, Optional, Snapshot
<1>2. DiagnosesInformed /\ ServicesReported /\ TellingSound /\ AttemptsCovered
      BY DEF MonitoringInit, DiagnosesInformed, Informed, ServicesReported, TellingSound,
             AttemptsCovered
<1> QED BY <1>1, <1>2 DEF MonitoringIInv

\* The set of deliveries queued is a sequence of pending ones.
LEMMA QueuedPending ==
    ASSUME NEW alerts \in Alerts
    PROVE  /\ Queued(alerts) \in Seq(Alert)
           /\ \A n \in DOMAIN Queued(alerts) :
                Queued(alerts)[n] = [status |-> "pending", attempts |-> 0, told |-> 0]
<1>1. IsFiniteSet(Rule \X BOOLEAN)
      <2>1. IsFiniteSet({TRUE} \cup {FALSE})
            BY FS_Singleton, FS_AddElement
      <2>2. BOOLEAN = {TRUE} \cup {FALSE}
            OBVIOUS
      <2>3. IsFiniteSet(BOOLEAN)
            BY <2>1, <2>2
      <2> QED BY <2>3, MonitoringAssumption, FS_Product
<1>2. IsFiniteSet(alerts)
      BY <1>1, FS_Subset DEF Alerts
<1>3. Cardinality(alerts) \in Nat /\ Cardinality(Recipient) \in Nat
      BY <1>2, MonitoringAssumption, FS_CardinalityType
<1>4. Cardinality(alerts) * Cardinality(Recipient) \in Nat
      BY <1>3
<1>5. [status |-> "pending", attempts |-> 0, told |-> 0] \in Alert
      BY DEF Alert
<1> QED BY <1>4, <1>5 DEF Queued

\* A delivery stays one when an attempt or a message is counted or an outcome noted.
LEMMA AlertKept ==
    ASSUME NEW d \in Alert
    PROVE  /\ Attempted(d) \in Alert
           /\ [d EXCEPT !.told = @ + 1] \in Alert
           /\ \A outcome \in {"failed", "sent"} : [d EXCEPT !.status = outcome] \in Alert
<1>1. d.attempts + 1 \in Nat /\ d.told + 1 \in Nat
      BY DEF Alert
<1>2. [d EXCEPT !.attempts = d.attempts + 1] \in Alert
      BY <1>1 DEF Alert
<1>3. [d EXCEPT !.told = d.told + 1] \in Alert
      BY <1>1 DEF Alert
<1>4. \A outcome \in {"failed", "sent"} : [d EXCEPT !.status = outcome] \in Alert
      BY DEF Alert
<1> QED BY <1>2, <1>3, <1>4 DEF Attempted

-----------------------------------------------------------------------------

\* Rows keep their types in every step.
LEMMA MonitoringTypeStep ==
    MonitoringTypeOK /\ DiagnosesInformed /\ TellingSound /\ MonitoringNext => MonitoringTypeOK'
<1> SUFFICES ASSUME MonitoringTypeOK, DiagnosesInformed, TellingSound, MonitoringNext
             PROVE  MonitoringTypeOK'
    OBVIOUS
<1> USE DEF MonitoringTypeOK
<1>1. ASSUME NEW w \in Worker, Diagnose(w) PROVE MonitoringTypeOK'
      <2>1. PICK found \in SUBSET Service :
               diagnosis' = [diagnosis EXCEPT ![w] =
                 [at |-> slots.diagnoses + 1, found |-> found, read |-> Unseen, phase |-> "probed"]]
            BY <1>1 DEF Diagnose, Findings
      <2> DEFINE d == [at |-> slots.diagnoses + 1, found |-> found, read |-> Unseen, phase |-> "probed"]
      <2>2. d \in Diagnosis
            BY DEF Diagnosis, Optional
      <2>3. diagnosis' \in [Worker -> Optional(Diagnosis)]
            <3>1. diagnosis' = [diagnosis EXCEPT ![w] = d]
                  BY <2>1
            <3> HIDE DEF d
            <3> QED BY <3>1, <2>2 DEF Optional
      <2>4. slots' \in [diagnoses : Nat, edits : Nat]
            <3>1. slots' = [slots EXCEPT !.diagnoses = slots.diagnoses + 1]
                  BY <1>1 DEF Diagnose
            <3>2. slots.diagnoses + 1 \in Nat
                  OBVIOUS
            <3> QED BY <3>1, <3>2
      <2> QED BY <1>1, <2>3, <2>4 DEF Diagnose
<1>2. ASSUME NEW w \in Worker, PersistReads(w) PROVE MonitoringTypeOK'
      <2> DEFINE d == [diagnosis[w] EXCEPT !.phase = "read", !.read = probed]
      <2>1. d \in Diagnosis
            BY <1>2 DEF PersistReads, Diagnosis, Optional
      <2>2. diagnosis' = [diagnosis EXCEPT ![w] = d]
            BY <1>2 DEF PersistReads
      <2>3. diagnosis' \in [Worker -> Optional(Diagnosis)]
            <3> HIDE DEF d
            <3> QED BY <2>1, <2>2 DEF Optional
      <2> QED BY <1>2, <2>3 DEF PersistReads
<1>3. ASSUME NEW w \in Worker, Persist(w) PROVE MonitoringTypeOK'
      <2>1. diagnosis[w] \in Diagnosis
            BY <1>3 DEF Persist, Optional
      <2>2. probed' \in Snapshot
            <3>1. \A x \in Service : [healthy |-> x \in diagnosis[w].found, at |-> diagnosis[w].at] \in Probe
                  BY <2>1 DEF Diagnosis, Probe
            <3> QED BY <1>3, <3>1 DEF Persist, Snapshot, Optional
      <2>3. failures' \in [Service -> Nat]
            BY <1>3 DEF Persist
      <2> DEFINE d == [diagnosis[w] EXCEPT !.phase = "persisted", !.read = Unseen]
      <2>4. d \in Diagnosis
            BY <2>1 DEF Diagnosis, Optional
      <2>5. diagnosis' = [diagnosis EXCEPT ![w] = d]
            BY <1>3 DEF Persist
      <2>6. diagnosis' \in [Worker -> Optional(Diagnosis)]
            <3> HIDE DEF d
            <3> QED BY <2>4, <2>5 DEF Optional
      <2> QED BY <1>3, <2>2, <2>3, <2>6 DEF Persist
<1>4. ASSUME NEW w \in Worker, FallbackAlert(w) PROVE MonitoringTypeOK'
      BY <1>4 DEF FallbackAlert, Optional
<1>5. ASSUME NEW w \in Worker, EvaluateReads(w) PROVE MonitoringTypeOK'
      <2> DEFINE due == {<<r, rule[r].alert>> : r \in Due}
                 d == [diagnosis[w] EXCEPT !.phase = "due", !.read = due]
      <2>1. due \in Alerts
            BY DEF Alerts, Due, Optional, RuleRow
      <2>2. d \in Diagnosis
            <3> HIDE DEF due
            <3> QED BY <1>5, <2>1 DEF EvaluateReads, Diagnosis, Optional
      <2>3. diagnosis' = [diagnosis EXCEPT ![w] = d]
            BY <1>5 DEF EvaluateReads
      <2>4. diagnosis' \in [Worker -> Optional(Diagnosis)]
            <3> HIDE DEF d
            <3> QED BY <2>2, <2>3 DEF Optional
      <2> QED BY <1>5, <2>4 DEF EvaluateReads
<1>6. ASSUME NEW w \in Worker, Evaluate(w) PROVE MonitoringTypeOK'
      <2>1. diagnosis[w].read \in Alerts
            BY <1>6 DEF Evaluate, DiagnosesInformed, Informed
      <2>2. {t \in diagnosis[w].read : t[2]} \in Alerts
            BY <2>1 DEF Alerts
      <2>3. delivery' \in Seq(Alert)
            BY <1>6, <2>2, QueuedPending DEF Evaluate
      <2>4. diagnosis' \in [Worker -> Optional(Diagnosis)]
            BY <1>6 DEF Evaluate, Optional
      <2> QED BY <1>6, <2>3, <2>4 DEF Evaluate
<1>7. ASSUME NEW w \in Worker, NEW n \in DOMAIN delivery, Deliver(w, n) PROVE MonitoringTypeOK'
      <2>0. delivery[n] \in Alert
            OBVIOUS
      <2>1. Attempted(delivery[n]) \in Alert
            BY <2>0, AlertKept
      <2>2. delivery' \in Seq(Alert)
            BY <1>7, <2>1 DEF Deliver
      <2>3. [alert |-> n, out |-> FALSE] \in Telling
            BY DEF Telling
      <2>4. telling' \in [Worker -> Optional(Telling)]
            BY <1>7, <2>3 DEF Deliver, Optional
      <2> QED BY <1>7, <2>2, <2>4 DEF Deliver
<1>8. ASSUME NEW w \in Worker, SendMessage(w) PROVE MonitoringTypeOK'
      <2> DEFINE n == telling[w].alert
      <2>1. n \in DOMAIN delivery /\ telling[w] \in Telling
            BY <1>8 DEF SendMessage, TellingSound, Optional
      <2>2. [delivery[n] EXCEPT !.told = @ + 1] \in Alert
            <3> HIDE DEF n
            <3>1. delivery[n] \in Alert
                  BY <2>1
            <3> QED BY <3>1, AlertKept
      <2>3. delivery' = [delivery EXCEPT ![n] = [delivery[n] EXCEPT !.told = @ + 1]]
            BY <1>8 DEF SendMessage
      <2>4. delivery' \in Seq(Alert)
            <3> HIDE DEF n
            <3> QED BY <2>1, <2>2, <2>3
      <2>5. [telling[w] EXCEPT !.out = TRUE] \in Telling
            BY <2>1 DEF Telling
      <2>6. telling' \in [Worker -> Optional(Telling)]
            BY <1>8, <2>5 DEF SendMessage, Optional
      <2> QED BY <1>8, <2>4, <2>6 DEF SendMessage
<1>9. ASSUME NEW w \in Worker, NEW outcome \in {"failed", "sent"}, telling[w] # Unseen,
             delivery' = [delivery EXCEPT ![telling[w].alert].status = outcome],
             telling' = [telling EXCEPT ![w] = Unseen],
             UNCHANGED <<probed, failures, rule, diagnosis, slots>>
      PROVE  MonitoringTypeOK'
      <2> DEFINE n == telling[w].alert
      <2>1. n \in DOMAIN delivery
            BY <1>9 DEF TellingSound
      <2>2. [delivery[n] EXCEPT !.status = outcome] \in Alert
            <3> HIDE DEF n
            <3>1. delivery[n] \in Alert
                  BY <2>1
            <3> QED BY <3>1, <1>9, AlertKept
      <2>3. delivery' = [delivery EXCEPT ![n] = [delivery[n] EXCEPT !.status = outcome]]
            BY <1>9
      <2>4. delivery' \in Seq(Alert)
            <3> HIDE DEF n
            <3> QED BY <2>1, <2>2, <2>3
      <2>5. telling' \in [Worker -> Optional(Telling)]
            BY <1>9 DEF Optional
      <2> QED BY <1>9, <2>4, <2>5
<1>10. ASSUME NEW w \in Worker, DeliverFails(w) PROVE MonitoringTypeOK'
      BY <1>9, <1>10 DEF DeliverFails
<1>11. ASSUME NEW w \in Worker, Delivered(w) PROVE MonitoringTypeOK'
      BY <1>9, <1>11 DEF Delivered
<1>12. ASSUME NEW w \in Worker, WorkerStops(w) PROVE MonitoringTypeOK'
      BY <1>12 DEF WorkerStops, Optional
<1>13. ASSUME NEW r \in Rule, WindowEnds(r) \/ CooldownEnds(r) PROVE MonitoringTypeOK'
      BY <1>13 DEF WindowEnds, CooldownEnds
<1>14. ASSUME NEW r \in Rule, NEW revision \in Nat, NEW enabled \in BOOLEAN, NEW alert \in BOOLEAN,
              rule' = [rule EXCEPT ![r] = [enabled |-> enabled, alert |-> alert, revision |-> revision]],
              Revises, UNCHANGED <<probed, failures, delivery, diagnosis, telling>>
       PROVE  MonitoringTypeOK'
      <2>1. [enabled |-> enabled, alert |-> alert, revision |-> revision] \in RuleRow
            BY DEF RuleRow
      <2>2. rule' \in [Rule -> Optional(RuleRow)]
            BY <1>14, <2>1 DEF Optional
      <2>3. slots' \in [diagnoses : Nat, edits : Nat]
            BY <1>14 DEF Revises
      <2> QED BY <1>14, <2>2, <2>3
<1>15. ASSUME NEW r \in Rule, CreateRule(r) PROVE MonitoringTypeOK'
      BY <1>14, <1>15 DEF CreateRule
<1>16. ASSUME NEW r \in Rule, NEW seen \in 1..MaxRevised, UpdateRule(r, seen) PROVE MonitoringTypeOK'
      <2>1. seen + 1 \in Nat
            BY MonitoringAssumption
      <2> QED BY <1>14, <1>16, <2>1 DEF UpdateRule
<1> QED BY <1>1, <1>2, <1>3, <1>4, <1>5, <1>6, <1>7, <1>8, <1>10, <1>11, <1>12, <1>13, <1>15, <1>16
        DEF MonitoringNext

-----------------------------------------------------------------------------
\* An outage in service_probes has been reported, and so has one that a diagnosis has
\* read there: failures are only ever added.
LEMMA ReportedStep ==
    /\ MonitoringTypeOK /\ DiagnosesInformed /\ ServicesReported /\ MonitoringNext
    => DiagnosesInformed' /\ ServicesReported'
<1> SUFFICES ASSUME MonitoringTypeOK, DiagnosesInformed, ServicesReported, MonitoringNext
             PROVE  DiagnosesInformed' /\ ServicesReported'
    OBVIOUS
<1> USE DEF MonitoringTypeOK
<1>1. ASSUME NEW w \in Worker, NEW d, diagnosis' = [diagnosis EXCEPT ![w] = d],
             UNCHANGED <<probed, failures>>, Informed(d)
      PROVE  DiagnosesInformed' /\ ServicesReported'
      <2>1. \A v \in Worker : diagnosis'[v] = IF v = w THEN d ELSE diagnosis[v]
            BY <1>1
      <2>2. \A v \in Worker : Informed(diagnosis'[v])
            BY <2>1, <1>1 DEF DiagnosesInformed
      <2>3. DiagnosesInformed'
            BY <2>2, <1>1 DEF DiagnosesInformed, Informed
      <2> QED BY <1>1, <2>3 DEF ServicesReported
<1>2. ASSUME UNCHANGED <<probed, failures, diagnosis>>
      PROVE  DiagnosesInformed' /\ ServicesReported'
      BY <1>2 DEF DiagnosesInformed, Informed, ServicesReported
<1>3. Informed(Unseen)
      BY DEF Informed
<1>4. ASSUME NEW w \in Worker, Diagnose(w) PROVE DiagnosesInformed' /\ ServicesReported'
      <2>1. PICK found \in SUBSET Service :
               diagnosis' = [diagnosis EXCEPT ![w] =
                 [at |-> slots.diagnoses + 1, found |-> found, read |-> Unseen, phase |-> "probed"]]
            BY <1>4 DEF Diagnose, Findings
      <2>2. Informed([at |-> slots.diagnoses + 1, found |-> found, read |-> Unseen, phase |-> "probed"])
            BY DEF Informed
      <2>3. UNCHANGED <<probed, failures>>
            BY <1>4 DEF Diagnose
      <2> QED BY <1>1, <2>1, <2>2, <2>3
<1>5. ASSUME NEW w \in Worker, PersistReads(w) PROVE DiagnosesInformed' /\ ServicesReported'
      <2> DEFINE d == [diagnosis[w] EXCEPT !.phase = "read", !.read = probed]
      <2>1. diagnosis[w] \in Diagnosis
            BY <1>5 DEF PersistReads, Optional
      <2>2. d.phase = "read" /\ d.read = probed
            BY <2>1 DEF Diagnosis
      <2>3. Informed(d)
            <3> HIDE DEF d
            <3> QED BY <2>2 DEF Informed, ServicesReported
      <2>4. diagnosis' = [diagnosis EXCEPT ![w] = d] /\ UNCHANGED <<probed, failures>>
            BY <1>5 DEF PersistReads
      <2> QED BY <1>1, <2>3, <2>4
<1>6. ASSUME NEW w \in Worker, Persist(w) PROVE DiagnosesInformed' /\ ServicesReported'
      <2> DEFINE d == diagnosis[w]
                 failed == {x \in Service \ d.found : NotDown(d.read[x])}
      <2>1. d \in Diagnosis /\ d.phase = "read" /\ d # Unseen
            BY <1>6 DEF Persist, Optional
      <2>2. /\ d.read \in Snapshot
            /\ \A x \in Service : d.read[x] # Unseen /\ ~d.read[x].healthy => failures[x] > 0
            BY <2>1 DEF DiagnosesInformed, Informed
      <2>3. \A x \in Service : failures'[x] = IF x \in failed THEN failures[x] + 1 ELSE failures[x]
            BY <1>6 DEF Persist
      <2>4. \A x \in Service : failures'[x] >= failures[x] /\ failures[x] \in Nat /\ failures'[x] \in Nat
            BY <2>3
      <2>5. \A x \in Service : x \notin d.found => failures'[x] > 0
            BY <2>1, <2>2, <2>3 DEF NotDown, Snapshot, Optional, Probe
      <2>6. \A x \in Service :
               probed'[x] = IF probed[x] # Unseen /\ probed[x].at > d.at THEN probed[x]
                            ELSE [healthy |-> x \in d.found, at |-> d.at]
            BY <1>6 DEF Persist
      <2>7. ServicesReported'
            <3> HIDE DEF d, failed
            <3>1. ASSUME NEW x \in Service, probed'[x] # Unseen, ~probed'[x].healthy
                  PROVE  failures'[x] > 0
                  <4>1. CASE probed[x] # Unseen /\ probed[x].at > d.at
                        <5>1. probed'[x] = probed[x]
                              BY <4>1, <2>6
                        <5>2. failures[x] > 0
                              BY <3>1, <4>1, <5>1 DEF ServicesReported
                        <5> QED BY <5>2, <2>4
                  <4>2. CASE ~(probed[x] # Unseen /\ probed[x].at > d.at)
                        <5>1. probed'[x] = [healthy |-> x \in d.found, at |-> d.at]
                              BY <4>2, <2>6
                        <5>2. x \notin d.found
                              <6>1. [healthy |-> x \in d.found, at |-> d.at].healthy = (x \in d.found)
                                    OBVIOUS
                              <6>2. probed'[x].healthy = (x \in d.found)
                                    BY <5>1, <6>1
                              <6> QED BY <3>1, <6>2, Zenon
                        <5> QED BY <5>2, <2>5
                  <4> QED BY <4>1, <4>2
            <3> QED BY <3>1 DEF ServicesReported
      <2>8. diagnosis'[w].phase = "persisted"
            BY <1>6, <2>1 DEF Persist, Diagnosis
      <2>9. \A v \in Worker : v # w => diagnosis'[v] = diagnosis[v]
            BY <1>6 DEF Persist
      <2>10. DiagnosesInformed'
            <3>1. ASSUME NEW v \in Worker PROVE Informed(diagnosis[v])'
                  <4>1. CASE v = w
                        BY <4>1, <2>8 DEF Informed
                  <4>2. CASE v # w
                        <5>1. diagnosis'[v] = diagnosis[v] /\ Informed(diagnosis[v])
                              BY <4>2, <2>9 DEF DiagnosesInformed
                        <5> QED BY <5>1, <2>4 DEF Informed
                  <4> QED BY <4>1, <4>2
            <3> QED BY <3>1 DEF DiagnosesInformed
      <2> QED BY <2>7, <2>10
<1>7. ASSUME NEW w \in Worker, EvaluateReads(w) PROVE DiagnosesInformed' /\ ServicesReported'
      <2> DEFINE due == {<<r, rule[r].alert>> : r \in Due}
                 d == [diagnosis[w] EXCEPT !.phase = "due", !.read = due]
      <2>1. due \in Alerts
            BY DEF Alerts, Due, Optional, RuleRow
      <2>2. diagnosis[w] \in Diagnosis
            BY <1>7 DEF EvaluateReads, Optional
      <2>3. Informed(d)
            <3> HIDE DEF due
            <3> QED BY <2>1, <2>2 DEF Diagnosis, Informed
      <2>4. diagnosis' = [diagnosis EXCEPT ![w] = d] /\ UNCHANGED <<probed, failures>>
            BY <1>7 DEF EvaluateReads
      <2> HIDE DEF d
      <2> QED BY <1>1, <2>3, <2>4
<1>8. ASSUME NEW w \in Worker, FallbackAlert(w) \/ Evaluate(w) \/ WorkerStops(w)
      PROVE  DiagnosesInformed' /\ ServicesReported'
      BY <1>1, <1>3, <1>8 DEF FallbackAlert, Evaluate, WorkerStops
<1>9. ASSUME NEW w \in Worker,
             \/ SendMessage(w) \/ DeliverFails(w) \/ Delivered(w)
             \/ \E n \in DOMAIN delivery : Deliver(w, n)
      PROVE  DiagnosesInformed' /\ ServicesReported'
      BY <1>2, <1>9 DEF SendMessage, DeliverFails, Delivered, Deliver
<1>10. ASSUME NEW r \in Rule,
              \/ WindowEnds(r) \/ CooldownEnds(r) \/ CreateRule(r)
              \/ \E seen \in 1..MaxRevised : UpdateRule(r, seen)
       PROVE  DiagnosesInformed' /\ ServicesReported'
      BY <1>2, <1>10 DEF WindowEnds, CooldownEnds, CreateRule, UpdateRule
<1> QED BY <1>4, <1>5, <1>6, <1>7, <1>8, <1>9, <1>10 DEF MonitoringNext

-----------------------------------------------------------------------------
\* An attempt is counted before its message is sent, and a message is counted by the one
\* that sent it, whoever else is at the same alert.
LEMMA DeliveredStep ==
    /\ MonitoringTypeOK /\ DiagnosesInformed /\ TellingSound /\ AttemptsCovered /\ MonitoringNext
    => TellingSound' /\ AttemptsCovered'
<1> SUFFICES ASSUME MonitoringTypeOK, DiagnosesInformed, TellingSound, AttemptsCovered, MonitoringNext
             PROVE  TellingSound' /\ AttemptsCovered'
    OBVIOUS
<1> USE DEF MonitoringTypeOK
<1>0. \A n : IsFiniteSet(Unsent(n)) /\ Cardinality(Unsent(n)) \in Nat
      BY MonitoringAssumption, FS_Subset, FS_CardinalityType DEF Unsent
<1>1. ASSUME UNCHANGED <<delivery, telling>> PROVE TellingSound' /\ AttemptsCovered'
      <2>1. \A n : Unsent(n)' = Unsent(n)
            BY <1>1 DEF Unsent
      <2> QED BY <1>1, <2>1 DEF TellingSound, AttemptsCovered
<1>2. ASSUME NEW w \in Worker, Evaluate(w) PROVE TellingSound' /\ AttemptsCovered'
      <2> DEFINE new == Queued({t \in diagnosis[w].read : t[2]})
      <2>1. diagnosis[w].read \in Alerts
            BY <1>2 DEF Evaluate, DiagnosesInformed, Informed
      <2>2. {t \in diagnosis[w].read : t[2]} \in Alerts
            BY <2>1 DEF Alerts
      <2>3. /\ new \in Seq(Alert)
            /\ \A n \in DOMAIN new : new[n] = [status |-> "pending", attempts |-> 0, told |-> 0]
            BY <2>2, QueuedPending
      <2>4. delivery' = delivery \o new /\ telling' = telling
            BY <1>2 DEF Evaluate
      <2> HIDE DEF new
      <2>5. /\ DOMAIN delivery \subseteq DOMAIN delivery'
            /\ \A n \in DOMAIN delivery : delivery'[n] = delivery[n]
            /\ \A n \in DOMAIN delivery' \ DOMAIN delivery :
                 delivery'[n] = [status |-> "pending", attempts |-> 0, told |-> 0]
            BY <2>3, <2>4
      <2>6. \A n : Unsent(n)' = Unsent(n)
            BY <2>4 DEF Unsent
      <2>7. \A n \in DOMAIN delivery' \ DOMAIN delivery : Unsent(n) = {}
            BY DEF Unsent, TellingSound
      <2>8. TellingSound'
            BY <2>4, <2>5 DEF TellingSound
      <2>9. AttemptsCovered'
            <3>1. \A n \in DOMAIN delivery : Cardinality(Unsent(n)') = Cardinality(Unsent(n))
                  BY <2>6
            <3>2. \A n \in DOMAIN delivery' \ DOMAIN delivery : Cardinality(Unsent(n)') = 0
                  BY <2>6, <2>7, FS_EmptySet
            <3> QED BY <2>5, <3>1, <3>2 DEF AttemptsCovered
      <2> QED BY <2>8, <2>9
<1>3. ASSUME NEW w \in Worker, NEW n \in DOMAIN delivery, Deliver(w, n)
      PROVE  TellingSound' /\ AttemptsCovered'
      <2>1. /\ telling[w] = Unseen /\ delivery[n].status # "sent"
            /\ delivery' = [delivery EXCEPT ![n] = Attempted(delivery[n])]
            /\ telling' = [telling EXCEPT ![w] = [alert |-> n, out |-> FALSE]]
            BY <1>3 DEF Deliver, Free
      <2>2. /\ DOMAIN delivery' = DOMAIN delivery
            /\ \A m \in DOMAIN delivery : m # n => delivery'[m] = delivery[m]
            /\ delivery'[n] = Attempted(delivery[n])
            BY <2>1
      <2>3. delivery[n] \in Alert
            OBVIOUS
      <2>4. /\ delivery'[n].told = delivery[n].told
            /\ delivery'[n].status = delivery[n].status
            /\ delivery'[n].attempts = delivery[n].attempts + 1
            BY <2>2, <2>3 DEF Attempted, Alert
      <2>5. /\ telling'[w] = [alert |-> n, out |-> FALSE]
            /\ \A v \in Worker : v # w => telling'[v] = telling[v]
            BY <2>1
      <2>6. TellingSound'
            <3>1. ASSUME NEW v \in Worker, telling'[v] # Unseen
                  PROVE  /\ telling'[v].alert \in DOMAIN delivery'
                         /\ telling'[v].out => delivery'[telling'[v].alert].told > 0
                  <4>1. CASE v = w
                        BY <4>1, <2>2, <2>5
                  <4>2. CASE v # w
                        <5>1. telling'[v] = telling[v] /\ telling[v].alert \in DOMAIN delivery
                              BY <3>1, <4>2, <2>5 DEF TellingSound
                        <5>2. telling[v].out => delivery[telling[v].alert].told > 0
                              BY <3>1, <5>1 DEF TellingSound
                        <5>3. delivery'[telling[v].alert].told = delivery[telling[v].alert].told
                              BY <5>1, <2>2, <2>4
                        <5> QED BY <5>1, <5>2, <5>3, <2>2
                  <4> QED BY <4>1, <4>2
            <3> QED BY <3>1 DEF TellingSound
      <2>7. \A m : m # n => Unsent(m)' = Unsent(m)
            <3> SUFFICES ASSUME NEW m, m # n PROVE Unsent(m)' = Unsent(m)
                OBVIOUS
            <3> QED BY <2>1, <2>5 DEF Unsent
      <2>8. Unsent(n)' \subseteq Unsent(n) \cup {w}
            BY <2>5 DEF Unsent
      <2>9. Cardinality(Unsent(n)') <= Cardinality(Unsent(n)) + 1
            <3>1. /\ IsFiniteSet(Unsent(n) \cup {w})
                  /\ Cardinality(Unsent(n) \cup {w}) <= Cardinality(Unsent(n)) + 1
                  <4>1. IsFiniteSet(Unsent(n)) /\ Cardinality(Unsent(n)) \in Nat
                        BY <1>0
                  <4>2. /\ IsFiniteSet(Unsent(n) \cup {w})
                        /\ Cardinality(Unsent(n) \cup {w}) =
                             IF w \in Unsent(n) THEN Cardinality(Unsent(n)) ELSE Cardinality(Unsent(n)) + 1
                        BY <4>1, FS_AddElement
                  <4> QED BY <4>1, <4>2
            <3>2. Cardinality(Unsent(n)') <= Cardinality(Unsent(n) \cup {w})
                  BY <2>8, <3>1, FS_Subset
            <3>3. /\ Cardinality(Unsent(n) \cup {w}) \in Nat
                  /\ Cardinality(Unsent(n)') \in Nat
                  BY <2>8, <3>1, FS_Subset, FS_CardinalityType
            <3> QED BY <1>0, <3>1, <3>2, <3>3
      <2>10. Cardinality(Unsent(n)') \in Nat
            BY <1>0, <2>8, FS_AddElement, FS_Subset, FS_CardinalityType
      <2>11. AttemptsCovered'
            <3>1. ASSUME NEW m \in DOMAIN delivery', m # n
                  PROVE  /\ delivery'[m].status = "sent" => delivery'[m].told > 0
                         /\ delivery'[m].told + Cardinality(Unsent(m)') <= delivery'[m].attempts
                  BY <3>1, <2>2, <2>7 DEF AttemptsCovered
            <3>2. /\ delivery'[n].status = "sent" => delivery'[n].told > 0
                  /\ delivery'[n].told + Cardinality(Unsent(n)') <= delivery'[n].attempts
                  BY <1>0, <2>1, <2>3, <2>4, <2>9, <2>10, SMTT(30) DEF AttemptsCovered, Alert
            <3> QED BY <2>2, <3>1, <3>2 DEF AttemptsCovered
      <2> QED BY <2>6, <2>11
<1>4. ASSUME NEW w \in Worker, SendMessage(w) PROVE TellingSound' /\ AttemptsCovered'
      <2>0. PICK n \in DOMAIN delivery : n = telling[w].alert
            BY <1>4 DEF SendMessage, TellingSound
      <2>1. telling[w] # Unseen /\ ~telling[w].out /\ telling[w] \in Telling
            BY <1>4 DEF SendMessage, Optional
      <2>2. /\ delivery' = [delivery EXCEPT ![n].told = @ + 1]
            /\ telling' = [telling EXCEPT ![w].out = TRUE]
            BY <1>4, <2>0 DEF SendMessage
      <2>3. /\ telling'[w].out /\ telling'[w].alert = n
            /\ \A v \in Worker : v # w => telling'[v] = telling[v]
            BY <2>0, <2>1, <2>2 DEF Telling
      <2>4. w \in Unsent(n)
            BY <2>0, <2>1 DEF Unsent
      <2>5. delivery[n] \in Alert
            OBVIOUS
      <2>6. /\ DOMAIN delivery' = DOMAIN delivery
            /\ \A m \in DOMAIN delivery : m # n => delivery'[m] = delivery[m]
            /\ delivery'[n].told = delivery[n].told + 1
            /\ delivery'[n].status = delivery[n].status
            /\ delivery'[n].attempts = delivery[n].attempts
            BY <2>1, <2>2, <2>5 DEF Alert
      <2>7. TellingSound'
            <3>1. ASSUME NEW v \in Worker, telling'[v] # Unseen
                  PROVE  /\ telling'[v].alert \in DOMAIN delivery'
                         /\ telling'[v].out => delivery'[telling'[v].alert].told > 0
                  <4>1. delivery'[n].told > 0
                        BY <2>5, <2>6 DEF Alert
                  <4>2. CASE v = w
                        <5>1. telling'[v].alert = n /\ n \in DOMAIN delivery'
                              BY <4>2, <2>3, <2>6
                        <5> QED BY <4>1, <5>1
                  <4>3. CASE v # w
                        <5>1. telling'[v] = telling[v]
                              BY <4>3, <2>3
                        <5>2. /\ telling[v].alert \in DOMAIN delivery
                              /\ telling[v].out => delivery[telling[v].alert].told > 0
                              BY <3>1, <5>1 DEF TellingSound
                        <5>3. \A m \in DOMAIN delivery :
                                delivery[m].told > 0 => delivery'[m].told > 0
                              BY <4>1, <2>6
                        <5> QED BY <2>6, <5>1, <5>2, <5>3
                  <4> QED BY <4>2, <4>3
            <3> QED BY <3>1 DEF TellingSound
      <2>8. \A m : m # n => Unsent(m)' \subseteq Unsent(m)
            <3> SUFFICES ASSUME NEW m, m # n, NEW v \in Unsent(m)' PROVE v \in Unsent(m)
                OBVIOUS
            <3>1. /\ v \in Worker /\ telling'[v] # Unseen
                  /\ telling'[v].alert = m /\ ~telling'[v].out
                  BY DEF Unsent
            <3>2. v # w
                  BY <3>1, <2>3
            <3> QED BY <3>1, <3>2, <2>3 DEF Unsent
      <2>9. Unsent(n)' \subseteq Unsent(n) \ {w}
            <3> SUFFICES ASSUME NEW v \in Unsent(n)' PROVE v \in Unsent(n) \ {w}
                OBVIOUS
            <3>1. /\ v \in Worker /\ telling'[v] # Unseen
                  /\ telling'[v].alert = n /\ ~telling'[v].out
                  BY DEF Unsent
            <3>2. v # w
                  BY <3>1, <2>3
            <3> QED BY <3>1, <3>2, <2>3 DEF Unsent
      <2>10. /\ Cardinality(Unsent(n)') \in Nat
             /\ Cardinality(Unsent(n)') <= Cardinality(Unsent(n)) - 1
            BY <1>0, <2>4, <2>9, FS_RemoveElement, FS_Subset, FS_CardinalityType
      <2>11. ASSUME NEW m \in DOMAIN delivery, m # n
             PROVE  /\ Cardinality(Unsent(m)') \in Nat
                    /\ Cardinality(Unsent(m)') <= Cardinality(Unsent(m))
            BY <1>0, <2>8, <2>11, FS_Subset, FS_CardinalityType
      <2>12. AttemptsCovered'
            <3>1. ASSUME NEW m \in DOMAIN delivery', m # n
                  PROVE  /\ delivery'[m].status = "sent" => delivery'[m].told > 0
                         /\ delivery'[m].told + Cardinality(Unsent(m)') <= delivery'[m].attempts
                  <4>1. delivery[m] \in Alert /\ Cardinality(Unsent(m)) \in Nat
                        BY <3>1, <2>6, <1>0
                  <4>2. m \in DOMAIN delivery /\ delivery'[m] = delivery[m]
                        BY <3>1, <2>6
                  <4>3. /\ delivery[m].status = "sent" => delivery[m].told > 0
                        /\ delivery[m].told + Cardinality(Unsent(m)) <= delivery[m].attempts
                        BY <4>2 DEF AttemptsCovered
                  <4>4. /\ Cardinality(Unsent(m)') \in Nat
                        /\ Cardinality(Unsent(m)') <= Cardinality(Unsent(m))
                        BY <3>1, <4>2, <2>11
                  <4>5. delivery[m].told \in Nat /\ delivery[m].attempts \in Nat
                        BY <4>1 DEF Alert
                  <4>6. delivery[m].told + Cardinality(Unsent(m)') <= delivery[m].attempts
                        <5>1. \A a, b, c, d \in Nat : a + b <= c /\ d <= b => a + d <= c
                              OBVIOUS
                        <5> QED BY <4>1, <4>3, <4>4, <4>5, <5>1
                  <4> QED BY <4>2, <4>3, <4>6
            <3>2. /\ delivery'[n].status = "sent" => delivery'[n].told > 0
                  /\ delivery'[n].told + Cardinality(Unsent(n)') <= delivery'[n].attempts
                  <4>1. delivery[n].told + Cardinality(Unsent(n)) <= delivery[n].attempts
                        BY <2>1 DEF AttemptsCovered
                  <4>2. delivery[n].told \in Nat /\ delivery[n].attempts \in Nat
                        BY <2>5 DEF Alert
                  <4>3. Cardinality(Unsent(n)) \in Nat
                        BY <1>0
                  <4> QED BY <4>1, <4>2, <4>3, <2>6, <2>10
            <3> QED BY <2>6, <3>1, <3>2 DEF AttemptsCovered
      <2> QED BY <2>7, <2>12
<1>5. ASSUME NEW w \in Worker, NEW outcome \in {"failed", "sent"}, telling[w] # Unseen,
             outcome = "sent" => telling[w].out,
             delivery' = [delivery EXCEPT ![telling[w].alert].status = outcome],
             telling' = [telling EXCEPT ![w] = Unseen]
      PROVE  TellingSound' /\ AttemptsCovered'
      <2>0. PICK n \in DOMAIN delivery : n = telling[w].alert
            BY <1>5 DEF TellingSound
      <2>1. delivery[n] \in Alert
            OBVIOUS
      <2>2. outcome = "sent" => delivery[n].told > 0
            BY <1>5, <2>0 DEF TellingSound
      <2>3. delivery' = [delivery EXCEPT ![n].status = outcome]
            BY <1>5, <2>0
      <2>4. /\ DOMAIN delivery' = DOMAIN delivery
            /\ \A m \in DOMAIN delivery : m # n => delivery'[m] = delivery[m]
            /\ delivery'[n].told = delivery[n].told
            /\ delivery'[n].status = outcome
            /\ delivery'[n].attempts = delivery[n].attempts
            BY <2>1, <2>3 DEF Alert
      <2>5. /\ telling'[w] = Unseen
            /\ \A v \in Worker : v # w => telling'[v] = telling[v]
            BY <1>5
      <2>6. TellingSound'
            <3> SUFFICES ASSUME NEW v \in Worker, telling'[v] # Unseen
                         PROVE  /\ telling'[v].alert \in DOMAIN delivery'
                                /\ telling'[v].out => delivery'[telling'[v].alert].told > 0
                BY DEF TellingSound
            <3>1. telling'[v] = telling[v]
                  BY <2>5
            <3>2. /\ telling[v].alert \in DOMAIN delivery
                  /\ telling[v].out => delivery[telling[v].alert].told > 0
                  BY <3>1 DEF TellingSound
            <3>3. delivery'[telling[v].alert].told = delivery[telling[v].alert].told
                  BY <3>2, <2>4
            <3> QED BY <3>1, <3>2, <3>3, <2>4
      <2>7. \A m : Unsent(m)' \subseteq Unsent(m)
            BY <2>5 DEF Unsent
      <2>8. ASSUME NEW m PROVE /\ Cardinality(Unsent(m)') \in Nat
                               /\ Cardinality(Unsent(m)') <= Cardinality(Unsent(m))
            BY <1>0, <2>7, FS_Subset, FS_CardinalityType
      <2>9. AttemptsCovered'
            <3>1. ASSUME NEW m \in DOMAIN delivery'
                  PROVE  /\ delivery'[m].status = "sent" => delivery'[m].told > 0
                         /\ delivery'[m].told + Cardinality(Unsent(m)') <= delivery'[m].attempts
                  <4>1. /\ delivery[m] \in Alert /\ m \in DOMAIN delivery
                        /\ delivery'[m].told = delivery[m].told
                        /\ delivery'[m].attempts = delivery[m].attempts
                        /\ delivery'[m].status = "sent" => delivery[m].told > 0
                        BY <2>2, <2>4 DEF AttemptsCovered
                  <4> QED BY <1>0, <2>8, <4>1 DEF AttemptsCovered, Alert
            <3> QED BY <3>1 DEF AttemptsCovered
      <2> QED BY <2>6, <2>9
<1>6. ASSUME NEW w \in Worker, DeliverFails(w) PROVE TellingSound' /\ AttemptsCovered'
      BY <1>5, <1>6 DEF DeliverFails
<1>7. ASSUME NEW w \in Worker, Delivered(w) PROVE TellingSound' /\ AttemptsCovered'
      BY <1>5, <1>7 DEF Delivered
<1>8. ASSUME NEW w \in Worker, WorkerStops(w) PROVE TellingSound' /\ AttemptsCovered'
      <2>1. delivery' = delivery /\ \A v \in Worker : telling'[v] = telling[v] \/ telling'[v] = Unseen
            BY <1>8 DEF WorkerStops
      <2>2. TellingSound'
            BY <2>1 DEF TellingSound
      <2>3. \A m : Unsent(m)' \subseteq Unsent(m)
            BY <2>1 DEF Unsent
      <2>4. ASSUME NEW m PROVE /\ Cardinality(Unsent(m)') \in Nat
                               /\ Cardinality(Unsent(m)') <= Cardinality(Unsent(m))
            BY <1>0, <2>3, FS_Subset, FS_CardinalityType
      <2>5. \A m \in DOMAIN delivery : delivery[m] \in Alert
            OBVIOUS
      <2>6. AttemptsCovered'
            BY <1>0, <2>1, <2>4, <2>5 DEF AttemptsCovered, Alert
      <2> QED BY <2>2, <2>6
<1>9. ASSUME NEW w \in Worker,
             \/ Diagnose(w) \/ PersistReads(w) \/ Persist(w) \/ FallbackAlert(w) \/ EvaluateReads(w)
      PROVE  TellingSound' /\ AttemptsCovered'
      BY <1>1, <1>9 DEF Diagnose, PersistReads, Persist, FallbackAlert, EvaluateReads
<1>10. ASSUME NEW r \in Rule,
              \/ WindowEnds(r) \/ CooldownEnds(r) \/ CreateRule(r)
              \/ \E seen \in 1..MaxRevised : UpdateRule(r, seen)
       PROVE  TellingSound' /\ AttemptsCovered'
      BY <1>1, <1>10 DEF WindowEnds, CooldownEnds, CreateRule, UpdateRule
<1> QED BY <1>2, <1>3, <1>4, <1>6, <1>7, <1>8, <1>9, <1>10 DEF MonitoringNext

-----------------------------------------------------------------------------

\* The parts of LegacyPlatform share no variable: a step is one of the monitoring or
\* leaves it alone.
LEMMA MonitoringStep == MonitoringIInv /\ [Next]_platformVars => MonitoringIInv'
<1> SUFFICES ASSUME MonitoringIInv, [Next]_platformVars PROVE MonitoringIInv'
    OBVIOUS
<1>1. CASE MonitoringNext
      BY <1>1, MonitoringTypeStep, ReportedStep, DeliveredStep DEF MonitoringIInv
<1>2. CASE UNCHANGED monitoringVars
      <2>1. \A n : Unsent(n)' = Unsent(n)
            BY <1>2 DEF Unsent, monitoringVars
      <2> QED BY <1>2, <2>1 DEF monitoringVars, MonitoringIInv, MonitoringTypeOK, DiagnosesInformed,
                 Informed, ServicesReported, TellingSound, AttemptsCovered
<1>3. MonitoringNext \/ UNCHANGED monitoringVars
      BY DEF Next, MoveCommunity, MoveAccess, MoveInstances, MoveMonitoring, platformVars
<1> QED BY <1>1, <1>2, <1>3

LEMMA MonitoringInvariant == Spec => []MonitoringIInv
<1>1. Init => MonitoringIInv
      BY MonitoringInitIInv DEF Init
<1> QED BY <1>1, MonitoringStep, PTL DEF Spec

\* A service that is down has been reported, in whatever order diagnoses read and wrote.
THEOREM OutagesAreReported == Spec => []ServicesReported
<1>1. MonitoringIInv => ServicesReported
      BY DEF MonitoringIInv
<1> QED BY <1>1, MonitoringInvariant, PTL

\* What counts as sent was sent, and nobody was told more often than it was tried.
THEOREM AlertsAreAccounted == Spec => []DeliveriesAccounted
<1>1. MonitoringIInv => DeliveriesAccounted
      <2> SUFFICES ASSUME MonitoringIInv, NEW n \in DOMAIN delivery
                   PROVE  /\ delivery[n].status = "sent" => delivery[n].told > 0
                          /\ delivery[n].told <= delivery[n].attempts
          BY DEF DeliveriesAccounted
      <2>1. Cardinality(Unsent(n)) \in Nat /\ delivery[n] \in Alert
            BY MonitoringAssumption, FS_Subset, FS_CardinalityType
               DEF Unsent, MonitoringIInv, MonitoringTypeOK
      <2> QED BY <2>1 DEF MonitoringIInv, AttemptsCovered, Alert
<1> QED BY <1>1, MonitoringInvariant, PTL

-----------------------------------------------------------------------------
(* Several servers: credentials and instances that are edited at once. *)

RowsTypeOK ==
    /\ credential \in [Credential -> {Missing} \union CredentialRow]
    /\ instance \in [Instance -> {Missing} \union InstanceRow]
    /\ form \in [Admin -> {Missing} \union Form]

\* The administrators whose transaction is at a credential, or makes an instance use it.
Forms(does, c) == {p \in Admin : form[p] # Missing /\ form[p].does = does /\ form[p].credential = c}

\* What the transactions at a credential have read stands, unless they raced.
FormsRight ==
    \A c \in Credential :
        /\ \A p, q \in Forms("credential", c) : p = q
        /\ c \notin raced =>
             /\ Forms("credential", c) = {} \/ Forms("instance", c) = {}
             /\ \A p \in Forms("credential", c) : ~form[p].used => \A i \in Instance : ~Uses(i, c)
             /\ Forms("instance", c) # {} => credential[c] # Missing /\ credential[c].emby

RowsIInv == RowsTypeOK /\ FormsRight /\ CredentialsKept

LEMMA FormsOpen ==
    ASSUME RowsTypeOK, NEW does, NEW c
    PROVE  Open(does, c) <=> Forms(does, c) # {}
      BY DEF Open, Forms

\* The two kinds of transactions, by what they have read.
LEMMA FormKinds ==
    ASSUME NEW f \in Form
    PROVE  /\ f # Missing /\ f.credential \in Credential
           /\ f.does = "credential" => f.used \in BOOLEAN
           /\ f.does = "instance" => f.at \in Instance
      BY InstanceAssumption DEF Form

LEMMA RowsUnchanged == ASSUME RowsIInv, UNCHANGED rows PROVE RowsIInv'
<1>1. \A does, c : Forms(does, c)' = Forms(does, c)
      BY DEF Forms, rows
<1> QED BY <1>1 DEF rows, RowsIInv, RowsTypeOK, FormsRight, CredentialsKept, Uses

LEMMA RowsStep == RowsIInv /\ InstanceNext => RowsIInv'
<1> SUFFICES ASSUME RowsIInv, InstanceNext PROVE RowsIInv'
    OBVIOUS
<1>0. /\ RowsTypeOK /\ FormsRight /\ CredentialsKept
      /\ credential \in [Credential -> {Missing} \union CredentialRow]
      /\ instance \in [Instance -> {Missing} \union InstanceRow]
      /\ form \in [Admin -> {Missing} \union Form]
      BY DEF RowsIInv, RowsTypeOK
<1>1. ASSUME UNCHANGED rows PROVE RowsIInv'
      BY <1>1, RowsUnchanged
<1>2. ASSUME NEW c \in Credential, CreateCredential(c) PROVE RowsIInv'
      <2>1. PICK row : row \in CredentialRow /\ credential' = [credential EXCEPT ![c] = row]
            BY <1>2 DEF CreateCredential, CredentialRow
      <2>2. credential[c] = Missing /\ UNCHANGED <<instance, form, raced>>
            BY <1>2 DEF CreateCredential
      <2>3. \A does, x : Forms(does, x)' = Forms(does, x)
            BY <2>2 DEF Forms
      <2>4. credential' \in [Credential -> {Missing} \union CredentialRow]
            BY <1>0, <2>1
      <2>5. \A x \in Credential : credential[x] # Missing => credential'[x] = credential[x]
            BY <1>0, <2>1, <2>2
      <2>6. FormsRight'
            BY <1>0, <2>2, <2>3, <2>5 DEF FormsRight, Uses
      <2>7. CredentialsKept'
            <3>1. \A i \in Instance : instance[i] # Missing => instance[i].credential \in Credential
                  BY <1>0 DEF InstanceRow
            <3> QED BY <1>0, <2>2, <2>5, <3>1 DEF CredentialsKept
      <2> QED BY <1>0, <2>2, <2>4, <2>6, <2>7 DEF RowsIInv, RowsTypeOK
<1>3. ASSUME NEW p \in Admin, NEW c \in Credential, BeginsCredential(p, c) PROVE RowsIInv'
      <2>1. PICK f : f = [does |-> "credential", credential |-> c, used |-> \E i \in Instance : Uses(i, c)]
            OBVIOUS
      <2>2. f \in Form /\ f # Missing /\ f.does = "credential" /\ f.credential = c
            /\ (~f.used => \A i \in Instance : ~Uses(i, c))
            BY <2>1, FormKinds DEF Form
      <2>3. /\ form[p] = Missing /\ form' = [form EXCEPT ![p] = f] /\ Forms("credential", c) = {}
            /\ UNCHANGED <<credential, instance>> /\ raced \subseteq raced'
            /\ c \notin raced' => Forms("instance", c) = {}
            BY <1>0, <1>3, <2>1, FormsOpen DEF BeginsCredential
      <2>4. /\ form'[p] = f /\ \A q \in Admin \ {p} : form'[q] = form[q]
            /\ \A x : Forms("instance", x)' = Forms("instance", x)
            /\ \A x : x # c => Forms("credential", x)' = Forms("credential", x)
            /\ Forms("credential", c)' = {p}
            <3>1. form'[p] = f /\ \A q \in Admin \ {p} : form'[q] = form[q]
                  BY <1>0, <2>3
            <3>2. \A does, x : f.does # does \/ c # x => Forms(does, x)' = Forms(does, x)
                  BY <2>2, <2>3, <3>1 DEF Forms
            <3>3. Forms(f.does, c)' = Forms(f.does, c) \union {p}
                  BY <2>2, <2>3, <3>1 DEF Forms
            <3> QED BY <2>2, <2>3, <3>1, <3>2, <3>3
      <2>5. form' \in [Admin -> {Missing} \union Form]
            BY <1>0, <2>2, <2>3
      <2>6. \A x, q : q \in Forms("credential", x) => q \in Admin \ {p}
            BY <2>3 DEF Forms
      <2>7. FormsRight'
            <3> SUFFICES ASSUME NEW x \in Credential
                         PROVE  (/\ \A q, s \in Forms("credential", x) : q = s
                                 /\ x \notin raced =>
                                      /\ Forms("credential", x) = {} \/ Forms("instance", x) = {}
                                      /\ \A q \in Forms("credential", x) :
                                           ~form[q].used => \A i \in Instance : ~Uses(i, x)
                                      /\ Forms("instance", x) # {} => credential[x] # Missing /\ credential[x].emby)'
                BY DEF FormsRight
            <3>1. CASE x = c
                  BY <2>2, <2>3, <2>4, <3>1 DEF Uses
            <3>2. CASE x # c
                  BY <1>0, <2>3, <2>4, <2>6, <3>2 DEF FormsRight, Uses
            <3> QED BY <3>1, <3>2
      <2>8. CredentialsKept'
            BY <1>0, <2>3 DEF CredentialsKept
      <2> QED BY <1>0, <2>3, <2>5, <2>7, <2>8 DEF RowsIInv, RowsTypeOK
\* A transaction ends: the others stand as they did.
<1>4. ASSUME NEW p \in Admin, form' = [form EXCEPT ![p] = Missing]
      PROVE  /\ form' \in [Admin -> {Missing} \union Form]
             /\ \A does, x : Forms(does, x)' = Forms(does, x) \ {p}
             /\ \A q \in Admin \ {p} : form'[q] = form[q]
      <2>1. form'[p] = Missing /\ \A q \in Admin \ {p} : form'[q] = form[q]
            BY <1>0, <1>4
      <2>2. \A does, x : Forms(does, x)' = Forms(does, x) \ {p}
            BY <2>1 DEF Forms
      <2> QED BY <1>0, <1>4, <2>1, <2>2
<1>5. ASSUME NEW p \in Admin, CommitsCredential(p) PROVE RowsIInv'
      <2>1. PICK c \in Credential : c = form[p].credential
            BY <1>0, <1>5, FormKinds DEF CommitsCredential
      <2>2. /\ form[p] # Missing /\ form[p].does = "credential" /\ form' = [form EXCEPT ![p] = Missing]
            /\ UNCHANGED <<instance, raced>> /\ p \in Forms("credential", c)
            BY <1>5, <2>1 DEF CommitsCredential, Forms
      <2>3. PICK row : /\ row \in {Missing} \union CredentialRow
                       /\ credential' = [credential EXCEPT ![c] = row]
                       /\ form[p].used => row # Missing /\ row.emby
            <3>1. form[p].used \in BOOLEAN
                  BY <1>0, <2>2, FormKinds
            <3>2. CASE \E emby, active \in BOOLEAN :
                         /\ Allowed(form[p].used, emby)
                         /\ credential' = [credential EXCEPT ![c] = [emby |-> emby, active |-> active]]
                  <4>1. PICK emby \in BOOLEAN, active \in BOOLEAN :
                          /\ Allowed(form[p].used, emby)
                          /\ credential' = [credential EXCEPT ![c] = [emby |-> emby, active |-> active]]
                        BY <3>2
                  <4>2. PICK row : row = [emby |-> emby, active |-> active]
                        OBVIOUS
                  <4>3. row \in CredentialRow /\ row.emby = emby
                        BY <4>2 DEF CredentialRow
                  <4> QED BY <4>1, <4>2, <4>3, InstanceAssumption DEF Allowed
            <3>3. CASE Allowed(form[p].used, FALSE) /\ credential' = [credential EXCEPT ![c] = Missing]
                  BY <3>1, <3>3 DEF Allowed
            <3> QED BY <1>5, <2>1, <3>2, <3>3 DEF CommitsCredential
      <2>4. credential' \in [Credential -> {Missing} \union CredentialRow]
            BY <1>0, <2>3
      <2>5. credential'[c] = row /\ \A x \in Credential : x # c => credential'[x] = credential[x]
            BY <1>0, <2>3
      <2>6. /\ form' \in [Admin -> {Missing} \union Form]
            /\ \A does, x : Forms(does, x)' = Forms(does, x) \ {p}
            /\ \A q \in Admin \ {p} : form'[q] = form[q]
            BY <1>4, <2>2
      <2>7. FormsRight'
            <3> SUFFICES ASSUME NEW x \in Credential
                         PROVE  (/\ \A q, s \in Forms("credential", x) : q = s
                                 /\ x \notin raced =>
                                      /\ Forms("credential", x) = {} \/ Forms("instance", x) = {}
                                      /\ \A q \in Forms("credential", x) :
                                           ~form[q].used => \A i \in Instance : ~Uses(i, x)
                                      /\ Forms("instance", x) # {} => credential[x] # Missing /\ credential[x].emby)'
                BY DEF FormsRight
            <3>1. \A q \in Forms("credential", x) \ {p} : q \in Admin \ {p}
                  BY DEF Forms
            <3>2. CASE x = c
                  <4>1. Forms("credential", x)' = {}
                        BY <1>0, <2>2, <2>6, <3>2 DEF FormsRight
                  <4>2. x \notin raced => Forms("instance", x)' = {}
                        BY <1>0, <2>2, <2>6, <3>2 DEF FormsRight
                  <4> QED BY <2>2, <4>1, <4>2
            <3>3. CASE x # c
                  BY <1>0, <2>2, <2>5, <2>6, <3>1, <3>3 DEF FormsRight, Uses
            <3> QED BY <3>2, <3>3
      <2>8. CredentialsKept'
            <3> SUFFICES ASSUME NEW i \in Instance, instance[i] # Missing, instance[i].credential \notin raced
                         PROVE  /\ credential'[instance[i].credential] # Missing
                                /\ credential'[instance[i].credential].emby
                BY <2>2 DEF CredentialsKept
            <3>1. PICK x \in Credential : x = instance[i].credential
                  BY <1>0 DEF InstanceRow
            <3>2. CASE x = c
                  <4>1. Uses(i, c)
                        BY <3>1, <3>2 DEF Uses
                  <4>2. form[p].used
                        BY <1>0, <2>2, <3>1, <3>2, <4>1 DEF FormsRight
                  <4> QED BY <2>3, <2>5, <3>1, <3>2, <4>2
            <3>3. CASE x # c
                  BY <1>0, <2>5, <3>1, <3>3 DEF CredentialsKept
            <3> QED BY <3>2, <3>3
      <2> QED BY <1>0, <2>2, <2>4, <2>6, <2>7, <2>8 DEF RowsIInv, RowsTypeOK
<1>6. ASSUME NEW p \in Admin, NEW i \in Instance, NEW c \in Credential, BeginsInstance(p, i, c) PROVE RowsIInv'
      <2>1. PICK f : f = [does |-> "instance", credential |-> c, at |-> i]
            OBVIOUS
      <2>2. f \in Form /\ f # Missing /\ f.does = "instance" /\ f.credential = c
            BY <2>1, FormKinds DEF Form
      <2>3. /\ form[p] = Missing /\ form' = [form EXCEPT ![p] = f]
            /\ credential[c] # Missing /\ credential[c].emby
            /\ UNCHANGED <<credential, instance>> /\ raced \subseteq raced'
            /\ c \notin raced' => Forms("credential", c) = {}
            BY <1>0, <1>6, <2>1, FormsOpen DEF BeginsInstance, Usable
      <2>4. /\ form'[p] = f /\ \A q \in Admin \ {p} : form'[q] = form[q]
            /\ \A x : Forms("credential", x)' = Forms("credential", x)
            /\ \A x : x # c => Forms("instance", x)' = Forms("instance", x)
            /\ Forms("instance", c)' # {}
            <3>1. form'[p] = f /\ \A q \in Admin \ {p} : form'[q] = form[q]
                  BY <1>0, <2>3
            <3>2. \A does, x : f.does # does \/ c # x => Forms(does, x)' = Forms(does, x)
                  BY <2>2, <2>3, <3>1 DEF Forms
            <3>3. Forms(f.does, c)' = Forms(f.does, c) \union {p}
                  BY <2>2, <2>3, <3>1 DEF Forms
            <3> QED BY <2>2, <2>3, <3>1, <3>2, <3>3
      <2>5. form' \in [Admin -> {Missing} \union Form]
            BY <1>0, <2>2, <2>3
      <2>6. \A x, q : q \in Forms("credential", x) => q \in Admin \ {p}
            BY <2>3 DEF Forms
      <2>7. FormsRight'
            <3> SUFFICES ASSUME NEW x \in Credential
                         PROVE  (/\ \A q, s \in Forms("credential", x) : q = s
                                 /\ x \notin raced =>
                                      /\ Forms("credential", x) = {} \/ Forms("instance", x) = {}
                                      /\ \A q \in Forms("credential", x) :
                                           ~form[q].used => \A j \in Instance : ~Uses(j, x)
                                      /\ Forms("instance", x) # {} => credential[x] # Missing /\ credential[x].emby)'
                BY DEF FormsRight
            <3>1. CASE x = c
                  BY <1>0, <2>3, <2>4, <2>6, <3>1 DEF FormsRight, Uses
            <3>2. CASE x # c
                  BY <1>0, <2>3, <2>4, <2>6, <3>2 DEF FormsRight, Uses
            <3> QED BY <3>1, <3>2
      <2>8. CredentialsKept'
            BY <1>0, <2>3 DEF CredentialsKept
      <2> QED BY <1>0, <2>3, <2>5, <2>7, <2>8 DEF RowsIInv, RowsTypeOK
<1>7. ASSUME NEW p \in Admin, CommitsInstance(p) PROVE RowsIInv'
      <2>1. PICK c \in Credential, i \in Instance : c = form[p].credential /\ i = form[p].at
            BY <1>0, <1>7, FormKinds DEF CommitsInstance
      <2>2. /\ form[p] # Missing /\ form[p].does = "instance" /\ form' = [form EXCEPT ![p] = Missing]
            /\ UNCHANGED <<credential, raced>> /\ p \in Forms("instance", c)
            BY <1>7, <2>1 DEF CommitsInstance, Forms
      <2>3. PICK enabled \in BOOLEAN : instance' = [instance EXCEPT ![i] = [credential |-> c, enabled |-> enabled]]
            BY <1>7, <2>1 DEF CommitsInstance
      <2>4. PICK row : row = [credential |-> c, enabled |-> enabled]
            OBVIOUS
      <2>5. row \in InstanceRow /\ row.credential = c /\ instance' = [instance EXCEPT ![i] = row]
            BY <2>3, <2>4 DEF InstanceRow
      <2>6. /\ instance' \in [Instance -> {Missing} \union InstanceRow]
            /\ \A j \in Instance : instance'[j] = IF j = i THEN row ELSE instance[j]
            BY <1>0, <2>5
      <2>7. /\ form' \in [Admin -> {Missing} \union Form]
            /\ \A does, x : Forms(does, x)' = Forms(does, x) \ {p}
            /\ \A q \in Admin \ {p} : form'[q] = form[q]
            BY <1>4, <2>2
      <2>8. c \notin raced => credential[c] # Missing /\ credential[c].emby /\ Forms("credential", c) = {}
            BY <1>0, <2>2 DEF FormsRight
      <2>9. FormsRight'
            <3> SUFFICES ASSUME NEW x \in Credential
                         PROVE  (/\ \A q, s \in Forms("credential", x) : q = s
                                 /\ x \notin raced =>
                                      /\ Forms("credential", x) = {} \/ Forms("instance", x) = {}
                                      /\ \A q \in Forms("credential", x) :
                                           ~form[q].used => \A j \in Instance : ~Uses(j, x)
                                      /\ Forms("instance", x) # {} => credential[x] # Missing /\ credential[x].emby)'
                BY DEF FormsRight
            <3>1. \A q \in Forms("credential", x) \ {p} : q \in Admin \ {p}
                  BY DEF Forms
            <3>2. CASE x = c
                  BY <1>0, <2>2, <2>7, <2>8, <3>2 DEF FormsRight
            <3>3. CASE x # c
                  <4>1. \A j \in Instance : Uses(j, x)' => Uses(j, x)
                        BY <2>5, <2>6, <3>3 DEF Uses
                  <4> QED BY <1>0, <2>2, <2>7, <3>1, <4>1 DEF FormsRight
            <3> QED BY <3>2, <3>3
      <2>10. CredentialsKept'
            BY <1>0, <2>2, <2>5, <2>6, <2>8 DEF CredentialsKept
      <2> QED BY <1>0, <2>2, <2>6, <2>7, <2>9, <2>10 DEF RowsIInv, RowsTypeOK
<1>8. ASSUME NEW i \in Instance, DeleteInstance(i) PROVE RowsIInv'
      <2>1. instance' = [instance EXCEPT ![i] = Missing] /\ UNCHANGED <<credential, form, raced>>
            BY <1>8 DEF DeleteInstance
      <2>2. /\ instance' \in [Instance -> {Missing} \union InstanceRow]
            /\ \A j \in Instance : instance'[j] = IF j = i THEN Missing ELSE instance[j]
            BY <1>0, <2>1
      <2>3. \A does, x : Forms(does, x)' = Forms(does, x)
            BY <2>1 DEF Forms
      <2>4. \A j \in Instance, x \in Credential : Uses(j, x)' => Uses(j, x)
            BY <2>2 DEF Uses
      <2>5. FormsRight'
            BY <1>0, <2>1, <2>3, <2>4 DEF FormsRight
      <2>6. CredentialsKept'
            BY <1>0, <2>1, <2>2 DEF CredentialsKept
      <2> QED BY <1>0, <2>1, <2>2, <2>5, <2>6 DEF RowsIInv, RowsTypeOK
<1>9. \/ UNCHANGED rows
      \/ \E c \in Credential : CreateCredential(c)
      \/ \E p \in Admin, c \in Credential : BeginsCredential(p, c)
      \/ \E p \in Admin : CommitsCredential(p) \/ CommitsInstance(p)
      \/ \E p \in Admin, i \in Instance, c \in Credential : BeginsInstance(p, i, c)
      \/ \E i \in Instance : DeleteInstance(i)
      <2>1. \A i \in Instance : AdoptLegacyBindings(i) => UNCHANGED rows
            BY DEF AdoptLegacyBindings
      <2>2. \A w \in Hand : Equips(w) \/ Binds(w) \/ Completes(w) \/ UndoRemoves(w) \/ Unbinds(w)
                            => UNCHANGED rows
            BY DEF Equips, Binds, Completes, UndoRemoves, Unbinds
      <2>3. \A w \in Hand : RecordsPolicy(w) \/ JobFails(w) \/ MarksDeleted(w) \/ ClearsUser(w) \/ StopsShort(w)
                            => UNCHANGED rows
            BY DEF RecordsPolicy, JobFails, MarksDeleted, ClearsUser, StopsShort
      <2>4. \A w \in Hand, a \in Account : BeginsLifecycle(w, a) \/ BeginsFilter(w, a) \/ BeginsClear(w, a)
                                            => UNCHANGED rows
            BY DEF BeginsLifecycle, BeginsFilter, BeginsClear, BeginsPolicy
      <2>5. \A w \in Hand, a \in Account, i \in Instance : CreatesUser(w, a, i) => UNCHANGED rows
            BY DEF CreatesUser
      <2>6. \A w, key : SetsPolicy(w, key) \/ RemovesUser(w, key) => UNCHANGED rows
            BY DEF SetsPolicy, RemovesUser
      <2> QED BY <2>1, <2>2, <2>3, <2>4, <2>5, <2>6, Zenon DEF InstanceNext
<1> QED BY <1>1, <1>2, <1>3, <1>5, <1>6, <1>7, <1>8, <1>9

-----------------------------------------------------------------------------
(* Several servers: the users on them, by bindings, jobs and accounts. *)

RemoteUser == [at : Instance, disabled : BOOLEAN, removed : BOOLEAN]

ServedTypeOK ==
    /\ user \in Seq(RemoteUser)
    /\ binding \in [Account -> [Instance -> {Missing} \union BindingRow]]
    /\ embyid \in [Account -> Nat]
    /\ job \in [Hand -> {Missing} \union Job]

\* A registration whose user nobody else knows of.
Making(r) == r # Missing /\ r.phase \in {"equip", "bind"}

\* A job names a user that others may know of, too.
TellsOf(r, u) ==
    /\ r # Missing
    /\ \/ r.phase \in {"complete", "undo", "unbind", "record"} /\ r.user = u
       \/ r.phase \in {"next", "record", "clear"} /\ \E i \in Instance : <<i, u>> \in r.left
       \/ r.phase = "clear" /\ \E i \in Instance : <<i, u>> \in r.all

Told(u) ==
    \/ \E a \in Account, i \in Instance : binding[a][i] # Missing /\ binding[a][i].user = u
    \/ \E a \in Account : embyid[a] = u /\ u # 0
    \/ \E w \in Hand : TellsOf(job[w], u)

\* Who is named was made, and a user who is being made is nobody else's yet.
AtFirst(s, i) == s.at = i /\ ~s.disabled /\ ~s.removed
UsersKnown ==
    /\ \A u : Told(u) => u \in DOMAIN user
    /\ \A w \in Hand : Making(job[w]) =>
         /\ job[w].user \in DOMAIN user /\ ~Told(job[w].user)
         /\ AtFirst(user[job[w].user], job[w].at)
    /\ \A v, w \in Hand : Making(job[v]) /\ Making(job[w]) /\ job[v].user = job[w].user => v = w

\* What a job has read of the users it names, and what it has done to them.
Right(r) ==
    r # Missing =>
        /\ r.phase \in {"equip", "bind", "complete", "undo", "unbind", "record"} => user[r.user].at = r.at
        /\ r.phase = "unbind" => user[r.user].removed \/ r.user \in stray
        /\ r.phase = "record" /\ ~r.crossed =>
             ~user[r.user].removed /\ user[r.user].disabled = (r.does = "suspend")
        /\ r.phase = "clear" => \A u \in Nat : (\E i \in Instance : <<i, u>> \in r.all /\ <<i, u>> \notin r.left)
                                               => user[u].removed

JobsRight == \A w \in Hand : Right(job[w])

ServedIInv == ServedTypeOK /\ UsersKnown /\ JobsRight /\ UsersAccounted /\ BindingsAgree

LEMMA JobFields ==
    ASSUME NEW r \in Job
    PROVE  /\ r # Missing
           /\ r.phase \in {"equip", "bind", "complete", "undo", "unbind"} =>
                r \in Carrying /\ r.account \in Account /\ r.at \in Instance /\ r.user \in Nat
           /\ r.phase = "next" =>
                r \in Targeting /\ r.does \in {"suspend", "restore"} /\ r.left \subseteq Instance \X Nat
           /\ r.phase = "record" =>
                /\ r \in Recording /\ r.does \in {"suspend", "restore"} /\ r.left \subseteq Instance \X Nat
                /\ r.at \in Instance /\ r.user \in Nat /\ r.crossed \in BOOLEAN
           /\ r.phase = "clear" =>
                /\ r \in Clearing /\ r.account \in Account
                /\ r.left \subseteq Instance \X Nat /\ r.all \subseteq Instance \X Nat
           /\ r.phase = "forget" => r \in Forgetting /\ r.account \in Account
<1>1. r # Missing
      BY InstanceAssumption
<1>2. CASE r \in Carrying
      BY <1>1, <1>2 DEF Carrying
<1>3. CASE r \in Targeting
      BY <1>1, <1>3 DEF Targeting
<1>4. CASE r \in Recording
      BY <1>1, <1>4 DEF Recording
<1>5. CASE r \in Clearing
      BY <1>1, <1>5 DEF Clearing
<1>6. CASE r \in Forgetting
      BY <1>1, <1>6 DEF Forgetting
<1> QED BY <1>2, <1>3, <1>4, <1>5, <1>6 DEF Job

\* A job of another hand stays, but may have been crossed.
Like(r, s) ==
    /\ s \in {Missing} \union Job
    /\ \/ s = r
       \/ /\ r # Missing /\ r.phase = "record" /\ s \in Recording
          /\ s.does = r.does /\ s.at = r.at /\ s.user = r.user /\ s.left = r.left /\ s.crossed

LEMMA RecordingPhase == ASSUME NEW s \in Recording PROVE s # Missing /\ s.phase = "record" /\ s \in Job
      BY InstanceAssumption DEF Recording, Job

LEMMA LikeTells ==
    ASSUME NEW r, NEW s, Like(r, s)
    PROVE  /\ Making(s) <=> Making(r)
           /\ r # Missing <=> s # Missing
           /\ s # Missing => s.phase = r.phase
           /\ Making(s) => s = r
           /\ \A u : TellsOf(s, u) <=> TellsOf(r, u)
<1>1. CASE s = r
      BY <1>1
<1>2. CASE s # r
      BY <1>2, RecordingPhase DEF Like, Making, TellsOf
<1> QED BY <1>1, <1>2

LEMMA Crossed ==
    ASSUME NEW r \in Job, r.phase = "record"
    PROVE  Like(r, [r EXCEPT !.crossed = TRUE]) /\ [r EXCEPT !.crossed = TRUE].crossed
<1>1. r # Missing /\ r \in Recording
      BY JobFields
<1>2. PICK s : s = [r EXCEPT !.crossed = TRUE]
      OBVIOUS
<1>3. /\ s \in Recording /\ s.crossed
      /\ s.does = r.does /\ s.at = r.at /\ s.user = r.user /\ s.left = r.left
      BY <1>1, <1>2 DEF Recording
<1> QED BY <1>1, <1>2, <1>3 DEF Like, Job

LEMMA CrossesDoes ==
    ASSUME ServedTypeOK, NEW w \in Hand, NEW key, NEW next \in {Missing} \union Job, Crosses(w, key, next)
    PROVE  /\ job' \in [Hand -> {Missing} \union Job] /\ job'[w] = next
           /\ \A v \in Hand \ {w} :
                /\ Like(job[v], job'[v])
                /\ In(v, "record") /\ About(v) = key => job'[v].crossed
<1>1. job'[w] = next
      BY DEF Crosses
<1>2. ASSUME NEW v \in Hand \ {w}
      PROVE  Like(job[v], job'[v]) /\ (In(v, "record") /\ About(v) = key => job'[v].crossed)
      <2>1. job[v] \in {Missing} \union Job
            BY DEF ServedTypeOK
      <2>2. CASE v \in Between(w, key)
            <3>1. job[v] # Missing /\ job[v].phase = "record" /\ job'[v] = [job[v] EXCEPT !.crossed = TRUE]
                  BY <2>2 DEF Between, In, Crosses
            <3> QED BY <2>1, <3>1, Crossed
      <2>3. CASE v \notin Between(w, key)
            BY <2>1, <2>3 DEF Between, Crosses, Like
      <2> QED BY <2>2, <2>3
<1>3. \A v \in Hand : job'[v] \in {Missing} \union Job
      BY <1>1, <1>2 DEF Like
<1>4. job' = [v \in Hand |-> job'[v]]
      BY DEF Crosses
<1> QED BY <1>1, <1>2, <1>3, <1>4

LEMMA TurnDoes ==
    ASSUME ServedTypeOK, NEW w \in Hand, NEW next \in {Missing} \union Job, job' = [job EXCEPT ![w] = next]
    PROVE  /\ job' \in [Hand -> {Missing} \union Job] /\ job'[w] = next
           /\ \A v \in Hand \ {w} : Like(job[v], job'[v]) /\ job'[v] = job[v]
      BY DEF ServedTypeOK, Like

Placed(u) == \E a \in Account : Live(binding[a][user[u].at]) /\ binding[a][user[u].at].user = u

\* What a step of a hand does to the others: users grow older, and whoever was about to
\* record one of them knows when it is changed.
Gently(w) ==
    /\ \A u \in DOMAIN user : /\ u \in DOMAIN user' /\ user'[u].at = user[u].at
                              /\ user[u].removed => user'[u].removed
    /\ stray \subseteq stray'
    /\ \A v \in Hand \ {w} : Like(job[v], job'[v])
    /\ \A u \in DOMAIN user :
         \/ user'[u] = user[u]
         \/ Making(job[w]) /\ u = job[w].user
         \/ Told(u) /\ \A v \in Hand \ {w} : In(v, "record") /\ About(v) = <<user[u].at, u>> => job'[v].crossed

LEMMA NamedIsTold ==
    ASSUME NEW w \in Hand, In(w, "record") \/ In(w, "complete") \/ In(w, "undo") \/ In(w, "unbind")
    PROVE  Told(job[w].user)
      BY DEF In, Told, TellsOf

LEMMA KnownKept ==
    ASSUME ServedTypeOK, UsersKnown, NEW w \in Hand, Gently(w),
           \A u : Told(u)' => Told(u) \/ (Making(job[w]) /\ ~Making(job'[w]) /\ u = job[w].user),
           Making(job'[w]) =>
               /\ job'[w].user \in DOMAIN user' /\ AtFirst(user'[job'[w].user], job'[w].at)
               /\ job'[w].user \notin DOMAIN user \/ (Making(job[w]) /\ job[w].user = job'[w].user)
    PROVE  UsersKnown'
<1>1. \A u : Told(u)' => u \in DOMAIN user'
      BY DEF UsersKnown, Gently
<1>2. \A v \in Hand \ {w} : Making(job'[v]) => Making(job[v]) /\ job'[v] = job[v]
      BY LikeTells DEF Gently
<1>3. ASSUME NEW v \in Hand, Making(job'[v])
      PROVE  /\ job'[v].user \in DOMAIN user' /\ AtFirst(user'[job'[v].user], job'[v].at)
             /\ \A u : u = job'[v].user => ~(Told(u)')
      <2>1. CASE v = w
            BY <1>3, <2>1 DEF UsersKnown
      <2>2. CASE v # w
            <3>1. /\ Making(job[v]) /\ job'[v] = job[v] /\ job[v].user \in DOMAIN user /\ ~Told(job[v].user)
                  /\ AtFirst(user[job[v].user], job[v].at)
                  BY <1>2, <1>3, <2>2 DEF UsersKnown
            <3>2. ~(Making(job[w]) /\ job[w].user = job[v].user)
                  BY <2>2, <3>1 DEF UsersKnown
            <3>3. user'[job[v].user] = user[job[v].user] /\ job[v].user \in DOMAIN user'
                  BY <3>1, <3>2 DEF Gently
            <3> QED BY <3>1, <3>2, <3>3
      <2> QED BY <2>1, <2>2
<1>4. ASSUME NEW v \in Hand, NEW x \in Hand, Making(job'[v]), Making(job'[x]), job'[v].user = job'[x].user
      PROVE  v = x
      <2>1. CASE v # w /\ x # w
            BY <1>2, <1>4, <2>1 DEF UsersKnown
      <2>2. ASSUME NEW y \in Hand, y # w, Making(job'[y]), Making(job'[w]), job'[y].user = job'[w].user
            PROVE  FALSE
            <3>1. Making(job[y]) /\ job'[y] = job[y] /\ job[y].user \in DOMAIN user
                  BY <1>2, <2>2 DEF UsersKnown
            <3>2. ~(Making(job[w]) /\ job[w].user = job[y].user)
                  BY <2>2, <3>1 DEF UsersKnown
            <3> QED BY <2>2, <3>1, <3>2
      <2> QED BY <1>4, <2>1, <2>2
<1>5. \A v \in Hand : Making(job[v])' => ~(Told(job[v].user)')
      <2> SUFFICES ASSUME NEW v \in Hand, Making(job'[v]), NEW u, u = job'[v].user PROVE ~(Told(u)')
          BY Zenon
      <2> QED BY <1>3
<1> QED BY <1>1, <1>3, <1>4, <1>5, Zenon DEF UsersKnown

LEMMA RightKept ==
    ASSUME ServedTypeOK, UsersKnown, JobsRight, NEW w \in Hand, Gently(w), Right(job[w])'
    PROVE  JobsRight'
<1> SUFFICES ASSUME NEW v \in Hand PROVE Right(job[v])'
    BY DEF JobsRight
<1>1. CASE v = w
      BY <1>1
<1>2. CASE v # w /\ job'[v] # Missing
      <2>1. /\ Like(job[v], job'[v]) /\ Right(job[v])
            /\ job[v] # Missing /\ job'[v].phase = job[v].phase /\ job[v] \in Job
            BY <1>2, LikeTells DEF Gently, JobsRight, ServedTypeOK
      <2>2. job[v].phase \in {"equip", "bind", "complete", "undo", "unbind", "record"} =>
                /\ job[v].user \in DOMAIN user /\ job'[v].user = job[v].user /\ job'[v].at = job[v].at
            <3>1. Making(job[v]) => job[v].user \in DOMAIN user
                  BY DEF UsersKnown
            <3>2. job[v].phase \in {"complete", "undo", "unbind", "record"} => job[v].user \in DOMAIN user
                  BY <2>1, NamedIsTold DEF In, UsersKnown
            <3> QED BY <2>1, <3>1, <3>2 DEF Like, Making
      <2>3. CASE job[v].phase \in {"equip", "bind", "complete", "undo"}
            BY <2>1, <2>2, <2>3 DEF Right, Gently
      <2>4. CASE job[v].phase = "unbind"
            BY <2>1, <2>2, <2>4 DEF Right, Gently
      <2>5. CASE job[v].phase = "record"
            <3>1. CASE job'[v].crossed
                  BY <2>1, <2>2, <2>5, <3>1 DEF Right, Gently
            <3>2. CASE ~job'[v].crossed
                  <4>1. job'[v] = job[v] /\ user[job[v].user].at = job[v].at
                        BY <2>1, <2>5, <3>2 DEF Like, Right
                  <4>2. Told(job[v].user)
                        BY <2>1, <2>5, NamedIsTold DEF In
                  <4>3. ~(Making(job[w]) /\ job[w].user = job[v].user)
                        BY <4>2 DEF UsersKnown
                  <4>4. user'[job[v].user] = user[job[v].user]
                        BY <1>2, <2>1, <2>2, <2>5, <3>2, <4>1, <4>3 DEF Gently, In, About
                  <4> QED BY <2>1, <2>5, <4>1, <4>4 DEF Right
            <3> QED BY <3>1, <3>2
      <2>6. CASE job[v].phase = "clear"
            <3>1. job'[v] = job[v] /\ job[v].all \subseteq Instance \X Nat
                  BY <2>1, <2>6, JobFields DEF Like
            <3>2. ASSUME NEW u \in Nat, NEW i \in Instance, <<i, u>> \in job[v].all PROVE u \in DOMAIN user
                  BY <2>1, <2>6, <3>2 DEF TellsOf, Told, UsersKnown
            <3>3. ASSUME NEW u \in Nat, \E i \in Instance : <<i, u>> \in job[v].all /\ <<i, u>> \notin job[v].left
                  PROVE  user'[u].removed
                  <4>1. user[u].removed /\ u \in DOMAIN user
                        BY <2>1, <2>6, <3>2, <3>3 DEF Right
                  <4> QED BY <4>1 DEF Gently
            <3> QED BY <2>1, <2>6, <3>1, <3>3 DEF Right
      <2>7. CASE job[v].phase \in {"next", "forget"}
            BY <2>1, <2>7 DEF Right
      <2> QED BY <2>1, <2>3, <2>4, <2>5, <2>6, <2>7
              DEF Job, Carrying, Targeting, Recording, Clearing, Forgetting
<1>3. CASE v # w /\ job'[v] = Missing
      BY <1>3 DEF Right
<1> QED BY <1>1, <1>2, <1>3

LEMMA AccountedPlaced ==
    UsersAccounted <=>
        \A u \in DOMAIN user : ~user[u].removed =>
            Placed(u) \/ u \in stray \/ \E w \in Hand : Making(job[w]) /\ job[w].user = u
      BY DEF UsersAccounted, Placed, Making, In

LEMMA AccountedKept ==
    ASSUME UsersAccounted, NEW w \in Hand, Gently(w),
           \A u \in DOMAIN user' : ~user'[u].removed =>
               \/ Placed(u)' \/ u \in stray' \/ (Making(job'[w]) /\ job'[w].user = u)
               \/ u \in DOMAIN user /\ ~Placed(u) /\ ~(Making(job[w]) /\ job[w].user = u)
    PROVE  UsersAccounted'
<1> SUFFICES ASSUME NEW u \in DOMAIN user', ~user'[u].removed
             PROVE  Placed(u)' \/ u \in stray' \/ \E v \in Hand : Making(job'[v]) /\ job'[v].user = u
    <2>1. \A u \in DOMAIN user' : ~user'[u].removed =>
              Placed(u)' \/ u \in stray' \/ \E v \in Hand : Making(job'[v]) /\ job'[v].user = u
          OBVIOUS
    <2> QED BY <2>1 DEF UsersAccounted, Placed, Making, In
<1>1. CASE u \in DOMAIN user /\ ~Placed(u) /\ ~(Making(job[w]) /\ job[w].user = u)
      <2>1. ~user[u].removed
            BY <1>1 DEF Gently
      <2>2. u \in stray \/ \E v \in Hand : Making(job[v]) /\ job[v].user = u
            BY <1>1, <2>1, AccountedPlaced
      <2>3. ASSUME NEW v \in Hand, Making(job[v]), job[v].user = u
            PROVE  Making(job'[v]) /\ job'[v].user = u
            <3>1. Like(job[v], job'[v])
                  BY <1>1, <2>3 DEF Gently
            <3>2. Making(job'[v])
                  BY <2>3, <3>1, LikeTells
            <3> QED BY <2>3, <3>1, <3>2, LikeTells
      <2> QED BY <2>2, <2>3 DEF Gently
<1> QED BY <1>1

\* Nothing is known to have changed a user since its binding there was written.
Settled(i, u) == <<i, u>> \notin unsure /\ ~\E w \in Hand : In(w, "record") /\ About(w) = <<i, u>>
Agrees(i, b) == user[b.user].at = i /\ ~user[b.user].removed /\ user[b.user].disabled = (b.status = "suspended")

LEMMA BindingsSettled ==
    BindingsAgree <=>
        \A a \in Account, i \in Instance :
            Live(binding[a][i]) /\ Settled(i, binding[a][i].user) => Agrees(i, binding[a][i])
      BY DEF BindingsAgree, Settled, Agrees

LEMMA AgreeKept ==
    ASSUME ServedTypeOK, UsersKnown, BindingsAgree, NEW w \in Hand, Gently(w),
           unsure \subseteq unsure', In(w, "record") => About(w) \in unsure',
           \A u \in DOMAIN user : user'[u] # user[u] /\ Told(u) =>
               \/ <<user[u].at, u>> \in unsure'
               \/ job'[w] # Missing /\ job'[w].phase = "record" /\ job'[w].at = user[u].at /\ job'[w].user = u,
           \A a \in Account, i \in Instance : Live(binding'[a][i]) =>
               \/ binding'[a][i] = binding[a][i]
               \/ <<i, binding'[a][i].user>> \in unsure'
               \/ \A b : b = binding'[a][i] => Agrees(i, b)'
    PROVE  BindingsAgree'
<1>1. ASSUME NEW i, NEW u, Settled(i, u)' PROVE Settled(i, u)
      <2>1. <<i, u>> \notin unsure' /\ <<i, u>> \notin unsure
            BY <1>1 DEF Settled
      <2>2. ASSUME NEW v \in Hand, In(v, "record"), About(v) = <<i, u>> PROVE FALSE
            <3>1. v # w
                  BY <2>1, <2>2
            <3>2. Like(job[v], job'[v]) /\ job[v] # Missing /\ job[v].phase = "record"
                  BY <2>2, <3>1 DEF Gently, In
            <3>3. job'[v] # Missing /\ job'[v].phase = "record"
                  BY <3>2, LikeTells
            <3>4. job'[v].at = i /\ job'[v].user = u
                  BY <2>2, <3>2 DEF Like, About
            <3> QED BY <1>1, <3>3, <3>4 DEF Settled, In, About
      <2> QED BY <2>1, <2>2 DEF Settled
<1> SUFFICES ASSUME NEW a \in Account, NEW i \in Instance, NEW b, b = binding'[a][i], Live(b),
                    Settled(i, b.user)'
             PROVE  Agrees(i, b)'
    <2>1. \A a \in Account, i \in Instance : \A b : b = binding'[a][i] /\ Live(b) /\ Settled(i, b.user)' => Agrees(i, b)'
          OBVIOUS
    <2> QED BY <2>1 DEF BindingsAgree, Settled, Agrees
<1>2. CASE b = binding[a][i]
      <2>1. Agrees(i, b) /\ Told(b.user) /\ b.user \in DOMAIN user
            BY <1>1, <1>2, BindingsSettled DEF Live, Told, UsersKnown
      <2>2. user'[b.user] = user[b.user]
            <3>1. <<i, b.user>> \notin unsure'
                  BY DEF Settled
            <3>2. ~(job'[w] # Missing /\ job'[w].phase = "record" /\ job'[w].at = i /\ job'[w].user = b.user)
                  BY DEF Settled, In, About
            <3>3. user[b.user].at = i
                  BY <2>1 DEF Agrees
            <3> QED BY <2>1, <3>1, <3>2, <3>3
      <2> QED BY <2>1, <2>2 DEF Agrees
<1>3. <<i, b.user>> \notin unsure'
      BY DEF Settled
<1> QED BY <1>2, <1>3

\* What a step of a hand keeps when it leaves users, bindings and accounts alone, and names
\* nobody new.
LEMMA QuietKeeps ==
    ASSUME ServedIInv, NEW w \in Hand, NEW next \in {Missing} \union Job, job' = [job EXCEPT ![w] = next],
           UNCHANGED <<user, binding>>, stray \subseteq stray', unsure \subseteq unsure',
           embyid' \in [Account -> Nat],
           \A a \in Account : embyid'[a] \in {0, embyid[a]} \/ TellsOf(job[w], embyid'[a]),
           \A u : TellsOf(next, u) => Told(u),
           ~Making(next), Making(job[w]) => job[w].user \in stray',
           In(w, "record") => About(w) \in unsure',
           Right(job[w])'
    PROVE  ServedIInv'
<1>0. ServedTypeOK /\ UsersKnown /\ JobsRight /\ UsersAccounted /\ BindingsAgree
      BY DEF ServedIInv
<1>1. /\ job' \in [Hand -> {Missing} \union Job] /\ job'[w] = next
      /\ \A v \in Hand \ {w} : Like(job[v], job'[v]) /\ job'[v] = job[v]
      BY <1>0, TurnDoes
<1>2. ServedTypeOK'
      BY <1>0, <1>1 DEF ServedTypeOK
<1>3. Gently(w)
      BY <1>1 DEF Gently
<1>4. ASSUME NEW u, Told(u)' PROVE Told(u)
      <2>1. CASE \E a \in Account, i \in Instance : binding'[a][i] # Missing /\ binding'[a][i].user = u
            BY <2>1 DEF Told
      <2>2. CASE \E a \in Account : embyid'[a] = u /\ u # 0
            BY <2>2 DEF Told
      <2>3. CASE \E v \in Hand : TellsOf(job'[v], u)
            BY <1>1, <2>3 DEF Told
      <2> QED BY <1>4, <2>1, <2>2, <2>3 DEF Told
<1>5. UsersKnown'
      BY <1>0, <1>1, <1>3, <1>4, KnownKept
<1>6. JobsRight'
      BY <1>0, <1>3, RightKept
<1>7. UsersAccounted'
      <2>1. \A u : Placed(u)' <=> Placed(u)
            BY DEF Placed
      <2> QED BY <1>0, <1>3, <2>1, AccountedKept
<1>8. BindingsAgree'
      BY <1>0, <1>3, AgreeKept
<1> QED BY <1>2, <1>5, <1>6, <1>7, <1>8 DEF ServedIInv

\* Nobody is named by a job that is over, or by one that forgets.
LEMMA RestTells ==
    ASSUME NEW r, r = Missing \/ (r # Missing /\ r.phase = "forget")
    PROVE  ~Making(r) /\ Right(r) /\ \A u : ~TellsOf(r, u)
      BY DEF Making, Right, TellsOf

LEMMA CompletesKeeps == ASSUME ServedIInv, NEW w \in Hand, Completes(w) PROVE ServedIInv'
<1>0. ServedTypeOK /\ UsersKnown /\ JobsRight
      BY DEF ServedIInv
<1>1. job[w] # Missing /\ job[w].phase = "complete" /\ job[w] \in Job /\ TellsOf(job[w], job[w].user)
      BY <1>0 DEF Completes, In, ServedTypeOK, TellsOf
<1>2. /\ job[w] \in Carrying /\ job[w].account \in Account /\ job[w].at \in Instance /\ job[w].user \in Nat
      BY <1>1, JobFields
<1>3. CASE embyid[job[w].account] = 0 /\ embyid' = [embyid EXCEPT ![job[w].account] = job[w].user] /\ Rest(w)
      <2>1. job' = [job EXCEPT ![w] = Missing] /\ UNCHANGED <<user, binding, unsure, stray>>
            BY <1>3 DEF Completes, Rest
      <2>2. embyid' \in [Account -> Nat] /\ \A a \in Account : embyid'[a] \in {embyid[a], job[w].user}
            BY <1>0, <1>2, <1>3 DEF ServedTypeOK
      <2>3. job'[w] = Missing
            BY <1>0, <2>1 DEF ServedTypeOK
      <2>4. Right(job[w])' /\ ~Making(Missing) /\ ~Making(job[w]) /\ \A u : ~TellsOf(Missing, u)
            BY <1>1, <2>3 DEF Right, Making, TellsOf
      <2>5. \A a \in Account : embyid'[a] \in {0, embyid[a]} \/ TellsOf(job[w], embyid'[a])
            BY <1>1, <2>2
      <2> QED BY <1>1, <2>1, <2>2, <2>4, <2>5, QuietKeeps DEF In
<1>4. CASE Go(w, "undo") /\ UNCHANGED embyid
      <2>1. PICK next : next = [job[w] EXCEPT !.phase = "undo"]
            OBVIOUS
      <2>2. /\ next \in Carrying /\ next.phase = "undo"
            /\ next.user = job[w].user /\ next.at = job[w].at
            BY <1>2, <2>1 DEF Carrying
      <2>3. next \in Job /\ next # Missing
            BY <2>2, InstanceAssumption DEF Job
      <2>4. job' = [job EXCEPT ![w] = next] /\ job'[w] = next /\ UNCHANGED <<user, binding, unsure, stray>>
            BY <1>0, <1>4, <2>1 DEF Completes, Go, ServedTypeOK
      <2>5. user[job[w].user].at = job[w].at
            BY <1>0, <1>1 DEF JobsRight, Right
      <2>6. Right(job[w])' /\ ~Making(next) /\ ~Making(job[w]) /\ \A u : TellsOf(next, u) => TellsOf(job[w], u)
            BY <1>1, <2>2, <2>3, <2>4, <2>5 DEF Right, Making, TellsOf
      <2>7. \A u : TellsOf(next, u) => Told(u)
            BY <2>6 DEF Told
      <2> QED BY <1>0, <1>1, <1>4, <2>3, <2>4, <2>6, <2>7, QuietKeeps DEF In, ServedTypeOK
<1> QED BY <1>3, <1>4 DEF Completes

LEMMA JobFailsKeeps == ASSUME ServedIInv, NEW w \in Hand, JobFails(w) PROVE ServedIInv'
<1>0. ServedTypeOK
      BY DEF ServedIInv
<1>1. job' = [job EXCEPT ![w] = Missing] /\ UNCHANGED <<user, binding, embyid, unsure, stray>>
      BY DEF JobFails, Rest
<1>2. ~Making(job[w]) /\ ~In(w, "record")
      BY DEF JobFails, In, Making
<1>3. job'[w] = Missing /\ embyid \in [Account -> Nat]
      BY <1>0, <1>1 DEF ServedTypeOK
<1>4. Right(job[w])' /\ ~Making(Missing) /\ \A u : ~TellsOf(Missing, u)
      BY <1>3 DEF Right, Making, TellsOf
<1> QED BY <1>1, <1>2, <1>3, <1>4, QuietKeeps

LEMMA ClearsUserKeeps == ASSUME ServedIInv, NEW w \in Hand, ClearsUser(w) PROVE ServedIInv'
<1>0. ServedTypeOK
      BY DEF ServedIInv
<1>1. /\ job' = [job EXCEPT ![w] = Missing] /\ UNCHANGED <<user, binding, unsure, stray>>
      /\ embyid' = [embyid EXCEPT ![job[w].account] = 0]
      BY DEF ClearsUser, Rest
<1>2. ~Making(job[w]) /\ ~In(w, "record")
      BY DEF ClearsUser, In, Making
<1>3. job'[w] = Missing /\ embyid' \in [Account -> Nat] /\ \A a \in Account : embyid'[a] \in {0, embyid[a]}
      BY <1>0, <1>1 DEF ServedTypeOK
<1>4. Right(job[w])' /\ ~Making(Missing) /\ \A u : ~TellsOf(Missing, u)
      BY <1>3 DEF Right, Making, TellsOf
<1> QED BY <1>1, <1>2, <1>3, <1>4, QuietKeeps

LEMMA StopsShortKeeps == ASSUME ServedIInv, NEW w \in Hand, StopsShort(w) PROVE ServedIInv'
<1>0. ServedTypeOK
      BY DEF ServedIInv
<1>1. job' = [job EXCEPT ![w] = Missing] /\ UNCHANGED <<user, binding, embyid>>
      BY DEF StopsShort, Rest
<1>2. /\ stray \subseteq stray' /\ (Making(job[w]) => job[w].user \in stray')
      /\ unsure \subseteq unsure' /\ (In(w, "record") => About(w) \in unsure')
      BY DEF StopsShort, In, Making
<1>3. job'[w] = Missing /\ embyid \in [Account -> Nat]
      BY <1>0, <1>1 DEF ServedTypeOK
<1>4. Right(job[w])' /\ ~Making(Missing) /\ \A u : ~TellsOf(Missing, u)
      BY <1>3 DEF Right, Making, TellsOf
<1> QED BY <1>1, <1>2, <1>3, <1>4, QuietKeeps

LEMMA BeginsKeeps ==
    ASSUME ServedIInv, NEW w \in Hand, NEW targets, NEW next \in Job, job[w] = Missing,
           job' = [job EXCEPT ![w] = next], UNCHANGED <<user, binding, embyid, unsure, stray>>,
           \A i, u : <<i, u>> \in targets => Told(u),
           next.phase = "next" \/ (next.phase = "clear" /\ next.all = targets), next.left = targets
    PROVE  ServedIInv'
<1>1. next # Missing
      BY JobFields
<1>2. job'[w] = next /\ embyid \in [Account -> Nat]
      BY DEF ServedIInv, ServedTypeOK
<1>3. Right(job[w])' /\ ~Making(next) /\ ~Making(job[w]) /\ ~In(w, "record")
      BY <1>1, <1>2 DEF Right, Making, In
<1>4. \A u : TellsOf(next, u) => Told(u)
      BY <1>1 DEF TellsOf
<1> QED BY <1>2, <1>3, <1>4, QuietKeeps

LEMMA TargetsTold ==
    ASSUME ServedTypeOK, NEW a \in Account
    PROVE  Targets(a) \subseteq Instance \X Nat /\ \A i, u : <<i, u>> \in Targets(a) => Told(u)
<1>1. ASSUME NEW j \in Instance, Live(binding[a][j])
      PROVE  binding[a][j] # Missing /\ binding[a][j].user \in Nat /\ Told(binding[a][j].user)
      BY <1>1 DEF Live, ServedTypeOK, BindingRow, Told
<1> QED BY <1>1 DEF Targets

LEMMA BeginsPolicyKeeps ==
    ASSUME ServedIInv, NEW w \in Hand, NEW does \in {"suspend", "restore"}, NEW targets \in SUBSET (Instance \X Nat),
           BeginsPolicy(w, does, targets), \A i, u : <<i, u>> \in targets => Told(u)
    PROVE  ServedIInv'
<1>1. PICK next : next = [phase |-> "next", does |-> does, left |-> targets]
      OBVIOUS
<1>2. next \in Job /\ next.phase = "next" /\ next.left = targets
      BY <1>1 DEF Job, Targeting
<1> QED BY <1>1, <1>2, BeginsKeeps DEF BeginsPolicy

LEMMA BeginsLifecycleKeeps == ASSUME ServedIInv, NEW w \in Hand, NEW a \in Account, BeginsLifecycle(w, a) PROVE ServedIInv'
<1>1. PICK does \in {"suspend", "restore"} : BeginsPolicy(w, does, Targets(a))
      BY DEF BeginsLifecycle
<1> QED BY <1>1, TargetsTold, BeginsPolicyKeeps DEF ServedIInv

LEMMA BeginsFilterKeeps == ASSUME ServedIInv, NEW w \in Hand, NEW a \in Account, BeginsFilter(w, a) PROVE ServedIInv'
<1>1. Told(embyid[a]) /\ embyid[a] \in Nat
      BY DEF BeginsFilter, Told, ServedIInv, ServedTypeOK
<1>2. embyid[a] \in DOMAIN user
      BY <1>1 DEF ServedIInv, UsersKnown
<1>3. user[embyid[a]].at \in Instance
      <2>1. user \in Seq(RemoteUser)
            BY DEF ServedIInv, ServedTypeOK
      <2>2. user[embyid[a]] \in RemoteUser
            BY <1>2, <2>1
      <2> QED BY <2>2 DEF RemoteUser
<1>4. PICK targets : targets = {<<user[embyid[a]].at, embyid[a]>>}
      OBVIOUS
<1>5. targets \in SUBSET (Instance \X Nat) /\ \A i, u : <<i, u>> \in targets => Told(u)
      BY <1>1, <1>3, <1>4
<1>6. BeginsPolicy(w, "suspend", targets)
      BY <1>4 DEF BeginsFilter
<1> QED BY <1>5, <1>6, BeginsPolicyKeeps

LEMMA BeginsClearKeeps == ASSUME ServedIInv, NEW w \in Hand, NEW a \in Account, BeginsClear(w, a) PROVE ServedIInv'
<1>1. PICK next : next = [phase |-> "clear", account |-> a, left |-> Targets(a), all |-> Targets(a)]
      OBVIOUS
<1>2. Targets(a) \subseteq Instance \X Nat /\ \A i, u : <<i, u>> \in Targets(a) => Told(u)
      BY TargetsTold DEF ServedIInv
<1>3. next \in Job /\ next.phase = "clear" /\ next.all = Targets(a) /\ next.left = Targets(a)
      BY <1>1, <1>2 DEF Job, Clearing
<1> QED BY <1>1, <1>2, <1>3, BeginsKeeps DEF BeginsClear

LEMMA UserWritten ==
    ASSUME ServedTypeOK, NEW u \in DOMAIN user, NEW row \in RemoteUser, user' = [user EXCEPT ![u] = row]
    PROVE  /\ user' \in Seq(RemoteUser) /\ DOMAIN user' = DOMAIN user
           /\ user'[u] = row /\ \A x \in DOMAIN user : x # u => user'[x] = user[x]
      BY DEF ServedTypeOK

LEMMA RemoveDoes ==
    ASSUME ServedTypeOK, NEW u \in DOMAIN user, Remove(u)
    PROVE  /\ user' \in Seq(RemoteUser) /\ DOMAIN user' = DOMAIN user
           /\ user'[u].at = user[u].at /\ user'[u].removed
           /\ \A x \in DOMAIN user : x # u => user'[x] = user[x]
<1>1. user[u] \in RemoteUser
      BY DEF ServedTypeOK
<1>2. PICK row : row = [user[u] EXCEPT !.removed = TRUE]
      OBVIOUS
<1>3. row \in RemoteUser /\ row.at = user[u].at /\ row.removed
      BY <1>1, <1>2 DEF RemoteUser
<1>4. user' = [user EXCEPT ![u] = row]
      BY <1>2 DEF Remove
<1> QED BY <1>3, <1>4, UserWritten

LEMMA DisableDoes ==
    ASSUME ServedTypeOK, NEW u \in DOMAIN user, NEW disabled \in BOOLEAN, user' = [user EXCEPT ![u].disabled = disabled]
    PROVE  /\ user' \in Seq(RemoteUser) /\ DOMAIN user' = DOMAIN user
           /\ user'[u].at = user[u].at /\ user'[u].removed = user[u].removed /\ user'[u].disabled = disabled
           /\ \A x \in DOMAIN user : x # u => user'[x] = user[x]
<1>1. user[u] \in RemoteUser
      BY DEF ServedTypeOK
<1>2. PICK row : row = [user[u] EXCEPT !.disabled = disabled]
      OBVIOUS
<1>3. row \in RemoteUser /\ row.at = user[u].at /\ row.removed = user[u].removed /\ row.disabled = disabled
      BY <1>1, <1>2 DEF RemoteUser
<1>4. user' = [user EXCEPT ![u] = row]
      BY <1>2
<1> QED BY <1>3, <1>4, UserWritten

LEMMA ToldSources ==
    ASSUME NEW w \in Hand, \A v \in Hand \ {w} : Like(job[v], job'[v]),
           \A a \in Account, i \in Instance : binding'[a][i] # Missing =>
               \/ binding[a][i] # Missing /\ binding'[a][i].user = binding[a][i].user
               \/ TellsOf(job'[w], binding'[a][i].user),
           \A a \in Account : embyid'[a] \in {0, embyid[a]}
    PROVE  \A u : Told(u)' => Told(u) \/ TellsOf(job'[w], u)
<1> SUFFICES ASSUME NEW u, Told(u)' PROVE Told(u) \/ TellsOf(job'[w], u)
    BY Zenon
<1>1. CASE \E a \in Account, i \in Instance : binding'[a][i] # Missing /\ binding'[a][i].user = u
      BY <1>1 DEF Told
<1>2. CASE \E a \in Account : embyid'[a] = u /\ u # 0
      BY <1>2 DEF Told
<1>3. CASE \E v \in Hand : TellsOf(job'[v], u)
      BY <1>3, LikeTells DEF Told
<1> QED BY <1>1, <1>2, <1>3 DEF Told

LEMMA PlacedKept ==
    ASSUME NEW u \in DOMAIN user, user'[u].at = user[u].at, ServedTypeOK, Placed(u),
           \A a \in Account, i \in Instance : Live(binding[a][i]) /\ binding[a][i].user = u =>
               Live(binding'[a][i]) /\ binding'[a][i].user = u
    PROVE  Placed(u)'
<1>1. user[u].at \in Instance
      <2>1. user \in Seq(RemoteUser)
            BY DEF ServedTypeOK
      <2>2. user[u] \in RemoteUser
            BY <2>1
      <2> QED BY <2>2 DEF RemoteUser
<1>2. PICK a \in Account : Live(binding[a][user[u].at]) /\ binding[a][user[u].at].user = u
      BY DEF Placed
<1>3. Live(binding'[a][user'[u].at]) /\ binding'[a][user'[u].at].user = u
      BY <1>1, <1>2
<1> QED BY <1>3 DEF Placed, Live

LEMMA Carries ==
    ASSUME ServedTypeOK, NEW w \in Hand, NEW phase \in {"equip", "bind", "complete", "undo", "unbind"}, In(w, phase)
    PROVE  /\ job[w] \in Carrying /\ job[w] # Missing /\ job[w].phase = phase
           /\ job[w].account \in Account /\ job[w].at \in Instance /\ job[w].user \in Nat
<1>1. job[w] \in Job /\ job[w] # Missing /\ job[w].phase = phase
      BY DEF In, ServedTypeOK
<1> QED BY <1>1, JobFields

\* A registration goes on to its next phase.
LEMMA GoDoes ==
    ASSUME NEW r \in Carrying, NEW phase \in {"bind", "complete", "undo", "unbind"}
    PROVE  \E next \in Carrying :
             /\ next = [r EXCEPT !.phase = phase] /\ next \in Job /\ next # Missing /\ next.phase = phase
             /\ next.account = r.account /\ next.user = r.user /\ next.at = r.at
<1>1. PICK next : next = [r EXCEPT !.phase = phase]
      OBVIOUS
<1>2. next \in Carrying /\ next.phase = phase /\ next.account = r.account /\ next.user = r.user /\ next.at = r.at
      BY <1>1 DEF Carrying
<1>3. next \in Job /\ next # Missing
      BY <1>2, InstanceAssumption DEF Job
<1> QED BY <1>1, <1>2, <1>3

LEMMA EquipsKeeps == ASSUME ServedIInv, NEW w \in Hand, Equips(w) PROVE ServedIInv'
<1>0. ServedTypeOK /\ UsersKnown /\ JobsRight /\ UsersAccounted /\ BindingsAgree
      BY DEF ServedIInv
<1>1. job[w] \in Carrying /\ job[w] # Missing /\ job[w].phase = "equip" /\ In(w, "equip")
      BY <1>0, Carries DEF Equips
<1>2. /\ Making(job[w]) /\ ~In(w, "record") /\ job[w].user \in DOMAIN user /\ ~Told(job[w].user)
      /\ AtFirst(user[job[w].user], job[w].at)
      BY <1>0, <1>1 DEF Making, UsersKnown, In
<1>3. UNCHANGED <<binding, embyid, unsure>> /\ stray \subseteq stray'
      BY DEF Equips
<1>4. ASSUME Go(w, "bind"), UNCHANGED <<user, stray>> PROVE ServedIInv'
      <2>1. PICK next \in Carrying :
              /\ next = [job[w] EXCEPT !.phase = "bind"] /\ next \in Job /\ next # Missing /\ next.phase = "bind"
              /\ next.account = job[w].account /\ next.user = job[w].user /\ next.at = job[w].at
            BY <1>1, GoDoes
      <2>2. job' = [job EXCEPT ![w] = next]
            BY <1>4, <2>1 DEF Go
      <2>3. /\ job' \in [Hand -> {Missing} \union Job] /\ job'[w] = next
            /\ \A v \in Hand \ {w} : Like(job[v], job'[v])
            BY <1>0, <2>1, <2>2, TurnDoes
      <2>4. ServedTypeOK' /\ Gently(w)
            BY <1>0, <1>3, <1>4, <2>3 DEF ServedTypeOK, Gently
      <2>5. Making(next) /\ \A u : ~TellsOf(next, u)
            BY <2>1 DEF Making, TellsOf
      <2>6. \A u : Told(u)' => Told(u)
            BY <1>3, <2>3, <2>5, ToldSources
      <2>7. UsersKnown'
            BY <1>0, <1>2, <1>4, <2>1, <2>3, <2>4, <2>5, <2>6, KnownKept
      <2>8. Right(job[w])'
            BY <1>2, <1>4, <2>1, <2>3 DEF Right, AtFirst
      <2>9. JobsRight'
            BY <1>0, <2>4, <2>8, RightKept
      <2>10. \A u : Placed(u)' <=> Placed(u)
            BY <1>3, <1>4 DEF Placed
      <2>11. UsersAccounted'
            BY <1>0, <1>4, <2>1, <2>3, <2>4, <2>5, <2>10, AccountedKept
      <2>12. BindingsAgree'
            BY <1>0, <1>2, <1>3, <1>4, <2>4, AgreeKept
      <2> QED BY <2>4, <2>7, <2>9, <2>11, <2>12 DEF ServedIInv
<1>5. ASSUME Rest(w), Remove(job[w].user), UNCHANGED stray PROVE ServedIInv'
      <2> DEFINE u == job[w].user
      <2>1. job' = [job EXCEPT ![w] = Missing]
            BY <1>5 DEF Rest
      <2>2. /\ job' \in [Hand -> {Missing} \union Job] /\ job'[w] = Missing
            /\ \A v \in Hand \ {w} : Like(job[v], job'[v])
            BY <1>0, <2>1, TurnDoes
      <2>3. /\ user' \in Seq(RemoteUser) /\ DOMAIN user' = DOMAIN user
            /\ user'[u].at = user[u].at /\ user'[u].removed
            /\ \A x \in DOMAIN user : x # u => user'[x] = user[x]
            BY <1>0, <1>2, <1>5, RemoveDoes
      <2> HIDE DEF u
      <2>4. ServedTypeOK' /\ Gently(w)
            <3>1. u = job[w].user
                  BY DEF u
            <3> QED BY <1>0, <1>2, <1>3, <2>2, <2>3, <3>1 DEF ServedTypeOK, Gently
      <2>5. ~Making(Missing) /\ \A x : ~TellsOf(Missing, x)
            BY DEF Making, TellsOf
      <2>6. \A x : Told(x)' => Told(x)
            BY <1>3, <2>2, <2>5, ToldSources
      <2>7. UsersKnown'
            BY <1>0, <2>2, <2>4, <2>5, <2>6, KnownKept
      <2>8. Right(job[w])'
            BY <2>2 DEF Right
      <2>9. JobsRight'
            BY <1>0, <2>4, <2>8, RightKept
      <2>10. \A x \in DOMAIN user : Placed(x) => Placed(x)'
            BY <1>0, <1>3, <2>3, PlacedKept
      <2>11. UsersAccounted'
            <3>1. \A x \in DOMAIN user' : ~user'[x].removed => x \in DOMAIN user /\ x # job[w].user
                  BY <2>3 DEF u
            <3> QED BY <1>0, <2>4, <2>10, <3>1, AccountedKept
      <2>12. BindingsAgree'
            <3>1. \A x \in DOMAIN user : user'[x] # user[x] => ~Told(x)
                  BY <1>2, <2>3 DEF u
            <3> QED BY <1>0, <1>2, <1>3, <2>4, <3>1, AgreeKept
      <2> QED BY <2>4, <2>7, <2>9, <2>11, <2>12 DEF ServedIInv
<1>6. ASSUME Rest(w), stray' = stray \union {job[w].user}, UNCHANGED user PROVE ServedIInv'
      <2>1. job' = [job EXCEPT ![w] = Missing] /\ job'[w] = Missing /\ embyid \in [Account -> Nat]
            BY <1>0, <1>6 DEF Rest, ServedTypeOK
      <2>2. Right(job[w])' /\ ~Making(Missing) /\ \A u : ~TellsOf(Missing, u)
            BY <2>1 DEF Right, Making, TellsOf
      <2> QED BY <1>2, <1>3, <1>6, <2>1, <2>2, QuietKeeps
<1> QED BY <1>4, <1>5, <1>6 DEF Equips

LEMMA BindingWritten ==
    ASSUME ServedTypeOK, NEW a \in Account, NEW i \in Instance, NEW b \in {Missing} \union BindingRow,
           binding' = [binding EXCEPT ![a][i] = b]
    PROVE  /\ binding' \in [Account -> [Instance -> {Missing} \union BindingRow]]
           /\ \A x \in Account, j \in Instance : binding'[x][j] = IF x = a /\ j = i THEN b ELSE binding[x][j]
      BY DEF ServedTypeOK

LEMMA BindsKeeps == ASSUME ServedIInv, NEW w \in Hand, Binds(w) PROVE ServedIInv'
<1>0. ServedTypeOK /\ UsersKnown /\ JobsRight /\ UsersAccounted /\ BindingsAgree
      BY DEF ServedIInv
<1>1. /\ job[w] \in Carrying /\ job[w] # Missing /\ job[w].phase = "bind" /\ In(w, "bind")
      /\ job[w].account \in Account /\ job[w].at \in Instance /\ job[w].user \in Nat
      BY <1>0, Carries DEF Binds
<1>2. /\ Making(job[w]) /\ ~In(w, "record") /\ job[w].user \in DOMAIN user /\ ~Told(job[w].user)
      /\ AtFirst(user[job[w].user], job[w].at)
      BY <1>0, <1>1 DEF Making, UsersKnown, In
<1>3. UNCHANGED <<user, embyid, unsure>>
      BY DEF Binds
<1>4. CASE binding[job[w].account][job[w].at] = Missing
      <2>1. /\ binding' = [binding EXCEPT ![job[w].account][job[w].at] = [user |-> job[w].user, status |-> "active"]]
            /\ Go(w, "complete") /\ UNCHANGED stray
            BY <1>4 DEF Binds
      <2>2. PICK b : b = [user |-> job[w].user, status |-> "active"]
            OBVIOUS
      <2>3. b \in BindingRow /\ b.user = job[w].user /\ b.status = "active" /\ b # Missing
            BY <1>1, <2>2, InstanceAssumption DEF BindingRow
      <2>4. /\ binding' \in [Account -> [Instance -> {Missing} \union BindingRow]]
            /\ \A x \in Account, j \in Instance :
                 binding'[x][j] = IF x = job[w].account /\ j = job[w].at THEN b ELSE binding[x][j]
            BY <1>0, <1>1, <2>1, <2>2, <2>3, BindingWritten
      <2>5. PICK next \in Carrying :
              /\ next = [job[w] EXCEPT !.phase = "complete"] /\ next \in Job /\ next # Missing /\ next.phase = "complete"
              /\ next.account = job[w].account /\ next.user = job[w].user /\ next.at = job[w].at
            BY <1>1, GoDoes
      <2>6. job' = [job EXCEPT ![w] = next]
            BY <2>1, <2>5 DEF Go
      <2>7. /\ job' \in [Hand -> {Missing} \union Job] /\ job'[w] = next
            /\ \A v \in Hand \ {w} : Like(job[v], job'[v])
            BY <1>0, <2>5, <2>6, TurnDoes
      <2>8. ServedTypeOK' /\ Gently(w)
            BY <1>0, <1>3, <2>1, <2>4, <2>7 DEF ServedTypeOK, Gently
      <2>9. ~Making(next) /\ \A u : TellsOf(next, u) <=> u = job[w].user
            BY <2>5 DEF Making, TellsOf
      <2>10. \A u : Told(u)' => Told(u) \/ TellsOf(job'[w], u)
            BY <1>1, <1>3, <2>3, <2>4, <2>7, <2>9, ToldSources
      <2>11. UsersKnown'
            BY <1>0, <1>2, <2>7, <2>8, <2>9, <2>10, KnownKept
      <2>12. Right(job[w])'
            BY <1>2, <1>3, <2>5, <2>7 DEF Right, AtFirst
      <2>13. JobsRight'
            BY <1>0, <2>8, <2>12, RightKept
      <2>14. \A u \in DOMAIN user : Placed(u) => Placed(u)'
            BY <1>0, <1>3, <1>4, <2>4, PlacedKept DEF Live
      <2>15. \A u : u = job[w].user => Placed(u)'
            <3>1. Live(binding'[job[w].account][job[w].at]) /\ binding'[job[w].account][job[w].at].user = job[w].user
                  BY <1>1, <2>3, <2>4 DEF Live
            <3> SUFFICES ASSUME NEW u, u = job[w].user PROVE Placed(u)'
                BY Zenon
            <3>2. user'[u].at = job[w].at
                  BY <1>2, <1>3 DEF AtFirst
            <3> QED BY <1>1, <3>1, <3>2 DEF Placed, Live
      <2>16. UsersAccounted'
            BY <1>0, <1>3, <2>8, <2>14, <2>15, AccountedKept
      <2>17. BindingsAgree'
            <3>1. \A c, j : c = b /\ j = job[w].at => Agrees(j, c)'
                  <4>1. user[job[w].user] \in RemoteUser
                        BY <1>0, <1>2 DEF ServedTypeOK
                  <4>2. user[job[w].user].disabled = (b.status = "suspended")
                        BY <1>2, <2>3, <4>1 DEF RemoteUser, AtFirst
                  <4> QED BY <1>2, <1>3, <2>3, <4>2 DEF Agrees, AtFirst
            <3>2. \A x \in Account, j \in Instance : Live(binding'[x][j]) =>
                      binding'[x][j] = binding[x][j] \/ \A c : c = binding'[x][j] => Agrees(j, c)'
                  BY <2>4, <3>1
            <3> QED BY <1>0, <1>2, <1>3, <2>8, <3>2, AgreeKept
      <2> QED BY <2>8, <2>11, <2>13, <2>16, <2>17 DEF ServedIInv
<1>5. CASE binding[job[w].account][job[w].at] # Missing
      <2>1. job' = [job EXCEPT ![w] = Missing] /\ stray' = stray \union {job[w].user} /\ UNCHANGED binding
            BY <1>5 DEF Binds, Rest
      <2>2. job'[w] = Missing /\ embyid \in [Account -> Nat]
            BY <1>0, <2>1 DEF ServedTypeOK
      <2>3. Right(job[w])' /\ ~Making(Missing) /\ \A u : ~TellsOf(Missing, u)
            BY <2>2 DEF Right, Making, TellsOf
      <2> QED BY <1>2, <1>3, <2>1, <2>2, <2>3, QuietKeeps
<1> QED BY <1>4, <1>5

LEMMA UndoRemovesKeeps == ASSUME ServedIInv, NEW w \in Hand, UndoRemoves(w) PROVE ServedIInv'
<1>0. ServedTypeOK /\ UsersKnown /\ JobsRight /\ UsersAccounted /\ BindingsAgree
      BY DEF ServedIInv
<1>1. /\ job[w] \in Carrying /\ job[w] # Missing /\ job[w].phase = "undo" /\ In(w, "undo")
      /\ job[w].at \in Instance /\ job[w].user \in Nat
      BY <1>0, Carries DEF UndoRemoves
<1>2. /\ ~Making(job[w]) /\ ~In(w, "record") /\ Told(job[w].user) /\ job[w].user \in DOMAIN user
      /\ user[job[w].user].at = job[w].at
      BY <1>0, <1>1, NamedIsTold DEF Making, UsersKnown, In, JobsRight, Right
<1>3. PICK next \in Carrying :
        /\ next = [job[w] EXCEPT !.phase = "unbind"] /\ next \in Job /\ next # Missing /\ next.phase = "unbind"
        /\ next.account = job[w].account /\ next.user = job[w].user /\ next.at = job[w].at
      BY <1>1, GoDoes
<1>4. Crosses(w, About(w), next) /\ UNCHANGED <<binding, embyid>>
      BY <1>3 DEF UndoRemoves
<1>5. /\ job' \in [Hand -> {Missing} \union Job] /\ job'[w] = next
      /\ \A v \in Hand \ {w} :
           /\ Like(job[v], job'[v])
           /\ In(v, "record") /\ About(v) = About(w) => job'[v].crossed
      BY <1>0, <1>3, <1>4, CrossesDoes
<1>6. /\ \/ /\ Remove(job[w].user) /\ unsure' = unsure \union {About(w)} /\ UNCHANGED stray
         \/ stray' = stray \union {job[w].user} /\ UNCHANGED <<user, unsure>>
      /\ stray \subseteq stray' /\ unsure \subseteq unsure'
      BY DEF UndoRemoves
<1>7. /\ user' \in Seq(RemoteUser) /\ DOMAIN user' = DOMAIN user
      /\ user'[job[w].user].at = user[job[w].user].at
      /\ user[job[w].user].removed => user'[job[w].user].removed
      /\ user'[job[w].user].removed \/ job[w].user \in stray'
      /\ \A x \in DOMAIN user : x # job[w].user => user'[x] = user[x]
      /\ user' # user => About(w) \in unsure'
      <2>1. CASE Remove(job[w].user) /\ unsure' = unsure \union {About(w)}
            BY <1>0, <1>2, <2>1, RemoveDoes
      <2>2. CASE UNCHANGED user /\ stray' = stray \union {job[w].user}
            BY <1>0, <2>2 DEF ServedTypeOK
      <2> QED BY <1>6, <2>1, <2>2
<1>8. ServedTypeOK' /\ Gently(w)
      <2>1. About(w) = <<user[job[w].user].at, job[w].user>>
            BY <1>2 DEF About
      <2> QED BY <1>0, <1>2, <1>4, <1>5, <1>6, <1>7, <2>1 DEF ServedTypeOK, Gently
<1>9. ~Making(next) /\ \A u : TellsOf(next, u) <=> u = job[w].user
      BY <1>3 DEF Making, TellsOf
<1>10. \A u : Told(u)' => Told(u) \/ TellsOf(job'[w], u)
      BY <1>4, <1>5, ToldSources
<1>11. UsersKnown'
      <2>1. \A u : Told(u)' => Told(u)
            BY <1>2, <1>5, <1>9, <1>10
      <2> QED BY <1>0, <1>5, <1>8, <1>9, <2>1, KnownKept
<1>12. Right(job[w])'
      BY <1>2, <1>3, <1>5, <1>7 DEF Right
<1>13. JobsRight'
      BY <1>0, <1>8, <1>12, RightKept
<1>14. UsersAccounted'
      <2>1. \A u \in DOMAIN user : Placed(u) => Placed(u)'
            BY <1>0, <1>4, <1>7, PlacedKept
      <2> QED BY <1>0, <1>2, <1>7, <1>8, <2>1, AccountedKept
<1>15. BindingsAgree'
      <2>1. \A u \in DOMAIN user : user'[u] # user[u] => <<user[u].at, u>> \in unsure'
            BY <1>2, <1>7 DEF About
      <2> QED BY <1>0, <1>2, <1>4, <1>6, <1>8, <2>1, AgreeKept
<1> QED BY <1>8, <1>11, <1>13, <1>14, <1>15 DEF ServedIInv

LEMMA UnbindsKeeps == ASSUME ServedIInv, NEW w \in Hand, Unbinds(w) PROVE ServedIInv'
<1>0. ServedTypeOK /\ UsersKnown /\ JobsRight /\ UsersAccounted /\ BindingsAgree
      BY DEF ServedIInv
<1>1. /\ job[w] \in Carrying /\ job[w] # Missing /\ job[w].phase = "unbind" /\ In(w, "unbind")
      /\ job[w].account \in Account /\ job[w].at \in Instance /\ job[w].user \in Nat
      BY <1>0, Carries DEF Unbinds
<1>2. /\ ~Making(job[w]) /\ ~In(w, "record")
      /\ user[job[w].user].removed \/ job[w].user \in stray
      BY <1>1, <1>0 DEF Making, In, JobsRight, Right
<1>3. job' = [job EXCEPT ![w] = Missing] /\ UNCHANGED <<user, embyid, unsure, stray>>
      BY DEF Unbinds, Rest
<1>4. /\ binding' \in [Account -> [Instance -> {Missing} \union BindingRow]]
      /\ \A x \in Account, j \in Instance :
           \/ binding'[x][j] = binding[x][j]
           \/ binding'[x][j] = Missing /\ binding[x][j].user = job[w].user
      <2>1. CASE binding' = binding
            BY <1>0, <2>1 DEF ServedTypeOK
      <2>2. CASE /\ binding[job[w].account][job[w].at].user = job[w].user
                 /\ binding' = [binding EXCEPT ![job[w].account][job[w].at] = Missing]
            BY <1>0, <1>1, <2>2, BindingWritten
      <2> QED BY <2>1, <2>2 DEF Unbinds
<1>5. /\ job' \in [Hand -> {Missing} \union Job] /\ job'[w] = Missing
      /\ \A v \in Hand \ {w} : Like(job[v], job'[v])
      BY <1>0, <1>3, TurnDoes
<1>6. ServedTypeOK' /\ Gently(w)
      BY <1>0, <1>3, <1>4, <1>5 DEF ServedTypeOK, Gently
<1>7. ~Making(Missing) /\ Right(job[w])' /\ \A u : ~TellsOf(Missing, u)
      BY <1>5 DEF Making, Right, TellsOf
<1>8. \A u : Told(u)' => Told(u)
      BY <1>3, <1>4, <1>5, <1>7, ToldSources
<1>9. UsersKnown'
      BY <1>0, <1>5, <1>6, <1>7, <1>8, KnownKept
<1>10. JobsRight'
      BY <1>0, <1>6, <1>7, RightKept
<1>11. UsersAccounted'
      <2>1. \A u \in DOMAIN user : u # job[w].user /\ Placed(u) => Placed(u)'
            BY <1>0, <1>3, <1>4, PlacedKept
      <2> QED BY <1>0, <1>2, <1>3, <1>6, <2>1, AccountedKept
<1>12. BindingsAgree'
      <2>1. \A x \in Account, j \in Instance : Live(binding'[x][j]) => binding'[x][j] = binding[x][j]
            BY <1>4 DEF Live
      <2> QED BY <1>0, <1>2, <1>3, <1>6, <2>1, AgreeKept
<1> QED BY <1>6, <1>9, <1>10, <1>11, <1>12 DEF ServedIInv

LEMMA SetsPolicyKeeps ==
    ASSUME ServedIInv, NEW w \in Hand, NEW i \in Instance, NEW u \in DOMAIN user, SetsPolicy(w, <<i, u>>)
    PROVE  ServedIInv'
<1>0. ServedTypeOK /\ UsersKnown /\ JobsRight /\ UsersAccounted /\ BindingsAgree /\ u \in Nat
      BY DEF ServedIInv, ServedTypeOK
<1>1. /\ job[w] # Missing /\ job[w].phase = "next" /\ job[w] \in Job /\ <<i, u>> \in job[w].left
      /\ user[u].at = i /\ ~user[u].removed
      /\ UNCHANGED <<binding, embyid, unsure, stray>>
      BY <1>0 DEF SetsPolicy, In, Found, ServedTypeOK
<1>2. /\ job[w].does \in {"suspend", "restore"} /\ job[w].left \subseteq Instance \X Nat
      /\ ~Making(job[w]) /\ ~In(w, "record")
      BY <1>1, JobFields DEF Making, In
<1>3. \A x, j : <<j, x>> \in job[w].left => Told(x)
      BY <1>1, <1>2 DEF Told, TellsOf
<1>4. PICK mine : mine = [phase |-> "record", does |-> job[w].does, at |-> i, user |-> u,
                          left |-> job[w].left \ {<<i, u>>}, crossed |-> Between(w, <<i, u>>) # {}]
      OBVIOUS
<1>5. /\ mine \in Recording /\ mine.does = job[w].does /\ mine.at = i /\ mine.user = u
      /\ mine.left \subseteq job[w].left
      BY <1>0, <1>2, <1>4 DEF Recording
<1>6. mine # Missing /\ mine.phase = "record" /\ mine \in Job
      BY <1>5, RecordingPhase
<1>7. Crosses(w, <<i, u>>, mine) /\ user' = [user EXCEPT ![u].disabled = job[w].does = "suspend"]
      BY <1>4 DEF SetsPolicy
<1>8. /\ job' \in [Hand -> {Missing} \union Job] /\ job'[w] = mine
      /\ \A v \in Hand \ {w} :
           /\ Like(job[v], job'[v])
           /\ In(v, "record") /\ About(v) = <<i, u>> => job'[v].crossed
      BY <1>0, <1>6, <1>7, CrossesDoes
<1>9. /\ user' \in Seq(RemoteUser) /\ DOMAIN user' = DOMAIN user
      /\ user'[u].at = user[u].at /\ user'[u].removed = user[u].removed
      /\ user'[u].disabled = (job[w].does = "suspend")
      /\ \A x \in DOMAIN user : x # u => user'[x] = user[x]
      BY <1>0, <1>7, DisableDoes
<1>10. Told(u)
      BY <1>1, <1>3
<1>11. ServedTypeOK' /\ Gently(w)
      BY <1>0, <1>1, <1>8, <1>9, <1>10 DEF ServedTypeOK, Gently
<1>12. \A x : Told(x)' => Told(x)
      <2>1. \A x : Told(x)' => Told(x) \/ TellsOf(job'[w], x)
            BY <1>1, <1>8, ToldSources
      <2>2. \A x : TellsOf(mine, x) => Told(x)
            BY <1>3, <1>5, <1>6, <1>10 DEF TellsOf
      <2> QED BY <1>8, <2>1, <2>2
<1>13. UsersKnown'
      <2>1. ~Making(mine)
            BY <1>6 DEF Making
      <2> QED BY <1>0, <1>8, <1>11, <1>12, <2>1, KnownKept
<1>14. JobsRight'
      <2>1. Right(job[w])'
            BY <1>1, <1>5, <1>6, <1>8, <1>9 DEF Right
      <2> QED BY <1>0, <1>11, <2>1, RightKept
<1>15. UsersAccounted'
      <2>1. \A x \in DOMAIN user : Placed(x) => Placed(x)'
            BY <1>0, <1>1, <1>9, PlacedKept
      <2> QED BY <1>0, <1>2, <1>9, <1>11, <2>1, AccountedKept
<1>16. BindingsAgree'
      <2>1. \A x \in DOMAIN user : user'[x] # user[x] =>
                job'[w] # Missing /\ job'[w].phase = "record" /\ job'[w].at = user[x].at /\ job'[w].user = x
            BY <1>1, <1>5, <1>6, <1>8, <1>9
      <2> QED BY <1>0, <1>1, <1>2, <1>11, <2>1, AgreeKept
<1> QED BY <1>11, <1>13, <1>14, <1>15, <1>16 DEF ServedIInv

LEMMA RemovesUserKeeps ==
    ASSUME ServedIInv, NEW w \in Hand, NEW i \in Instance, NEW u \in DOMAIN user, RemovesUser(w, <<i, u>>)
    PROVE  ServedIInv'
<1>0. ServedTypeOK /\ UsersKnown /\ JobsRight /\ UsersAccounted /\ BindingsAgree /\ u \in Nat
      BY DEF ServedIInv, ServedTypeOK
<1>1. /\ job[w] # Missing /\ job[w].phase = "clear" /\ job[w] \in Job /\ <<i, u>> \in job[w].left
      /\ user[u].at = i
      /\ unsure' = unsure \union {<<i, u>>} /\ UNCHANGED <<binding, embyid, stray>>
      BY <1>0 DEF RemovesUser, In, Found, ServedTypeOK
<1>2. job[w] \in Clearing /\ ~Making(job[w]) /\ ~In(w, "record")
      BY <1>1, JobFields DEF Making, In
<1>3. PICK next : next = [job[w] EXCEPT !.left = @ \ {<<i, u>>}]
      OBVIOUS
<1>4. next \in Clearing /\ next.phase = "clear" /\ next.all = job[w].all /\ next.left = job[w].left \ {<<i, u>>}
      BY <1>2, <1>3 DEF Clearing
<1>5. next \in Job /\ next # Missing
      BY <1>4, InstanceAssumption DEF Job
<1>6. Crosses(w, <<i, u>>, next) /\ Remove(u)
      BY <1>3 DEF RemovesUser
<1>7. /\ job' \in [Hand -> {Missing} \union Job] /\ job'[w] = next
      /\ \A v \in Hand \ {w} :
           /\ Like(job[v], job'[v])
           /\ In(v, "record") /\ About(v) = <<i, u>> => job'[v].crossed
      BY <1>0, <1>5, <1>6, CrossesDoes
<1>8. /\ user' \in Seq(RemoteUser) /\ DOMAIN user' = DOMAIN user
      /\ user'[u].at = user[u].at /\ user'[u].removed
      /\ \A x \in DOMAIN user : x # u => user'[x] = user[x]
      BY <1>0, <1>6, RemoveDoes
<1>9. \A x : TellsOf(next, x) => TellsOf(job[w], x)
      BY <1>1, <1>4, <1>5 DEF TellsOf
<1>10. Told(u)
      BY <1>1 DEF Told, TellsOf
<1>11. ServedTypeOK' /\ Gently(w)
      BY <1>0, <1>1, <1>7, <1>8, <1>10 DEF ServedTypeOK, Gently
<1>12. \A x : Told(x)' => Told(x)
      <2>1. \A x : Told(x)' => Told(x) \/ TellsOf(job'[w], x)
            BY <1>1, <1>7, ToldSources
      <2> QED BY <1>7, <1>9, <2>1 DEF Told
<1>13. UsersKnown'
      <2>1. ~Making(next)
            BY <1>4 DEF Making
      <2> QED BY <1>0, <1>7, <1>11, <1>12, <2>1, KnownKept
<1>14. JobsRight'
      <2>1. ASSUME NEW x \in Nat, NEW j \in Instance, <<j, x>> \in next.all, <<j, x>> \notin next.left
            PROVE  user'[x].removed
            <3>1. CASE x = u
                  BY <1>8, <3>1
            <3>2. CASE x # u
                  <4>1. <<j, x>> \in job[w].all /\ <<j, x>> \notin job[w].left
                        BY <1>4, <2>1, <3>2
                  <4>2. user[x].removed /\ x \in DOMAIN user
                        BY <1>0, <1>1, <4>1 DEF JobsRight, Right, UsersKnown, Told, TellsOf
                  <4> QED BY <1>8, <3>2, <4>2
            <3> QED BY <3>1, <3>2
      <2>2. Right(job[w])'
            BY <1>4, <1>7, <2>1 DEF Right
      <2> QED BY <1>0, <1>11, <2>2, RightKept
<1>15. UsersAccounted'
      <2>1. \A x \in DOMAIN user : Placed(x) => Placed(x)'
            BY <1>0, <1>1, <1>8, PlacedKept
      <2> QED BY <1>0, <1>2, <1>8, <1>11, <2>1, AccountedKept
<1>16. BindingsAgree'
      <2>1. \A x \in DOMAIN user : user'[x] # user[x] => <<user[x].at, x>> \in unsure'
            BY <1>1, <1>8
      <2> QED BY <1>0, <1>1, <1>2, <1>11, <2>1, AgreeKept
<1> QED BY <1>11, <1>13, <1>14, <1>15, <1>16 DEF ServedIInv

LEMMA StatusWritten ==
    ASSUME NEW b \in BindingRow, NEW status \in {"active", "suspended", "deleted"},
           NEW c, c = [b EXCEPT !.status = status]
    PROVE  c \in BindingRow /\ c # Missing /\ c.user = b.user /\ c.status = status
<1>1. c \in BindingRow /\ c.user = b.user /\ c.status = status
      BY DEF BindingRow
<1> QED BY <1>1, InstanceAssumption

LEMMA RecordsPolicyKeeps == ASSUME ServedIInv, NEW w \in Hand, RecordsPolicy(w) PROVE ServedIInv'
<1>0. ServedTypeOK /\ UsersKnown /\ JobsRight /\ UsersAccounted /\ BindingsAgree
      /\ binding \in [Account -> [Instance -> {Missing} \union BindingRow]]
      BY DEF ServedIInv, ServedTypeOK
<1>1. /\ job[w] # Missing /\ job[w].phase = "record" /\ job[w] \in Job /\ In(w, "record")
      /\ UNCHANGED <<user, embyid, stray>>
      BY <1>0 DEF RecordsPolicy, In, ServedTypeOK
<1>2. /\ job[w].does \in {"suspend", "restore"} /\ job[w].left \subseteq Instance \X Nat
      /\ ~Making(job[w]) /\ job[w].crossed \in BOOLEAN
      BY <1>1, JobFields DEF Making
<1>3. PICK status : status = StatusOf(job[w].does)
      OBVIOUS
<1>4. status \in {"active", "suspended"} /\ (status = "suspended" <=> job[w].does = "suspend")
      BY <1>2, <1>3 DEF StatusOf
<1>5. /\ binding' \in [Account -> [Instance -> {Missing} \union BindingRow]]
      /\ \A a \in Account, i \in Instance :
           \/ /\ binding'[a][i] = binding[a][i]
              /\ ~(binding[a][i] # Missing /\ <<i, binding[a][i].user>> = About(w))
           \/ /\ binding[a][i] # Missing /\ binding'[a][i] # Missing /\ <<i, binding[a][i].user>> = About(w)
              /\ binding'[a][i].user = binding[a][i].user /\ binding'[a][i].status = status
      <2>1. binding' = [a \in Account |-> [i \in Instance |->
                IF i = job[w].at /\ binding[a][i] # Missing /\ binding[a][i].user = job[w].user
                THEN [binding[a][i] EXCEPT !.status = status] ELSE binding[a][i]]]
            BY <1>3 DEF RecordsPolicy, About
      <2>2. ASSUME NEW a \in Account, NEW i \in Instance
            PROVE  /\ binding'[a][i] \in {Missing} \union BindingRow
                   /\ \/ /\ binding'[a][i] = binding[a][i]
                         /\ ~(binding[a][i] # Missing /\ <<i, binding[a][i].user>> = About(w))
                      \/ /\ binding[a][i] # Missing /\ binding'[a][i] # Missing
                         /\ <<i, binding[a][i].user>> = About(w)
                         /\ binding'[a][i].user = binding[a][i].user /\ binding'[a][i].status = status
            <3>1. CASE i = job[w].at /\ binding[a][i] # Missing /\ binding[a][i].user = job[w].user
                  <4>1. PICK b \in BindingRow : b = binding[a][i]
                        BY <1>0, <3>1
                  <4>2. PICK c : c = [b EXCEPT !.status = status]
                        OBVIOUS
                  <4>3. c \in BindingRow /\ c # Missing /\ c.user = b.user /\ c.status = status
                        BY <1>4, <4>2, StatusWritten
                  <4>4. binding'[a][i] = c
                        BY <2>1, <3>1, <4>1, <4>2
                  <4>5. <<i, binding[a][i].user>> = About(w)
                        BY <3>1 DEF About
                  <4> QED BY <3>1, <4>1, <4>3, <4>4, <4>5
            <3>2. CASE ~(i = job[w].at /\ binding[a][i] # Missing /\ binding[a][i].user = job[w].user)
                  <4>1. binding'[a][i] = binding[a][i]
                        BY <2>1, <3>2
                  <4> QED BY <1>0, <3>2, <4>1 DEF About
            <3> QED BY <3>1, <3>2
      <2>3. binding' \in [Account -> [Instance -> {Missing} \union BindingRow]]
            BY <2>1, <2>2
      <2> QED BY <2>2, <2>3
<1>6. PICK next \in {Missing} \union Job :
        /\ job' = [job EXCEPT ![w] = next] /\ ~Making(next)
        /\ \A u : TellsOf(next, u) => TellsOf(job[w], u)
        /\ next # Missing => next.phase = "next"
      <2>1. CASE job[w].left = {}
            BY <2>1 DEF RecordsPolicy, Rest, Making, TellsOf
      <2>2. CASE job[w].left # {}
            <3>1. PICK next : next = [phase |-> "next", does |-> job[w].does, left |-> job[w].left]
                  OBVIOUS
            <3>2. next \in Job /\ next.phase = "next" /\ next.left = job[w].left
                  BY <1>2, <3>1 DEF Job, Targeting
            <3>3. job' = [job EXCEPT ![w] = next]
                  BY <1>0, <2>2, <3>1 DEF RecordsPolicy, ServedTypeOK
            <3>4. ~Making(next) /\ \A u : TellsOf(next, u) => TellsOf(job[w], u)
                  BY <1>1, <3>2 DEF Making, TellsOf
            <3> QED BY <3>2, <3>3, <3>4
      <2> QED BY <2>1, <2>2
<1>7. /\ job' \in [Hand -> {Missing} \union Job] /\ job'[w] = next
      /\ \A v \in Hand \ {w} : Like(job[v], job'[v]) /\ job'[v] = job[v]
      BY <1>0, <1>6, TurnDoes
<1>8. ServedTypeOK' /\ Gently(w)
      BY <1>0, <1>1, <1>5, <1>7 DEF ServedTypeOK, Gently
<1>9. UsersKnown'
      <2>1. \A u : Told(u)' => Told(u) \/ TellsOf(job'[w], u)
            BY <1>1, <1>5, <1>7, ToldSources
      <2>2. \A u : Told(u)' => Told(u)
            BY <1>6, <1>7, <2>1 DEF Told
      <2> QED BY <1>0, <1>6, <1>7, <1>8, <2>2, KnownKept
<1>10. JobsRight'
      <2>1. Right(job[w])'
            BY <1>6, <1>7 DEF Right
      <2> QED BY <1>0, <1>8, <2>1, RightKept
<1>11. UsersAccounted'
      <2>1. \A u \in DOMAIN user : Placed(u) => Placed(u)'
            <3>1. \A a \in Account, i \in Instance :
                      Live(binding[a][i]) => Live(binding'[a][i]) /\ binding'[a][i].user = binding[a][i].user
                  BY <1>4, <1>5 DEF Live
            <3> QED BY <1>0, <1>1, <3>1, PlacedKept
      <2> QED BY <1>0, <1>1, <1>2, <1>8, <2>1, AccountedKept
<1>12. BindingsAgree'
      <2> SUFFICES ASSUME NEW a \in Account, NEW i \in Instance, NEW b, b = binding'[a][i], Live(b),
                          Settled(i, b.user)'
                   PROVE  Agrees(i, b)'
          <3>1. \A a \in Account, i \in Instance : \A b :
                    b = binding'[a][i] /\ Live(b) /\ Settled(i, b.user)' => Agrees(i, b)'
                OBVIOUS
          <3> QED BY <3>1 DEF BindingsAgree, Settled, Agrees
      <2>1. /\ <<i, b.user>> \notin unsure'
            /\ \A v \in Hand : ~(job'[v] # Missing /\ job'[v].phase = "record"
                                 /\ <<job'[v].at, job'[v].user>> = <<i, b.user>>)
            BY DEF Settled, In, About
      <2>2. unsure' = IF job[w].crossed THEN unsure \union {About(w)} ELSE unsure \ {About(w)}
            BY DEF RecordsPolicy
      <2>3. CASE b = binding[a][i] /\ <<i, b.user>> # About(w)
            <3>1. Settled(i, b.user)
                  BY <1>2, <1>7, <2>1, <2>2, <2>3 DEF Settled, In, About
            <3>2. Agrees(i, b)
                  BY <1>0, <2>3, <3>1, BindingsSettled
            <3> QED BY <1>1, <3>2 DEF Agrees
      <2>4. CASE <<i, b.user>> = About(w) /\ b.status = status
            <3>1. ~job[w].crossed
                  BY <1>2, <2>1, <2>2, <2>4
            <3>2. /\ user[job[w].user].at = job[w].at /\ ~user[job[w].user].removed
                  /\ user[job[w].user].disabled = (job[w].does = "suspend")
                  BY <1>0, <1>1, <3>1 DEF JobsRight, Right
            <3>3. job[w].at = i /\ job[w].user = b.user
                  BY <2>4 DEF About
            <3>4. (job[w].does = "suspend") = (b.status = "suspended")
                  BY <1>4, <2>4
            <3> QED BY <1>1, <3>2, <3>3, <3>4 DEF Agrees
      <2> QED BY <1>5, <2>3, <2>4 DEF Live
<1> QED BY <1>8, <1>9, <1>10, <1>11, <1>12 DEF ServedIInv

LEMMA MarksDeletedKeeps == ASSUME ServedIInv, NEW w \in Hand, MarksDeleted(w) PROVE ServedIInv'
<1>0. ServedTypeOK /\ UsersKnown /\ JobsRight /\ UsersAccounted /\ BindingsAgree
      /\ binding \in [Account -> [Instance -> {Missing} \union BindingRow]]
      BY DEF ServedIInv, ServedTypeOK
<1>1. /\ job[w] # Missing /\ job[w].phase = "clear" /\ job[w] \in Job /\ job[w].left = {}
      /\ UNCHANGED <<user, embyid, unsure, stray>>
      BY <1>0 DEF MarksDeleted, In, ServedTypeOK
<1>2. job[w].account \in Account /\ job[w].all \subseteq Instance \X Nat /\ ~Making(job[w]) /\ ~In(w, "record")
      BY <1>1, JobFields DEF Making, In
<1>3. \A i, u : <<i, u>> \in job[w].all => user[u].removed
      BY <1>0, <1>1, <1>2 DEF JobsRight, Right
<1>4. /\ binding' \in [Account -> [Instance -> {Missing} \union BindingRow]]
      /\ \A a \in Account, i \in Instance :
           \/ binding'[a][i] = binding[a][i]
           \/ /\ binding[a][i] # Missing /\ binding'[a][i] # Missing
              /\ <<i, binding[a][i].user>> \in job[w].all
              /\ binding'[a][i].user = binding[a][i].user /\ ~Live(binding'[a][i])
      <2>1. binding' = [a \in Account |-> [i \in Instance |->
                IF binding[a][i] # Missing /\ <<i, binding[a][i].user>> \in job[w].all
                THEN [binding[a][i] EXCEPT !.status = "deleted"] ELSE binding[a][i]]]
            BY DEF MarksDeleted
      <2>2. ASSUME NEW a \in Account, NEW i \in Instance
            PROVE  /\ binding'[a][i] \in {Missing} \union BindingRow
                   /\ \/ binding'[a][i] = binding[a][i]
                      \/ /\ binding[a][i] # Missing /\ binding'[a][i] # Missing
                         /\ <<i, binding[a][i].user>> \in job[w].all
                         /\ binding'[a][i].user = binding[a][i].user /\ ~Live(binding'[a][i])
            <3>1. CASE binding[a][i] # Missing /\ <<i, binding[a][i].user>> \in job[w].all
                  <4>1. PICK b \in BindingRow : b = binding[a][i]
                        BY <1>0, <3>1
                  <4>2. PICK c : c = [b EXCEPT !.status = "deleted"]
                        OBVIOUS
                  <4>3. c \in BindingRow /\ c # Missing /\ c.user = b.user /\ ~Live(c)
                        BY <4>2, StatusWritten DEF Live
                  <4>4. binding'[a][i] = c
                        BY <2>1, <3>1, <4>1, <4>2
                  <4> QED BY <3>1, <4>1, <4>3, <4>4
            <3>2. CASE ~(binding[a][i] # Missing /\ <<i, binding[a][i].user>> \in job[w].all)
                  <4>1. binding'[a][i] = binding[a][i]
                        BY <2>1, <3>2
                  <4> QED BY <1>0, <4>1
            <3> QED BY <3>1, <3>2
      <2>3. binding' \in [Account -> [Instance -> {Missing} \union BindingRow]]
            BY <2>1, <2>2
      <2> QED BY <2>2, <2>3
<1>5. PICK next : next = [phase |-> "forget", account |-> job[w].account]
      OBVIOUS
<1>6. next \in Job /\ next # Missing /\ next.phase = "forget"
      BY <1>2, <1>5, InstanceAssumption DEF Job, Forgetting
<1>7. ~Making(next) /\ \A u : ~TellsOf(next, u)
      BY <1>6 DEF Making, TellsOf
<1>8. job' = [job EXCEPT ![w] = next]
      BY <1>0, <1>5 DEF MarksDeleted, ServedTypeOK
<1>9. /\ job' \in [Hand -> {Missing} \union Job] /\ job'[w] = next
      /\ \A v \in Hand \ {w} : Like(job[v], job'[v])
      BY <1>0, <1>6, <1>8, TurnDoes
<1>10. ServedTypeOK' /\ Gently(w)
      BY <1>0, <1>1, <1>4, <1>9 DEF ServedTypeOK, Gently
<1>11. UsersKnown'
      <2>1. \A u : Told(u)' => Told(u) \/ TellsOf(job'[w], u)
            BY <1>1, <1>4, <1>9, ToldSources
      <2> QED BY <1>0, <1>7, <1>9, <1>10, <2>1, KnownKept
<1>12. JobsRight'
      <2>1. Right(job[w])'
            BY <1>6, <1>9 DEF Right
      <2> QED BY <1>0, <1>10, <2>1, RightKept
<1>13. UsersAccounted'
      <2>1. \A u \in DOMAIN user : ~user[u].removed /\ Placed(u) => Placed(u)'
            <3>1. \A a \in Account, i \in Instance : \A u : Live(binding[a][i]) /\ binding[a][i].user = u /\ ~user[u].removed
                      => Live(binding'[a][i]) /\ binding'[a][i].user = u
                  BY <1>3, <1>4
            <3> QED BY <1>0, <1>1, <3>1, PlacedKept
      <2> QED BY <1>0, <1>1, <1>2, <1>10, <2>1, AccountedKept
<1>14. BindingsAgree'
      <2>1. \A a \in Account, i \in Instance : Live(binding'[a][i]) => binding'[a][i] = binding[a][i]
            BY <1>4
      <2> QED BY <1>0, <1>1, <1>2, <1>10, <2>1, AgreeKept
<1> QED BY <1>10, <1>11, <1>12, <1>13, <1>14 DEF ServedIInv

LEMMA AdoptKeeps == ASSUME ServedIInv, NEW i \in Instance, AdoptLegacyBindings(i) PROVE ServedIInv'
<1>0. ServedTypeOK /\ UsersKnown /\ JobsRight /\ UsersAccounted /\ BindingsAgree
      /\ binding \in [Account -> [Instance -> {Missing} \union BindingRow]]
      BY DEF ServedIInv, ServedTypeOK
<1>1. UNCHANGED <<user, embyid, job, stray>>
      BY DEF AdoptLegacyBindings
<1>2. PICK adopted : adopted = {a \in Account : embyid[a] # 0 /\ binding[a][i] = Missing}
      OBVIOUS
<1>3. PICK status \in {"active", "suspended"} :
        binding' = [a \in Account |->
             IF a \in adopted THEN [binding[a] EXCEPT ![i] = [user |-> embyid[a], status |-> status]] ELSE binding[a]]
      BY <1>2 DEF AdoptLegacyBindings
<1>4. unsure' = unsure \union {<<i, embyid[a]>> : a \in adopted}
      BY <1>2 DEF AdoptLegacyBindings
<1>5. /\ binding' \in [Account -> [Instance -> {Missing} \union BindingRow]]
      /\ \A a \in Account, j \in Instance :
           \/ binding'[a][j] = binding[a][j]
           \/ /\ binding[a][j] = Missing /\ binding'[a][j] # Missing /\ binding'[a][j].user = embyid[a]
              /\ embyid[a] # 0 /\ <<j, embyid[a]>> \in unsure'
      <2>1. ASSUME NEW a \in Account
            PROVE  /\ binding'[a] \in [Instance -> {Missing} \union BindingRow]
                   /\ \A j \in Instance :
                        \/ binding'[a][j] = binding[a][j]
                        \/ /\ binding[a][j] = Missing /\ binding'[a][j] # Missing /\ binding'[a][j].user = embyid[a]
                           /\ embyid[a] # 0 /\ <<j, embyid[a]>> \in unsure'
            <3>1. CASE a \in adopted
                  <4>1. PICK b : b = [user |-> embyid[a], status |-> status]
                        OBVIOUS
                  <4>2. b \in BindingRow /\ b # Missing /\ b.user = embyid[a]
                        BY <1>0, <4>1, InstanceAssumption DEF BindingRow, ServedTypeOK
                  <4>3. binding'[a] = [binding[a] EXCEPT ![i] = b]
                        BY <1>3, <3>1, <4>1
                  <4> QED BY <1>0, <1>2, <1>4, <3>1, <4>2, <4>3
            <3>2. CASE a \notin adopted
                  BY <1>0, <1>3, <3>2
            <3> QED BY <3>1, <3>2
      <2>2. binding' \in [Account -> [Instance -> {Missing} \union BindingRow]]
            BY <1>3, <2>1
      <2> QED BY <2>1, <2>2
<1>6. ServedTypeOK'
      BY <1>0, <1>1, <1>5 DEF ServedTypeOK
<1>7. ASSUME NEW u, Told(u)' PROVE Told(u)
      <2>1. CASE \E a \in Account, j \in Instance : binding'[a][j] # Missing /\ binding'[a][j].user = u
            <3>1. PICK a \in Account, j \in Instance : binding'[a][j] # Missing /\ binding'[a][j].user = u
                  BY <2>1
            <3>2. (binding[a][j] # Missing /\ binding[a][j].user = u) \/ (embyid[a] = u /\ embyid[a] # 0)
                  BY <1>5, <3>1
            <3> QED BY <3>2 DEF Told
      <2>2. CASE \E a \in Account : embyid'[a] = u /\ u # 0
            BY <1>1, <2>2 DEF Told
      <2>3. CASE \E v \in Hand : TellsOf(job'[v], u)
            BY <1>1, <2>3 DEF Told
      <2> QED BY <1>7, <2>1, <2>2, <2>3 DEF Told
<1>8. UsersKnown'
      BY <1>0, <1>1, <1>7 DEF UsersKnown
<1>9. JobsRight'
      BY <1>0, <1>1 DEF JobsRight, Right
<1>10. UsersAccounted'
      <2>1. \A u \in DOMAIN user : Placed(u) => Placed(u)'
            <3>1. \A a \in Account, j \in Instance : Live(binding[a][j]) => binding'[a][j] = binding[a][j]
                  BY <1>5 DEF Live
            <3> QED BY <1>0, <1>1, <3>1, PlacedKept
      <2>2. \A u \in DOMAIN user : ~user[u].removed =>
                Placed(u)' \/ u \in stray \/ \E w \in Hand : Making(job[w]) /\ job[w].user = u
            BY <1>0, <2>1, AccountedPlaced
      <2> QED BY <1>1, <2>2 DEF UsersAccounted, Placed, Making, In
<1>11. BindingsAgree'
      <2> SUFFICES ASSUME NEW a \in Account, NEW j \in Instance, NEW b, b = binding'[a][j], Live(b),
                          Settled(j, b.user)'
                   PROVE  Agrees(j, b)'
          <3>1. \A a \in Account, j \in Instance : \A b :
                    b = binding'[a][j] /\ Live(b) /\ Settled(j, b.user)' => Agrees(j, b)'
                OBVIOUS
          <3> QED BY <3>1 DEF BindingsAgree, Settled, Agrees
      <2>1. Settled(j, b.user) /\ <<j, b.user>> \notin unsure'
            BY <1>1, <1>4 DEF Settled, In, About
      <2>2. b = binding[a][j]
            BY <1>5, <2>1
      <2>3. Agrees(j, b)
            BY <1>0, <2>1, <2>2, BindingsSettled
      <2> QED BY <1>1, <2>3 DEF Agrees
<1> QED BY <1>6, <1>8, <1>9, <1>10, <1>11 DEF ServedIInv

LEMMA CreatesUserKeeps ==
    ASSUME ServedIInv, NEW w \in Hand, NEW a \in Account, NEW i \in Instance, CreatesUser(w, a, i)
    PROVE  ServedIInv'
<1>0. ServedTypeOK /\ UsersKnown /\ JobsRight /\ UsersAccounted /\ BindingsAgree /\ user \in Seq(RemoteUser)
      BY DEF ServedIInv, ServedTypeOK
<1>1. /\ job[w] = Missing /\ UNCHANGED <<binding, embyid, unsure>> /\ stray \subseteq stray'
      /\ user' = Append(user, [at |-> i, disabled |-> FALSE, removed |-> FALSE])
      BY DEF CreatesUser
<1>2. PICK n \in Nat : n = Len(user) + 1
      BY <1>0
<1>3. PICK row : row = [at |-> i, disabled |-> FALSE, removed |-> FALSE]
      OBVIOUS
<1>4. row \in RemoteUser /\ AtFirst(row, i)
      BY <1>3 DEF RemoteUser, AtFirst
<1>5. /\ user' \in Seq(RemoteUser) /\ DOMAIN user' = DOMAIN user \union {n} /\ n \notin DOMAIN user
      /\ user'[n] = row /\ \A u \in DOMAIN user : user'[u] = user[u]
      BY <1>0, <1>1, <1>2, <1>3, <1>4
<1>6. PICK next \in {Missing} \union Job :
        /\ job' = [job EXCEPT ![w] = next] /\ \A u : ~TellsOf(next, u)
        /\ \/ next = Missing /\ n \in stray'
           \/ next # Missing /\ next.phase = "equip" /\ next.user = n /\ next.at = i
      <2>1. CASE job' = [job EXCEPT ![w] = [phase |-> "equip", account |-> a, at |-> i, user |-> n]]
            <3>1. PICK next : next = [phase |-> "equip", account |-> a, at |-> i, user |-> n]
                  OBVIOUS
            <3>2. next \in Carrying /\ next.phase = "equip" /\ next.user = n /\ next.at = i
                  BY <3>1 DEF Carrying
            <3>3. next \in Job /\ next # Missing /\ \A u : ~TellsOf(next, u)
                  BY <3>2, InstanceAssumption DEF Job, TellsOf
            <3> QED BY <2>1, <3>1, <3>2, <3>3
      <2>2. CASE n \in stray' /\ UNCHANGED job
            <3>1. job' = [job EXCEPT ![w] = Missing]
                  BY <1>0, <1>1, <2>2 DEF ServedTypeOK
            <3> QED BY <2>2, <3>1 DEF TellsOf
      <2> QED BY <1>2, <2>1, <2>2 DEF CreatesUser
<1>7. /\ job' \in [Hand -> {Missing} \union Job] /\ job'[w] = next
      /\ \A v \in Hand \ {w} : Like(job[v], job'[v])
      BY <1>0, <1>6, TurnDoes
<1>8. ServedTypeOK' /\ Gently(w) /\ ~Making(job[w]) /\ ~In(w, "record")
      BY <1>0, <1>1, <1>5, <1>7 DEF ServedTypeOK, Gently, Making, In
<1>9. \A u : Told(u)' => Told(u)
      <2>1. \A u : Told(u)' => Told(u) \/ TellsOf(job'[w], u)
            BY <1>1, <1>7, ToldSources
      <2> QED BY <1>6, <1>7, <2>1
<1>10. UsersKnown'
      <2>1. Making(job'[w]) => job'[w].user = n /\ job'[w].at = i
            BY <1>6, <1>7 DEF Making
      <2> QED BY <1>0, <1>4, <1>5, <1>8, <1>9, <2>1, KnownKept
<1>11. JobsRight'
      <2>1. Right(job[w])'
            BY <1>4, <1>5, <1>6, <1>7 DEF Right, AtFirst
      <2> QED BY <1>0, <1>8, <2>1, RightKept
<1>12. UsersAccounted'
      <2>1. \A u \in DOMAIN user : Placed(u) => Placed(u)'
            BY <1>0, <1>1, <1>5, PlacedKept
      <2>2. n \in stray' \/ (Making(job'[w]) /\ job'[w].user = n)
            BY <1>6, <1>7 DEF Making
      <2> QED BY <1>0, <1>5, <1>8, <2>1, <2>2, AccountedKept
<1>13. BindingsAgree'
      BY <1>0, <1>1, <1>5, <1>8, AgreeKept
<1> QED BY <1>8, <1>10, <1>11, <1>12, <1>13 DEF ServedIInv

LEMMA ServedUnchanged == ASSUME ServedIInv, UNCHANGED served PROVE ServedIInv'
<1>1. UNCHANGED <<user, binding, embyid, job, unsure, stray>>
      BY DEF served
<1>2. \A u : Told(u)' <=> Told(u)
      BY <1>1 DEF Told
<1>3. ServedTypeOK' /\ UsersKnown'
      BY <1>1, <1>2 DEF ServedIInv, ServedTypeOK, UsersKnown
<1>4. JobsRight'
      BY <1>1 DEF ServedIInv, JobsRight, Right
<1>5. UsersAccounted' /\ BindingsAgree'
      BY <1>1 DEF ServedIInv, UsersAccounted, BindingsAgree, In, About
<1> QED BY <1>3, <1>4, <1>5 DEF ServedIInv

LEMMA ServedStep == ServedIInv /\ InstanceNext => ServedIInv'
<1> SUFFICES ASSUME ServedIInv, InstanceNext PROVE ServedIInv'
    OBVIOUS
<1>1. ASSUME UNCHANGED served PROVE ServedIInv'
      BY <1>1, ServedUnchanged
<1>2. ASSUME NEW i \in Instance, AdoptLegacyBindings(i) PROVE ServedIInv'
      BY <1>2, AdoptKeeps
<1>3. ASSUME NEW w \in Hand, \/ Equips(w) \/ Binds(w) \/ Completes(w) \/ UndoRemoves(w) \/ Unbinds(w)
      PROVE  ServedIInv'
      BY <1>3, EquipsKeeps, BindsKeeps, CompletesKeeps, UndoRemovesKeeps, UnbindsKeeps
<1>4. ASSUME NEW w \in Hand,
             \/ RecordsPolicy(w) \/ JobFails(w) \/ MarksDeleted(w) \/ ClearsUser(w) \/ StopsShort(w)
      PROVE  ServedIInv'
      BY <1>4, RecordsPolicyKeeps, JobFailsKeeps, MarksDeletedKeeps, ClearsUserKeeps, StopsShortKeeps
<1>5. ASSUME NEW w \in Hand, NEW a \in Account,
             \/ BeginsLifecycle(w, a) \/ BeginsFilter(w, a) \/ BeginsClear(w, a)
             \/ \E i \in Instance : CreatesUser(w, a, i)
      PROVE  ServedIInv'
      BY <1>5, BeginsLifecycleKeeps, BeginsFilterKeeps, BeginsClearKeeps, CreatesUserKeeps
<1>6. ASSUME NEW w \in Hand, NEW i \in Instance, NEW u \in DOMAIN user,
             SetsPolicy(w, <<i, u>>) \/ RemovesUser(w, <<i, u>>)
      PROVE  ServedIInv'
      BY <1>6, SetsPolicyKeeps, RemovesUserKeeps
<1>7. /\ \A p \in Admin : CommitsCredential(p) \/ CommitsInstance(p) => UNCHANGED served
      /\ \A p \in Admin, c \in Credential : BeginsCredential(p, c) => UNCHANGED served
      /\ \A p \in Admin, i \in Instance, c \in Credential : BeginsInstance(p, i, c) => UNCHANGED served
      /\ \A c \in Credential : CreateCredential(c) => UNCHANGED served
      /\ \A i \in Instance : DeleteInstance(i) => UNCHANGED served
      BY DEF CommitsCredential, CommitsInstance, BeginsCredential, BeginsInstance, CreateCredential, DeleteInstance
<1> QED BY <1>1, <1>2, <1>3, <1>4, <1>5, <1>6, <1>7, Zenon DEF InstanceNext

LEMMA ServedInit == InstanceInit => ServedIInv
<1> SUFFICES ASSUME InstanceInit PROVE ServedIInv
    OBVIOUS
<1>1. /\ binding = [a \in Account |-> [i \in Instance |-> Missing]]
      /\ job = [w \in Hand |-> Missing] /\ unsure = {}
      BY DEF InstanceInit
<1>2. /\ user \in Seq(RemoteUser) /\ embyid \in [Account -> Nat]
      /\ \A a \in Account : embyid[a] # 0 => embyid[a] \in DOMAIN user
      /\ \A u \in DOMAIN user : u \in stray
      <2>1. CASE user = << >> /\ embyid = [a \in Account |-> 0]
            BY <2>1
      <2>2. ASSUME NEW i \in Instance, NEW a \in Account,
                   user = <<[at |-> i, disabled |-> FALSE, removed |-> FALSE]>>,
                   embyid = [b \in Account |-> IF b = a THEN 1 ELSE 0], stray = {1}
            PROVE  /\ user \in Seq(RemoteUser) /\ embyid \in [Account -> Nat]
                   /\ \A b \in Account : embyid[b] # 0 => embyid[b] \in DOMAIN user
                   /\ \A u \in DOMAIN user : u \in stray
            <3>1. PICK row : row = [at |-> i, disabled |-> FALSE, removed |-> FALSE]
                  OBVIOUS
            <3>2. row \in RemoteUser
                  BY <2>2, <3>1 DEF RemoteUser
            <3>3. user = <<row>>
                  BY <2>2, <3>1, Zenon
            <3>4. user \in Seq(RemoteUser) /\ DOMAIN user = {1}
                  BY <3>2, <3>3
            <3>5. embyid \in [Account -> Nat] /\ \A b \in Account : embyid[b] \in {0, 1}
                  BY <2>2
            <3> QED BY <2>2, <3>4, <3>5
      <2> QED BY <2>1, <2>2 DEF InstanceInit
<1>3. ServedTypeOK
      BY <1>1, <1>2 DEF ServedTypeOK
<1>4. \A w \in Hand : ~Making(job[w]) /\ Right(job[w]) /\ \A u : ~TellsOf(job[w], u)
      BY <1>1 DEF Making, Right, TellsOf
<1>5. UsersKnown /\ JobsRight
      BY <1>1, <1>2, <1>4 DEF UsersKnown, JobsRight, Told
<1>6. UsersAccounted /\ BindingsAgree
      BY <1>1, <1>2 DEF UsersAccounted, BindingsAgree, Live
<1> QED BY <1>3, <1>5, <1>6 DEF ServedIInv

LEMMA InstancesStep == RowsIInv /\ ServedIInv /\ [Next]_platformVars => (RowsIInv /\ ServedIInv)'
<1> SUFFICES ASSUME RowsIInv, ServedIInv, [Next]_platformVars PROVE RowsIInv' /\ ServedIInv'
    OBVIOUS
<1>1. CASE InstanceNext
      BY <1>1, RowsStep, ServedStep
<1>2. CASE UNCHANGED instanceVars
      BY <1>2, RowsUnchanged, ServedUnchanged DEF instanceVars
<1>3. InstanceNext \/ UNCHANGED instanceVars
      BY DEF Next, MoveCommunity, MoveAccess, MoveInstances, MoveMonitoring, platformVars
<1> QED BY <1>1, <1>2, <1>3

LEMMA RowsInit == InstanceInit => RowsIInv
<1> SUFFICES ASSUME InstanceInit PROVE RowsIInv
    OBVIOUS
<1>1. PICK row : row = [emby |-> TRUE, active |-> TRUE]
      OBVIOUS
<1>2. row \in CredentialRow /\ row # Missing /\ row.emby
      <2>1. row \in CredentialRow /\ row.emby
            BY <1>1 DEF CredentialRow
      <2> QED BY <2>1, InstanceAssumption
<1>3. /\ credential = [c \in Credential |-> row]
      /\ instance \in [Instance -> {Missing} \union [credential: Credential, enabled: {TRUE}]]
      /\ form = [p \in Admin |-> Missing]
      BY <1>1 DEF InstanceInit
<1>4. [credential: Credential, enabled: {TRUE}] \subseteq InstanceRow
      BY DEF InstanceRow
<1>5. RowsTypeOK
      BY <1>2, <1>3, <1>4 DEF RowsTypeOK
<1>6. \A does, c : Forms(does, c) = {}
      BY <1>3 DEF Forms
<1>7. FormsRight
      BY <1>6 DEF FormsRight
<1>8. CredentialsKept
      <2>1. \A i \in Instance : instance[i] # Missing => instance[i].credential \in Credential
            BY <1>3
      <2> QED BY <1>2, <1>3, <2>1 DEF CredentialsKept
<1> QED BY <1>5, <1>7, <1>8 DEF RowsIInv

LEMMA InstancesInvariant == Spec => [](RowsIInv /\ ServedIInv)
<1>1. Init => RowsIInv /\ ServedIInv
      BY RowsInit, ServedInit DEF Init
<1> QED BY <1>1, InstancesStep, PTL DEF Spec

\* Servers, credentials and bindings tell the same of the users on them, however
\* administrators, registrations, account jobs and the client filter overlap or break off.
THEOREM UsersAreAccounted == Spec => []InstancesSound
<1>1. RowsIInv /\ ServedIInv => InstancesSound
      BY DEF RowsIInv, ServedIInv, InstancesSound
<1> QED BY <1>1, InstancesInvariant, PTL

=============================================================================

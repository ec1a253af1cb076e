--------------------------- MODULE ProvisionProofs ---------------------------
(***************************************************************************)
(* Proofs about Provision, for all accounts, servers, names and workers    *)
(* and every bound: a request makes one remote user, touches no user that  *)
(* was there before, and ends with a binding that works.                   *)
(*                                                                         *)
(* A worker finds a user by its name or by the id somebody stored, and     *)
(* acts on it several steps later, when others may have created, renamed   *)
(* or bound users.  What stays true of a user a worker has found is        *)
(* whatever was not renamed since (Ours); what stays true of a request     *)
(* whose preflight was marked is that no older user has its name (Clear).  *)
(***************************************************************************)
EXTENDS Provision, SequenceTheorems, TLAPS

Asked(k) == request[k].task # "none"

\* User u is one that request k may use, unless somebody renamed it.
Ours(k, u) ==
    /\ u \in DOMAIN emby
    /\ emby[u].instance = k[1]
    /\ emby[u].renamed = "no" => emby[u].name = k[2] /\ u > request[k].before

\* No user from before request k has the name it wants.
Clear(k) ==
    \A u \in DOMAIN emby :
        u <= request[k].before /\ emby[u].renamed = "no" /\ emby[u].instance = k[1]
            => emby[u].name # k[2]

\* Names are unique on a server, and a user keeps its name until it is renamed.
UsersSound ==
    /\ \A u, v \in DOMAIN emby :
         emby[u].instance = emby[v].instance /\ emby[u].name = emby[v].name => u = v
    /\ \A u \in DOMAIN emby : emby[u].made # Outside =>
         /\ emby[u].instance = emby[u].made[1]
         /\ emby[u].renamed = "no" => emby[u].name = emby[u].made[2]
         /\ emby[u].renamed = "late" => request[emby[u].made].remote # None

\* A request that was never made is empty; the user a request names is its own.
RequestsSound ==
    \A k \in Key :
        /\ ~Asked(k) => request[k] = NoRequest
        /\ Asked(k) => request[k].account # None
        /\ request[k].before <= Len(emby)
        /\ request[k].remote # None => Ours(k, request[k].remote)
        /\ request[k].preflight => Clear(k)
        /\ request[k].status = "succeeded" => request[k].remote # None

\* Who was given the password of a request is one of its users.
PasswordsSound ==
    \A u \in DOMAIN emby : emby[u].password # None =>
        Asked(emby[u].password) /\ Ours(emby[u].password, u)

\* A binding made for a request is its account's, unless the user was renamed.
BindingsSound ==
    \A u \in UserId : binding[u] # None /\ binding[u].origin = "provision" =>
        /\ u \in DOMAIN emby
        /\ emby[u].renamed = "no" =>
             \E k \in Key : /\ Asked(k) /\ binding[u].account = request[k].account
                            /\ emby[u].instance = k[1] /\ emby[u].name = k[2]

\* Worker row r is at a provision task.
Working(r) == r.phase \notin {"idle", "list", "store"}

\* What a worker believes of its request and its user.
Right(r) ==
    Working(r) =>
        /\ r.job \in Key /\ Asked(r.job)
        /\ r.phase = "read" /\ r.user # None => Ours(r.job, r.user)
        /\ r.phase = "read" /\ r.preflight => Clear(r.job)
        /\ r.phase \in {"mark", "create"} => Clear(r.job) /\ r.user = None
        /\ r.phase \in {"record", "password", "bind"} => r.user # None /\ Ours(r.job, r.user)
        /\ r.phase = "bind" /\ emby[r.user].renamed = "no" => emby[r.user].password = r.job

WorkersRight == \A w \in Worker : Right(run[w])

\* A worker that may still create or record a user.
Early(r) ==
    (r.phase = "read" /\ r.user = None) \/ r.phase \in {"mark", "create", "record"}

\* While no lease runs out under a living worker, a request has one worker, and
\* one that may still create a user knows that there is none yet.
OneWorker ==
    /\ \A v, w \in Worker :
         Working(run[v]) /\ Working(run[w]) /\ run[v].job = run[w].job => v = w
    /\ \A w \in Worker : Early(run[w]) => request[run[w].job].remote = None

IInv ==
    /\ TypeOK /\ UsersSound /\ RequestsSound /\ PasswordsSound /\ BindingsSound
    /\ WorkersRight
    /\ (spent["stall"] = 0 => OneWorker)
    /\ CreatedOnce /\ SucceededIsUsable /\ BoundNotOffered

-----------------------------------------------------------------------------
(* What each step does to the requests, the users and its worker. *)

LEMMA EmptyRequest == NoRequest \in Request
  BY ProvisionAssumption DEF NoRequest, Request, Task

LEMMA NewRequest ==
  ASSUME NEW a \in Account, NEW n \in 0..MaxUsers
  PROVE  [account |-> a, task |-> "open", attempts |-> 0, holder |-> None, status |-> "open",
          preflight |-> FALSE, remote |-> None, before |-> n] \in Request
<1>1. a \in Account \cup {None} /\ None \in Worker \cup {None} /\ None \in UserId \cup {None}
  OBVIOUS
<1>2. 0 \in Nat /\ "open" \in Task /\ "open" \in {"none", "open", "succeeded", "failed"} /\ FALSE \in BOOLEAN
  BY DEF Task
<1> QED
  BY <1>1, <1>2, Zenon DEF Request

LEMMA InitTyped == Init => TypeOK
<1> SUFFICES ASSUME Init PROVE TypeOK
  OBVIOUS
<1>1. NoRequest \in Request
  BY EmptyRequest
<1>2. Polling \in Run
  BY DEF Polling, Run, Phase, Fallible
<1>3. <<>> \in Seq(User) /\ Len(<<>>) <= MaxUsers
  BY ProvisionAssumption
<1> QED
  BY <1>1, <1>2, <1>3 DEF Init, TypeOK, Fault

\* The columns of a request that a step writes.
LEMMA RequestColumns ==
  ASSUME NEW r \in Request
  PROVE  /\ \A w \in Worker : \A s \in {"none", "open", "succeeded", "failed"} :
              [r EXCEPT !.attempts = r.attempts + 1, !.holder = w, !.status = s] \in Request
         /\ \A s \in {"none", "open", "succeeded", "failed"} :
              [r EXCEPT !.task = "open", !.attempts = 0, !.holder = None, !.status = s] \in Request
         /\ [r EXCEPT !.preflight = TRUE] \in Request
         /\ \A u \in UserId : [r EXCEPT !.remote = u] \in Request
         /\ \A u \in UserId : [r EXCEPT !.status = "succeeded", !.remote = u] \in Request
         /\ [r EXCEPT !.task = "succeeded", !.holder = None] \in Request
         /\ \A s \in {"none", "open", "succeeded", "failed"} : \A t \in Task :
              \A h \in Worker \cup {None} :
                [r EXCEPT !.status = s, !.task = t, !.holder = h] \in Request
<1> DEFINE State == {"none", "open", "succeeded", "failed"}
<1>1. ASSUME NEW w \in Worker, NEW s \in State
      PROVE  [r EXCEPT !.attempts = r.attempts + 1, !.holder = w, !.status = s] \in Request
  <2>1. r.attempts + 1 \in Nat
    BY DEF Request
  <2>2. \A n \in Nat : [r EXCEPT !.attempts = n, !.holder = w, !.status = s] \in Request
    BY DEF Request
  <2> QED
    BY <2>1, <2>2
<1>2. ASSUME NEW s \in State
      PROVE  [r EXCEPT !.task = "open", !.attempts = 0, !.holder = None, !.status = s] \in Request
  BY DEF Request, Task
<1>3. /\ [r EXCEPT !.preflight = TRUE] \in Request
      /\ [r EXCEPT !.task = "succeeded", !.holder = None] \in Request
  BY DEF Request, Task
<1>4. ASSUME NEW u \in UserId
      PROVE  /\ [r EXCEPT !.remote = u] \in Request
             /\ [r EXCEPT !.status = "succeeded", !.remote = u] \in Request
  BY DEF Request
<1>5. ASSUME NEW s \in State, NEW t \in Task, NEW h \in Worker \cup {None}
      PROVE  [r EXCEPT !.status = s, !.task = t, !.holder = h] \in Request
  BY DEF Request
<1> QED
  BY <1>1, <1>2, <1>3, <1>4, <1>5

\* What a worker remembers at each step.
LEMMA RunColumns ==
  ASSUME NEW r \in Run
  PROVE  /\ \A p \in Phase : [r EXCEPT !.phase = p] \in Run
         /\ \A p \in Phase : \A u \in UserId \cup {None} : [r EXCEPT !.user = u, !.phase = p] \in Run
         /\ \A p \in Phase : \A s \in SUBSET UserId : [r EXCEPT !.phase = p, !.seen = s] \in Run
  BY DEF Run

LEMMA UserIds == TypeOK => /\ DOMAIN emby = 1..Len(emby) /\ Len(emby) \in Nat
                          /\ DOMAIN emby \subseteq UserId
                          /\ \A u \in DOMAIN emby : emby[u] \in User
<1> SUFFICES ASSUME TypeOK
             PROVE  /\ DOMAIN emby = 1..Len(emby) /\ Len(emby) \in Nat
                    /\ DOMAIN emby \subseteq UserId
                    /\ \A u \in DOMAIN emby : emby[u] \in User
  OBVIOUS
<1>1. emby \in Seq(User) /\ Len(emby) <= MaxUsers /\ MaxUsers \in Nat
  BY ProvisionAssumption DEF TypeOK
<1> QED
  BY <1>1 DEF UserId

\* A new user is the last one, and the others stay as they were.
LEMMA Appends ==
  ASSUME TypeOK, NEW i \in Instance, NEW n \in Name, NEW by \in Key \cup {Outside},
         CanCreate(i, n), emby' = Append(emby, NewUser(i, n, by))
  PROVE  /\ emby' \in Seq(User) /\ Len(emby') = Len(emby) + 1 /\ Len(emby') <= MaxUsers
         /\ DOMAIN emby' = DOMAIN emby \cup {Len(emby) + 1}
         /\ \A u \in DOMAIN emby : emby'[u] = emby[u] /\ u # Len(emby) + 1
         /\ emby'[Len(emby) + 1] = NewUser(i, n, by)
<1>1. emby \in Seq(User) /\ NewUser(i, n, by) \in User
  BY DEF TypeOK, NewUser, User
<1>2. /\ emby' \in Seq(User) /\ Len(emby') = Len(emby) + 1
      /\ \A u \in 1..Len(emby) : emby'[u] = emby[u]
      /\ emby'[Len(emby) + 1] = NewUser(i, n, by)
  BY <1>1, AppendProperties
<1>3. DOMAIN emby = 1..Len(emby) /\ DOMAIN emby' = 1..Len(emby') /\ Len(emby) \in Nat
  BY <1>1, <1>2
<1>4. Len(emby) < MaxUsers /\ MaxUsers \in Nat
  BY ProvisionAssumption DEF CanCreate
<1> QED
  BY <1>2, <1>3, <1>4

LEMMA Creates ==
  ASSUME TypeOK, WorkersRight, NEW w \in Worker, CreateUser(w)
  PROVE  /\ run[w].job \in Key /\ run[w].job[1] \in Instance /\ run[w].job[2] \in Name
         /\ CanCreate(run[w].job[1], run[w].job[2])
         /\ emby' = Append(emby, NewUser(run[w].job[1], run[w].job[2], run[w].job))
<1>1. run[w].job \in Key
  BY DEF WorkersRight, Right, Working, CreateUser, At
<1> QED
  BY <1>1, ProvisionAssumption DEF CreateUser, Key

\* A rename, or a password, changes one user.
LEMMA Renames ==
  ASSUME TypeOK, NEW u \in DOMAIN emby, NEW n \in Name, OutsideRenames(u, n)
  PROVE  /\ emby' \in Seq(User) /\ Len(emby') = Len(emby) /\ DOMAIN emby' = DOMAIN emby
         /\ \A v \in DOMAIN emby : v # u => emby'[v] = emby[v]
         /\ emby'[u].instance = emby[u].instance /\ emby'[u].made = emby[u].made
         /\ emby'[u].password = emby[u].password /\ emby'[u].name = n
         /\ emby'[u].renamed = IF emby[u].renamed # "no" THEN emby[u].renamed
                               ELSE IF \E k \in Key : request[k].remote = u THEN "late" ELSE "early"
         /\ Named(emby[u].instance, n) = {}
<1> DEFINE how == IF emby[u].renamed # "no" THEN emby[u].renamed
                  ELSE IF \E k \in Key : request[k].remote = u THEN "late" ELSE "early"
           e == [emby[u] EXCEPT !.name = n, !.renamed = how]
<1>1. emby \in Seq(User) /\ emby[u] \in User /\ u \in 1..Len(emby) /\ Len(emby) \in Nat
  BY UserIds DEF TypeOK
<1>2. emby' = [emby EXCEPT ![u] = e] /\ Named(emby[u].instance, n) = {}
  BY DEF OutsideRenames
<1>3. how \in {"no", "early", "late"}
  BY <1>1 DEF User
<1>4. e \in User /\ e.instance = emby[u].instance /\ e.made = emby[u].made
      /\ e.password = emby[u].password /\ e.name = n /\ e.renamed = how
  <2> HIDE DEF how
  <2> QED
    BY <1>1, <1>3 DEF User
<1> HIDE DEF e, how
<1>5. /\ emby' \in Seq(User) /\ Len(emby') = Len(emby)
      /\ \A v \in 1..Len(emby) : emby'[v] = IF v = u THEN e ELSE emby[v]
  BY <1>1, <1>2, <1>4, ExceptSeq
<1>6. DOMAIN emby = 1..Len(emby) /\ DOMAIN emby' = 1..Len(emby')
  BY <1>1, <1>5
<1> QED
  BY <1>1, <1>2, <1>4, <1>5, <1>6 DEF how

LEMMA Passwords ==
  ASSUME TypeOK, WorkersRight, NEW w \in Worker, SetPassword(w)
  PROVE  /\ run[w].job \in Key /\ run[w].user \in DOMAIN emby
         /\ emby' \in Seq(User) /\ Len(emby') = Len(emby) /\ DOMAIN emby' = DOMAIN emby
         /\ \A v \in DOMAIN emby :
              /\ v # run[w].user => emby'[v] = emby[v]
              /\ emby'[v].instance = emby[v].instance /\ emby'[v].made = emby[v].made
              /\ emby'[v].name = emby[v].name /\ emby'[v].renamed = emby[v].renamed
         /\ emby'[run[w].user].password = run[w].job
<1> DEFINE u == run[w].user
           e == [emby[u] EXCEPT !.password = run[w].job]
<1>1. run[w].job \in Key /\ u \in DOMAIN emby
  BY DEF WorkersRight, Right, Working, SetPassword, At, Ours
<1>2. emby \in Seq(User) /\ emby[u] \in User /\ u \in 1..Len(emby) /\ Len(emby) \in Nat
  BY <1>1, UserIds DEF TypeOK
<1>3. emby' = [emby EXCEPT ![u] = e]
  BY DEF SetPassword
<1>4. e \in User /\ e.instance = emby[u].instance /\ e.made = emby[u].made
      /\ e.name = emby[u].name /\ e.renamed = emby[u].renamed /\ e.password = run[w].job
  BY <1>1, <1>2 DEF User
<1> HIDE DEF e, u
<1>5. /\ emby' \in Seq(User) /\ Len(emby') = Len(emby)
      /\ \A v \in 1..Len(emby) : emby'[v] = IF v = u THEN e ELSE emby[v]
  BY <1>2, <1>3, <1>4, ExceptSeq
<1>6. DOMAIN emby = 1..Len(emby) /\ DOMAIN emby' = 1..Len(emby')
  BY <1>2, <1>5
<1> QED
  BY <1>1, <1>4, <1>5, <1>6 DEF u

\* What the steps that write a request do to it.
LEMMA Requests ==
  ASSUME TypeOK, WorkersRight, [Next]_vars
  PROVE  /\ request' \in [Key -> Request]
         /\ \/ UNCHANGED request
            \/ \E a \in Account, k \in Key : RequestProvisioning(a, k)
            \/ \E k \in Key :
                 /\ \A j \in Key : j # k => request'[j] = request[j]
                 /\ request[k].task # "none" /\ request'[k].task # "none"
                 /\ request'[k].account = request[k].account
                 /\ request'[k].before = request[k].before
                 /\ \/ request'[k].remote = request[k].remote
                    \/ \E w \in Worker : k = run[w].job /\ (RecordUser(w) \/ BindUser(w))
                 /\ \/ request'[k].preflight = request[k].preflight
                    \/ \E w \in Worker : k = run[w].job /\ MarkPreflight(w)
                 /\ \/ request'[k].status = "succeeded" => request[k].status = "succeeded"
                    \/ \E w \in Worker : k = run[w].job /\ BindUser(w)
<1> DEFINE State == {"none", "open", "succeeded", "failed"}
           Goal == /\ request' \in [Key -> Request]
                   /\ \/ UNCHANGED request
                      \/ \E a \in Account, k \in Key : RequestProvisioning(a, k)
                      \/ \E k \in Key :
                           /\ \A j \in Key : j # k => request'[j] = request[j]
                           /\ request[k].task # "none" /\ request'[k].task # "none"
                           /\ request'[k].account = request[k].account
                           /\ request'[k].before = request[k].before
                           /\ \/ request'[k].remote = request[k].remote
                              \/ \E w \in Worker : k = run[w].job /\ (RecordUser(w) \/ BindUser(w))
                           /\ \/ request'[k].preflight = request[k].preflight
                              \/ \E w \in Worker : k = run[w].job /\ MarkPreflight(w)
                           /\ \/ request'[k].status = "succeeded" => request[k].status = "succeeded"
                              \/ \E w \in Worker : k = run[w].job /\ BindUser(w)
<1>0. request \in [Key -> Request] /\ run \in [Worker -> Run]
  BY DEF TypeOK
<1>1. ASSUME UNCHANGED request PROVE Goal
  BY <1>0, <1>1
<1>2. ASSUME NEW a \in Account, NEW k \in Key, RequestProvisioning(a, k) PROVE Goal
  <2>1. Len(emby) \in 0..MaxUsers
    BY UserIds, ProvisionAssumption DEF TypeOK
  <2>2. PICK r \in Request : request' = [request EXCEPT ![k] = r]
    <3>1. PICK n \in 0..MaxUsers : n = Len(emby)
      BY <2>1
    <3> QED
      BY <1>2, <3>1, NewRequest DEF RequestProvisioning
  <2>3. request' \in [Key -> Request]
    BY <1>0, <2>2
  <2> QED
    BY <1>2, <2>3
<1>3. ASSUME NEW k \in Key, RetryTask(k) PROVE Goal
  <2>0. request[k] \in Request
    BY <1>0
  <2>1. PICK s : s = Reopened(k) /\ s \in State /\ (s = "succeeded" => request[k].status = "succeeded")
    BY <2>0 DEF Reopened, Request
  <2>2. PICK r : r = [request[k] EXCEPT !.task = "open", !.attempts = 0, !.holder = None, !.status = s]
    OBVIOUS
  <2>3. request' = [request EXCEPT ![k] = r] /\ request[k].task = "failed"
    BY <1>3, <2>1, <2>2 DEF RetryTask
  <2>4. /\ r \in Request /\ r.task = "open" /\ r.status = s /\ r.account = request[k].account
        /\ r.before = request[k].before /\ r.remote = request[k].remote
        /\ r.preflight = request[k].preflight
    <3>1. r.task = "open" /\ r.status = s /\ r.account = request[k].account
          /\ r.before = request[k].before /\ r.remote = request[k].remote
          /\ r.preflight = request[k].preflight
      BY <2>0, <2>2, <2>3 DEF Request
    <3> QED
      BY <2>0, <2>1, <2>2, <3>1, RequestColumns
  <2> QED
    BY <1>0, <2>1, <2>3, <2>4
<1>4. ASSUME NEW w \in Worker, NEW k \in Key, Start(w, k) PROVE Goal
  <2>0. request[k] \in Request
    BY <1>0
  <2>1. PICK s : s = Reopened(k) /\ s \in State /\ (s = "succeeded" => request[k].status = "succeeded")
    BY <2>0 DEF Reopened, Request
  <2>2. PICK r : r = [request[k] EXCEPT !.attempts = request[k].attempts + 1, !.holder = w, !.status = s]
    OBVIOUS
  <2>3. request' = [request EXCEPT ![k] = r] /\ request[k].task = "open"
    BY <1>4, <2>1, <2>2 DEF Start
  <2>4. /\ r \in Request /\ r.task = "open" /\ r.status = s /\ r.account = request[k].account
        /\ r.before = request[k].before /\ r.remote = request[k].remote
        /\ r.preflight = request[k].preflight
    <3>1. r.task = "open" /\ r.status = s /\ r.account = request[k].account
          /\ r.before = request[k].before /\ r.remote = request[k].remote
          /\ r.preflight = request[k].preflight
      BY <2>0, <2>2, <2>3 DEF Request
    <3> QED
      BY <2>0, <2>1, <2>2, <3>1, RequestColumns
  <2> QED
    BY <1>0, <2>1, <2>3, <2>4
<1>5. ASSUME NEW w \in Worker, MarkPreflight(w) PROVE Goal
  <2>1. run[w].job \in Key /\ Asked(run[w].job)
    BY <1>5 DEF WorkersRight, Right, Working, MarkPreflight, At
  <2>2. PICK k \in Key : k = run[w].job
    BY <2>1
  <2>3. CASE request[k].preflight
    BY <1>1, <1>5, <2>2, <2>3 DEF MarkPreflight
  <2>4. CASE ~request[k].preflight
    <3>1. request' = [request EXCEPT ![k] = [request[k] EXCEPT !.preflight = TRUE]]
      BY <1>5, <2>2, <2>4 DEF MarkPreflight
    <3>2. request[k] \in Request /\ [request[k] EXCEPT !.preflight = TRUE] \in Request
      BY <1>0, RequestColumns
    <3>3. PICK r \in Request : r = [request[k] EXCEPT !.preflight = TRUE]
      BY <3>2
    <3>4. /\ r.task = request[k].task /\ r.account = request[k].account /\ r.before = request[k].before
          /\ r.remote = request[k].remote /\ r.status = request[k].status
      BY <3>2, <3>3 DEF Request
    <3>5. request' = [request EXCEPT ![k] = r]
      BY <3>1, <3>3
    <3> QED
      BY <1>0, <1>5, <2>1, <2>2, <3>4, <3>5 DEF Asked
  <2> QED
    BY <2>3, <2>4
<1>6. ASSUME NEW w \in Worker, RecordUser(w) PROVE Goal
  <2>1. run[w].job \in Key /\ Asked(run[w].job) /\ run[w].user # None /\ run[w].user \in UserId \cup {None}
    BY <1>0, <1>6 DEF WorkersRight, Right, Working, RecordUser, At, Run
  <2>2. PICK k \in Key : k = run[w].job
    BY <2>1
  <2>3. PICK u \in UserId : u = run[w].user
    BY <2>1
  <2>4. request' = [request EXCEPT ![k] = [request[k] EXCEPT !.remote = u]]
    BY <1>6, <2>2, <2>3 DEF RecordUser
  <2>5. request[k] \in Request /\ [request[k] EXCEPT !.remote = u] \in Request
    BY <1>0, RequestColumns
  <2> QED
    BY <1>0, <1>6, <2>1, <2>2, <2>4, <2>5 DEF Request, Asked
<1>7. ASSUME NEW w \in Worker, BindUser(w) PROVE Goal
  <2>1. run[w].job \in Key /\ Asked(run[w].job) /\ run[w].user # None /\ run[w].user \in UserId \cup {None}
    BY <1>0, <1>7 DEF WorkersRight, Right, Working, BindUser, At, Run
  <2>2. PICK k \in Key : k = run[w].job
    BY <2>1
  <2>3. PICK u \in UserId : u = run[w].user
    BY <2>1
  <2>4. request' = [request EXCEPT ![k] = [request[k] EXCEPT !.status = "succeeded", !.remote = u]]
    BY <1>7, <2>2, <2>3 DEF BindUser
  <2>5. request[k] \in Request /\ [request[k] EXCEPT !.status = "succeeded", !.remote = u] \in Request
    BY <1>0, RequestColumns
  <2> QED
    BY <1>0, <1>7, <2>1, <2>2, <2>4, <2>5 DEF Request, Asked
<1>8. ASSUME NEW w \in Worker, Finish(w) \/ Fail(w) PROVE Goal
  <2>1. run[w].job \in Key /\ Asked(run[w].job)
    BY <1>8 DEF WorkersRight, Right, Working, Finish, Fail, At
  <2>2. PICK k \in Key : k = run[w].job
    BY <2>1
  <2>3. request[k] \in Request
    BY <1>0
  <2>4. PICK r : /\ request' = [request EXCEPT ![k] = r]
                 /\ \/ r = request[k]
                    \/ r = [request[k] EXCEPT !.task = "succeeded", !.holder = None]
                    \/ \E s \in {"failed", "open"}, t \in {"failed", request[k].task},
                          h \in {None, request[k].holder} :
                         r = [request[k] EXCEPT !.status = s, !.task = t, !.holder = h]
    <3>1. CASE Finish(w)
      BY <1>0, <2>2, <3>1 DEF Finish
    <3>2. CASE Fail(w)
      <4> DEFINE over == At(w, "permanent") \/ run[w].attempt >= MaxAttempts
                 s == IF over THEN "failed" ELSE "open"
                 t == IF request[k].holder = w /\ over THEN "failed" ELSE request[k].task
                 h == IF request[k].holder = w THEN None ELSE request[k].holder
      <4>1. request' = [request EXCEPT ![k] = [request[k] EXCEPT !.status = s, !.task = t, !.holder = h]]
        BY <2>2, <3>2 DEF Fail
      <4>2. s \in {"failed", "open"} /\ t \in {"failed", request[k].task} /\ h \in {None, request[k].holder}
        OBVIOUS
      <4> HIDE DEF s, t, h
      <4> QED
        BY <4>1, <4>2
    <3> QED
      BY <1>8, <3>1, <3>2
  <2> DEFINE Kept == /\ r \in Request /\ r.task # "none" /\ r.account = request[k].account
                     /\ r.before = request[k].before /\ r.remote = request[k].remote
                     /\ r.preflight = request[k].preflight
                     /\ r.status = "succeeded" => request[k].status = "succeeded"
  <2>5. Kept
    <3>1. CASE r = request[k]
      BY <2>1, <2>2, <2>3, <3>1 DEF Asked
    <3>2. CASE r = [request[k] EXCEPT !.task = "succeeded", !.holder = None]
      <4>1. r \in Request
        BY <2>3, <3>2, RequestColumns
      <4> QED
        BY <2>3, <3>2, <4>1 DEF Request
    <3>3. ASSUME NEW s \in {"failed", "open"}, NEW t \in {"failed", request[k].task},
                 NEW h \in {None, request[k].holder},
                 r = [request[k] EXCEPT !.status = s, !.task = t, !.holder = h]
          PROVE  Kept
      <4>1. t \in Task /\ h \in Worker \cup {None} /\ t # "none" /\ s \in State
        BY <2>1, <2>2, <2>3 DEF Request, Task, Asked
      <4>2. r \in Request
        BY <2>3, <3>3, <4>1, RequestColumns
      <4>3. /\ r.task = t /\ r.account = request[k].account /\ r.before = request[k].before
            /\ r.remote = request[k].remote /\ r.preflight = request[k].preflight /\ r.status = s
        BY <2>3, <3>3 DEF Request
      <4> QED
        BY <4>1, <4>2, <4>3
    <3> QED
      BY <2>4, <3>1, <3>2, <3>3
  <2>6. Asked(k)
    BY <2>1, <2>2
  <2> QED
    BY <1>0, <2>4, <2>5, <2>6 DEF Asked
<1>9. \/ UNCHANGED request
      \/ \E a \in Account, k \in Key : RequestProvisioning(a, k)
      \/ \E k \in Key : RetryTask(k)
      \/ \E w \in Worker, k \in Key : Start(w, k)
      \/ \E w \in Worker : \/ MarkPreflight(w) \/ RecordUser(w) \/ BindUser(w) \/ Finish(w) \/ Fail(w)
  BY DEF Next, Process, vars, ClaimRemoteUser, AdminClaimRemoteUser, ClaimEnds, OutsideCreates,
         OutsideRenames, StartSync, ListUsers, CreateUser, SetPassword, CallFails, SyncList, SyncStore, Crash
<1> HIDE DEF Goal
<1>10. Goal
  BY <1>1, <1>2, <1>3, <1>4, <1>5, <1>6, <1>7, <1>8, <1>9
<1> QED
  BY <1>10 DEF Goal

\* The user that a listing finds is on the server, and is the stored one or has the name.
LEMMA Matches ==
  ASSUME NEW k \in Key, NEW known
  PROVE  \/ known # None /\ Match(k, known) = known
         \/ known = None /\ Match(k, known) \in Named(k[1], k[2])
         \/ known = None /\ Match(k, known) = None /\ Named(k[1], k[2]) = {}
<1>1. CASE known # None
  BY <1>1 DEF Match
<1>2. CASE known = None /\ Named(k[1], k[2]) # {}
  <2>1. (CHOOSE u \in Named(k[1], k[2]) : TRUE) \in Named(k[1], k[2])
    BY <1>2
  <2> QED
    BY <1>2, <2>1 DEF Match
<1>3. CASE known = None /\ Named(k[1], k[2]) = {}
  BY <1>3 DEF Match
<1> QED
  BY <1>1, <1>2, <1>3

\* What the steps of a worker do to its memory.
LEMMA Moves ==
  ASSUME TypeOK, WorkersRight, NEW w \in Worker
  PROVE  /\ \A k \in Key : Start(w, k) =>
              /\ run'[w].job = k /\ run'[w].phase = "read"
              /\ run'[w].preflight = request[k].preflight /\ run'[w].user = request[k].remote
         /\ \A i \in Instance : StartSync(w, i) => run'[w].phase = "list"
         /\ ListUsers(w) =>
              /\ run'[w].job = run[w].job /\ run'[w].user = Match(run[w].job, run[w].user)
              /\ run'[w].phase = AfterList(Match(run[w].job, run[w].user), run[w].preflight)
         /\ MarkPreflight(w) =>
              /\ run'[w].job = run[w].job /\ run'[w].user = run[w].user
              /\ run'[w].phase = IF request[run[w].job].preflight THEN "error" ELSE "create"
         /\ CreateUser(w) =>
              /\ run'[w].job = run[w].job /\ run'[w].user = Len(emby) + 1
              /\ run'[w].phase \in {"record", "error"}
         /\ RecordUser(w) =>
              run'[w].job = run[w].job /\ run'[w].user = run[w].user /\ run'[w].phase = "password"
         /\ SetPassword(w) =>
              run'[w].job = run[w].job /\ run'[w].user = run[w].user /\ run'[w].phase \in {"bind", "error"}
         /\ BindUser(w) => run'[w].job = run[w].job /\ run'[w].phase \in {"ok", "error"}
         /\ CallFails(w) => run'[w].job = run[w].job /\ run'[w].phase = "error"
         /\ SyncList(w) => run'[w].phase = "store"
         /\ Finish(w) \/ Fail(w) \/ SyncStore(w) \/ Crash(w) => run'[w].phase = "idle"
         /\ (\/ Process(w) \/ Crash(w)
             \/ \E k \in Key : Start(w, k)
             \/ \E i \in Instance : StartSync(w, i)) =>
                /\ run' \in [Worker -> Run]
                /\ \A v \in Worker : v # w => run'[v] = run[v]
<1>0. run \in [Worker -> Run] /\ run[w] \in Run /\ request \in [Key -> Request]
  BY DEF TypeOK
<1> DEFINE Others == run' \in [Worker -> Run] /\ \A v \in Worker : v # w => run'[v] = run[v]
<1>1. ASSUME NEW p \in Phase, Goto(w, p)
      PROVE  Others /\ run'[w].job = run[w].job /\ run'[w].user = run[w].user /\ run'[w].phase = p
  <2>1. run' = [run EXCEPT ![w] = [run[w] EXCEPT !.phase = p]]
    BY <1>1 DEF Goto
  <2>2. [run[w] EXCEPT !.phase = p] \in Run
    BY <1>0, RunColumns
  <2>3. Others
    BY <1>0, <2>1, <2>2
  <2> QED
    BY <1>0, <2>1, <2>3 DEF Run
<1>2. ASSUME run' = [run EXCEPT ![w] = Polling] PROVE Others /\ run'[w].phase = "idle"
  <2>1. Polling \in Run /\ Polling.phase = "idle"
    BY DEF Polling, Run, Phase, Fallible
  <2> QED
    BY <1>0, <1>2, <2>1
<1>3. ASSUME NEW k \in Key, Start(w, k)
      PROVE  /\ Others
             /\ run'[w].job = k /\ run'[w].phase = "read"
             /\ run'[w].preflight = request[k].preflight /\ run'[w].user = request[k].remote
  <2>1. PICK r : r = [job |-> k, phase |-> "read", preflight |-> request[k].preflight,
                      user |-> request[k].remote, seen |-> {}, attempt |-> request[k].attempts + 1]
    OBVIOUS
  <2>2. request[k].preflight \in BOOLEAN /\ request[k].remote \in UserId \cup {None}
        /\ request[k].attempts + 1 \in Nat
    BY <1>0 DEF Request
  <2>3. r \in Run /\ r.job = k /\ r.phase = "read"
        /\ r.preflight = request[k].preflight /\ r.user = request[k].remote
    BY <2>1, <2>2 DEF Run, Phase, Fallible
  <2>4. run' = [run EXCEPT ![w] = r]
    BY <1>3, <2>1 DEF Start
  <2> QED
    BY <1>0, <2>3, <2>4
<1>4. ASSUME NEW i \in Instance, StartSync(w, i) PROVE Others /\ run'[w].phase = "list"
  <2>1. PICK r : r = [Polling EXCEPT !.job = i, !.phase = "list"]
    OBVIOUS
  <2>2. r \in Run /\ r.phase = "list"
    BY <2>1 DEF Polling, Run, Phase, Fallible
  <2>3. run' = [run EXCEPT ![w] = r]
    BY <1>4, <2>1 DEF StartSync
  <2> QED
    BY <1>0, <2>2, <2>3
<1>5. ASSUME NEW u \in UserId \cup {None}, NEW p \in Phase,
             run' = [run EXCEPT ![w] = [@ EXCEPT !.user = u, !.phase = p]]
      PROVE  Others /\ run'[w].job = run[w].job /\ run'[w].user = u /\ run'[w].phase = p
  <2>1. PICK r : r = [run[w] EXCEPT !.user = u, !.phase = p]
    OBVIOUS
  <2>2. r \in Run
    BY <1>0, <2>1, RunColumns
  <2>3. r.job = run[w].job /\ r.user = u /\ r.phase = p
    BY <1>0, <2>1 DEF Run
  <2>4. run' = [run EXCEPT ![w] = r]
    BY <1>5, <2>1
  <2> QED
    BY <1>0, <2>2, <2>3, <2>4
<1>6. ASSUME ListUsers(w)
      PROVE  /\ Others
             /\ run'[w].job = run[w].job /\ run'[w].user = Match(run[w].job, run[w].user)
             /\ run'[w].phase = AfterList(Match(run[w].job, run[w].user), run[w].preflight)
  <2>1. PICK k \in Key : k = run[w].job
    BY <1>6 DEF WorkersRight, Right, Working, ListUsers, At
  <2>2. PICK u : u = Match(k, run[w].user)
    OBVIOUS
  <2>3. u \in UserId \cup {None}
    <3>1. run[w].user \in UserId \cup {None}
      BY <1>0 DEF Run
    <3>2. Named(k[1], k[2]) \subseteq UserId
      BY UserIds DEF Named, Users
    <3> QED
      BY <2>2, <3>1, <3>2, Matches
  <2>4. PICK p \in Phase : p = AfterList(u, run[w].preflight)
    BY DEF AfterList, Phase, Fallible
  <2>5. run' = [run EXCEPT ![w] = [@ EXCEPT !.user = u, !.phase = p]]
    BY <1>6, <2>1, <2>2, <2>4 DEF ListUsers
  <2> QED
    BY <1>5, <2>1, <2>2, <2>3, <2>4, <2>5
<1>7. ASSUME CreateUser(w)
      PROVE  /\ Others /\ run'[w].job = run[w].job /\ run'[w].user = Len(emby) + 1
             /\ run'[w].phase \in {"record", "error"}
  <2>1. PICK p \in {"record", "error"} :
          run' = [run EXCEPT ![w] = [@ EXCEPT !.user = Len(emby) + 1, !.phase = p]]
    BY <1>7 DEF CreateUser
  <2>2. Len(emby) + 1 \in UserId
    BY <1>7, UserIds, ProvisionAssumption DEF CreateUser, CanCreate, UserId
  <2>3. PICK u \in UserId : u = Len(emby) + 1
    BY <2>2
  <2>4. p \in Phase
    BY DEF Phase, Fallible
  <2> QED
    BY <1>5, <2>1, <2>3, <2>4
<1>8. ASSUME SyncList(w) PROVE Others /\ run'[w].phase = "store"
  <2>1. Users(run[w].job) \in SUBSET UserId
    BY UserIds DEF Users
  <2>2. PICK S \in SUBSET UserId : S = Users(run[w].job)
    BY <2>1
  <2>3. PICK r : r = [run[w] EXCEPT !.phase = "store", !.seen = S]
    OBVIOUS
  <2>4. r \in Run /\ r.phase = "store"
    BY <1>0, <2>3 DEF Run, Phase, Fallible
  <2>5. run' = [run EXCEPT ![w] = r]
    BY <1>8, <2>2, <2>3 DEF SyncList
  <2> QED
    BY <1>0, <2>4, <2>5
<1>9. MarkPreflight(w) => Goto(w, IF request[run[w].job].preflight THEN "error" ELSE "create")
  BY DEF MarkPreflight
<1>10. /\ RecordUser(w) => Goto(w, "password")
       /\ SetPassword(w) => \E p \in {"bind", "error"} : Goto(w, p)
       /\ BindUser(w) => \E p \in {"ok", "error"} : Goto(w, p)
       /\ CallFails(w) => Goto(w, "error")
  BY DEF RecordUser, SetPassword, BindUser, CallFails
<1>11. Finish(w) \/ Fail(w) \/ SyncStore(w) \/ Crash(w) => run' = [run EXCEPT ![w] = Polling]
  BY DEF Finish, Fail, SyncStore, Crash
<1>12. {"error", "create", "password", "bind", "ok"} \subseteq Phase
  BY DEF Phase, Fallible
<1> HIDE DEF Others
<1>13. MarkPreflight(w) \/ RecordUser(w) \/ SetPassword(w) \/ BindUser(w) \/ CallFails(w) => Others
  BY <1>1, <1>9, <1>10, <1>12
<1>14. (Process(w) \/ Crash(w) \/ (\E k \in Key : Start(w, k)) \/ \E i \in Instance : StartSync(w, i)) => Others
  BY <1>2, <1>3, <1>4, <1>6, <1>7, <1>8, <1>11, <1>13 DEF Process
<1>15. MarkPreflight(w) =>
         /\ run'[w].job = run[w].job /\ run'[w].user = run[w].user
         /\ run'[w].phase = IF request[run[w].job].preflight THEN "error" ELSE "create"
  BY <1>1, <1>9, <1>12
<1>16. /\ RecordUser(w) =>
            run'[w].job = run[w].job /\ run'[w].user = run[w].user /\ run'[w].phase = "password"
       /\ SetPassword(w) =>
            run'[w].job = run[w].job /\ run'[w].user = run[w].user /\ run'[w].phase \in {"bind", "error"}
       /\ BindUser(w) => run'[w].job = run[w].job /\ run'[w].phase \in {"ok", "error"}
       /\ CallFails(w) => run'[w].job = run[w].job /\ run'[w].phase = "error"
  BY <1>1, <1>10, <1>12
<1> QED
  BY <1>2, <1>3, <1>4, <1>6, <1>7, <1>8, <1>11, <1>14, <1>15, <1>16 DEF Others

\* What a step does to the bindings: none is undone, none changes its account.
LEMMA Bindings ==
  ASSUME TypeOK, WorkersRight, RequestsSound, [Next]_vars
  PROVE  /\ binding' \in [UserId -> Binding \cup {None}]
         /\ \A u \in UserId : binding[u] # None =>
              /\ binding'[u] # None
              /\ binding'[u].account = binding[u].account /\ binding'[u].origin = binding[u].origin
         /\ \A u \in UserId : binding[u] = None /\ binding'[u] # None =>
              \/ binding'[u].origin # "provision"
              \/ \E w \in Worker : /\ BindUser(w) /\ u = run[w].user
                                   /\ binding'[u].account = request[run[w].job].account
<1> DEFINE Goal == /\ binding' \in [UserId -> Binding \cup {None}]
                   /\ \A u \in UserId : binding[u] # None =>
                        /\ binding'[u] # None
                        /\ binding'[u].account = binding[u].account /\ binding'[u].origin = binding[u].origin
                   /\ \A u \in UserId : binding[u] = None /\ binding'[u] # None =>
                        \/ binding'[u].origin # "provision"
                        \/ \E w \in Worker : /\ BindUser(w) /\ u = run[w].user
                                             /\ binding'[u].account = request[run[w].job].account
<1>0. binding \in [UserId -> Binding \cup {None}] /\ None \notin Binding
  BY IdAssumption DEF TypeOK
<1>1. ASSUME NEW u \in UserId, NEW a \in Account, NEW o \in {"provision", "manual_claim", "remote_import"},
             binding[u] = None, Bind(u, a, o)
      PROVE  /\ binding' \in [UserId -> Binding \cup {None}]
             /\ binding'[u].origin = o /\ binding'[u].account = a
             /\ \A v \in UserId : v # u => binding'[v] = binding[v]
  <2>1. PICK b : b = [account |-> a, origin |-> o, status |-> "active"]
    OBVIOUS
  <2>2. b \in Binding /\ b.origin = o /\ b.account = a
    BY <2>1 DEF Binding
  <2>3. binding' = [binding EXCEPT ![u] = b]
    BY <1>1, <2>1 DEF Bind
  <2> QED
    BY <1>0, <2>2, <2>3
<1>2. ASSUME UNCHANGED binding PROVE Goal
  BY <1>0, <1>2
<1>3. ASSUME NEW c \in claiming, ClaimEnds(c) PROVE Goal
  <2>1. c.user \in UserId /\ c.account \in Account
    BY DEF TypeOK
  <2>2. CASE UNCHANGED binding
    BY <1>0, <2>2
  <2>3. CASE binding[c.user] = None /\ Bind(c.user, c.account, "manual_claim")
    BY <1>0, <1>1, <2>1, <2>3
  <2> QED
    BY <1>3, <2>2, <2>3 DEF ClaimEnds
<1>4. ASSUME NEW a \in Account, NEW u \in DOMAIN emby, AdminClaimRemoteUser(a, u) PROVE Goal
  <2>1. u \in UserId /\ binding[u] = None /\ Bind(u, a, "remote_import")
    BY <1>4, UserIds DEF AdminClaimRemoteUser
  <2> QED
    BY <1>0, <1>1, <2>1
<1>5. ASSUME NEW w \in Worker, BindUser(w) PROVE Goal
  <2>1. /\ run[w].job \in Key /\ Asked(run[w].job) /\ run[w].user \in DOMAIN emby
        /\ request[run[w].job].account # None
    BY <1>5 DEF WorkersRight, Right, Working, BindUser, At, Ours, RequestsSound
  <2>2. run[w].user \in UserId /\ request[run[w].job].account \in Account
    BY <2>1, UserIds DEF TypeOK, Request
  <2>3. CASE binding[run[w].user] = None
    <3>1. Bind(run[w].user, request[run[w].job].account, "provision")
      BY <1>5, <2>3 DEF BindUser
    <3> QED
      BY <1>0, <1>1, <1>5, <2>2, <2>3, <3>1
  <2>4. CASE binding[run[w].user] # None
    BY <1>2, <1>5, <2>4 DEF BindUser
  <2> QED
    BY <2>3, <2>4
<1>6. ASSUME NEW w \in Worker, SyncStore(w) PROVE Goal
  <2>1. ASSUME NEW u \in UserId
        PROVE  /\ binding'[u] \in Binding \cup {None}
               /\ binding[u] = None => binding'[u] = None
               /\ binding[u] # None =>
                    /\ binding'[u] # None
                    /\ binding'[u].account = binding[u].account /\ binding'[u].origin = binding[u].origin
    <3>1. CASE u \notin Users(run[w].job) \/ binding[u] = None
      BY <1>0, <1>6, <3>1 DEF SyncStore
    <3>2. CASE ~(u \notin Users(run[w].job) \/ binding[u] = None)
      <4>1. PICK s \in {"active", "missing"} : binding'[u] = [binding[u] EXCEPT !.status = s]
        BY <1>6, <3>2 DEF SyncStore
      <4>2. binding[u] \in Binding
        BY <1>0, <3>2
      <4>3. binding'[u] \in Binding /\ binding'[u].account = binding[u].account
            /\ binding'[u].origin = binding[u].origin
        BY <4>1, <4>2 DEF Binding
      <4> QED
        BY <1>0, <3>2, <4>3
    <3> QED
      BY <3>1, <3>2
  <2>2. binding' = [u \in UserId |-> binding'[u]]
    BY <1>6 DEF SyncStore
  <2> QED
    BY <2>1, <2>2
<1>7. \/ UNCHANGED binding
      \/ \E c \in claiming : ClaimEnds(c)
      \/ \E a \in Account, u \in DOMAIN emby : AdminClaimRemoteUser(a, u)
      \/ \E w \in Worker : BindUser(w) \/ SyncStore(w)
  BY DEF Next, Process, vars, RequestProvisioning, RetryTask, ClaimRemoteUser, OutsideCreates,
         OutsideRenames, Start, StartSync, ListUsers, MarkPreflight, CreateUser, RecordUser, SetPassword,
         CallFails, Finish, Fail, SyncList, Crash
<1> HIDE DEF Goal
<1>8. Goal
  BY <1>2, <1>3, <1>4, <1>5, <1>6, <1>7
<1> QED
  BY <1>8 DEF Goal

\* The users, as a step leaves them.
LEMMA EmbySteps ==
  [Next]_vars =>
    \/ UNCHANGED emby
    \/ \E i \in Instance, n \in Name : OutsideCreates(i, n)
    \/ \E u \in DOMAIN emby, n \in Name : OutsideRenames(u, n)
    \/ \E w \in Worker : CreateUser(w) \/ SetPassword(w)
  BY DEF Next, Process, vars, RequestProvisioning, RetryTask, ClaimRemoteUser, AdminClaimRemoteUser,
         ClaimEnds, Start, StartSync, ListUsers, MarkPreflight, RecordUser, BindUser, CallFails,
         Finish, Fail, SyncList, SyncStore, Crash

LEMMA RunSteps ==
  [Next]_vars =>
    \/ UNCHANGED run
    \/ \E w \in Worker : \/ Process(w) \/ Crash(w)
                         \/ \E k \in Key : Start(w, k)
                         \/ \E i \in Instance : StartSync(w, i)
  BY DEF Next, vars, RequestProvisioning, RetryTask, ClaimRemoteUser, AdminClaimRemoteUser,
         ClaimEnds, OutsideCreates, OutsideRenames

LEMMA StallsCount == TypeOK /\ [Next]_vars => spent' \in [Fault -> Nat] /\ spent'["stall"] >= spent["stall"]
<1> SUFFICES ASSUME TypeOK, [Next]_vars
             PROVE  spent' \in [Fault -> Nat] /\ spent'["stall"] >= spent["stall"]
  OBVIOUS
<1>1. spent \in [Fault -> Nat] /\ "stall" \in Fault
  BY DEF TypeOK, Fault
<1>2. ASSUME NEW f \in Fault, spent' = [spent EXCEPT ![f] = @ + 1]
      PROVE  spent' \in [Fault -> Nat] /\ spent'["stall"] >= spent["stall"]
  BY <1>1, <1>2
<1>3. \/ UNCHANGED spent
      \/ Spend("stall") \/ Spend("retry") \/ Spend("crash") \/ SpendOutside
  BY DEF Next, Process, vars, RequestProvisioning, RetryTask, ClaimRemoteUser, AdminClaimRemoteUser,
         ClaimEnds, OutsideCreates, OutsideRenames, Start, StartSync, ListUsers, MarkPreflight,
         CreateUser, RecordUser, SetPassword, BindUser, CallFails, Finish, Fail, SyncList, SyncStore, Crash
<1> QED
  BY <1>1, <1>2, <1>3 DEF Spend, SpendOutside, Fault

LEMMA DirectoryTyped == TypeOK /\ [Next]_vars =>
  directory' \in [UserId -> {"unknown", "unclaimed", "claimed", "missing"}]
<1> SUFFICES ASSUME TypeOK, [Next]_vars
             PROVE  directory' \in [UserId -> {"unknown", "unclaimed", "claimed", "missing"}]
  OBVIOUS
<1>1. directory \in [UserId -> {"unknown", "unclaimed", "claimed", "missing"}]
  BY DEF TypeOK
<1>2. ASSUME NEW w \in Worker, SyncStore(w)
      PROVE  directory' \in [UserId -> {"unknown", "unclaimed", "claimed", "missing"}]
  BY <1>1, <1>2 DEF SyncStore, ListedStatus
<1>3. \/ UNCHANGED directory
      \/ \E u : directory' = [directory EXCEPT ![u] = "claimed"]
      \/ \E w \in Worker : SyncStore(w)
  BY DEF Next, Process, vars, RequestProvisioning, RetryTask, ClaimRemoteUser, AdminClaimRemoteUser,
         ClaimEnds, Bind, OutsideCreates, OutsideRenames, Start, StartSync, ListUsers, MarkPreflight,
         CreateUser, RecordUser, SetPassword, BindUser, CallFails, Finish, Fail, SyncList, Crash
<1> QED
  BY <1>1, <1>2, <1>3

LEMMA ClaimingTyped == TypeOK /\ [Next]_vars => claiming' \subseteq [account: Account, user: UserId]
<1> SUFFICES ASSUME TypeOK, [Next]_vars PROVE claiming' \subseteq [account: Account, user: UserId]
  OBVIOUS
<1>1. claiming \subseteq [account: Account, user: UserId] /\ DOMAIN emby \subseteq UserId
  BY UserIds DEF TypeOK
<1>2. ASSUME NEW a \in Account, NEW u \in DOMAIN emby, ClaimRemoteUser(a, u)
      PROVE  claiming' \subseteq [account: Account, user: UserId]
  <2>1. claiming' = claiming \cup {[account |-> a, user |-> u]}
    BY <1>2 DEF ClaimRemoteUser
  <2>2. [account |-> a, user |-> u] \in [account: Account, user: UserId]
    BY <1>1
  <2> QED
    BY <1>1, <2>1, <2>2
<1>3. \/ UNCHANGED claiming
      \/ claiming' \subseteq claiming
      \/ \E a \in Account, u \in DOMAIN emby : ClaimRemoteUser(a, u)
  BY DEF Next, Process, vars, RequestProvisioning, RetryTask, AdminClaimRemoteUser,
         ClaimEnds, OutsideCreates, OutsideRenames, Start, StartSync, ListUsers, MarkPreflight,
         CreateUser, RecordUser, SetPassword, BindUser, CallFails, Finish, Fail, SyncList, SyncStore, Crash
<1> QED
  BY <1>1, <1>2, <1>3

LEMMA StepTyped == TypeOK /\ WorkersRight /\ RequestsSound /\ [Next]_vars => TypeOK'
<1> SUFFICES ASSUME TypeOK, WorkersRight, RequestsSound, [Next]_vars PROVE TypeOK'
  OBVIOUS
<1>1. emby' \in Seq(User) /\ Len(emby') <= MaxUsers
  <2>0. emby \in Seq(User) /\ Len(emby) <= MaxUsers
    BY DEF TypeOK
  <2>1. ASSUME NEW i \in Instance, NEW n \in Name, OutsideCreates(i, n)
        PROVE  emby' \in Seq(User) /\ Len(emby') <= MaxUsers
    BY <2>1, Appends DEF OutsideCreates
  <2>2. ASSUME NEW u \in DOMAIN emby, NEW n \in Name, OutsideRenames(u, n)
        PROVE  emby' \in Seq(User) /\ Len(emby') <= MaxUsers
    BY <2>0, <2>2, Renames
  <2>3. ASSUME NEW w \in Worker, CreateUser(w) PROVE emby' \in Seq(User) /\ Len(emby') <= MaxUsers
    BY <2>3, Creates, Appends
  <2>4. ASSUME NEW w \in Worker, SetPassword(w) PROVE emby' \in Seq(User) /\ Len(emby') <= MaxUsers
    BY <2>0, <2>4, Passwords
  <2> QED
    BY <2>0, <2>1, <2>2, <2>3, <2>4, EmbySteps
<1>2. run' \in [Worker -> Run]
  <2>1. run \in [Worker -> Run]
    BY DEF TypeOK
  <2> QED
    BY <2>1, RunSteps, Moves
<1> QED
  BY <1>1, <1>2, Requests, Bindings, StallsCount, DirectoryTyped, ClaimingTyped DEF TypeOK

-----------------------------------------------------------------------------
(* What stays true of users and requests, whoever takes a step. *)

\* Users keep their server and maker, and their name and password until they are
\* renamed; new users are behind the old ones; a request keeps what it was made with.
Grows ==
    /\ Len(emby) <= Len(emby') /\ DOMAIN emby \subseteq DOMAIN emby'
    /\ \A u \in DOMAIN emby' : u \in Nat /\ (u \notin DOMAIN emby => u > Len(emby))
    /\ \A u \in DOMAIN emby :
         /\ emby'[u].instance = emby[u].instance /\ emby'[u].made = emby[u].made
         /\ emby[u].renamed # "no" => emby'[u].renamed = emby[u].renamed
         /\ emby'[u].renamed = "no" => emby[u].renamed = "no" /\ emby'[u].name = emby[u].name
         /\ \A k \in Key : Ours(k, u) /\ emby[u].password = k /\ emby'[u].renamed = "no"
              => emby'[u].password = k
    /\ \A k \in Key :
         /\ request[k].remote # None => request'[k].remote # None
         /\ request[k].preflight => request'[k].preflight
         /\ Asked(k) => /\ Asked(k)' /\ request'[k].account = request[k].account
                        /\ request'[k].before = request[k].before

\* Two requests of one name on one server are one.
LEMMA KeysApart == \A j, k \in Key : j[1] = k[1] /\ j[2] = k[2] => j = k
  BY DEF Key

\* What a worker records or binds is its request's.
LEMMA RemoteSet ==
  ASSUME TypeOK, WorkersRight, NEW w \in Worker, RecordUser(w) \/ BindUser(w)
  PROVE  /\ run[w].job \in Key /\ Asked(run[w].job) /\ run[w].user # None
         /\ Ours(run[w].job, run[w].user) /\ run[w].user \in DOMAIN emby
         /\ request'[run[w].job].remote = run[w].user
         /\ UNCHANGED emby
<1>1. /\ run[w].job \in Key /\ Asked(run[w].job) /\ run[w].user # None
      /\ Ours(run[w].job, run[w].user)
  BY DEF WorkersRight, Right, Working, RecordUser, BindUser, At
<1>2. PICK k \in Key : k = run[w].job
  BY <1>1
<1>3. request \in [Key -> Request] /\ request[k] \in Request
  BY DEF TypeOK
<1>4. request'[k].remote = run[w].user
  <2>1. CASE RecordUser(w)
    <3>1. request' = [request EXCEPT ![k] = [request[k] EXCEPT !.remote = run[w].user]]
      BY <1>2, <2>1 DEF RecordUser
    <3> QED
      BY <1>3, <3>1 DEF Request
  <2>2. CASE BindUser(w)
    <3>1. request' = [request EXCEPT ![k] = [request[k] EXCEPT !.status = "succeeded", !.remote = run[w].user]]
      BY <1>2, <2>2 DEF BindUser
    <3> QED
      BY <1>3, <3>1 DEF Request
  <2> QED
    BY <2>1, <2>2
<1> QED
  BY <1>1, <1>2, <1>4 DEF RecordUser, BindUser, Ours

LEMMA PreflightSet ==
  ASSUME TypeOK, WorkersRight, NEW w \in Worker, MarkPreflight(w)
  PROVE  /\ run[w].job \in Key /\ Asked(run[w].job) /\ Clear(run[w].job)
         /\ request'[run[w].job].preflight
         /\ UNCHANGED emby
<1>1. run[w].job \in Key /\ Asked(run[w].job) /\ Clear(run[w].job)
  BY DEF WorkersRight, Right, Working, MarkPreflight, At
<1>2. PICK k \in Key : k = run[w].job
  BY <1>1
<1>3. request \in [Key -> Request] /\ request[k] \in Request
  BY DEF TypeOK
<1>4. CASE request[k].preflight
  BY <1>1, <1>2, <1>4 DEF MarkPreflight
<1>5. CASE ~request[k].preflight
  <2>1. request' = [request EXCEPT ![k] = [request[k] EXCEPT !.preflight = TRUE]] /\ UNCHANGED emby
    BY <1>2, <1>5 DEF MarkPreflight
  <2>2. request'[k].preflight
    BY <1>3, <2>1 DEF Request
  <2> QED
    BY <1>1, <1>2, <2>1, <2>2
<1> QED
  BY <1>4, <1>5

\* A new password is that of a worker's request; the others stay.
LEMMA PasswordSteps ==
  ASSUME TypeOK, WorkersRight, [Next]_vars, NEW u \in DOMAIN emby'
  PROVE  \/ emby'[u].password = None
         \/ u \in DOMAIN emby /\ emby'[u].password = emby[u].password
         \/ \E w \in Worker : SetPassword(w) /\ u = run[w].user /\ emby'[u].password = run[w].job
<1> DEFINE Goal == \/ emby'[u].password = None
                   \/ u \in DOMAIN emby /\ emby'[u].password = emby[u].password
                   \/ \E w \in Worker : SetPassword(w) /\ u = run[w].user /\ emby'[u].password = run[w].job
<1>1. ASSUME NEW i \in Instance, NEW n \in Name, NEW by \in Key \cup {Outside},
             CanCreate(i, n), emby' = Append(emby, NewUser(i, n, by))
      PROVE  Goal
  BY <1>1, Appends DEF NewUser
<1>2. ASSUME NEW i \in Instance, NEW n \in Name, OutsideCreates(i, n) PROVE Goal
  BY <1>1, <1>2 DEF OutsideCreates
<1>3. ASSUME NEW w \in Worker, CreateUser(w) PROVE Goal
  BY <1>1, <1>3, Creates
<1>4. ASSUME NEW v \in DOMAIN emby, NEW n \in Name, OutsideRenames(v, n) PROVE Goal
  BY <1>4, Renames
<1>5. ASSUME NEW w \in Worker, SetPassword(w) PROVE Goal
  BY <1>5, Passwords
<1>6. UNCHANGED emby => Goal
  OBVIOUS
<1> HIDE DEF Goal
<1>7. Goal
  BY <1>2, <1>3, <1>4, <1>5, <1>6, EmbySteps
<1> QED
  BY <1>7 DEF Goal

LEMMA StepGrows == TypeOK /\ WorkersRight /\ RequestsSound /\ [Next]_vars => Grows
<1> SUFFICES ASSUME TypeOK, WorkersRight, RequestsSound, [Next]_vars PROVE Grows
  OBVIOUS
<1> DEFINE Users1 == /\ Len(emby) <= Len(emby') /\ DOMAIN emby \subseteq DOMAIN emby'
                     /\ \A u \in DOMAIN emby' : u \in Nat /\ (u \notin DOMAIN emby => u > Len(emby))
                     /\ \A u \in DOMAIN emby :
                          /\ emby'[u].instance = emby[u].instance /\ emby'[u].made = emby[u].made
                          /\ emby[u].renamed # "no" => emby'[u].renamed = emby[u].renamed
                          /\ emby'[u].renamed = "no" => emby[u].renamed = "no" /\ emby'[u].name = emby[u].name
                          /\ \A k \in Key : Ours(k, u) /\ emby[u].password = k /\ emby'[u].renamed = "no"
                               => emby'[u].password = k
<1>0. Len(emby) \in Nat /\ DOMAIN emby = 1..Len(emby)
  BY UserIds
<1>1. UNCHANGED emby => Users1
  BY <1>0
<1>2. ASSUME NEW i \in Instance, NEW n \in Name, NEW by \in Key \cup {Outside},
             CanCreate(i, n), emby' = Append(emby, NewUser(i, n, by))
      PROVE  Users1
  <2>1. /\ Len(emby') = Len(emby) + 1 /\ DOMAIN emby' = DOMAIN emby \cup {Len(emby) + 1}
        /\ \A u \in DOMAIN emby : emby'[u] = emby[u]
    BY <1>2, Appends
  <2> QED
    BY <1>0, <2>1
<1>3. ASSUME NEW i \in Instance, NEW n \in Name, OutsideCreates(i, n) PROVE Users1
  BY <1>2, <1>3 DEF OutsideCreates
<1>4. ASSUME NEW w \in Worker, CreateUser(w) PROVE Users1
  BY <1>2, <1>4, Creates
<1>5. ASSUME NEW v \in DOMAIN emby, NEW n \in Name, OutsideRenames(v, n) PROVE Users1
  <2>1. /\ Len(emby') = Len(emby) /\ DOMAIN emby' = DOMAIN emby
        /\ \A u \in DOMAIN emby : u # v => emby'[u] = emby[u]
        /\ emby'[v].instance = emby[v].instance /\ emby'[v].made = emby[v].made
    BY <1>5, Renames
  <2>2. emby'[v].renamed # "no" /\ (emby[v].renamed # "no" => emby'[v].renamed = emby[v].renamed)
    BY <1>5, Renames
  <2> QED
    BY <1>0, <2>1, <2>2
<1>6. ASSUME NEW w \in Worker, SetPassword(w) PROVE Users1
  <2>1. /\ run[w].job \in Key /\ run[w].user \in DOMAIN emby
        /\ Len(emby') = Len(emby) /\ DOMAIN emby' = DOMAIN emby
        /\ \A v \in DOMAIN emby :
              /\ v # run[w].user => emby'[v] = emby[v]
              /\ emby'[v].instance = emby[v].instance /\ emby'[v].made = emby[v].made
              /\ emby'[v].name = emby[v].name /\ emby'[v].renamed = emby[v].renamed
        /\ emby'[run[w].user].password = run[w].job
    BY <1>6, Passwords
  <2>2. Ours(run[w].job, run[w].user)
    BY <1>6 DEF WorkersRight, Right, Working, SetPassword, At
  <2>3. ASSUME NEW u \in DOMAIN emby, NEW k \in Key, Ours(k, u), emby[u].password = k, emby'[u].renamed = "no"
        PROVE  emby'[u].password = k
    <3>1. CASE u # run[w].user
      BY <2>1, <2>3, <3>1
    <3>2. CASE u = run[w].user
      <4>1. run[w].job = k
        BY <2>1, <2>2, <2>3, <3>2, KeysApart DEF Ours
      <4> QED
        BY <2>1, <3>2, <4>1
    <3> QED
      BY <3>1, <3>2
  <2> QED
    BY <1>0, <2>1, <2>3
<1> HIDE DEF Users1
<1>7. Users1
  BY <1>1, <1>3, <1>4, <1>5, <1>6, EmbySteps
<1>8. ASSUME NEW k \in Key
      PROVE  /\ request[k].remote # None => request'[k].remote # None
             /\ request[k].preflight => request'[k].preflight
             /\ Asked(k) => /\ Asked(k)' /\ request'[k].account = request[k].account
                            /\ request'[k].before = request[k].before
  <2> DEFINE Goal == /\ request[k].remote # None => request'[k].remote # None
                     /\ request[k].preflight => request'[k].preflight
                     /\ Asked(k) => /\ Asked(k)' /\ request'[k].account = request[k].account
                                    /\ request'[k].before = request[k].before
  <2>1. ASSUME request'[k] = request[k] PROVE Goal
    BY <2>1 DEF Asked
  <2>2. ASSUME NEW a \in Account, NEW j \in Key, RequestProvisioning(a, j) PROVE Goal
    <3>1. CASE j # k
      <4>1. request'[k] = request[k]
        BY <2>2, <3>1 DEF RequestProvisioning, TypeOK
      <4> QED
        BY <2>1, <4>1
    <3>2. CASE j = k
      <4>1. ~Asked(k)
        BY <2>2, <3>2 DEF RequestProvisioning, Asked
      <4>2. request[k].remote = None /\ request[k].preflight = FALSE
        BY <4>1 DEF RequestsSound, NoRequest
      <4> QED
        BY <4>1, <4>2
    <3> QED
      BY <3>1, <3>2
  <2>3. ASSUME NEW j \in Key,
               \A i \in Key : i # j => request'[i] = request[i],
               request[j].task # "none", request'[j].task # "none",
               request'[j].account = request[j].account, request'[j].before = request[j].before,
               \/ request'[j].remote = request[j].remote
               \/ \E w \in Worker : j = run[w].job /\ (RecordUser(w) \/ BindUser(w)),
               \/ request'[j].preflight = request[j].preflight
               \/ \E w \in Worker : j = run[w].job /\ MarkPreflight(w)
        PROVE  Goal
    <3>1. CASE j # k
      BY <2>1, <2>3, <3>1
    <3>2. CASE j = k
      <4>1. request[j].remote # None => request'[j].remote # None
        BY <2>3, RemoteSet
      <4>2. request[j].preflight => request'[j].preflight
        BY <2>3, PreflightSet
      <4> QED
        BY <2>3, <3>2, <4>1, <4>2 DEF Asked
    <3> QED
      BY <3>1, <3>2
  <2> HIDE DEF Goal
  <2>4. Goal
    BY <2>1, <2>2, <2>3, Requests
  <2> QED
    BY <2>4 DEF Goal
<1> QED
  BY <1>7, <1>8 DEF Grows, Users1

LEMMA OursKept ==
  ASSUME Grows, NEW k \in Key, Asked(k), NEW u, Ours(k, u) PROVE Ours(k, u)'
  BY DEF Grows, Ours

LEMMA ClearKept ==
  ASSUME TypeOK, RequestsSound, Grows, NEW k \in Key, Asked(k), Clear(k) PROVE Clear(k)'
<1> SUFFICES ASSUME NEW u \in DOMAIN emby', u <= request'[k].before, emby'[u].renamed = "no",
                    emby'[u].instance = k[1]
             PROVE  emby'[u].name # k[2]
  BY DEF Clear
<1>1. request'[k].before = request[k].before /\ request[k].before <= Len(emby)
  BY DEF Grows, RequestsSound
<1>2. request[k].before \in Nat /\ Len(emby) \in Nat
  BY UserIds DEF TypeOK, Request
<1>3. u \in DOMAIN emby
  <2>1. u \in Nat /\ (u \notin DOMAIN emby => u > Len(emby))
    BY DEF Grows
  <2> QED
    BY <1>1, <1>2, <2>1
<1> QED
  BY <1>1, <1>3 DEF Grows, Clear

\* What a worker believes stays right while others take steps.
LEMMA RightKept ==
  ASSUME TypeOK, RequestsSound, Grows, NEW r, Right(r) PROVE Right(r)'
<1> SUFFICES ASSUME Working(r) PROVE Right(r)'
  BY DEF Right, Working
<1>1. r.job \in Key /\ Asked(r.job) /\ Asked(r.job)'
  BY DEF Right, Grows
<1>2. \A u : Ours(r.job, u) => Ours(r.job, u)'
  BY <1>1, OursKept
<1>3. Clear(r.job) => Clear(r.job)'
  BY <1>1, ClearKept
<1>4. r.phase = "bind" /\ emby'[r.user].renamed = "no" => emby'[r.user].password = r.job
  <2> SUFFICES ASSUME r.phase = "bind", emby'[r.user].renamed = "no" PROVE emby'[r.user].password = r.job
    OBVIOUS
  <2>1. Ours(r.job, r.user) /\ r.user \in DOMAIN emby
    BY DEF Right, Ours
  <2>2. emby[r.user].renamed = "no"
    BY <2>1 DEF Grows
  <2>3. emby[r.user].password = r.job
    BY <2>2 DEF Right
  <2> QED
    BY <1>1, <2>1, <2>3 DEF Grows
<1> QED
  BY <1>1, <1>2, <1>3, <1>4 DEF Right

-----------------------------------------------------------------------------
(* The invariant, part by part. *)

LEMMA StepUsers ==
  TypeOK /\ WorkersRight /\ UsersSound /\ RequestsSound /\ [Next]_vars => UsersSound'
<1> SUFFICES ASSUME TypeOK, WorkersRight, UsersSound, RequestsSound, [Next]_vars PROVE UsersSound'
  OBVIOUS
<1>0. Grows
  BY StepGrows
<1> DEFINE Apart == \A u, v \in DOMAIN emby' :
                      emby'[u].instance = emby'[v].instance /\ emby'[u].name = emby'[v].name => u = v
           Kept == \A u \in DOMAIN emby' : emby'[u].made # Outside =>
                     /\ emby'[u].instance = emby'[u].made[1]
                     /\ emby'[u].renamed = "no" => emby'[u].name = emby'[u].made[2]
                     /\ emby'[u].renamed = "late" => request'[emby'[u].made].remote # None
<1>1. ASSUME NEW u \in DOMAIN emby, emby'[u].made # Outside, emby'[u].renamed = emby[u].renamed
      PROVE  /\ emby'[u].instance = emby'[u].made[1]
             /\ emby'[u].renamed = "no" => emby'[u].name = emby'[u].made[2]
             /\ emby'[u].renamed = "late" => request'[emby'[u].made].remote # None
  <2>1. emby[u].made \in Key
    BY <1>0, <1>1, UserIds DEF Grows, User
  <2> QED
    BY <1>0, <1>1, <2>1 DEF Grows, UsersSound
<1>2. ASSUME NEW i \in Instance, NEW n \in Name, NEW by \in Key \cup {Outside},
             CanCreate(i, n), emby' = Append(emby, NewUser(i, n, by)),
             by # Outside => i = by[1] /\ n = by[2]
      PROVE  Apart /\ Kept
  <2> DEFINE new == Len(emby) + 1
  <2>1. /\ DOMAIN emby' = DOMAIN emby \cup {new}
        /\ \A u \in DOMAIN emby : emby'[u] = emby[u] /\ u # new
        /\ emby'[new] = NewUser(i, n, by)
    BY <1>2, Appends
  <2>2. /\ emby'[new].instance = i /\ emby'[new].name = n /\ emby'[new].made = by
        /\ emby'[new].renamed = "no"
    BY <2>1 DEF NewUser
  <2>3. \A u \in DOMAIN emby : ~(emby[u].instance = i /\ emby[u].name = n)
    BY <1>2 DEF CanCreate, Named, Users
  <2> HIDE DEF new
  <2>4. Apart
    BY <2>1, <2>2, <2>3 DEF UsersSound
  <2>5. Kept
    <3> SUFFICES ASSUME NEW u \in DOMAIN emby', emby'[u].made # Outside
                 PROVE  /\ emby'[u].instance = emby'[u].made[1]
                        /\ emby'[u].renamed = "no" => emby'[u].name = emby'[u].made[2]
                        /\ emby'[u].renamed = "late" => request'[emby'[u].made].remote # None
      OBVIOUS
    <3>1. CASE u = new
      BY <1>2, <2>2, <3>1
    <3>2. CASE u # new
      BY <1>1, <2>1, <3>2
    <3> QED
      BY <3>1, <3>2
  <2> QED
    BY <2>4, <2>5
<1>3. ASSUME NEW i \in Instance, NEW n \in Name, OutsideCreates(i, n) PROVE Apart /\ Kept
  BY <1>2, <1>3 DEF OutsideCreates
<1>4. ASSUME NEW w \in Worker, CreateUser(w) PROVE Apart /\ Kept
  <2>1. /\ run[w].job \in Key /\ run[w].job[1] \in Instance /\ run[w].job[2] \in Name
        /\ CanCreate(run[w].job[1], run[w].job[2])
        /\ emby' = Append(emby, NewUser(run[w].job[1], run[w].job[2], run[w].job))
    BY <1>4, Creates
  <2> HIDE DEF Apart, Kept
  <2> QED
    BY <1>2, <2>1
<1>5. ASSUME NEW v \in DOMAIN emby, NEW n \in Name, OutsideRenames(v, n) PROVE Apart /\ Kept
  <2>1. /\ DOMAIN emby' = DOMAIN emby
        /\ \A u \in DOMAIN emby : u # v => emby'[u] = emby[u]
        /\ emby'[v].instance = emby[v].instance /\ emby'[v].made = emby[v].made /\ emby'[v].name = n
        /\ emby'[v].renamed = IF emby[v].renamed # "no" THEN emby[v].renamed
                              ELSE IF \E k \in Key : request[k].remote = v THEN "late" ELSE "early"
        /\ Named(emby[v].instance, n) = {}
    BY <1>5, Renames
  <2>2. \A u \in DOMAIN emby : ~(emby[u].instance = emby[v].instance /\ emby[u].name = n)
    BY <2>1 DEF Named, Users
  <2>3. Apart
    BY <2>1, <2>2 DEF UsersSound
  <2>4. ASSUME emby'[v].made # Outside, emby'[v].renamed # emby[v].renamed
        PROVE  /\ emby'[v].instance = emby'[v].made[1]
               /\ emby'[v].renamed = "no" => emby'[v].name = emby'[v].made[2]
               /\ emby'[v].renamed = "late" => request'[emby'[v].made].remote # None
    <3>1. /\ emby[v].renamed = "no" /\ emby'[v].renamed # "no"
          /\ emby'[v].renamed = "late" => \E k \in Key : request[k].remote = v
      BY <2>1, <2>4
    <3>2. /\ emby[v].made \in Key /\ emby[v].instance = emby[v].made[1] /\ emby[v].name = emby[v].made[2]
      BY <2>1, <2>4, <3>1, UserIds DEF UsersSound, User
    <3>3. ASSUME NEW k \in Key, request[k].remote = v PROVE k = emby[v].made /\ request'[k].remote # None
      <4>1. v # None
        BY UserIds, IdAssumption
      <4>2. Ours(k, v) /\ request'[k].remote # None
        BY <1>0, <3>3, <4>1 DEF RequestsSound, Grows
      <4> QED
        BY <3>1, <3>2, <4>2, KeysApart DEF Ours
    <3> QED
      BY <2>1, <3>1, <3>2, <3>3
  <2>5. Kept
    BY <1>1, <2>1, <2>4
  <2> QED
    BY <2>3, <2>5
<1>6. ASSUME NEW w \in Worker, SetPassword(w) PROVE Apart /\ Kept
  <2>1. /\ DOMAIN emby' = DOMAIN emby
        /\ \A v \in DOMAIN emby :
             /\ emby'[v].instance = emby[v].instance /\ emby'[v].made = emby[v].made
             /\ emby'[v].name = emby[v].name /\ emby'[v].renamed = emby[v].renamed
    BY <1>6, Passwords
  <2>2. Apart
    BY <2>1 DEF UsersSound
  <2>3. Kept
    BY <1>1, <2>1
  <2> QED
    BY <2>2, <2>3
<1>7. UNCHANGED emby => Apart /\ Kept
  <2> SUFFICES ASSUME UNCHANGED emby PROVE Apart /\ Kept
    OBVIOUS
  <2>1. Apart
    BY DEF UsersSound
  <2>2. Kept
    BY <1>1
  <2> QED
    BY <2>1, <2>2
<1> HIDE DEF Apart, Kept
<1>8. Apart /\ Kept
  BY <1>3, <1>4, <1>5, <1>6, <1>7, EmbySteps
<1> QED
  BY <1>8 DEF Apart, Kept, UsersSound

LEMMA StepRequests == TypeOK /\ WorkersRight /\ RequestsSound /\ [Next]_vars => RequestsSound'
<1> SUFFICES ASSUME TypeOK, WorkersRight, RequestsSound, [Next]_vars, NEW k \in Key
             PROVE  (/\ ~Asked(k) => request[k] = NoRequest
                     /\ Asked(k) => request[k].account # None
                     /\ request[k].before <= Len(emby)
                     /\ request[k].remote # None => Ours(k, request[k].remote)
                     /\ request[k].preflight => Clear(k)
                     /\ request[k].status = "succeeded" => request[k].remote # None)'
  BY DEF RequestsSound
<1> DEFINE Goal == /\ ~Asked(k)' => request'[k] = NoRequest
                   /\ Asked(k)' => request'[k].account # None
                   /\ request'[k].before <= Len(emby')
                   /\ \A u : u = request'[k].remote /\ u # None => Ours(k, u)'
                   /\ request'[k].preflight => Clear(k)'
                   /\ request'[k].status = "succeeded" => request'[k].remote # None
<1>0. Grows
  BY StepGrows
<1>1. /\ ~Asked(k) => request[k] = NoRequest
      /\ Asked(k) => request[k].account # None
      /\ request[k].before <= Len(emby)
      /\ request[k].remote # None => Ours(k, request[k].remote)
      /\ request[k].preflight => Clear(k)
      /\ request[k].status = "succeeded" => request[k].remote # None
      /\ request[k].before \in Nat /\ Len(emby) \in Nat /\ Len(emby') \in Nat
  <2>1. TypeOK'
    BY StepTyped
  <2>2. Len(emby') \in Nat
    BY <2>1 DEF TypeOK
  <2> QED
    BY <2>2, UserIds DEF RequestsSound, TypeOK, Request
<1>2. Asked(k) => (\A u : Ours(k, u) => Ours(k, u)') /\ (Clear(k) => Clear(k)')
  BY <1>0, OursKept, ClearKept
<1>3. request[k].before <= Len(emby')
  BY <1>0, <1>1 DEF Grows
<1>4. (request[k].remote # None \/ request[k].preflight) => Asked(k)
  BY <1>1 DEF NoRequest
<1>5. request'[k] = request[k] => Goal
  BY <1>1, <1>2, <1>3, <1>4 DEF Asked
<1>6. ASSUME NEW a \in Account, NEW j \in Key, RequestProvisioning(a, j) PROVE Goal
  <2>1. CASE j # k
    <3>1. request'[k] = request[k]
      BY <1>6, <2>1 DEF RequestProvisioning, TypeOK
    <3> QED
      BY <1>5, <3>1
  <2>2. CASE j = k
    <3>1. request'[k] = [account |-> a, task |-> "open", attempts |-> 0, holder |-> None, status |-> "open",
                         preflight |-> FALSE, remote |-> None, before |-> Len(emby)]
      BY <1>6, <2>2 DEF RequestProvisioning, TypeOK
    <3>2. a # None /\ emby' = emby
      BY <1>6, IdAssumption DEF RequestProvisioning
    <3>3. /\ request'[k].account = a /\ request'[k].task = "open" /\ request'[k].remote = None
          /\ request'[k].before = Len(emby) /\ ~request'[k].preflight /\ request'[k].status = "open"
      BY <3>1
    <3> QED
      BY <1>1, <3>2, <3>3 DEF Asked
  <2> QED
    BY <2>1, <2>2
<1>7. ASSUME NEW j \in Key,
             \A i \in Key : i # j => request'[i] = request[i],
             request[j].task # "none", request'[j].task # "none",
             request'[j].account = request[j].account, request'[j].before = request[j].before,
             \/ request'[j].remote = request[j].remote
             \/ \E w \in Worker : j = run[w].job /\ (RecordUser(w) \/ BindUser(w)),
             \/ request'[j].preflight = request[j].preflight
             \/ \E w \in Worker : j = run[w].job /\ MarkPreflight(w),
             \/ request'[j].status = "succeeded" => request[j].status = "succeeded"
             \/ \E w \in Worker : j = run[w].job /\ BindUser(w)
      PROVE  Goal
  <2>1. CASE j # k
    BY <1>5, <1>7, <2>1
  <2>2. CASE j = k
    <3>1. Asked(k) /\ Asked(k)'
      BY <1>7, <2>2 DEF Asked
    <3>2. ASSUME NEW u, u = request'[k].remote, u # None PROVE Ours(k, u)'
      <4>1. CASE request'[k].remote = request[k].remote
        BY <1>1, <1>2, <3>1, <3>2, <4>1
      <4>2. ASSUME NEW w \in Worker, k = run[w].job, RecordUser(w) \/ BindUser(w)
            PROVE  Ours(k, u)'
        <5>1. Ours(k, u)
          BY <3>2, <4>2, RemoteSet
        <5> QED
          BY <1>2, <3>1, <5>1
      <4> QED
        BY <1>7, <2>2, <4>1, <4>2
    <3>3. request'[k].preflight => Clear(k)'
      <4>1. request'[k].preflight => Clear(k)
        BY <1>1, <1>7, <2>2, PreflightSet
      <4> QED
        BY <1>2, <3>1, <4>1
    <3>4. request'[k].status = "succeeded" => request'[k].remote # None
      <4>1. CASE \E w \in Worker : k = run[w].job /\ BindUser(w)
        BY <4>1, RemoteSet
      <4>2. CASE request'[k].status = "succeeded" => request[k].status = "succeeded"
        BY <1>0, <1>1, <4>2 DEF Grows
      <4> QED
        BY <1>7, <2>2, <4>1, <4>2
    <3> QED
      BY <1>1, <1>3, <1>7, <2>2, <3>1, <3>2, <3>3, <3>4
  <2> QED
    BY <2>1, <2>2
<1> HIDE DEF Goal
<1>8. Goal
  BY <1>5, <1>6, <1>7, Requests
<1> QED
  BY <1>8 DEF Goal, Ours

LEMMA StepPasswords ==
  TypeOK /\ WorkersRight /\ RequestsSound /\ PasswordsSound /\ [Next]_vars => PasswordsSound'
<1> SUFFICES ASSUME TypeOK, WorkersRight, RequestsSound, PasswordsSound, [Next]_vars,
                    NEW u \in DOMAIN emby', emby'[u].password # None
             PROVE  (Asked(emby[u].password) /\ Ours(emby[u].password, u))'
  BY DEF PasswordsSound
<1>0. Grows
  BY StepGrows
<1>1. PICK k \in Key : k = emby'[u].password
  <2>1. emby' \in Seq(User)
    BY StepTyped DEF TypeOK
  <2>2. emby'[u] \in User
    BY <2>1
  <2> QED
    BY <2>2 DEF User
<1>2. Asked(k) /\ Ours(k, u)
  <2>1. CASE u \in DOMAIN emby /\ emby'[u].password = emby[u].password
    BY <1>1, <2>1 DEF PasswordsSound
  <2>2. ASSUME NEW w \in Worker, SetPassword(w), u = run[w].user, emby'[u].password = run[w].job
        PROVE  Asked(k) /\ Ours(k, u)
    BY <1>1, <2>2 DEF WorkersRight, Right, Working, SetPassword, At
  <2> QED
    BY <2>1, <2>2, PasswordSteps
<1>3. Asked(k)' /\ Ours(k, u)'
  BY <1>0, <1>2, OursKept DEF Grows
<1> QED
  BY <1>1, <1>3 DEF Asked, Ours

LEMMA StepBindings ==
  TypeOK /\ WorkersRight /\ RequestsSound /\ BindingsSound /\ [Next]_vars => BindingsSound'
<1> SUFFICES ASSUME TypeOK, WorkersRight, RequestsSound, BindingsSound, [Next]_vars,
                    NEW u \in UserId, binding'[u] # None, binding'[u].origin = "provision"
             PROVE  /\ u \in DOMAIN emby'
                    /\ emby'[u].renamed = "no" =>
                         \E k \in Key : /\ Asked(k)' /\ binding'[u].account = request'[k].account
                                        /\ emby'[u].instance = k[1] /\ emby'[u].name = k[2]
  BY DEF BindingsSound
<1>0. Grows
  BY StepGrows
<1>1. CASE binding[u] # None
  <2>1. binding'[u].account = binding[u].account /\ binding[u].origin = "provision"
    BY <1>1, Bindings
  <2>2. u \in DOMAIN emby
    BY <1>1, <2>1 DEF BindingsSound
  <2>3. ASSUME emby'[u].renamed = "no"
        PROVE  \E k \in Key : /\ Asked(k)' /\ binding'[u].account = request'[k].account
                              /\ emby'[u].instance = k[1] /\ emby'[u].name = k[2]
    <3>1. emby[u].renamed = "no" /\ emby'[u].name = emby[u].name /\ emby'[u].instance = emby[u].instance
      BY <1>0, <2>2, <2>3 DEF Grows
    <3>2. PICK k \in Key : /\ Asked(k) /\ binding[u].account = request[k].account
                           /\ emby[u].instance = k[1] /\ emby[u].name = k[2]
      BY <1>1, <2>1, <3>1 DEF BindingsSound
    <3>3. Asked(k)' /\ request'[k].account = request[k].account
      BY <1>0, <3>2 DEF Grows
    <3> QED
      BY <2>1, <3>1, <3>2, <3>3
  <2> QED
    BY <1>0, <2>2, <2>3 DEF Grows
<1>2. CASE binding[u] = None
  <2>1. PICK w \in Worker : /\ BindUser(w) /\ u = run[w].user
                            /\ binding'[u].account = request[run[w].job].account
    BY <1>2, Bindings
  <2>2. PICK k \in Key : k = run[w].job
    BY <2>1, RemoteSet
  <2>3. Asked(k) /\ Ours(k, u) /\ u \in DOMAIN emby /\ emby' = emby
    BY <2>1, <2>2, RemoteSet
  <2>4. Asked(k)' /\ request'[k].account = request[k].account
    BY <1>0, <2>3 DEF Grows
  <2> QED
    BY <2>1, <2>2, <2>3, <2>4 DEF Ours
<1> QED
  BY <1>1, <1>2

\* What a worker finds by its listing, and what it then does with it.
LEMMA Listed ==
  ASSUME TypeOK, RequestsSound, NEW r \in Run, Right(r), r.phase = "read", NEW found,
         found = Match(r.job, r.user)
  PROVE  /\ found # None /\ r.preflight => Ours(r.job, found)
         /\ found = None => Clear(r.job)
<1>1. PICK k \in Key : k = r.job /\ Asked(k)
  BY DEF Right, Working
<1>2. CASE r.user # None
  BY <1>1, <1>2, Matches DEF Right, Working
<1>3. CASE r.user = None /\ found \in Named(k[1], k[2])
  <2>1. found \in DOMAIN emby /\ emby[found].instance = k[1] /\ emby[found].name = k[2]
    BY <1>3 DEF Named, Users
  <2>2. found # None
    BY <2>1, UserIds, IdAssumption
  <2>3. ASSUME r.preflight, emby[found].renamed = "no" PROVE found > request[k].before
    <3>1. Clear(k)
      BY <1>1, <2>3 DEF Right, Working
    <3>2. ~(found <= request[k].before)
      BY <2>1, <2>3, <3>1 DEF Clear
    <3>3. found \in Nat
      BY <2>1, UserIds
    <3>4. request[k].before \in Nat
      BY DEF TypeOK, Request
    <3> QED
      BY <3>2, <3>3, <3>4
  <2> QED
    BY <1>1, <2>1, <2>2, <2>3 DEF Ours
<1>4. CASE r.user = None /\ found = None /\ Named(k[1], k[2]) = {}
  BY <1>1, <1>4 DEF Clear, Named, Users
<1> QED
  BY <1>1, <1>2, <1>3, <1>4, Matches

\* The user a worker creates is its request's.
LEMMA Created ==
  ASSUME TypeOK, WorkersRight, RequestsSound, [Next]_vars, NEW w \in Worker, CreateUser(w)
  PROVE  /\ Len(emby) + 1 # None
         /\ \A k, u : k = run[w].job /\ u = Len(emby) + 1 => Ours(k, u)'
<1>1. /\ run[w].job \in Key /\ run[w].job[1] \in Instance /\ run[w].job[2] \in Name
      /\ CanCreate(run[w].job[1], run[w].job[2])
      /\ emby' = Append(emby, NewUser(run[w].job[1], run[w].job[2], run[w].job))
  BY Creates
<1>2. PICK k \in Key : k = run[w].job
  BY <1>1
<1>3. /\ DOMAIN emby' = DOMAIN emby \cup {Len(emby) + 1}
      /\ emby'[Len(emby) + 1] = NewUser(k[1], k[2], k)
  BY <1>1, <1>2, Appends
<1>4. Asked(k)
  BY <1>2 DEF WorkersRight, Right, Working, CreateUser, At
<1>5. request'[k].before = request[k].before /\ request[k].before <= Len(emby)
  BY <1>4, StepGrows DEF Grows, RequestsSound
<1>6. request[k].before \in Nat /\ Len(emby) \in Nat
  BY UserIds DEF TypeOK, Request
<1>7. Len(emby) + 1 > request'[k].before
  BY <1>5, <1>6
<1>8. Len(emby) + 1 \in UserId
  BY <1>6, ProvisionAssumption DEF CreateUser, CanCreate, UserId
<1>9. ASSUME NEW n, n = Len(emby) + 1 PROVE Ours(k, n)'
  BY <1>3, <1>7, <1>9 DEF Ours, NewUser
<1> QED
  BY <1>2, <1>8, <1>9, IdAssumption

LEMMA StepWorkers ==
  TypeOK /\ WorkersRight /\ RequestsSound /\ [Next]_vars => WorkersRight'
<1> SUFFICES ASSUME TypeOK, WorkersRight, RequestsSound, [Next]_vars PROVE WorkersRight'
  OBVIOUS
<1>0. Grows /\ run \in [Worker -> Run]
  BY StepGrows DEF TypeOK
<1>1. ASSUME NEW v \in Worker, NEW r, r = run[v] PROVE Right(r) /\ Right(r)'
  <2>1. Right(r)
    BY <1>1 DEF WorkersRight
  <2> QED
    BY <1>0, <2>1, RightKept
<1>2. UNCHANGED run => WorkersRight'
  <2> SUFFICES ASSUME UNCHANGED run PROVE WorkersRight'
    OBVIOUS
  <2> SUFFICES ASSUME NEW v \in Worker PROVE Right(run[v])'
    BY DEF WorkersRight
  <2>1. PICK r : r = run[v] /\ r = run'[v]
    OBVIOUS
  <2>2. Right(r)'
    BY <1>1, <2>1
  <2> QED
    BY <2>1, <2>2 DEF Right, Working
<1>3. ASSUME NEW w \in Worker, \A v \in Worker : v # w => run'[v] = run[v],
             NEW r, r = run'[w], Right(r)'
      PROVE  WorkersRight'
  <2> SUFFICES ASSUME NEW v \in Worker PROVE Right(run[v])'
    BY DEF WorkersRight
  <2>1. PICK q : q = run'[v]
    OBVIOUS
  <2>2. Right(q)'
    <3>1. CASE v = w
      BY <1>3, <2>1, <3>1 DEF Right, Working
    <3>2. CASE v # w
      BY <1>1, <1>3, <2>1, <3>2
    <3> QED
      BY <3>1, <3>2
  <2> QED
    BY <2>1, <2>2 DEF Right, Working
<1>4. ASSUME NEW w \in Worker, NEW r, r = run'[w],
             \/ Process(w) \/ Crash(w)
             \/ \E k \in Key : Start(w, k)
             \/ \E i \in Instance : StartSync(w, i)
      PROVE  Right(r)'
  <2> DEFINE o == run[w]
  <2>0. /\ Right(o) /\ o \in Run
        /\ Working(o) => o.job \in Key /\ Asked(o.job)
    BY <1>0, <1>1 DEF Right
  <2>1. CASE r.phase \in {"idle", "list", "store"}
    BY <2>1 DEF Right, Working
  <2>2. ASSUME NEW k \in Key, Start(w, k) PROVE Right(r)'
    <3>1. /\ r.job = k /\ r.phase = "read"
          /\ r.preflight = request[k].preflight /\ r.user = request[k].remote
      BY <1>4, <2>2, Moves
    <3>2. Asked(k) /\ Asked(k)'
      BY <1>0, <2>2 DEF Start, Asked, Grows
    <3>3. r.user # None => Ours(k, r.user)'
      BY <1>0, <3>1, <3>2, OursKept DEF RequestsSound
    <3>4. r.preflight => Clear(k)'
      BY <1>0, <3>1, <3>2, ClearKept DEF RequestsSound
    <3> QED
      BY <3>1, <3>2, <3>3, <3>4 DEF Right
  <2>3. ASSUME ListUsers(w) PROVE Right(r)'
    <3>1. PICK q, k, found : q = o /\ k = o.job /\ found = Match(o.job, o.user)
      OBVIOUS
    <3>2. q \in Run /\ Right(q) /\ q.phase = "read" /\ q.job = k /\ k \in Key /\ Asked(k)
      BY <2>0, <2>3, <3>1 DEF ListUsers, At, Working
    <3>3. /\ found # None /\ q.preflight => Ours(k, found)
          /\ found = None => Clear(k)
      BY <3>1, <3>2, Listed
    <3>4. r.job = k /\ r.user = found /\ r.phase = AfterList(found, q.preflight)
      BY <1>4, <2>3, <3>1, Moves
    <3>5. /\ Asked(k)' /\ (Ours(k, found) => Ours(k, found)') /\ (Clear(k) => Clear(k)')
      BY <1>0, <3>2, OursKept, ClearKept DEF Grows
    <3>6. CASE found # None /\ q.preflight
      BY <3>2, <3>3, <3>4, <3>5, <3>6 DEF Right, AfterList
    <3>7. CASE found # None /\ ~q.preflight
      BY <3>2, <3>4, <3>5, <3>7 DEF Right, AfterList
    <3>8. CASE found = None
      BY <3>2, <3>3, <3>4, <3>5, <3>8 DEF Right, AfterList
    <3> QED
      BY <3>6, <3>7, <3>8
  <2>4. ASSUME MarkPreflight(w) PROVE Right(r)'
    <3>1. PICK k \in Key : k = o.job /\ Asked(k) /\ Clear(k)
      BY <2>4, PreflightSet
    <3>2. r.job = k /\ r.user = None /\ r.phase \in {"error", "create"}
      BY <1>4, <2>0, <2>4, <3>1, Moves DEF Right, Working, MarkPreflight, At
    <3>3. Asked(k)' /\ Clear(k)'
      BY <1>0, <3>1, ClearKept DEF Grows
    <3> QED
      BY <3>1, <3>2, <3>3 DEF Right
  <2>5. ASSUME CreateUser(w) PROVE Right(r)'
    <3>1. PICK k \in Key : k = o.job /\ Asked(k)
      BY <2>0, <2>5 DEF Working, CreateUser, At
    <3>2. r.job = k /\ r.user = Len(emby) + 1 /\ r.phase \in {"record", "error"}
      BY <1>4, <2>5, <3>1, Moves
    <3>3. Asked(k)' /\ r.user # None /\ Ours(k, r.user)'
      BY <1>0, <2>5, <3>1, <3>2, Created DEF Grows
    <3> QED
      BY <3>2, <3>3 DEF Right
  <2>6. ASSUME RecordUser(w) PROVE Right(r)'
    <3>1. PICK k \in Key : k = o.job /\ Asked(k)
      BY <2>6, RemoteSet
    <3>2. r.job = k /\ r.user = o.user /\ r.phase = "password"
      BY <1>4, <2>6, <3>1, Moves
    <3>3. r.user # None /\ Ours(k, r.user)
      BY <2>6, <3>1, <3>2, RemoteSet
    <3>4. Asked(k)' /\ Ours(k, r.user)'
      BY <1>0, <3>1, <3>3, OursKept DEF Grows
    <3> QED
      BY <3>2, <3>3, <3>4 DEF Right
  <2>7. ASSUME SetPassword(w) PROVE Right(r)'
    <3>1. PICK k \in Key : k = o.job /\ Asked(k) /\ o.user # None /\ Ours(k, o.user)
      BY <2>0, <2>7 DEF Right, Working, SetPassword, At
    <3>2. r.job = k /\ r.user = o.user /\ r.phase \in {"bind", "error"}
      BY <1>4, <2>7, <3>1, Moves
    <3>3. Asked(k)' /\ r.user # None /\ Ours(k, r.user)'
      BY <1>0, <3>1, <3>2, OursKept DEF Grows
    <3>4. emby'[r.user].password = k
      BY <2>7, <3>1, <3>2, Passwords
    <3> QED
      BY <3>2, <3>3, <3>4 DEF Right
  <2>8. ASSUME BindUser(w) \/ CallFails(w) PROVE Right(r)'
    <3>1. PICK k \in Key : k = o.job /\ Asked(k)
      BY <2>0, <2>8 DEF Working, BindUser, CallFails, At, Fallible
    <3>2. r.job = k /\ r.phase \in {"ok", "error"}
      BY <1>4, <2>8, <3>1, Moves
    <3>3. Asked(k)'
      BY <1>0, <3>1 DEF Grows
    <3> QED
      BY <3>2, <3>3 DEF Right
  <2>9. (\/ \E i \in Instance : StartSync(w, i)
         \/ SyncList(w) \/ Finish(w) \/ Fail(w) \/ SyncStore(w) \/ Crash(w))
        => r.phase \in {"idle", "list", "store"}
    BY <1>4, Moves
  <2> QED
    BY <1>4, <2>1, <2>2, <2>3, <2>4, <2>5, <2>6, <2>7, <2>8, <2>9 DEF Process
<1> QED
  <2>1. CASE UNCHANGED run
    BY <1>2, <2>1
  <2>2. ASSUME NEW w \in Worker,
               \/ Process(w) \/ Crash(w)
               \/ \E k \in Key : Start(w, k)
               \/ \E i \in Instance : StartSync(w, i)
        PROVE  WorkersRight'
    <3>1. PICK r : r = run'[w]
      OBVIOUS
    <3>2. Right(r)'
      BY <1>4, <2>2, <3>1
    <3>3. \A v \in Worker : v # w => run'[v] = run[v]
      BY <2>2, Moves
    <3> QED
      BY <1>3, <3>1, <3>2, <3>3
  <2> QED
    BY <2>1, <2>2, RunSteps

\* A request's user is set by one of its workers, and no other worker moves.
LEMMA Recorded ==
  ASSUME TypeOK, WorkersRight, [Next]_vars, NEW k \in Key,
         request[k].remote = None, request'[k].remote # None
  PROVE  \E w \in Worker : /\ k = run[w].job /\ Working(run[w]) /\ ~Early(run'[w])
                           /\ RecordUser(w) \/ BindUser(w)
                           /\ \A v \in Worker : v # w => run'[v] = run[v]
<1>1. ~\E a \in Account, j \in Key : RequestProvisioning(a, j)
  <2> SUFFICES ASSUME NEW a \in Account, NEW j \in Key, RequestProvisioning(a, j) PROVE FALSE
    OBVIOUS
  <2>1. j # k
    BY DEF RequestProvisioning, TypeOK
  <2> QED
    BY <2>1 DEF RequestProvisioning, TypeOK
<1>2. PICK w \in Worker : k = run[w].job /\ (RecordUser(w) \/ BindUser(w))
  BY <1>1, Requests
<1>3. Working(run[w])
  BY <1>2 DEF RecordUser, BindUser, At, Working
<1>4. run'[w].phase \in {"password", "ok", "error"}
  BY <1>2, Moves
<1>5. \A v \in Worker : v # w => run'[v] = run[v]
  BY <1>2, Moves DEF Process
<1> QED
  BY <1>2, <1>3, <1>4, <1>5 DEF Early

\* A worker that holds a request after its step held it before, or has just
\* started; and one that may still create a user could so before.
LEMMA Holds ==
  ASSUME TypeOK, WorkersRight, NEW w \in Worker,
         \/ Process(w) \/ Crash(w)
         \/ \E k \in Key : Start(w, k)
         \/ \E i \in Instance : StartSync(w, i)
  PROVE  /\ Working(run'[w]) =>
              \/ Working(run[w]) /\ run[w].job = run'[w].job
              \/ \E k \in Key : k = run'[w].job /\ Start(w, k)
         /\ Early(run'[w]) =>
              \/ Early(run[w]) /\ run[w].job = run'[w].job
              \/ \E k \in Key : /\ k = run'[w].job /\ Start(w, k)
                                /\ run'[w].user = request[k].remote /\ run'[w].phase = "read"
<1> DEFINE Goal == /\ Working(run'[w]) =>
                        \/ Working(run[w]) /\ run[w].job = run'[w].job
                        \/ \E k \in Key : k = run'[w].job /\ Start(w, k)
                   /\ Early(run'[w]) =>
                        \/ Early(run[w]) /\ run[w].job = run'[w].job
                        \/ \E k \in Key : /\ k = run'[w].job /\ Start(w, k)
                                          /\ run'[w].user = request[k].remote /\ run'[w].phase = "read"
<1>1. ASSUME NEW k \in Key, Start(w, k) PROVE Goal
  BY <1>1, Moves
<1>2. ASSUME ListUsers(w) PROVE Goal
  <2>1. PICK found : found = Match(run[w].job, run[w].user)
    OBVIOUS
  <2>2. /\ run'[w].job = run[w].job /\ run'[w].user = found
        /\ run'[w].phase = AfterList(found, run[w].preflight)
    BY <1>2, <2>1, Moves, Zenon
  <2>4. run[w].phase = "read"
    BY <1>2 DEF ListUsers, At
  <2>3. run[w].user # None => found # None
    BY <2>1 DEF Match
  <2> QED
    BY <2>2, <2>3, <2>4 DEF AfterList, Early, Working
<1>3. ASSUME MarkPreflight(w) \/ CreateUser(w) PROVE Goal
  <2>1. run'[w].job = run[w].job /\ run[w].phase \in {"mark", "create"}
    BY <1>3, Moves DEF MarkPreflight, CreateUser, At
  <2> QED
    BY <2>1 DEF Early, Working
<1>4. ASSUME RecordUser(w) \/ SetPassword(w) \/ BindUser(w) \/ CallFails(w) PROVE Goal
  <2>1. run'[w].job = run[w].job /\ run'[w].phase \in {"password", "bind", "ok", "error"}
    BY <1>4, Moves
  <2>2. Working(run[w])
    BY <1>4 DEF RecordUser, SetPassword, BindUser, CallFails, At, Working, Fallible
  <2> QED
    BY <2>1, <2>2 DEF Early
<1>5. ASSUME \/ \E i \in Instance : StartSync(w, i)
             \/ SyncList(w) \/ Finish(w) \/ Fail(w) \/ SyncStore(w) \/ Crash(w)
      PROVE  Goal
  <2>1. run'[w].phase \in {"idle", "list", "store"}
    BY <1>5, Moves
  <2> QED
    BY <2>1 DEF Early, Working
<1> HIDE DEF Goal
<1>6. Goal
  BY <1>1, <1>2, <1>3, <1>4, <1>5 DEF Process
<1> QED
  BY <1>6 DEF Goal

LEMMA StepOneWorker ==
  ASSUME TypeOK, WorkersRight, RequestsSound, [Next]_vars,
         spent["stall"] = 0 => OneWorker, spent'["stall"] = 0
  PROVE  OneWorker'
<1>0. OneWorker /\ spent["stall"] = 0
  <2>1. spent["stall"] \in Nat /\ spent'["stall"] >= spent["stall"]
    BY StallsCount DEF TypeOK, Fault
  <2> QED
    BY <2>1
<1>1. ASSUME NEW w \in Worker, NEW k \in Key, Start(w, k) PROVE \A v \in Worker : run[v].job # k
  <2> SUFFICES ASSUME Spend("stall") PROVE FALSE
    BY <1>1 DEF Start
  <2>1. spent'["stall"] = spent["stall"] + 1
    BY DEF Spend, TypeOK, Fault
  <2> QED
    BY <1>0, <2>1
<1>2. ASSUME NEW w \in Worker,
             \/ Process(w) \/ Crash(w)
             \/ \E k \in Key : Start(w, k)
             \/ \E i \in Instance : StartSync(w, i)
      PROVE  /\ \A v \in Worker : v # w => run'[v] = run[v]
             /\ \A v \in Worker : v # w /\ Working(run'[w]) /\ Working(run[v]) => run[v].job # run'[w].job
             /\ Early(run'[w]) => request[run'[w].job].remote = None
  <2>1. \A v \in Worker : v # w => run'[v] = run[v]
    BY <1>2, Moves
  <2>2. ASSUME NEW v \in Worker, v # w, Working(run'[w]), Working(run[v]) PROVE run[v].job # run'[w].job
    BY <1>0, <1>1, <1>2, <2>2, Holds DEF OneWorker
  <2>3. ASSUME Early(run'[w]) PROVE request[run'[w].job].remote = None
    <3>1. CASE Early(run[w]) /\ run[w].job = run'[w].job
      BY <1>0, <3>1 DEF OneWorker
    <3>2. CASE \E k \in Key : /\ k = run'[w].job /\ Start(w, k)
                              /\ run'[w].user = request[k].remote /\ run'[w].phase = "read"
      BY <2>3, <3>2 DEF Early
    <3> QED
      BY <1>2, <2>3, <3>1, <3>2, Holds
  <2> QED
    BY <2>1, <2>2, <2>3
<1>3. ASSUME NEW v \in Worker, NEW w \in Worker,
             Working(run'[v]), Working(run'[w]), run'[v].job = run'[w].job
      PROVE  v = w
  <2>1. CASE UNCHANGED run
    BY <1>0, <1>3, <2>1 DEF OneWorker
  <2>2. ASSUME NEW m \in Worker,
               \/ Process(m) \/ Crash(m)
               \/ \E k \in Key : Start(m, k)
               \/ \E i \in Instance : StartSync(m, i)
        PROVE  v = w
    <3>1. CASE v # m /\ w # m
      BY <1>0, <1>2, <1>3, <2>2, <3>1 DEF OneWorker
    <3>2. CASE v = m \/ w = m
      BY <1>2, <1>3, <2>2, <3>2
    <3> QED
      BY <3>1, <3>2
  <2> QED
    BY <2>1, <2>2, RunSteps
<1>4. ASSUME NEW v \in Worker, Early(run'[v]) PROVE request'[run'[v].job].remote = None
  <2>1. request[run'[v].job].remote = None
    <3>1. CASE run'[v] = run[v]
      BY <1>0, <1>4, <3>1 DEF OneWorker
    <3>2. CASE run'[v] # run[v]
      BY <1>2, <1>4, <3>2, RunSteps
    <3> QED
      BY <3>1, <3>2
  <2>2. Working(run'[v])
    BY <1>4 DEF Early, Working
  <2>3. PICK k \in Key : k = run'[v].job
    BY <2>2, StepWorkers DEF WorkersRight, Right, Working
  <2>4. ASSUME request'[k].remote # None PROVE FALSE
    <3>1. PICK w \in Worker : /\ k = run[w].job /\ Working(run[w]) /\ ~Early(run'[w])
                              /\ \A m \in Worker : m # w => run'[m] = run[m]
      BY <2>1, <2>3, <2>4, Recorded
    <3>2. v # w
      BY <1>4, <3>1
    <3>3. run'[v] = run[v]
      BY <3>1, <3>2
    <3> QED
      BY <1>0, <2>2, <2>3, <3>1, <3>2, <3>3 DEF OneWorker
  <2> QED
    BY <2>3, <2>4
<1> QED
  BY <1>3, <1>4 DEF OneWorker, Working, Early

LEMMA StepCreatedOnce ==
  ASSUME TypeOK, WorkersRight, UsersSound, RequestsSound, [Next]_vars,
         spent["stall"] = 0 => OneWorker, CreatedOnce
  PROVE  CreatedOnce'
<1> SUFFICES ASSUME NEW u \in DOMAIN emby', NEW v \in DOMAIN emby',
                    u < v, emby'[u].made = emby'[v].made, emby'[u].made # Outside
             PROVE  emby'[u].renamed = "early" \/ (emby'[u].renamed = "late" /\ spent'["stall"] > 0)
  BY DEF CreatedOnce
<1>0. /\ Grows /\ DOMAIN emby = 1..Len(emby) /\ Len(emby) \in Nat
      /\ spent["stall"] \in Nat /\ spent'["stall"] \in Nat /\ spent'["stall"] >= spent["stall"]
  BY StepGrows, UserIds, StallsCount DEF TypeOK, Fault
<1>1. CASE v \in DOMAIN emby
  <2>1. u \in DOMAIN emby
    BY <1>0, <1>1 DEF Grows
  <2>2. emby[u].made = emby[v].made /\ emby[u].made # Outside
    BY <1>0, <1>1, <2>1 DEF Grows
  <2>3. emby[u].renamed = "early" \/ (emby[u].renamed = "late" /\ spent["stall"] > 0)
    BY <1>1, <2>1, <2>2 DEF CreatedOnce
  <2>4. emby'[u].renamed = emby[u].renamed
    BY <1>0, <2>1, <2>3 DEF Grows
  <2> QED
    BY <1>0, <2>3, <2>4
<1>2. CASE v \notin DOMAIN emby
  <2>1. \/ \E i \in Instance, n \in Name : OutsideCreates(i, n)
        \/ \E w \in Worker : CreateUser(w)
    BY <1>2, EmbySteps, Renames, Passwords
  <2>2. ~\E i \in Instance, n \in Name : OutsideCreates(i, n)
    <3> SUFFICES ASSUME NEW i \in Instance, NEW n \in Name, OutsideCreates(i, n) PROVE FALSE
      OBVIOUS
    <3>1. emby'[v] = NewUser(i, n, Outside)
      BY <1>2, Appends DEF OutsideCreates
    <3> QED
      BY <3>1 DEF NewUser
  <2>3. PICK w \in Worker : CreateUser(w)
    BY <2>1, <2>2
  <2>4. PICK k \in Key : /\ k = run[w].job /\ k[1] \in Instance /\ k[2] \in Name
                         /\ CanCreate(k[1], k[2]) /\ emby' = Append(emby, NewUser(k[1], k[2], k))
    BY <2>3, Creates
  <2>5. /\ v = Len(emby) + 1 /\ emby'[v].made = k
        /\ u \in DOMAIN emby /\ emby'[u] = emby[u]
    <3>1. /\ DOMAIN emby' = DOMAIN emby \cup {Len(emby) + 1}
          /\ \A n \in DOMAIN emby : emby'[n] = emby[n]
          /\ emby'[Len(emby) + 1] = NewUser(k[1], k[2], k)
      BY <2>4, Appends
    <3>2. v = Len(emby) + 1 /\ u # v
      BY <1>0, <1>2, <3>1
    <3> QED
      BY <3>1, <3>2 DEF NewUser
  <2>6. emby[u].made = k /\ k # Outside /\ emby[u] \in User
    BY <2>5, UserIds, IdAssumption
  <2>7. emby[u].renamed # "no"
    BY <2>4, <2>5, <2>6 DEF CanCreate, Named, Users, UsersSound
  <2>8. emby[u].renamed = "late" => spent["stall"] > 0
    <3>1. emby[u].renamed = "late" => request[k].remote # None
      BY <2>5, <2>6 DEF UsersSound
    <3>2. Early(run[w])
      BY <2>3 DEF Early, CreateUser, At
    <3>3. spent["stall"] = 0 => request[k].remote = None
      BY <2>4, <3>2 DEF OneWorker
    <3> QED
      BY <1>0, <3>1, <3>3
  <2>9. emby[u].renamed \in {"no", "early", "late"}
    BY <2>6 DEF User
  <2> QED
    BY <1>0, <2>5, <2>7, <2>8, <2>9
<1> QED
  BY <1>1, <1>2

LEMMA StepSucceeded ==
  ASSUME TypeOK, WorkersRight, UsersSound, RequestsSound, BindingsSound, [Next]_vars,
         spent["stall"] = 0 => OneWorker, SucceededIsUsable
  PROVE  SucceededIsUsable'
<1> SUFFICES ASSUME NEW k \in Key, request'[k].status = "succeeded", ~Renamed(k)',
                    NEW u, u = request'[k].remote
             PROVE  /\ emby'[u].password = k
                    /\ binding'[u] # None
                    /\ binding'[u].origin = "provision" => binding'[u].account = request'[k].account
  BY DEF SucceededIsUsable
<1>0. Grows /\ RequestsSound' /\ BindingsSound' /\ spent["stall"] \in Nat /\ spent'["stall"] >= spent["stall"]
  BY StepGrows, StepRequests, StepBindings, StallsCount DEF TypeOK, Fault
<1>1. u # None /\ Ours(k, u)'
  BY <1>0 DEF RequestsSound, Ours
<1>2. u \in DOMAIN emby' /\ u \in UserId /\ emby'[u].renamed = "no"
  <2>1. u \in DOMAIN emby'
    BY <1>1 DEF Ours
  <2>2. emby' \in Seq(User) /\ Len(emby') <= MaxUsers /\ MaxUsers \in Nat
    BY StepTyped, ProvisionAssumption DEF TypeOK
  <2>3. DOMAIN emby' \subseteq UserId
    BY <2>2 DEF UserId
  <2> QED
    BY <2>1, <2>3 DEF Renamed
<1>3. binding'[u] # None /\ binding'[u].origin = "provision" => binding'[u].account = request'[k].account
  <2> SUFFICES ASSUME binding'[u] # None, binding'[u].origin = "provision"
               PROVE  binding'[u].account = request'[k].account
    OBVIOUS
  <2>1. PICK j \in Key : /\ binding'[u].account = request'[j].account
                         /\ emby'[u].instance = j[1] /\ emby'[u].name = j[2]
    BY <1>0, <1>2 DEF BindingsSound
  <2>2. emby'[u].instance = k[1] /\ emby'[u].name = k[2]
    BY <1>1, <1>2 DEF Ours
  <2> QED
    BY <2>1, <2>2, KeysApart
<1>4. CASE request[k].status = "succeeded" /\ request[k].remote = u
  <2>1. ~Renamed(k)
    <3> SUFFICES ASSUME NEW v \in DOMAIN emby, emby[v].renamed # "no",
                        \/ emby[v].made = k \/ request[k].remote = v
                        \/ spent["stall"] > 0 /\ emby[v].instance = k[1]
                 PROVE  FALSE
      BY DEF Renamed
    <3>1. /\ v \in DOMAIN emby' /\ emby'[v].renamed # "no"
          /\ emby'[v].made = emby[v].made /\ emby'[v].instance = emby[v].instance
      BY <1>0 DEF Grows
    <3>2. spent["stall"] > 0 => spent'["stall"] > 0
      BY <1>0, StallsCount DEF TypeOK, Fault
    <3> QED
      BY <1>4, <3>1, <3>2 DEF Renamed
  <2>2. emby[u].password = k /\ binding[u] # None
    BY <1>4, <2>1 DEF SucceededIsUsable
  <2>3. Ours(k, u)
    BY <1>1, <1>4 DEF RequestsSound
  <2>4. u \in DOMAIN emby
    BY <2>3 DEF Ours
  <2>5. emby'[u].password = k
    BY <1>0, <1>2, <2>2, <2>3, <2>4 DEF Grows
  <2>6. binding'[u] # None
    BY <1>2, <2>2, Bindings
  <2> QED
    BY <1>3, <2>5, <2>6
<1>5. ASSUME NEW w \in Worker, k = run[w].job, BindUser(w)
      PROVE  emby'[u].password = k /\ binding'[u] # None
  <2>1. u = run[w].user /\ emby' = emby
    BY <1>5, RemoteSet
  <2>2. emby'[u].password = k
    <3>1. run[w].phase = "bind" /\ Right(run[w])
      BY <1>5 DEF WorkersRight, BindUser, At
    <3>2. emby[run[w].user].renamed = "no"
      BY <1>2, <2>1
    <3> QED
      BY <1>5, <2>1, <3>1, <3>2 DEF Right, Working
  <2>3. CASE binding[u] # None
    BY <1>2, <2>2, <2>3, Bindings
  <2>4. CASE binding[u] = None
    <3>1. Bind(u, request[k].account, "provision")
      BY <1>5, <2>1, <2>4 DEF BindUser
    <3>2. PICK b : b = [account |-> request[k].account, origin |-> "provision", status |-> "active"]
      OBVIOUS
    <3>3. binding'[u] = b
      BY <1>2, <3>1, <3>2 DEF Bind, TypeOK
    <3>4. Ours(k, u) /\ Asked(k)
      BY <1>5, <2>1, RemoteSet
    <3>5. request[k].account \in Account
      BY <3>4 DEF RequestsSound, TypeOK, Request
    <3>6. b \in Binding
      BY <3>2, <3>5 DEF Binding
    <3> QED
      BY <2>2, <3>3, <3>6, IdAssumption
  <2> QED
    BY <2>2, <2>3, <2>4
<1>6. ASSUME NEW w \in Worker, k = run[w].job, RecordUser(w), request[k].status = "succeeded"
      PROVE  request[k].remote = u
  <2>1. u = run[w].user /\ emby' = emby /\ Ours(k, u)
    BY <1>6, RemoteSet
  <2>2. request[k].remote # None /\ Ours(k, request[k].remote)
    BY <1>6 DEF RequestsSound
  <2>3. Early(run[w])
    BY <1>6 DEF Early, RecordUser, At
  <2>4. spent["stall"] # 0
    BY <1>6, <2>2, <2>3 DEF OneWorker
  <2>5. spent'["stall"] > 0
    <3>1. spent'["stall"] \in Nat
      BY StallsCount DEF Fault
    <3> QED
      BY <1>0, <2>4, <3>1
  <2>6. \A v \in DOMAIN emby : emby[v].instance = k[1] => emby[v].renamed = "no"
    BY <2>1, <2>5 DEF Renamed
  <2>7. PICK v : v = request[k].remote
    OBVIOUS
  <2>8. /\ u \in DOMAIN emby /\ emby[u].instance = k[1] /\ emby[u].name = k[2]
        /\ v \in DOMAIN emby /\ emby[v].instance = k[1] /\ emby[v].name = k[2]
    BY <2>1, <2>2, <2>6, <2>7 DEF Ours
  <2> QED
    BY <2>7, <2>8 DEF UsersSound
<1>7. \/ request[k].status = "succeeded" /\ request[k].remote = u
      \/ \E w \in Worker : k = run[w].job /\ BindUser(w)
      \/ \E w \in Worker : k = run[w].job /\ RecordUser(w) /\ request[k].status = "succeeded"
  <2>1. CASE request'[k] = request[k]
    BY <2>1
  <2>2. ASSUME NEW a \in Account, NEW j \in Key, RequestProvisioning(a, j) PROVE request'[k] = request[k]
    <3>1. j # k
      <4> SUFFICES ASSUME j = k PROVE FALSE
        OBVIOUS
      <4>1. request'[k] = [account |-> a, task |-> "open", attempts |-> 0, holder |-> None, status |-> "open",
                           preflight |-> FALSE, remote |-> None, before |-> Len(emby)]
        BY <2>2 DEF RequestProvisioning, TypeOK
      <4> QED
        BY <4>1
    <3> QED
      BY <2>2, <3>1 DEF RequestProvisioning, TypeOK
  <2> QED
    BY <2>1, <2>2, Requests
<1> QED
  BY <1>3, <1>4, <1>5, <1>6, <1>7

LEMMA StepNotOffered ==
  ASSUME TypeOK, WorkersRight, [Next]_vars, BoundNotOffered
  PROVE  BoundNotOffered'
<1> SUFFICES ASSUME NEW u \in UserId, directory'[u] = "unclaimed" PROVE binding'[u] = None
  BY DEF BoundNotOffered
<1>0. /\ binding \in [UserId -> Binding \cup {None}]
      /\ directory \in [UserId -> {"unknown", "unclaimed", "claimed", "missing"}]
  BY DEF TypeOK
<1>1. CASE UNCHANGED <<binding, directory>>
  BY <1>1 DEF BoundNotOffered
<1>2. ASSUME NEW v, directory' = [directory EXCEPT ![v] = "claimed"],
             \/ UNCHANGED binding
             \/ \E b : binding' = [binding EXCEPT ![v] = b]
      PROVE  binding'[u] = None
  <2>1. v # u /\ directory[u] = "unclaimed"
    BY <1>0, <1>2
  <2> QED
    BY <1>0, <1>2, <2>1 DEF BoundNotOffered
<1>3. ASSUME NEW w \in Worker, SyncStore(w) PROVE binding'[u] = None
  <2>1. CASE u \notin Users(run[w].job)
    BY <1>0, <1>3, <2>1 DEF SyncStore, BoundNotOffered
  <2>2. CASE u \in Users(run[w].job)
    BY <1>0, <1>3, <2>2 DEF SyncStore, ListedStatus
  <2> QED
    BY <2>1, <2>2
<1>4. ASSUME NEW v, NEW a, NEW o, Bind(v, a, o) PROVE binding'[u] = None
  BY <1>2, <1>4 DEF Bind
<1>5. ASSUME NEW c \in claiming, ClaimEnds(c) PROVE binding'[u] = None
  BY <1>1, <1>4, <1>5 DEF ClaimEnds
<1>6. ASSUME NEW a \in Account, NEW v \in DOMAIN emby, AdminClaimRemoteUser(a, v) PROVE binding'[u] = None
  BY <1>4, <1>6 DEF AdminClaimRemoteUser
<1>7. ASSUME NEW w \in Worker, BindUser(w) PROVE binding'[u] = None
  BY <1>2, <1>4, <1>7 DEF BindUser
<1>8. \/ UNCHANGED <<binding, directory>>
      \/ \E c \in claiming : ClaimEnds(c)
      \/ \E a \in Account, v \in DOMAIN emby : AdminClaimRemoteUser(a, v)
      \/ \E w \in Worker : BindUser(w) \/ SyncStore(w)
  BY DEF Next, Process, vars, RequestProvisioning, RetryTask, ClaimRemoteUser, OutsideCreates,
         OutsideRenames, Start, StartSync, ListUsers, MarkPreflight, CreateUser, RecordUser,
         SetPassword, CallFails, Finish, Fail, SyncList, Crash
<1> QED
  BY <1>1, <1>3, <1>5, <1>6, <1>7, <1>8

-----------------------------------------------------------------------------

LEMMA InitInv == Init => IInv
<1> SUFFICES ASSUME Init PROVE IInv
  OBVIOUS
<1>1. TypeOK
  BY InitTyped
<1>2. /\ \A k \in Key : request[k] = NoRequest
      /\ DOMAIN emby = {} /\ Len(emby) = 0
      /\ \A u \in UserId : binding[u] = None
      /\ \A w \in Worker : run[w] = Polling
  BY DEF Init
<1>3. \A w \in Worker : ~Working(run[w]) /\ ~Early(run[w])
  BY <1>2 DEF Polling, Working, Early
<1>4. UsersSound /\ PasswordsSound /\ CreatedOnce
  BY <1>2 DEF UsersSound, PasswordsSound, CreatedOnce
<1>5. RequestsSound /\ SucceededIsUsable
  <2>1. ASSUME NEW k \in Key
        PROVE  /\ request[k] = NoRequest /\ request[k].task = "none" /\ request[k].before = 0
               /\ request[k].remote = None /\ ~request[k].preflight /\ request[k].status = "none"
    <3>1. /\ NoRequest.task = "none" /\ NoRequest.before = 0 /\ NoRequest.remote = None
          /\ ~NoRequest.preflight /\ NoRequest.status = "none"
      BY DEF NoRequest
    <3> QED
      BY <1>2, <3>1, Zenon
  <2> QED
    BY <1>2, <2>1 DEF RequestsSound, SucceededIsUsable, Asked
<1>6. BindingsSound /\ BoundNotOffered
  BY <1>2 DEF BindingsSound, BoundNotOffered
<1>7. WorkersRight /\ OneWorker
  BY <1>3 DEF WorkersRight, Right, OneWorker
<1> QED
  BY <1>1, <1>4, <1>5, <1>6, <1>7 DEF IInv

LEMMA StepInv == IInv /\ [Next]_vars => IInv'
<1> SUFFICES ASSUME IInv, [Next]_vars PROVE IInv'
  OBVIOUS
<1>1. /\ TypeOK /\ UsersSound /\ RequestsSound /\ PasswordsSound /\ BindingsSound /\ WorkersRight
      /\ (spent["stall"] = 0 => OneWorker)
      /\ CreatedOnce /\ SucceededIsUsable /\ BoundNotOffered
  BY DEF IInv
<1>2. TypeOK' /\ UsersSound' /\ RequestsSound' /\ PasswordsSound' /\ BindingsSound' /\ WorkersRight'
  BY <1>1, StepTyped, StepUsers, StepRequests, StepPasswords, StepBindings, StepWorkers
<1>3. spent'["stall"] = 0 => OneWorker'
  BY <1>1, StepOneWorker
<1>4. CreatedOnce' /\ SucceededIsUsable' /\ BoundNotOffered'
  BY <1>1, StepCreatedOnce, StepSucceeded, StepNotOffered
<1> QED
  BY <1>2, <1>3, <1>4 DEF IInv

LEMMA InvIsSound == IInv => UserIsSound
<1> SUFFICES ASSUME IInv PROVE UserIsSound
  OBVIOUS
<1>1. TypeOK /\ RequestsSound /\ PasswordsSound /\ CreatedOnce /\ SucceededIsUsable /\ BoundNotOffered
  BY DEF IInv
<1>2. PreexistingLeftAlone
  <2> SUFFICES ASSUME NEW k \in Key, NEW u \in DOMAIN emby, u <= request[k].before,
                      emby[u].renamed = "no", emby[u].password = k \/ request[k].remote = u
               PROVE  FALSE
    BY DEF PreexistingLeftAlone
  <2>1. u # None /\ k # None /\ u \in Nat
    BY <1>1, UserIds, IdAssumption
  <2>2. Ours(k, u)
    BY <1>1, <2>1 DEF PasswordsSound, RequestsSound
  <2>3. u > request[k].before /\ request[k].before \in Nat
    BY <1>1, <2>2 DEF Ours, TypeOK, Request
  <2> QED
    BY <2>1, <2>3
<1> QED
  BY <1>1, <1>2 DEF UserIsSound

\* README.md:64 and the comments of worker.go: a request makes one remote user,
\* touches no user that was there before, and ends with a binding that works and
\* that nobody else is offered, whatever crashes, stalls and is renamed meanwhile.
THEOREM UserIsSoundHolds == Spec => []UserIsSound
<1>1. Init => IInv
  BY InitInv
<1>2. IInv /\ [Next]_vars => IInv'
  BY StepInv
<1>3. IInv => UserIsSound
  BY InvIsSound
<1> QED
  BY <1>1, <1>2, <1>3, PTL DEF Spec

=============================================================================

---------------------------- MODULE LegacyInstances ----------------------------
(***************************************************************************)
(* Several Emby servers of the archived v2: the credentials and instances  *)
(* that administrators edit, the users that registrations create there,    *)
(* and the account jobs and the client filter that suspend, restore and    *)
(* delete them. No foreign key ties the tables, and every call to a server *)
(* is a step between transactions.                                         *)
(*                                                                         *)
(* Abstractions: which enabled instance a registration prefers, the names, *)
(* passwords and dates are left out, and so are probes, which write the    *)
(* health of an instance alone; an expired credential is an inactive one;  *)
(* the two requests that set a password and a policy are one, as are the   *)
(* two that read and write a policy.                                       *)
(***************************************************************************)
EXTENDS Integers, Sequences, FiniteSets, TLC

CONSTANTS Credential, Instance, Account, Admin, Hand,
          Missing,            \* no row, no transaction, no job
          MaxUsers, MaxEdits, MaxFaults  \* bounds: users made, rows edited, workers that stop

CredentialRow == [emby : BOOLEAN, active : BOOLEAN]
InstanceRow == [credential : Credential, enabled : BOOLEAN]
BindingRow == [user : Nat, status : {"active", "suspended", "deleted"}]

\* What a transaction of an administrator has read.
Form ==
    [does : {"credential"}, credential : Credential, used : BOOLEAN]
    \union [does : {"instance"}, credential : Credential, at : Instance]

\* What a hand is at: a registration, a change of policies, a deletion.
Carrying == [phase : {"equip", "bind", "complete", "undo", "unbind"}, account : Account, at : Instance, user : Nat]
Targeting == [phase : {"next"}, does : {"suspend", "restore"}, left : SUBSET (Instance \X Nat)]
Recording == [phase : {"record"}, does : {"suspend", "restore"}, at : Instance, user : Nat,
              left : SUBSET (Instance \X Nat), crossed : BOOLEAN]
Clearing == [phase : {"clear"}, account : Account,
             left : SUBSET (Instance \X Nat), all : SUBSET (Instance \X Nat)]
Forgetting == [phase : {"forget"}, account : Account]
Job == Carrying \union Targeting \union Recording \union Clearing \union Forgetting

ASSUME InstanceAssumption ==
    Missing \notin CredentialRow \union InstanceRow \union BindingRow \union Form \union Job

VARIABLES
    credential,  \* managed_credentials: provider is emby, active
    instance,    \* emby_instances: credential, enabled
    form,        \* per administrator: the transaction that is open
    user,        \* on the servers, in the order made: where, disabled, removed
    binding,     \* account_emby_bindings by account and instance: user, status
    embyid,      \* emby.embyid per account, 0 for none
    job,         \* per hand of a worker or the webhook: what it does and has read
    edits,
    raced,       \* ghost: credentials that an instance chose while they were changed
    unsure,      \* ghost: instance and user whose binding may differ from the server
    stray,       \* ghost: users that are known to have been left without a binding
    faults

rows == <<credential, instance, form, edits, raced>>
served == <<user, binding, embyid, job, unsure, stray>>
instanceVars == <<rows, served, faults>>

\* Some instances are there already, and maybe a user from before, whom no binding tells of.
InstanceInit ==
    /\ credential = [c \in Credential |-> [emby |-> TRUE, active |-> TRUE]]
    /\ instance \in [Instance -> {Missing} \union [credential: Credential, enabled: {TRUE}]]
    /\ form = [p \in Admin |-> Missing]
    /\ edits = 0
    /\ binding = [a \in Account |-> [i \in Instance |-> Missing]]
    /\ \/ user = << >> /\ embyid = [a \in Account |-> 0] /\ stray = {}
       \/ \E i \in Instance, a \in Account :
            /\ user = <<[at |-> i, disabled |-> FALSE, removed |-> FALSE]>>
            /\ embyid = [b \in Account |-> IF b = a THEN 1 ELSE 0]
            /\ stray = {1}
    /\ job = [w \in Hand |-> Missing]
    /\ raced = {} /\ unsure = {}
    /\ faults = 0

-----------------------------------------------------------------------------
(* Credentials and instances. *)

Edit == edits < MaxEdits /\ edits' = edits + 1
Uses(i, c) == instance[i] # Missing /\ instance[i].credential = c
Open(does, c) == \E p \in Admin : form[p] # Missing /\ form[p].does = does /\ form[p].credential = c

CreateCredential(c) ==
    /\ credential[c] = Missing /\ Edit
    /\ \E emby, active \in BOOLEAN : credential' = [credential EXCEPT ![c] = [emby |-> emby, active |-> active]]
    /\ UNCHANGED <<instance, form, raced, served, faults>>

\* Locks the credential and looks for an instance that uses it.
BeginsCredential(p, c) ==
    /\ form[p] = Missing /\ credential[c] # Missing /\ Edit /\ ~Open("credential", c)
    /\ form' = [form EXCEPT ![p] =
           [does |-> "credential", credential |-> c, used |-> \E i \in Instance : Uses(i, c)]]
    /\ raced' = IF Open("instance", c) THEN raced \union {c} ELSE raced
    /\ UNCHANGED <<credential, instance, served, faults>>

\* One that is in use stays one of Emby, but may be switched off.
Allowed(used, kept) == used => kept

CommitsCredential(p) ==
    /\ form[p] # Missing /\ form[p].does = "credential"
    /\ \/ \E emby, active \in BOOLEAN :
            /\ Allowed(form[p].used, emby)
            /\ credential' = [credential EXCEPT ![form[p].credential] = [emby |-> emby, active |-> active]]
       \/ Allowed(form[p].used, FALSE) /\ credential' = [credential EXCEPT ![form[p].credential] = Missing]
    /\ form' = [form EXCEPT ![p] = Missing]
    /\ UNCHANGED <<instance, edits, raced, served, faults>>

Usable(c) == credential[c] # Missing /\ credential[c].active

\* Reads the credential without a lock, and locks the instance if it is there.
BeginsInstance(p, i, c) ==
    /\ form[p] = Missing /\ Usable(c) /\ credential[c].emby /\ Edit
    /\ ~\E q \in Admin : form[q] # Missing /\ form[q].does = "instance" /\ form[q].at = i
    /\ form' = [form EXCEPT ![p] = [does |-> "instance", credential |-> c, at |-> i]]
    /\ raced' = IF Open("credential", c) THEN raced \union {c} ELSE raced
    /\ UNCHANGED <<credential, instance, served, faults>>

CommitsInstance(p) ==
    /\ form[p] # Missing /\ form[p].does = "instance"
    /\ \E enabled \in BOOLEAN :
         instance' = [instance EXCEPT ![form[p].at] = [credential |-> form[p].credential, enabled |-> enabled]]
    /\ form' = [form EXCEPT ![p] = Missing]
    /\ UNCHANGED <<credential, edits, raced, served, faults>>

\* Refused as long as a binding names it, a deleted one too.
DeleteInstance(i) ==
    /\ instance[i] # Missing /\ Edit
    /\ ~\E p \in Admin : form[p] # Missing /\ form[p].does = "instance" /\ form[p].at = i
    /\ \A a \in Account : binding[a][i] = Missing
    /\ instance' = [instance EXCEPT ![i] = Missing]
    /\ UNCHANGED <<credential, form, raced, served, faults>>

-----------------------------------------------------------------------------
(* A registration, which the instance it has chosen carries it through. *)

Rest(w) == job' = [job EXCEPT ![w] = Missing]
Go(w, phase) == job' = [job EXCEPT ![w].phase = phase]
In(w, phase) == job[w] # Missing /\ job[w].phase = phase
Fault == faults < MaxFaults /\ faults' = faults + 1
Reaches(i) == instance[i] # Missing /\ Usable(instance[i].credential)
Remove(u) == user' = [user EXCEPT ![u].removed = TRUE]

\* execute, _instance and the first request of create_user; a reply that is lost leaves
\* the user behind.
CreatesUser(w, a, i) ==
    LET n == Len(user) + 1 IN
    /\ job[w] = Missing /\ embyid[a] = 0 /\ n <= MaxUsers
    /\ Reaches(i) /\ instance[i].enabled
    /\ user' = Append(user, [at |-> i, disabled |-> FALSE, removed |-> FALSE])
    /\ \/ /\ job' = [job EXCEPT ![w] = [phase |-> "equip", account |-> a, at |-> i, user |-> n]]
          /\ UNCHANGED <<stray, faults>>
       \/ Fault /\ stray' = stray \union {n} /\ UNCHANGED job
    /\ UNCHANGED <<rows, binding, embyid, unsure>>

\* When the password or the policy is refused the user is deleted, if the server does it.
Equips(w) ==
    /\ In(w, "equip")
    /\ \/ Go(w, "bind") /\ UNCHANGED <<user, stray>>
       \/ Rest(w) /\ Remove(job[w].user) /\ UNCHANGED stray
       \/ Rest(w) /\ stray' = stray \union {job[w].user} /\ UNCHANGED user
    /\ UNCHANGED <<rows, binding, embyid, unsure, faults>>

\* uq_binding_account_instance: an account that was bound there ever, and was not unbound,
\* cannot be again; nothing deletes the user then.
Binds(w) ==
    LET a == job[w].account
        i == job[w].at
    IN
    /\ In(w, "bind")
    /\ IF binding[a][i] = Missing
       THEN /\ binding' = [binding EXCEPT ![a][i] = [user |-> job[w].user, status |-> "active"]]
            /\ Go(w, "complete")
            /\ UNCHANGED stray
       ELSE Rest(w) /\ stray' = stray \union {job[w].user} /\ UNCHANGED binding
    /\ UNCHANGED <<rows, user, embyid, unsure, faults>>

\* complete_registration, which refuses an account that has a user.
Completes(w) ==
    /\ In(w, "complete")
    /\ \/ embyid[job[w].account] = 0 /\ embyid' = [embyid EXCEPT ![job[w].account] = job[w].user] /\ Rest(w)
       \/ Go(w, "undo") /\ UNCHANGED embyid
    /\ UNCHANGED <<rows, user, binding, unsure, stray, faults>>

About(w) == <<job[w].at, job[w].user>>

\* Others who have changed the user on the server, and not yet what the binding says.
Between(w, key) == {v \in Hand \ {w} : In(v, "record") /\ About(v) = key}

\* What w does next; the others learn that they were crossed.
Crosses(w, key, next) ==
    job' = [v \in Hand |-> IF v = w THEN next
                           ELSE IF v \in Between(w, key) THEN [job[v] EXCEPT !.crossed = TRUE] ELSE job[v]]

\* _rollback_remote_account: what the server answers to the deletion is not asked.
UndoRemoves(w) ==
    /\ In(w, "undo")
    /\ \/ /\ Reaches(job[w].at) /\ Remove(job[w].user)
          /\ unsure' = unsure \union {About(w)}
          /\ UNCHANGED stray
       \/ stray' = stray \union {job[w].user} /\ UNCHANGED <<user, unsure>>
    /\ Crosses(w, About(w), [job[w] EXCEPT !.phase = "unbind"])
    /\ UNCHANGED <<rows, binding, embyid, faults>>

Unbinds(w) ==
    LET a == job[w].account
        i == job[w].at
    IN
    /\ In(w, "unbind")
    /\ binding' = IF binding[a][i] # Missing /\ binding[a][i].user = job[w].user
                  THEN [binding EXCEPT ![a][i] = Missing] ELSE binding
    /\ Rest(w)
    /\ UNCHANGED <<rows, user, embyid, unsure, stray, faults>>

-----------------------------------------------------------------------------
(* Suspending, restoring and deleting what is bound. *)

Live(b) == b # Missing /\ b.status \in {"active", "suspended"}
Targets(a) == {<<i, binding[a][i].user>> : i \in {j \in Instance : Live(binding[a][j])}}

BeginsPolicy(w, does, targets) ==
    /\ job[w] = Missing /\ targets # {}
    /\ job' = [job EXCEPT ![w] = [phase |-> "next", does |-> does, left |-> targets]]
    /\ UNCHANGED <<rows, user, binding, embyid, unsure, stray, faults>>

\* suspend and restore of an account, from the bindings it has now.
BeginsLifecycle(w, a) == \E does \in {"suspend", "restore"} : BeginsPolicy(w, does, Targets(a))

\* The client filter blocks whoever plays with a client it does not like.
BeginsFilter(w, a) == embyid[a] # 0 /\ BeginsPolicy(w, "suspend", {<<user[embyid[a]].at, embyid[a]>>})

BeginsClear(w, a) ==
    /\ job[w] = Missing /\ Targets(a) # {}
    /\ job' = [job EXCEPT ![w] = [phase |-> "clear", account |-> a, left |-> Targets(a), all |-> Targets(a)]]
    /\ UNCHANGED <<rows, user, binding, embyid, unsure, stray, faults>>

Found(key) == Reaches(key[1]) /\ user[key[2]].at = key[1] /\ ~user[key[2]].removed

\* set_user_disabled: the policy first, the binding in a transaction of its own.
SetsPolicy(w, key) ==
    LET mine == [phase |-> "record", does |-> job[w].does, at |-> key[1], user |-> key[2],
                 left |-> job[w].left \ {key}, crossed |-> Between(w, key) # {}]
    IN
    /\ In(w, "next") /\ key \in job[w].left /\ Found(key)
    /\ user' = [user EXCEPT ![key[2]].disabled = job[w].does = "suspend"]
    /\ Crosses(w, key, mine)
    /\ UNCHANGED <<rows, binding, embyid, unsure, stray, faults>>

\* Slip: what a user was is written after what it has become.
OtherWay(does) == IF does = "restore" THEN "suspended" ELSE "active"

StatusOf(does) == IF does = "suspend" THEN "suspended" ELSE "active"

RecordsPolicy(w) ==
    LET key == About(w) IN
    /\ In(w, "record")
    /\ binding' = [a \in Account |-> [i \in Instance |->
           IF i = key[1] /\ binding[a][i] # Missing /\ binding[a][i].user = key[2]
           THEN [binding[a][i] EXCEPT !.status = StatusOf(job[w].does)] ELSE binding[a][i]]]
    /\ unsure' = IF job[w].crossed THEN unsure \union {key} ELSE unsure \ {key}
    /\ IF job[w].left = {} THEN Rest(w)
       ELSE job' = [job EXCEPT ![w] = [phase |-> "next", does |-> @.does, left |-> @.left]]
    /\ UNCHANGED <<rows, user, embyid, stray, faults>>

\* clear_account deletes the users one by one.
RemovesUser(w, key) ==
    /\ In(w, "clear") /\ key \in job[w].left /\ Found(key)
    /\ Remove(key[2])
    /\ unsure' = unsure \union {key}
    /\ Crosses(w, key, [job[w] EXCEPT !.left = @ \ {key}])
    /\ UNCHANGED <<rows, binding, embyid, stray, faults>>

\* A user the server does not find, a server that is gone or does not answer: what was
\* done so far stays, and a repetition meets it again.
JobFails(w) ==
    /\ (In(w, "next") \/ In(w, "clear")) /\ job[w].left # {}
    /\ Rest(w)
    /\ UNCHANGED <<rows, user, binding, embyid, unsure, stray, faults>>

\* The bindings stay, as deleted ones.
MarksDeleted(w) ==
    /\ In(w, "clear") /\ job[w].left = {}
    /\ binding' = [a \in Account |-> [i \in Instance |->
           IF binding[a][i] # Missing /\ <<i, binding[a][i].user>> \in job[w].all
           THEN [binding[a][i] EXCEPT !.status = "deleted"] ELSE binding[a][i]]]
    /\ job' = [job EXCEPT ![w] = [phase |-> "forget", account |-> @.account]]
    /\ UNCHANGED <<rows, user, embyid, unsure, stray, faults>>

ClearsUser(w) ==
    /\ In(w, "forget")
    /\ embyid' = [embyid EXCEPT ![job[w].account] = 0]
    /\ Rest(w)
    /\ UNCHANGED <<rows, user, binding, unsure, stray, faults>>

\* A binding for every account with a user and none there yet, wherever that user is.
AdoptLegacyBindings(i) ==
    LET adopted == {a \in Account : embyid[a] # 0 /\ binding[a][i] = Missing} IN
    /\ instance[i] # Missing /\ adopted # {}
    /\ \E status \in {"active", "suspended"} :
         binding' = [a \in Account |->
             IF a \in adopted THEN [binding[a] EXCEPT ![i] = [user |-> embyid[a], status |-> status]] ELSE binding[a]]
    /\ unsure' = unsure \union {<<i, embyid[a]>> : a \in adopted}
    /\ UNCHANGED <<rows, user, embyid, job, stray, faults>>

\* A worker stops, or a call to the server or the database raises, wherever it is.
StopsShort(w) ==
    /\ job[w] # Missing /\ Fault
    /\ Rest(w)
    /\ stray' = IF In(w, "equip") \/ In(w, "bind") THEN stray \union {job[w].user} ELSE stray
    /\ unsure' = IF In(w, "record") THEN unsure \union {About(w)} ELSE unsure
    /\ UNCHANGED <<rows, user, binding, embyid>>

InstanceNext ==
    \/ \E p \in Admin :
         \/ CommitsCredential(p) \/ CommitsInstance(p)
         \/ \E c \in Credential : BeginsCredential(p, c) \/ \E i \in Instance : BeginsInstance(p, i, c)
    \/ \E c \in Credential : CreateCredential(c)
    \/ \E i \in Instance : DeleteInstance(i) \/ AdoptLegacyBindings(i)
    \/ \E w \in Hand :
         \/ Equips(w) \/ Binds(w) \/ Completes(w) \/ UndoRemoves(w) \/ Unbinds(w)
         \/ RecordsPolicy(w) \/ JobFails(w) \/ MarksDeleted(w) \/ ClearsUser(w) \/ StopsShort(w)
         \/ \E a \in Account :
              \/ BeginsLifecycle(w, a) \/ BeginsFilter(w, a) \/ BeginsClear(w, a)
              \/ \E i \in Instance : CreatesUser(w, a, i)
         \/ \E i \in Instance, u \in DOMAIN user : SetsPolicy(w, <<i, u>>) \/ RemovesUser(w, <<i, u>>)

-----------------------------------------------------------------------------
\* Every instance has its credential, one of Emby, unless the two were edited at once.
CredentialsKept ==
    \A i \in Instance : instance[i] # Missing =>
        LET c == instance[i].credential IN c \notin raced => credential[c] # Missing /\ credential[c].emby

\* Every user that is on a server has a binding there, is about to get one, or was left
\* behind in one of the known ways.
UsersAccounted ==
    \A u \in DOMAIN user : ~user[u].removed =>
        \/ \E a \in Account : LET b == binding[a][user[u].at] IN Live(b) /\ b.user = u
        \/ \E w \in Hand : (In(w, "equip") \/ In(w, "bind")) /\ job[w].user = u
        \/ u \in stray

\* A binding says of its user what the server does, outside the moments between the two
\* and where two changes crossed, one broke off, or the binding was adopted unseen.
BindingsAgree ==
    \A a \in Account, i \in Instance :
        LET b == binding[a][i]
            settled == <<i, b.user>> \notin unsure /\ ~\E w \in Hand : In(w, "record") /\ About(w) = <<i, b.user>>
        IN Live(b) /\ settled =>
               /\ user[b.user].at = i /\ ~user[b.user].removed
               /\ user[b.user].disabled = (b.status = "suspended")

\* Servers, credentials and bindings tell the same of the users on them, however
\* administrators, registrations, account jobs and the client filter overlap or break off.
InstancesSound == CredentialsKept /\ UsersAccounted /\ BindingsAgree

=============================================================================

------------------------------ MODULE Accounts ------------------------------
(***************************************************************************)
(* Verification codes, registration and password reset                     *)
(* (handlers/auth.handler.go), and what a registration starts in the inner *)
(* gateway: the job that makes the user's database                         *)
(* (jobs/auth.jobs.go), and what the audit at boot does to databases: it   *)
(* makes up for lost jobs, and drops the databases of nobody it knows.     *)
(*                                                                         *)
(* A request stands for the password it carries: no two carry the same.    *)
(***************************************************************************)
EXTENDS Naturals, FiniteSets

CONSTANTS
  Emails,
  Requests,     \* requests to register or to reset a password
  Values,       \* the six digits of a code: two codes may have the same
  Special,      \* SPECIAL_CODE, which registers without a code
  MaxCodes,     \* bound: how many codes are ever sent
  MaxRestarts,  \* bound: how often the inner gateway restarts
  Uids,
  UidsOf,       \* the uids GenerateUID can draw for each email
  Faults        \* the faults that may happen, a subset of FaultKinds

(* "db": a statement of the control database fails, perhaps with effect;   *)
(* "rdb": one of CockroachDB does, or the audit's list of CRs before it;   *)
(* "net": a task cannot be posted, or its answer is lost; "outer": the     *)
(* outer gateway restarts.                                                 *)
FaultKinds == {"db", "rdb", "net", "outer"}

ASSUME AccountsAssumption ==
  /\ MaxCodes \in Nat /\ MaxRestarts \in Nat
  /\ Special \notin Values
  /\ "none" \notin Uids \cup Requests \cup Emails
  /\ UidsOf \in [Emails -> SUBSET Uids]
  /\ Faults \subseteq FaultKinds

Ids == 1..MaxCodes

VARIABLES
  codes,     \* rows of verification_codes
  used,      \* ids of the rows with used = true
  expired,   \* ids of the rows whose expires_at has passed
  users,     \* the row of each email in users
  req,       \* what each request is doing
  tasks,     \* uids of the registration tasks in the queue
  made,      \* what there is for each uid of the parts of its database
  inits,     \* calls of InitUserRDB: uid and next statement
  audit,     \* the audit at boot: "due", or the uids it found without a
             \* database (before it lists those: all it knows), and orphans
  restarts,  \* how often the inner gateway restarted
  happened,  \* history: faults there have been
  halved,    \* history: uids whose initialisation a restart cut in two
  dropped    \* history: uids whose database an audit dropped

codeVars  == <<codes, used, expired>>
innerVars == <<tasks, made, inits, audit, restarts>>
history == <<halved, dropped>>
vars == <<codeVars, users, req, innerVars, happened, history>>

(* The parts of a database: itself, its user, the user's rights on it.     *)
Parts == 1..3
HasDatabase(u) == 1 \in made[u]
Half(u) == made[u] \notin {{}, Parts}

NoUser == [uid |-> "none", password |-> "none"]
NoCode == [email |-> "none", value |-> Special]
AuditOver == [stage |-> "init", missing |-> {}, orphans |-> {}]
Fresh  == [stage |-> "new", kind |-> "none", email |-> "none", id |-> 0]

Init ==
  /\ codes = [k \in Ids |-> NoCode]
  /\ used = {} /\ expired = {}
  /\ users = [e \in Emails |-> NoUser]
  /\ req = [r \in Requests |-> Fresh]
  /\ tasks = {} /\ inits = {}
  /\ made = [u \in Uids |-> {}]
  /\ audit = AuditOver                           \* that of the first boot
  /\ restarts = 0 /\ happened = {} /\ halved = {} /\ dropped = {}

(* The faults that properties look back at.                                *)
Lasting == {"db", "rdb"}

Fault(kind) == kind \in Faults /\ happened' = happened \cup ({kind} \cap Lasting)

Saved(k) == codes[k] # NoCode

-----------------------------------------------------------------------------
(***************************************************************************)
(* Codes.                                                                  *)
(***************************************************************************)

(* SendCode: the mail is sent, with digits taken from the clock, and then  *)
(* the row is inserted.  A mail that is not sent, or whose row is not      *)
(* inserted, leaves the tables as they are.                                *)
SendCode(e, v) ==
  /\ \E k \in Ids :
       /\ ~Saved(k) /\ \A j \in Ids : j < k => Saved(j)
       /\ codes' = [codes EXCEPT ![k] = [email |-> e, value |-> v]]
  /\ (UNCHANGED happened \/ Fault("db"))
  /\ UNCHANGED <<used, expired, users, req, innerVars, history>>

(* Ten minutes are over, for a code nobody used.                           *)
Expire(k) ==
  /\ Saved(k) /\ k \notin expired \cup used
  /\ expired' = expired \cup {k}
  /\ UNCHANGED <<codes, used, users, req, innerVars, happened, history>>

-----------------------------------------------------------------------------
(***************************************************************************)
(* Register and ResetPassword.  Their stages: the code is read; the        *)
(* password is hashed and the user written; the code is marked; a          *)
(* registration posts its task.  "ok", "refused" and "failed" are the      *)
(* answers 200, 400 and 500; "lost" is a request whose process ended.      *)
(***************************************************************************)
Answers == {"ok", "refused", "failed", "lost"}

Goes(r, stage) == req' = [req EXCEPT ![r].stage = stage]

\* Mutant: WHERE code = $2, whatever the email.
MatchingAnyEmail(e, v) == {k \in Ids : Saved(k) /\ codes[k].value = v /\ k \notin used}

(* The rows GetVerificationCode may return: it takes one of them.          *)
Matching(e, v) == {k \in Ids : codes[k] = [email |-> e, value |-> v] /\ k \notin used}

Start(r, kind, e, stage, id) ==
  req' = [req EXCEPT ![r] = [stage |-> stage, kind |-> kind, email |-> e, id |-> id]]

(* GetVerificationCode, then the clock, then the hash, which fails for a   *)
(* password that is too long.  A request that ends here has changed        *)
(* nothing, and its email and code are forgotten.                          *)
CheckCode(r, kind, e, v) ==
  /\ req[r].stage = "new"
  /\ \/ /\ kind = "register" /\ v = Special
        /\ Start(r, kind, e, "write", 0)
     \/ /\ v # Special \/ kind = "reset"
        /\ Matching(e, v) = {}
        /\ Start(r, kind, "none", "refused", 0)
     \/ \E k \in Matching(e, v) :
          IF k \in expired THEN Start(r, kind, "none", "refused", 0)
          ELSE Start(r, kind, "none", "failed", 0) \/ Start(r, kind, e, "write", k)
  /\ UNCHANGED <<codeVars, users, innerVars, happened, history>>

(* GenerateUID: letters of the email, and random digits.  Emails with the  *)
(* same letters draw from the same uids, so that two may draw the same.    *)
GenerateUID(e) == UidsOf[e]

\* Mutant: INSERT ... ON CONFLICT (email) DO UPDATE.
UpsertUser(r, u) ==
  LET e == req[r].email IN
  /\ req[r].stage = "write" /\ req[r].kind = "register"
  /\ u \in GenerateUID(e) /\ \A f \in Emails \ {e} : users[f].uid # u
  /\ users' = [users EXCEPT ![e] = [uid |-> u, password |-> r]]
  /\ Goes(r, IF req[r].id = 0 THEN "post" ELSE "mark")
  /\ UNCHANGED <<codeVars, innerVars, happened, history>>

(* CreateUser: the table refuses a second user of an email or of a uid,    *)
(* and every error is answered with 400.                                   *)
CreateUser(r, u) ==
  LET e == req[r].email
      new == [users EXCEPT ![e] = [uid |-> u, password |-> r]]
      free == users[e] = NoUser /\ \A f \in Emails : users[f].uid # u IN
  /\ req[r].stage = "write" /\ req[r].kind = "register"
  /\ u \in GenerateUID(e)
  /\ \/ /\ free /\ users' = new
        /\ Goes(r, IF req[r].id = 0 THEN "post" ELSE "mark")
        /\ UNCHANGED happened
     \/ /\ ~free /\ Goes(r, "refused")
        /\ UNCHANGED <<users, happened>>
     \/ /\ Fault("db") /\ Goes(r, "refused")
        /\ users' \in {users} \cup (IF free THEN {new} ELSE {})
  /\ UNCHANGED <<codeVars, innerVars, history>>

(* UpdateUserPassword: a statement that updates no row is no error.        *)
UpdateUserPassword(r) ==
  LET e == req[r].email
      new == IF users[e] = NoUser THEN users ELSE [users EXCEPT ![e].password = r] IN
  /\ req[r].stage = "write" /\ req[r].kind = "reset"
  /\ \/ users' = new /\ Goes(r, "mark") /\ UNCHANGED happened
     \/ Fault("db") /\ Goes(r, "failed") /\ users' \in {users, new}
  /\ UNCHANGED <<codeVars, innerVars, history>>

AfterMark(r) == IF req[r].kind = "register" THEN "post" ELSE "ok"

\* Mutant: a reset does not mark its code.
MarkRegistered(r) ==
  /\ req[r].stage = "mark" /\ Goes(r, AfterMark(r))
  /\ used' = IF req[r].kind = "register" THEN used \cup {req[r].id} ELSE used
  /\ UNCHANGED <<codes, expired, users, innerVars, happened, history>>

(* MarkCodeUsed, whose error is dropped.                                   *)
MarkCodeUsed(r) ==
  /\ req[r].stage = "mark" /\ Goes(r, AfterMark(r))
  /\ \/ used' = used \cup {req[r].id} /\ UNCHANGED happened
     \/ Fault("db") /\ UNCHANGED used
  /\ UNCHANGED <<codes, expired, users, innerVars, history>>

\* Mutant: the task is posted from a goroutine nobody waits for.
PostAndForget(r) ==
  /\ req[r].stage = "post" /\ Goes(r, "ok")
  /\ \/ tasks' = tasks \cup {users[req[r].email].uid} /\ UNCHANGED happened
     \/ Fault("net") /\ UNCHANGED tasks
  /\ UNCHANGED <<codeVars, users, made, inits, audit, restarts, history>>

(* SendTask: an error may come after the inner gateway took the task.      *)
SendTask(r) ==
  LET u == users[req[r].email].uid IN
  /\ req[r].stage = "post"
  /\ \/ tasks' = tasks \cup {u} /\ Goes(r, "ok") /\ UNCHANGED happened
     \/ Fault("net") /\ Goes(r, "failed") /\ tasks' \in {tasks, tasks \cup {u}}
  /\ UNCHANGED <<codeVars, users, made, inits, audit, restarts, history>>

OuterRestart ==
  /\ Fault("outer")
  /\ req' = [r \in Requests |->
       IF req[r].stage \in {"new"} \cup Answers THEN req[r] ELSE [req[r] EXCEPT !.stage = "lost"]]
  /\ UNCHANGED <<codeVars, users, innerVars, history>>

-----------------------------------------------------------------------------
(***************************************************************************)
(* The inner gateway.                                                      *)
(***************************************************************************)

(* A goroutine of the processor takes a task, and registerUserJob calls    *)
(* InitUserRDB.                                                            *)
RegisterUserJob(u) ==
  /\ u \in tasks /\ tasks' = tasks \ {u}
  /\ inits' = inits \cup {<<"job", u, 1>>}
  /\ UNCHANGED <<codeVars, users, req, made, audit, restarts, happened, history>>

\* Mutant: the GRANT is forgotten.
InitWithoutGrant(c, u, n) ==
  /\ <<c, u, n>> \in inits
  /\ made' = [made EXCEPT ![u] = @ \cup {n}]
  /\ inits' = (inits \ {<<c, u, n>>}) \cup IF n < 2 THEN {<<c, u, n + 1>>} ELSE {}
  /\ UNCHANGED happened
  /\ UNCHANGED <<codeVars, users, req, tasks, audit, restarts, history>>

(* One statement of InitUserRDB: CREATE DATABASE IF NOT EXISTS, CREATE     *)
(* USER IF NOT EXISTS, GRANT, which fails when the database is gone again. *)
(* The first error ends it, and is logged.                                 *)
InitUserRDB(c, u, n) ==
  LET works == n < 3 \/ HasDatabase(u)
      after == [made EXCEPT ![u] = @ \cup {n}] IN
  /\ <<c, u, n>> \in inits
  /\ \/ /\ works /\ made' = after
        /\ inits' = (inits \ {<<c, u, n>>}) \cup IF n < 3 THEN {<<c, u, n + 1>>} ELSE {}
        /\ UNCHANGED happened
     \/ /\ ~works /\ UNCHANGED <<made, happened>>
        /\ inits' = inits \ {<<c, u, n>>}
     \/ /\ Fault("rdb") /\ made' \in {made} \cup (IF works THEN {after} ELSE {})
        /\ inits' = inits \ {<<c, u, n>>}
  /\ UNCHANGED <<codeVars, users, req, tasks, audit, restarts, history>>

Rows == {users[e].uid : e \in Emails} \ {"none"}

(* The audit loads the users; a page that breaks off is taken for a page,  *)
(* as rows.Err is not asked.                                               *)
LoadAllUserUIDs ==
  /\ audit.stage = "due"
  /\ \/ audit' = [AuditOver EXCEPT !.stage = "list", !.missing = Rows] /\ UNCHANGED happened
     \/ /\ Fault("db")
        /\ \/ audit' = AuditOver
           \/ \E known \in SUBSET Rows :
                audit' = [AuditOver EXCEPT !.stage = "list", !.missing = known]
  /\ UNCHANGED <<codeVars, users, req, tasks, made, inits, restarts, history>>

(* It lists the databases: some users have none, some databases have no    *)
(* user among those it loaded.  A list that fails, or that is empty and    *)
(* thus a nil slice, ends this part of the audit.                          *)
ListDatabases ==
  LET listed == {u \in Uids : HasDatabase(u)} IN
  /\ audit.stage = "list"
  /\ \/ /\ audit' = [stage |-> "init",
                     missing |-> IF listed = {} THEN {} ELSE audit.missing \ listed,
                     orphans |-> listed \ audit.missing]
        /\ happened' = IF listed = {} /\ audit.missing # {} THEN happened \cup {"empty"}
                                                           ELSE happened
     \/ Fault("rdb") /\ audit' = AuditOver
  /\ UNCHANGED <<codeVars, users, req, tasks, made, inits, restarts, history>>

AuditCalls == {call \in inits : call[1] = "audit"}

(* checkUserRDBInitialization calls InitUserRDB for one user after the     *)
(* other.                                                                  *)
CheckUserRDB(u) ==
  /\ audit.stage = "init" /\ u \in audit.missing /\ AuditCalls = {}
  /\ audit' = [audit EXCEPT !.missing = @ \ {u}]
  /\ inits' = inits \cup {<<"audit", u, 1>>}
  /\ UNCHANGED <<codeVars, users, req, tasks, made, restarts, happened, history>>

(* cleanOrphanRDBs, after that: DROP DATABASE ... CASCADE, which leaves    *)
(* the database's user.  An error is logged.                               *)
DropDatabase(u) ==
  LET after == [made EXCEPT ![u] = @ \cap {2}] IN
  /\ audit.stage = "init" /\ audit.missing = {} /\ AuditCalls = {} /\ u \in audit.orphans
  /\ audit' = [audit EXCEPT !.orphans = @ \ {u}]
  /\ \/ made' = after /\ UNCHANGED happened
     \/ Fault("rdb") /\ made' \in {made, after}
  /\ dropped' = dropped \cup {u}
  /\ UNCHANGED <<codeVars, users, req, tasks, inits, restarts, halved>>

(* The queue and the goroutines end with the process; main submits an      *)
(* audit when it starts.                                                   *)
InnerRestart ==
  /\ restarts < MaxRestarts /\ restarts' = restarts + 1
  /\ tasks' = {} /\ inits' = {}
  /\ audit' = [AuditOver EXCEPT !.stage = "due"]
  /\ halved' = halved \cup {u \in Uids : Half(u)}
  /\ UNCHANGED <<codeVars, users, req, made, happened, dropped>>

Calls == {"job", "audit"} \X Uids \X Parts

Next ==
  \/ \E e \in Emails, v \in Values : SendCode(e, v)
  \/ \E k \in Ids : Expire(k)
  \/ \E r \in Requests :
       \/ \E kind \in {"register", "reset"}, e \in Emails, v \in Values \cup {Special} :
            CheckCode(r, kind, e, v)
       \/ \E u \in Uids : CreateUser(r, u)
       \/ UpdateUserPassword(r) \/ MarkCodeUsed(r) \/ SendTask(r)
  \/ \E u \in Uids : RegisterUserJob(u) \/ CheckUserRDB(u) \/ DropDatabase(u)
  \/ \E call \in Calls : InitUserRDB(call[1], call[2], call[3])
  \/ LoadAllUserUIDs \/ ListDatabases
  \/ OuterRestart \/ InnerRestart

Spec == Init /\ [][Next]_vars

(* The goroutines of the inner gateway take tasks as long as it runs, and  *)
(* their statements return.                                                *)
FairSpec ==
  /\ Spec
  /\ WF_vars(LoadAllUserUIDs) /\ WF_vars(ListDatabases)
  /\ \A u \in Uids :
       WF_vars(RegisterUserJob(u)) /\ WF_vars(CheckUserRDB(u)) /\ WF_vars(DropDatabase(u))
  /\ \A call \in Calls : WF_vars(InitUserRDB(call[1], call[2], call[3]))

-----------------------------------------------------------------------------
(***************************************************************************)
(* Properties.                                                             *)
(***************************************************************************)
Stages == {"new", "write", "mark", "post"} \cup Answers

(* Types; no two users have the same uid.                                  *)
TypeOK ==
  /\ codes \in [Ids -> {NoCode} \cup [email : Emails, value : Values]]
  /\ used \in SUBSET Ids /\ expired \in SUBSET Ids
  /\ users \in [Emails -> {NoUser} \cup [uid : Uids, password : Requests]]
  /\ \A e, f \in Emails : users[e] # NoUser /\ users[e].uid = users[f].uid => e = f
  /\ req \in [Requests -> [stage : Stages, kind : {"none", "register", "reset"},
                           email : Emails \cup {"none"}, id : 0..MaxCodes]]
  /\ tasks \in SUBSET Uids
  /\ made \in [Uids -> SUBSET Parts]
  /\ inits \in SUBSET Calls
  /\ audit \in [stage : {"due", "list", "init"}, missing : SUBSET Uids, orphans : SUBSET Uids]
  /\ restarts \in 0..MaxRestarts
  /\ happened \in SUBSET (Lasting \cup {"empty"})
  /\ halved \in SUBSET Uids /\ dropped \in SUBSET Uids

(* A password was set by a request with a code that was saved for this     *)
(* very email, or by a registration with the special code.                 *)
PasswordHasCode ==
  \A e \in Emails : users[e] # NoUser =>
    LET q == req[users[e].password] IN
    /\ q.email = e
    /\ IF q.id = 0 THEN q.kind = "register" ELSE codes[q.id].email = e

(* A code is not accepted again once a request that was accepted with it   *)
(* has marked it, however many requests hold it at the same time: only a   *)
(* statement that fails makes an exception.                                *)
CodeSpent ==
  [][\A r, q \in Requests :
       /\ req[r].stage = "new" /\ req'[r].stage = "write" /\ req'[r].id # 0
       /\ req[q].stage \in {"post", "ok"} /\ req[q].id = req'[r].id
       => "db" \in happened]_vars

(* What a registration answers is true: of all that ask for one email, at  *)
(* the same time or not, one is answered 200, there is a user then, and    *)
(* the ones refused have changed nothing unless their statement was torn.  *)
AnswersAreTrue ==
  \A r \in Requests : req[r].kind = "register" =>
    /\ req[r].stage = "ok" =>
         /\ users[req[r].email] # NoUser
         /\ \A q \in Requests :
              req[q].kind = "register" /\ req[q].stage = "ok" /\ req[q].email = req[r].email
              => q = r
    /\ req[r].stage = "refused" =>
         "db" \in happened \/ \A e \in Emails : users[e].password # r

(* A database belongs to one user, although two may draw the same uid; one *)
(* that is made by half is being made, or a statement failed, or a restart *)
(* came in between, or an audit dropped it: that of a user who registered  *)
(* after the audit had loaded the users.                                   *)
DatabasesAccounted ==
  \A u \in Uids :
    /\ made[u] # {} => \E e \in Emails : \A f \in Emails : users[f].uid = u <=> f = e
    /\ Half(u) =>
         \/ u \in halved \cup dropped \/ "rdb" \in happened
         \/ \E call \in inits : call[2] = u

(* A registration answered 200 leads to a database with all its parts,     *)
(* also when the inner gateway restarts and loses the task: the audit at   *)
(* boot makes up for it.  It does not when a statement failed, when there  *)
(* is no database at all, or when this one exists and lacks the rest; and  *)
(* it can itself take the database of a user who registers meanwhile for   *)
(* an orphan's and drop it under the job that makes it (UserAudit's        *)
(* audit_race).                                                            *)
DatabaseFollows ==
  \A r \in Requests, u \in Uids :
    (req[r].kind = "register" /\ req[r].stage = "ok" /\ users[req[r].email].uid = u)
    ~> (made[u] = Parts \/ u \in halved \cup dropped \/ happened \cap {"db", "rdb", "empty"} # {})
=============================================================================

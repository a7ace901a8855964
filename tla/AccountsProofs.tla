--------------------------- MODULE AccountsProofs ---------------------------
(***************************************************************************)
(* Theorems of Accounts, for every set of emails, requests and uids, any   *)
(* number of codes and restarts, and every set of faults.                  *)
(*                                                                         *)
(* Who has a password, and with which code, is told by the request that    *)
(* set it, which therefore must not be forgotten: Written and Accepted.    *)
(* That answers are true rests on the row a registration has found free    *)
(* (Registered), that a code is spent on the order of MarkCodeUsed and the *)
(* answer (Spent), and that databases have an owner on the users, whose    *)
(* rows no code path deletes (Databases).  A call of InitUserRDB finds     *)
(* what its earlier statements made, unless an audit dropped it.           *)
(***************************************************************************)
EXTENDS Accounts, TLAPS

UserRow == {NoUser} \cup [uid : Uids, password : Requests]
Request == [stage : Stages, kind : {"none", "register", "reset"},
            email : Emails \cup {"none"}, id : 0..MaxCodes]

(* The request whose password a user has.                                  *)
Written ==
  \A e \in Emails : users[e] # NoUser =>
    LET q == req[users[e].password] IN
    /\ q.email = e /\ q.stage \notin {"new", "write"} /\ q.kind # "none"
    /\ q.id = 0 => q.kind = "register"
    /\ q.id # 0 => codes[q.id].email = e
    /\ q.kind = "register" /\ q.stage = "refused" => "db" \in happened

(* A request whose code was accepted.                                      *)
Accepted ==
  \A r \in Requests : req[r].stage \in {"write", "mark", "post"} =>
    /\ req[r].email \in Emails /\ req[r].kind # "none"
    /\ req[r].id = 0 => req[r].kind = "register" /\ req[r].stage # "mark"
    /\ req[r].id # 0 => codes[req[r].id].email = req[r].email
    /\ req[r].stage = "post" => req[r].kind = "register"

Created(r) == req[r].kind = "register" /\ req[r].stage \in {"mark", "post", "ok"}

(* A registration that has created its user, the only one of its email.    *)
Registered ==
  \A r \in Requests : Created(r) =>
    /\ req[r].email \in Emails /\ users[req[r].email] # NoUser
    /\ \A q \in Requests : Created(q) /\ req[q].email = req[r].email => q = r

Spent ==
  \A r \in Requests : req[r].stage \in {"post", "ok"} /\ req[r].id # 0 =>
    req[r].id \in used \/ "db" \in happened

Databases ==
  /\ tasks \subseteq Rows /\ audit.missing \subseteq Rows
  /\ \A call \in inits : call[2] \in Rows
  /\ \A call \in inits : call[2] \in dropped \/ 1..(call[3] - 1) \subseteq made[call[2]]
  /\ \A u \in Uids : made[u] # {} => u \in Rows
  /\ \A u \in Uids : Half(u) =>
       u \in halved \cup dropped \/ "rdb" \in happened \/ \E call \in inits : call[2] = u

IInv == TypeOK /\ Written /\ Accepted /\ Registered /\ Spent /\ Databases

-----------------------------------------------------------------------------
LEMMA InitEstablishes == Init => IInv
  <1> SUFFICES ASSUME Init PROVE IInv
    OBVIOUS
  <1> USE AccountsAssumption DEF Init, NoUser, NoCode, Fresh
  <1>1. TypeOK
    BY DEF TypeOK, Ids, Stages, Answers, Calls, Lasting, AuditOver
  <1>2. Written /\ Accepted /\ Registered /\ Spent
    BY DEF Written, Accepted, Registered, Created, Spent
  <1>3. Databases
    BY DEF Databases, AuditOver, Half
  <1>4. QED
    BY <1>1, <1>2, <1>3 DEF IInv

-----------------------------------------------------------------------------
(***************************************************************************)
(* What the actions share.                                                 *)
(***************************************************************************)
Grows == happened \subseteq happened' /\ happened' \in SUBSET (Lasting \cup {"empty"})

LEMMA FaultGrows ==
  ASSUME TypeOK, NEW kind, Fault(kind) \/ UNCHANGED happened
  PROVE  Grows
  BY DEF TypeOK, Fault, Lasting, Grows

(* Nothing happens to users and requests.                                  *)
LEMMA RequestsKept ==
  ASSUME IInv, Grows, UNCHANGED <<codes, users, req>>, used \subseteq used'
  PROVE  Written' /\ Accepted' /\ Registered' /\ Spent'
  <1> USE DEF IInv
  <1>1. Written'
    BY DEF Written, Grows
  <1>2. Accepted'
    BY DEF Accepted
  <1>3. Registered'
    BY DEF Registered, Created
  <1>4. Spent'
    BY DEF Spent, Grows
  <1>5. QED
    BY <1>1, <1>2, <1>3, <1>4

(* Nothing happens in the inner gateway.                                   *)
LEMMA DatabasesKept ==
  ASSUME IInv, Grows, UNCHANGED <<tasks, made, inits, audit, history>>, Rows \subseteq Rows'
  PROVE  Databases'
  <1>1. Databases
    BY DEF IInv
  <1>2. \A call \in inits : call[2] \in Rows'
    BY <1>1 DEF Databases
  <1>3. \A u \in Uids : made[u] # {} => u \in Rows'
    BY <1>1 DEF Databases
  <1>4. QED
    BY <1>1, <1>2, <1>3 DEF Databases, Grows, history, Half

(* A request goes to its next stage.                                       *)
LEMMA Moved ==
  ASSUME TypeOK, NEW r \in Requests, NEW stage \in Stages, Goes(r, stage)
  PROVE  /\ req' \in [Requests -> Request]
         /\ req'[r].stage = stage /\ req'[r].kind = req[r].kind
         /\ req'[r].email = req[r].email /\ req'[r].id = req[r].id
         /\ \A q \in Requests : q # r => req'[q] = req[q]
  <1>1. req \in [Requests -> Request]
    BY DEF TypeOK, Request
  <1>2. QED
    BY <1>1 DEF Goes, Request

(* Rows of users stay: a uid that has one keeps it.                        *)
LEMMA RowsGrow ==
  ASSUME TypeOK, \A e \in Emails : users[e] # NoUser => users'[e].uid = users[e].uid
  PROVE  Rows \subseteq Rows'
  BY DEF TypeOK, Rows, NoUser

-----------------------------------------------------------------------------
(***************************************************************************)
(* Codes.                                                                  *)
(***************************************************************************)
LEMMA SendCodePreserves ==
  ASSUME IInv, NEW e \in Emails, NEW v \in Values, SendCode(e, v) PROVE IInv'
  <1> USE DEF IInv, SendCode, innerVars, history
  <1>a. Grows
    BY FaultGrows
  <1>b. PICK k \in Ids : ~Saved(k) /\ codes' = [codes EXCEPT ![k] = [email |-> e, value |-> v]]
    OBVIOUS
  <1>c. codes' \in [Ids -> {NoCode} \cup [email : Emails, value : Values]]
    BY <1>b DEF TypeOK
  <1>d. \A i \in Ids : codes[i] # NoCode => codes'[i] = codes[i]
    BY <1>b DEF TypeOK, Saved
  <1>e. \A i \in Ids : codes[i].email \in Emails => codes'[i] = codes[i]
    BY <1>d, AccountsAssumption DEF NoCode
  <1>1. TypeOK'
    BY <1>a, <1>c DEF TypeOK, Grows
  <1>2. Written'
    <2>1. \A f \in Emails : users[f] # NoUser => req[users[f].password].id \in 0..MaxCodes
      BY DEF TypeOK
    <2> QED
      BY <1>a, <1>e, <2>1 DEF Written, Grows, Ids
  <1>3. Accepted'
    BY <1>e DEF Accepted, TypeOK, Ids
  <1>4. Registered'
    BY DEF Registered, Created
  <1>5. Spent'
    BY <1>a DEF Spent, Grows
  <1>6. Databases'
    BY <1>a, DatabasesKept DEF Rows
  <1>q. QED
    BY <1>1, <1>2, <1>3, <1>4, <1>5, <1>6

LEMMA ExpirePreserves == ASSUME IInv, NEW k \in Ids, Expire(k) PROVE IInv'
  <1> USE DEF IInv, Expire, innerVars, history
  <1>a. Grows
    BY DEF Grows, TypeOK
  <1>1. TypeOK'
    BY DEF TypeOK
  <1>2. Written' /\ Accepted' /\ Registered' /\ Spent'
    BY <1>a, RequestsKept
  <1>3. Databases'
    BY <1>a, DatabasesKept DEF Rows
  <1>q. QED
    BY <1>1, <1>2, <1>3

-----------------------------------------------------------------------------
(***************************************************************************)
(* Requests.                                                               *)
(***************************************************************************)
LEMMA CheckCodePreserves ==
  ASSUME IInv, NEW r \in Requests, NEW kind \in {"register", "reset"}, NEW e \in Emails,
         NEW v \in Values \cup {Special}, CheckCode(r, kind, e, v)
  PROVE  IInv'
  <1> USE DEF IInv, CheckCode, codeVars, innerVars, history
  <1>a. Grows
    BY DEF Grows, TypeOK
  <1>b. PICK stage \in {"write", "refused", "failed"}, mail \in {e, "none"}, id \in 0..MaxCodes :
          /\ Start(r, kind, mail, stage, id)
          /\ stage = "write" => mail = e
          /\ stage # "write" => id = 0
          /\ id = 0 /\ stage = "write" => kind = "register"
          /\ id # 0 => id \in Matching(e, v)
    <2>1. CASE kind = "register" /\ v = Special /\ Start(r, kind, e, "write", 0)
      BY <2>1, AccountsAssumption
    <2>2. CASE Start(r, kind, "none", "refused", 0)
      BY <2>2, AccountsAssumption
    <2>3. ASSUME NEW k \in Matching(e, v),
                 \/ Start(r, kind, "none", "failed", 0)
                 \/ Start(r, kind, e, "write", k)
          PROVE  \E stage \in {"write", "refused", "failed"}, mail \in {e, "none"}, id \in 0..MaxCodes :
                   /\ Start(r, kind, mail, stage, id)
                   /\ stage = "write" => mail = e
                   /\ stage # "write" => id = 0
                   /\ id = 0 /\ stage = "write" => kind = "register"
                   /\ id # 0 => id \in Matching(e, v)
      <3>1. k \in 1..MaxCodes
        BY DEF Matching, Ids
      <3> QED
        BY <2>3, <3>1, AccountsAssumption
    <2>4. QED
      BY <2>1, <2>2, <2>3
  <1>c. req' = [req EXCEPT ![r] = [stage |-> stage, kind |-> kind, email |-> mail, id |-> id]]
    BY <1>b DEF Start
  <1>d. req \in [Requests -> Request]
    BY DEF TypeOK, Request
  <1>e. req' \in [Requests -> Request]
    BY <1>b, <1>c, <1>d DEF Request, Stages, Answers
  <1>f. /\ req'[r] = [stage |-> stage, kind |-> kind, email |-> mail, id |-> id]
        /\ \A q \in Requests : q # r => req'[q] = req[q]
    BY <1>c, <1>d
  <1>g. id # 0 => codes[id].email = e
    BY <1>b DEF Matching
  <1>h. \A f \in Emails : users[f] # NoUser => users[f].password \in Requests \ {r}
    BY DEF Written, TypeOK
  <1>1. TypeOK'
    BY <1>e DEF TypeOK, Request
  <1>2. Written'
    BY <1>f, <1>h DEF Written
  <1>3. Accepted'
    BY <1>b, <1>f, <1>g DEF Accepted
  <1>4. Registered'
    BY <1>b, <1>f DEF Registered, Created
  <1>5. Spent'
    BY <1>b, <1>f DEF Spent
  <1>6. Databases'
    BY <1>a, DatabasesKept DEF Rows
  <1>q. QED
    BY <1>1, <1>2, <1>3, <1>4, <1>5, <1>6

(* The row a registration or a reset writes is one of the request's own.   *)
LEMMA CreateUserPreserves ==
  ASSUME IInv, NEW r \in Requests, NEW u \in Uids, CreateUser(r, u) PROVE IInv'
  <1> USE DEF IInv, CreateUser, codeVars, innerVars, history
  <1>a. PICK e \in Emails : e = req[r].email
    BY DEF Accepted
  <1> DEFINE new == [users EXCEPT ![e] = [uid |-> u, password |-> r]]
             free == users[e] = NoUser /\ \A f \in Emails : users[f].uid # u
  <1>b. PICK stage \in {"post", "mark", "refused"} :
          /\ Goes(r, stage)
          /\ stage = "post" => req[r].id = 0
          /\ stage = "mark" => req[r].id # 0
          /\ stage # "refused" => free /\ users' = new
          /\ users' = users \/ (free /\ users' = new)
          /\ stage = "refused" => users' = users \/ "db" \in happened'
    BY <1>a DEF Fault, Lasting
  <1>c. Grows
    BY FaultGrows
  <1>d. /\ req' \in [Requests -> Request]
        /\ req'[r].stage = stage /\ req'[r].kind = req[r].kind
        /\ req'[r].email = req[r].email /\ req'[r].id = req[r].id
        /\ \A q \in Requests : q # r => req'[q] = req[q]
    BY <1>b, Moved DEF Stages, Answers
  <1>e. users \in [Emails -> UserRow]
    BY DEF TypeOK, UserRow
  <1>f. users' \in [Emails -> UserRow]
    BY <1>b, <1>e DEF UserRow
  <1>g. \A f \in Emails : f # e => users'[f] = users[f]
    BY <1>b, <1>e
  <1>h. users'[e] = users[e] \/ (free /\ users'[e] = [uid |-> u, password |-> r])
    BY <1>b, <1>e
  <1>i. \A f \in Emails : users[f] # NoUser => users'[f] = users[f]
    BY <1>g, <1>h
  <1>j. \A f \in Emails : users[f] # NoUser => users[f].password \in Requests \ {r}
    BY DEF Written, TypeOK
  <1>k. /\ req[r].stage = "write" /\ req[r].kind = "register"
        /\ req[r].id # 0 => codes[req[r].id].email = e
    BY <1>a DEF Accepted
  <1>1. TypeOK'
    <2>1. \A f, g \in Emails : users'[f] # NoUser /\ users'[f].uid = users'[g].uid => f = g
      BY <1>e, <1>g, <1>h DEF TypeOK
    <2>2. QED
      BY <1>c, <1>d, <1>f, <2>1 DEF TypeOK, Request, UserRow, Grows
  <1>2. Written'
    <2> SUFFICES ASSUME NEW f \in Emails, users'[f] # NoUser
                 PROVE  LET q == req'[users'[f].password] IN
                        /\ q.email = f /\ q.stage \notin {"new", "write"} /\ q.kind # "none"
                        /\ q.id = 0 => q.kind = "register"
                        /\ q.id # 0 => codes[q.id].email = f
                        /\ q.kind = "register" /\ q.stage = "refused" => "db" \in happened'
      BY DEF Written
    <2>1. CASE users'[f] = users[f]
      BY <2>1, <1>c, <1>d, <1>j DEF Written, Grows
    <2>2. CASE users'[f] # users[f]
      <3>1. f = e /\ users'[f].password = r /\ users' # users
        BY <2>2, <1>g, <1>h
      <3>2. stage = "refused" => "db" \in happened'
        BY <3>1, <1>b
      <3>3. QED
        BY <3>1, <3>2, <1>a, <1>b, <1>d, <1>k
    <2>3. QED
      BY <2>1, <2>2
  <1>3. Accepted'
    BY <1>b, <1>d, <1>k DEF Accepted
  <1>4. Registered'
    <2>1. \A q \in Requests : Created(q) => req[q].email \in Emails /\ users'[req[q].email] # NoUser
      BY <1>i DEF Registered
    <2>2. Created(r)' => free /\ users'[e] # NoUser
      BY <1>b, <1>d, <1>e DEF Created, NoUser
    <2>3. \A q \in Requests : Created(q) => (free => req[q].email # e)
      BY DEF Registered
    <2>4. \A q \in Requests : q # r /\ Created(q)' => Created(q) /\ req'[q].email = req[q].email
      BY <1>d DEF Created
    <2>5. QED
      BY <2>1, <2>2, <2>3, <2>4, <1>a, <1>d DEF Registered
  <1>5. Spent'
    BY <1>b, <1>c, <1>d DEF Spent, Grows
  <1>6. Databases'
    BY <1>c, <1>i, RowsGrow, DatabasesKept
  <1>q. QED
    BY <1>1, <1>2, <1>3, <1>4, <1>5, <1>6

LEMMA UpdateUserPasswordPreserves ==
  ASSUME IInv, NEW r \in Requests, UpdateUserPassword(r) PROVE IInv'
  <1> USE DEF IInv, UpdateUserPassword, codeVars, innerVars, history
  <1>a. PICK e \in Emails : e = req[r].email
    BY DEF Accepted
  <1>b. PICK stage \in {"mark", "failed"} :
          /\ Goes(r, stage)
          /\ users' = users \/ (users[e] # NoUser /\ users' = [users EXCEPT ![e].password = r])
    BY <1>a
  <1>c. Grows
    BY FaultGrows
  <1>d. /\ req' \in [Requests -> Request]
        /\ req'[r].stage = stage /\ req'[r].kind = req[r].kind
        /\ req'[r].email = req[r].email /\ req'[r].id = req[r].id
        /\ \A q \in Requests : q # r => req'[q] = req[q]
    BY <1>b, Moved DEF Stages, Answers
  <1>e. users \in [Emails -> UserRow]
    BY DEF TypeOK, UserRow
  <1>f. users[e] # NoUser => users[e] \in [uid : Uids, password : Requests]
    BY <1>e DEF UserRow
  <1>g. /\ \A f \in Emails : f # e => users'[f] = users[f]
        /\ \/ users'[e] = users[e]
           \/ users[e] # NoUser /\ users'[e] = [users[e] EXCEPT !.password = r]
    BY <1>b, <1>e
  <1>h. users[e] # NoUser /\ users'[e] = [users[e] EXCEPT !.password = r] =>
          /\ users'[e] \in [uid : Uids, password : Requests]
          /\ users'[e].uid = users[e].uid /\ users'[e].password = r
    BY <1>f
  <1>i. users' \in [Emails -> UserRow]
    BY <1>b, <1>e, <1>f DEF UserRow
  <1>j. \A f \in Emails : users[f] # NoUser => users[f].password \in Requests \ {r}
    BY DEF Written, TypeOK
  <1>k. /\ req[r].stage = "write" /\ req[r].kind = "reset" /\ req[r].id # 0
        /\ codes[req[r].id].email = e
    BY <1>a DEF Accepted
  <1>l. /\ \A f \in Emails : users'[f] # NoUser <=> users[f] # NoUser
        /\ \A f \in Emails : users[f] # NoUser => users'[f].uid = users[f].uid
        /\ \A f \in Emails : users'[f].uid = users[f].uid
    <2>1. \A w \in [uid : Uids, password : Requests] : w # NoUser
      BY AccountsAssumption DEF NoUser
    <2> QED
      BY <2>1, <1>g, <1>h
  <1>1. TypeOK'
    <2>1. \A f, g \in Emails : users'[f] # NoUser /\ users'[f].uid = users'[g].uid => f = g
      BY <1>l DEF TypeOK
    <2>2. QED
      BY <1>c, <1>d, <1>i, <2>1 DEF TypeOK, Request, UserRow, Grows
  <1>2. Written'
    <2> SUFFICES ASSUME NEW f \in Emails, users'[f] # NoUser
                 PROVE  LET q == req'[users'[f].password] IN
                        /\ q.email = f /\ q.stage \notin {"new", "write"} /\ q.kind # "none"
                        /\ q.id = 0 => q.kind = "register"
                        /\ q.id # 0 => codes[q.id].email = f
                        /\ q.kind = "register" /\ q.stage = "refused" => "db" \in happened'
      BY DEF Written
    <2>1. CASE users'[f] = users[f]
      BY <2>1, <1>c, <1>d, <1>j DEF Written, Grows
    <2>2. CASE users'[f] # users[f]
      <3>1. f = e /\ users'[f].password = r
        BY <2>2, <1>g, <1>h
      <3>2. QED
        BY <3>1, <1>a, <1>b, <1>d, <1>k
    <2>3. QED
      BY <2>1, <2>2
  <1>3. Accepted'
    BY <1>b, <1>d, <1>k DEF Accepted
  <1>4. Registered'
    <2>1. \A q \in Requests : Created(q)' => Created(q) /\ req'[q].email = req[q].email
      BY <1>d, <1>k DEF Created
    <2>2. QED
      BY <2>1, <1>l DEF Registered
  <1>5. Spent'
    BY <1>b, <1>c, <1>d DEF Spent, Grows
  <1>6. Databases'
    BY <1>c, <1>l, RowsGrow, DatabasesKept
  <1>q. QED
    BY <1>1, <1>2, <1>3, <1>4, <1>5, <1>6

LEMMA MarkCodeUsedPreserves ==
  ASSUME IInv, NEW r \in Requests, MarkCodeUsed(r) PROVE IInv'
  <1> USE DEF IInv, MarkCodeUsed, innerVars, history
  <1>a. PICK stage \in {"post", "ok"} :
          Goes(r, stage) /\ (stage = "post" <=> req[r].kind = "register")
    BY DEF AfterMark
  <1>b. Grows
    BY FaultGrows
  <1>c. /\ req' \in [Requests -> Request]
        /\ req'[r].stage = stage /\ req'[r].kind = req[r].kind
        /\ req'[r].email = req[r].email /\ req'[r].id = req[r].id
        /\ \A q \in Requests : q # r => req'[q] = req[q]
    BY <1>a, Moved DEF Stages, Answers
  <1>d. req[r].stage = "mark" /\ req[r].id \in Ids
    BY DEF Accepted, TypeOK, Ids
  <1>e. /\ used \subseteq used' /\ used' \in SUBSET Ids
        /\ req[r].id \in used' \/ "db" \in happened'
    BY <1>d DEF TypeOK, Fault, Lasting
  <1>1. TypeOK'
    BY <1>b, <1>c, <1>e DEF TypeOK, Request, Grows
  <1>2. Written'
    <2>1. \A f \in Emails : users[f] # NoUser => users[f].password \in Requests
      BY DEF TypeOK
    <2> QED
      BY <1>a, <1>b, <1>c, <2>1 DEF Written, Grows
  <1>3. Accepted'
    BY <1>a, <1>c, <1>d DEF Accepted
  <1>4. Registered'
    <2>1. \A q \in Requests : Created(q)' => Created(q) /\ req'[q].email = req[q].email
      BY <1>c, <1>d DEF Created
    <2>2. QED
      BY <2>1 DEF Registered
  <1>5. Spent'
    BY <1>b, <1>c, <1>e DEF Spent, Grows
  <1>6. Databases'
    BY <1>b, DatabasesKept DEF Rows
  <1>q. QED
    BY <1>1, <1>2, <1>3, <1>4, <1>5, <1>6

LEMMA SendTaskPreserves ==
  ASSUME IInv, NEW r \in Requests, SendTask(r) PROVE IInv'
  <1> USE DEF IInv, SendTask, codeVars, history
  <1>a. PICK stage \in {"failed", "ok"} : Goes(r, stage)
    OBVIOUS
  <1>b. Grows
    BY FaultGrows
  <1>c. /\ req' \in [Requests -> Request]
        /\ req'[r].stage = stage /\ req'[r].kind = req[r].kind
        /\ req'[r].email = req[r].email /\ req'[r].id = req[r].id
        /\ \A q \in Requests : q # r => req'[q] = req[q]
    BY <1>a, Moved DEF Stages, Answers
  <1>d. req[r].stage = "post" /\ req[r].kind = "register"
    BY DEF Accepted
  <1>e. req[r].email \in Emails /\ users[req[r].email] # NoUser
    BY <1>d DEF Registered, Created
  <1>f. users[req[r].email].uid \in Rows \cap Uids
    BY <1>e, AccountsAssumption DEF TypeOK, Rows
  <1>g. tasks' \subseteq Rows \cap Uids
    BY <1>f DEF TypeOK, Databases
  <1>1. TypeOK'
    BY <1>b, <1>c, <1>g DEF TypeOK, Request, Grows
  <1>2. Written'
    <2>1. \A f \in Emails : users[f] # NoUser => users[f].password \in Requests
      BY DEF TypeOK
    <2> QED
      BY <1>a, <1>b, <1>c, <2>1 DEF Written, Grows
  <1>3. Accepted'
    BY <1>a, <1>c, <1>d DEF Accepted
  <1>4. Registered'
    <2>1. \A q \in Requests : Created(q)' => Created(q) /\ req'[q].email = req[q].email
      BY <1>c, <1>d DEF Created
    <2>2. QED
      BY <2>1 DEF Registered
  <1>5. Spent'
    BY <1>b, <1>c, <1>d DEF Spent, Grows
  <1>6. Databases'
    BY <1>b, <1>g DEF Databases, Rows, Grows, Half
  <1>q. QED
    BY <1>1, <1>2, <1>3, <1>4, <1>5, <1>6

LEMMA OuterRestartPreserves == ASSUME IInv, OuterRestart PROVE IInv'
  <1> USE DEF IInv, OuterRestart, codeVars, innerVars, history
  <1>a. Grows
    BY FaultGrows
  <1>b. \A q \in Requests :
          /\ req'[q] \in Request
          /\ req'[q].kind = req[q].kind /\ req'[q].email = req[q].email /\ req'[q].id = req[q].id
          /\ req'[q].stage = req[q].stage \/ (req'[q].stage = "lost" /\ req[q].stage # "new")
          /\ req'[q].stage \in {"new"} \cup Answers
    <2>1. req \in [Requests -> Request]
      BY DEF TypeOK, Request
    <2> QED
      BY <2>1 DEF Request, Stages, Answers
  <1>c. req' \in [Requests -> Request]
    BY <1>b
  <1>d. \A f \in Emails : users[f] # NoUser => users[f].password \in Requests
    BY DEF TypeOK
  <1>1. TypeOK'
    BY <1>a, <1>c DEF TypeOK, Request, Grows
  <1>2. Written'
    BY <1>a, <1>b, <1>d DEF Written, Grows
  <1>3. Accepted'
    BY <1>b DEF Accepted, Answers
  <1>4. Registered'
    <2>1. \A q \in Requests : Created(q)' => Created(q) /\ req'[q].email = req[q].email
      BY <1>b DEF Created
    <2>2. QED
      BY <2>1 DEF Registered
  <1>5. Spent'
    BY <1>a, <1>b DEF Spent, Grows
  <1>6. Databases'
    BY <1>a, DatabasesKept DEF Rows
  <1>q. QED
    BY <1>1, <1>2, <1>3, <1>4, <1>5, <1>6

-----------------------------------------------------------------------------
(***************************************************************************)
(* The inner gateway.                                                      *)
(***************************************************************************)
LEMMA RegisterUserJobPreserves == ASSUME IInv, NEW u \in Uids, RegisterUserJob(u) PROVE IInv'
  <1> USE DEF IInv, RegisterUserJob, codeVars, history
  <1>a. Grows
    BY DEF Grows, TypeOK
  <1>b. inits' \in SUBSET Calls
    BY DEF TypeOK, Calls, Parts
  <1>1. TypeOK'
    BY <1>b DEF TypeOK
  <1>2. Written' /\ Accepted' /\ Registered' /\ Spent'
    BY <1>a, RequestsKept
  <1>3. Databases'
    <2>1. \A call \in inits' : call[2] \in Rows
      BY DEF Databases
    <2>2. 1..(1 - 1) = {}
      OBVIOUS
    <2>3. \A call \in inits' : call[2] \in dropped \/ 1..(call[3] - 1) \subseteq made[call[2]]
      BY <2>2 DEF Databases
    <2>4. \A call \in inits : call \in inits'
      OBVIOUS
    <2>5. QED
      BY <2>1, <2>3, <2>4 DEF Databases, Rows, Half
  <1>q. QED
    BY <1>1, <1>2, <1>3

LEMMA InitUserRDBPreserves ==
  ASSUME IInv, NEW c \in {"job", "audit"}, NEW u \in Uids, NEW n \in Parts, InitUserRDB(c, u, n)
  PROVE  IInv'
  <1> USE DEF IInv, InitUserRDB, codeVars, history
  <1>a. Grows
    BY FaultGrows
  <1>b. made \in [Uids -> SUBSET Parts]
    BY DEF TypeOK
  <1>c. /\ made' \in [Uids -> SUBSET Parts]
        /\ \A w \in Uids : w # u => made'[w] = made[w]
        /\ made'[u] \in {made[u], made[u] \cup {n}}
    BY <1>b DEF Parts
  <1>d. /\ inits' \subseteq inits \cup {<<c, u, n + 1>>}
        /\ inits' \subseteq Calls
    <2>1. n < 3 => <<c, u, n + 1>> \in Calls
      BY DEF Calls, Parts
    <2> QED
      BY <2>1 DEF TypeOK
  <1>e. u \in Rows /\ (u \in dropped \/ 1..(n - 1) \subseteq made[u])
    BY DEF Databases
  <1>f. <<c, u, n + 1>> \in inits' => <<c, u, n + 1>> \in inits \/ made'[u] = made[u] \cup {n}
    BY <1>b
  <1>g. \/ "rdb" \in happened'
        \/ n < 3 /\ <<c, u, n + 1>> \in inits'
        \/ made'[u] = Parts
        \/ u \in dropped
    <2>1. CASE Fault("rdb")
      BY <2>1 DEF Fault, Lasting
    <2>2. CASE n < 3 /\ ~Fault("rdb")
      BY <2>2
    <2>3. CASE n = 3 /\ ~Fault("rdb") /\ HasDatabase(u)
      <3>1. made'[u] = made[u] \cup {3}
        BY <2>3, <1>b
      <3>2. u \in dropped \/ (1 \in made[u] /\ 2 \in made[u])
        BY <1>e, <2>3
      <3>3. made[u] \subseteq 1..3
        BY <1>b DEF Parts
      <3>4. QED
        BY <3>1, <3>2, <3>3 DEF Parts
    <2>4. CASE n = 3 /\ ~HasDatabase(u)
      BY <2>4, <1>e DEF HasDatabase
    <2>5. QED
      BY <2>1, <2>2, <2>3, <2>4 DEF Parts
  <1>1. TypeOK'
    BY <1>a, <1>c, <1>d DEF TypeOK, Grows
  <1>2. Written' /\ Accepted' /\ Registered' /\ Spent'
    BY <1>a, RequestsKept
  <1>3. Databases'
    <2>1. \A call \in inits' : call[2] \in Rows
      BY <1>d, <1>e DEF Databases
    <2>2. \A w \in Uids : made'[w] # {} => w \in Rows
      BY <1>c, <1>e DEF Databases
    <2>3. ASSUME NEW w \in Uids, Half(w)'
          PROVE  w \in halved \cup dropped \/ "rdb" \in happened' \/ \E call \in inits' : call[2] = w
      <3>1. CASE w = u
        BY <3>1, <2>3, <1>g DEF Half
      <3>2. CASE w # u
        <4>1. \A call \in inits : call[2] = w => call \in inits'
          BY <3>2
        <4>2. Half(w)
          BY <3>2, <2>3, <1>c DEF Half
        <4>3. QED
          BY <3>2, <4>1, <4>2, <1>a DEF Databases, Grows
      <3>3. QED
        BY <3>1, <3>2
    <2>4. ASSUME NEW call \in inits'
          PROVE  call[2] \in dropped \/ 1..(call[3] - 1) \subseteq made'[call[2]]
      <3>1. \A w \in Uids : made[w] \subseteq made'[w]
        BY <1>c
      <3>2. CASE call \in inits
        <4>1. call[2] \in Uids
          BY <3>2 DEF TypeOK, Calls
        <4>2. QED
          BY <3>1, <3>2, <4>1 DEF Databases
      <3>3. CASE call \notin inits
        <4>1. call = <<c, u, n + 1>> /\ made'[u] = made[u] \cup {n} /\ n \in 1..3
          BY <3>3, <1>d, <1>f DEF Parts
        <4>2. 1..((n + 1) - 1) = 1..(n - 1) \cup {n}
          BY <4>1
        <4>3. call[2] = u /\ call[3] = n + 1
          BY <4>1
        <4>4. QED
          BY <4>1, <4>2, <4>3, <1>e
      <3>4. QED
        BY <3>2, <3>3
    <2>5. QED
      BY <2>1, <2>2, <2>3, <2>4 DEF Databases, Rows
  <1>q. QED
    BY <1>1, <1>2, <1>3

LEMMA LoadAllUserUIDsPreserves == ASSUME IInv, LoadAllUserUIDs PROVE IInv'
  <1>a. Grows
    BY FaultGrows DEF IInv, LoadAllUserUIDs
  <1>b. Rows \subseteq Uids
    BY DEF Rows, IInv, TypeOK, NoUser
  <1>c. PICK stage \in {"init", "list"}, known \in SUBSET Rows :
          audit' = [stage |-> stage, missing |-> known, orphans |-> {}]
    BY DEF LoadAllUserUIDs, AuditOver
  <1>d. UNCHANGED <<codes, used, expired, users, req, tasks, made, inits, restarts, halved, dropped>>
    BY DEF LoadAllUserUIDs, codeVars, history
  <1>1. TypeOK'
    BY <1>a, <1>b, <1>c, <1>d DEF IInv, TypeOK, Grows
  <1>2. Written' /\ Accepted' /\ Registered' /\ Spent'
    BY <1>a, <1>d, RequestsKept
  <1>3. Databases'
    BY <1>a, <1>c, <1>d DEF IInv, Databases, Rows, Grows, Half
  <1>q. QED
    BY <1>1, <1>2, <1>3 DEF IInv

LEMMA ListDatabasesPreserves == ASSUME IInv, ListDatabases PROVE IInv'
  <1> USE DEF IInv, ListDatabases, codeVars, history
  <1>a. Grows
    <2>1. CASE Fault("rdb")
      BY <2>1, FaultGrows
    <2>2. CASE happened' \in {happened, happened \cup {"empty"}}
      BY <2>2 DEF Grows, TypeOK
    <2>3. QED
      BY <2>1, <2>2
  <1>b. \E missing \in SUBSET audit.missing, orphans \in SUBSET Uids :
          audit' = [stage |-> "init", missing |-> missing, orphans |-> orphans]
    BY DEF AuditOver
  <1>c. audit.missing \subseteq Uids
    BY DEF TypeOK
  <1>1. TypeOK'
    BY <1>a, <1>b, <1>c DEF TypeOK, Grows
  <1>2. Written' /\ Accepted' /\ Registered' /\ Spent'
    BY <1>a, RequestsKept
  <1>3. Databases'
    BY <1>a, <1>b DEF Databases, Rows, Grows, Half
  <1>q. QED
    BY <1>1, <1>2, <1>3

LEMMA CheckUserRDBPreserves == ASSUME IInv, NEW u \in Uids, CheckUserRDB(u) PROVE IInv'
  <1> USE DEF IInv, CheckUserRDB, codeVars, history
  <1>a. Grows
    BY DEF Grows, TypeOK
  <1>b. inits' \in SUBSET Calls
    BY DEF TypeOK, Calls, Parts
  <1>c. /\ audit' \in [stage : {"due", "list", "init"}, missing : SUBSET Uids,
                      orphans : SUBSET Uids]
        /\ audit'.missing \subseteq audit.missing
    BY DEF TypeOK
  <1>1. TypeOK'
    BY <1>b, <1>c DEF TypeOK
  <1>2. Written' /\ Accepted' /\ Registered' /\ Spent'
    BY <1>a, RequestsKept
  <1>3. Databases'
    <2>1. \A call \in inits' : call[2] \in Rows
      BY DEF Databases
    <2>2. 1..(1 - 1) = {}
      OBVIOUS
    <2>3. \A call \in inits' : call[2] \in dropped \/ 1..(call[3] - 1) \subseteq made[call[2]]
      BY <2>2 DEF Databases
    <2>4. \A call \in inits : call \in inits'
      OBVIOUS
    <2>5. QED
      BY <2>1, <2>3, <2>4, <1>c DEF Databases, Rows, Half
  <1>q. QED
    BY <1>1, <1>2, <1>3

LEMMA DropDatabasePreserves == ASSUME IInv, NEW u \in Uids, DropDatabase(u) PROVE IInv'
  <1> USE DEF IInv, DropDatabase, codeVars
  <1>a. Grows
    BY FaultGrows
  <1>b. made \in [Uids -> SUBSET Parts]
    BY DEF TypeOK
  <1>c. /\ made' \in [Uids -> SUBSET Parts]
        /\ \A w \in Uids : w # u => made'[w] = made[w]
        /\ made'[u] \subseteq made[u]
    BY <1>b
  <1>d. /\ audit' \in [stage : {"due", "list", "init"}, missing : SUBSET Uids,
                      orphans : SUBSET Uids]
        /\ audit'.missing = audit.missing
    BY DEF TypeOK
  <1>e. dropped' = dropped \cup {u}
    OBVIOUS
  <1>1. TypeOK'
    BY <1>a, <1>c, <1>d, <1>e DEF TypeOK, Grows
  <1>2. Written' /\ Accepted' /\ Registered' /\ Spent'
    BY <1>a, RequestsKept
  <1>3. Databases'
    <2>1. \A call \in inits : call[2] \in dropped' \/ 1..(call[3] - 1) \subseteq made'[call[2]]
      <3>1. \A call \in inits : call[2] \in Uids
        BY DEF TypeOK, Calls
      <3>2. QED
        BY <3>1, <1>c, <1>e DEF Databases
    <2>2. \A w \in Uids : made'[w] # {} => w \in Rows
      BY <1>c DEF Databases
    <2>3. \A w \in Uids : Half(w)' => w = u \/ Half(w)
      BY <1>c DEF Half
    <2>4. QED
      BY <2>1, <2>2, <2>3, <1>a, <1>d, <1>e DEF Databases, Rows, Grows
  <1>q. QED
    BY <1>1, <1>2, <1>3

LEMMA InnerRestartPreserves == ASSUME IInv, InnerRestart PROVE IInv'
  <1>a. Grows
    BY DEF Grows, IInv, TypeOK, InnerRestart
  <1>b. restarts' \in 0..MaxRestarts
    BY AccountsAssumption DEF IInv, TypeOK, InnerRestart
  <1>c. halved' \in SUBSET Uids /\ halved' = halved \cup {u \in Uids : Half(u)}
    BY DEF IInv, TypeOK, InnerRestart
  <1>d. audit' = [stage |-> "due", missing |-> {}, orphans |-> {}]
    BY DEF AuditOver, InnerRestart
  <1>e. /\ UNCHANGED <<codes, used, expired, users, req, made, happened, dropped>>
        /\ tasks' = {} /\ inits' = {}
    BY DEF InnerRestart, codeVars
  <1>1. TypeOK'
    BY <1>b, <1>c, <1>d, <1>e DEF IInv, TypeOK
  <1>2. Written' /\ Accepted' /\ Registered' /\ Spent'
    BY <1>a, <1>e, RequestsKept
  <1>3. Databases'
    BY <1>c, <1>d, <1>e DEF IInv, Databases, Rows, Half
  <1>q. QED
    BY <1>1, <1>2, <1>3 DEF IInv

-----------------------------------------------------------------------------
LEMMA StepPreserves == IInv /\ [Next]_vars => IInv'
  <1> SUFFICES ASSUME IInv, [Next]_vars PROVE IInv'
    OBVIOUS
  <1>1. CASE UNCHANGED vars
    <2>a. Grows
      BY <1>1 DEF vars, Grows, IInv, TypeOK
    <2>1. TypeOK'
      BY <1>1 DEF vars, codeVars, innerVars, history, IInv, TypeOK
    <2>2. Written' /\ Accepted' /\ Registered' /\ Spent'
      BY <1>1, <2>a, RequestsKept DEF vars, codeVars
    <2>3. Databases'
      BY <1>1, <2>a, DatabasesKept DEF vars, codeVars, innerVars, Rows
    <2>4. QED
      BY <2>1, <2>2, <2>3 DEF IInv
  <1>2. ASSUME NEW call \in Calls, InitUserRDB(call[1], call[2], call[3]) PROVE IInv'
    BY <1>2, InitUserRDBPreserves DEF Calls
  <1>3. CASE Next
    BY <1>2, <1>3, SendCodePreserves, ExpirePreserves, CheckCodePreserves, CreateUserPreserves,
       UpdateUserPasswordPreserves, MarkCodeUsedPreserves, SendTaskPreserves,
       OuterRestartPreserves, RegisterUserJobPreserves, LoadAllUserUIDsPreserves,
       ListDatabasesPreserves, CheckUserRDBPreserves, DropDatabasePreserves, InnerRestartPreserves
    DEF Next
  <1>4. QED
    BY <1>1, <1>3

LEMMA Inductive == Spec => []IInv
  BY InitEstablishes, StepPreserves, PTL DEF Spec

(* Types; no two users have one uid, whatever uids are drawn.              *)
THEOREM TypeCorrect == Spec => []TypeOK
  BY Inductive, PTL DEF IInv

(* A password comes with a code of its email, or the special one.          *)
THEOREM Coded == Spec => []PasswordHasCode
  <1>1. IInv => PasswordHasCode
    BY DEF IInv, Written, PasswordHasCode
  <1>2. QED
    BY <1>1, Inductive, PTL

(* What registrations are answered is true.                                *)
THEOREM Truthful == Spec => []AnswersAreTrue
  <1> SUFFICES ASSUME IInv PROVE AnswersAreTrue
    BY Inductive, PTL
  <1>1. ASSUME NEW r \in Requests, req[r].kind = "register", req[r].stage = "ok"
        PROVE  /\ users[req[r].email] # NoUser
               /\ \A q \in Requests :
                    req[q].kind = "register" /\ req[q].stage = "ok" /\ req[q].email = req[r].email
                    => q = r
    BY <1>1 DEF IInv, Registered, Created
  <1>2. ASSUME NEW r \in Requests, req[r].kind = "register", req[r].stage = "refused",
               NEW e \in Emails, users[e].password = r
        PROVE  "db" \in happened
    <2>1. users[e] # NoUser
      BY <1>2, AccountsAssumption DEF NoUser
    <2> QED
      BY <1>2, <2>1 DEF IInv, Written
  <1>3. QED
    BY <1>1, <1>2 DEF AnswersAreTrue

(* Every database belongs to one user, and a half-made one is explained:   *)
(* by its job, a failed statement, a restart or an audit that dropped it.  *)
THEOREM Accounted == Spec => []DatabasesAccounted
  <1> SUFFICES ASSUME IInv PROVE DatabasesAccounted
    BY Inductive, PTL
  <1>1. ASSUME NEW u \in Uids, made[u] # {}
        PROVE  \E e \in Emails : \A f \in Emails : users[f].uid = u <=> f = e
    <2>1. PICK e \in Emails : users[e].uid = u
      BY <1>1 DEF IInv, Databases, Rows
    <2>2. users[e] # NoUser
      BY <2>1, AccountsAssumption DEF NoUser
    <2>3. QED
      BY <2>1, <2>2 DEF IInv, TypeOK
  <1>2. QED
    BY <1>1 DEF IInv, Databases, DatabasesAccounted

(* Only CheckCode accepts a request, and only with a code not marked.      *)
LEMMA AcceptedUnused ==
  ASSUME IInv, Next, NEW r \in Requests,
         req[r].stage = "new", req'[r].stage = "write", req'[r].id # 0
  PROVE  req'[r].id \notin used
  <1>a. req \in [Requests -> Request]
    BY DEF IInv, TypeOK, Request
  <1>1. ASSUME NEW q \in Requests, NEW kind \in {"register", "reset"}, NEW e \in Emails,
               NEW v \in Values \cup {Special}, CheckCode(q, kind, e, v)
        PROVE  req'[r].id \notin used
    <2>1. CASE q # r
      BY <1>1, <1>a, <2>1 DEF CheckCode, Start
    <2>2. CASE q = r
      <3>1. \A k \in Matching(e, v) : k \notin used
        BY DEF Matching
      <3>2. \A stage, mail, id : Start(r, kind, mail, stage, id) => req'[r].id = id
        BY <1>a DEF Start
      <3>3. QED
        BY <1>1, <2>2, <3>1, <3>2 DEF CheckCode
    <2>3. QED
      BY <2>1, <2>2
  <1>2. ASSUME NEW q \in Requests, NEW stage \in Stages \ {"write"}, Goes(q, stage) PROVE FALSE
    BY <1>2, Moved DEF IInv
  <1>3. ASSUME NEW q \in Requests, NEW u \in Uids, CreateUser(q, u) PROVE FALSE
    BY <1>2, <1>3 DEF CreateUser, Stages, Answers
  <1>4. ASSUME NEW q \in Requests, UpdateUserPassword(q) \/ MarkCodeUsed(q) \/ SendTask(q)
        PROVE  FALSE
    BY <1>2, <1>4 DEF UpdateUserPassword, MarkCodeUsed, AfterMark, SendTask, Stages, Answers
  <1>5. ~OuterRestart
    BY DEF OuterRestart
  <1>6. ~UNCHANGED req
    OBVIOUS
  <1>7. QED
    BY <1>1, <1>3, <1>4, <1>5, <1>6
    DEF Next, SendCode, Expire, RegisterUserJob, CheckUserRDB, InitUserRDB, LoadAllUserUIDs,
        ListDatabases, DropDatabase, InnerRestart

(* A code that was marked is not accepted again.                           *)
THEOREM SpentOnce == Spec => CodeSpent
  <1> DEFINE A(r, q) ==
         /\ req[r].stage = "new" /\ req'[r].stage = "write" /\ req'[r].id # 0
         /\ req[q].stage \in {"post", "ok"} /\ req[q].id = req'[r].id
         => "db" \in happened
  <1>1. ASSUME IInv, [Next]_vars PROVE [\A r, q \in Requests : A(r, q)]_vars
    <2>1. CASE UNCHANGED vars
      BY <2>1
    <2>2. CASE Next
      BY <1>1, <2>2, AcceptedUnused DEF IInv, Spent
    <2>3. QED
      BY <1>1, <2>1, <2>2
  <1>2. QED
    BY <1>1, Inductive, PTL DEF Spec, CodeSpent
=============================================================================

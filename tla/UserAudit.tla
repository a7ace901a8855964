----------------------------- MODULE UserAudit ------------------------------
(***************************************************************************)
(* The audit of users (handlers/jobs/auth.cron.go), which runs at boot     *)
(* beside registrations and deploys: it pages through the users, lists the *)
(* WorkerApp CRs and the databases, creates the databases that are missing *)
(* and deletes the CRs and databases whose owner it has not seen.          *)
(*                                                                         *)
(* A uid stands for the user, for the user's database and for the user's   *)
(* workers; the audit treats all CRs of one owner alike.                   *)
(***************************************************************************)
EXTENDS Naturals, FiniteSets

CONSTANTS
  LastUid,    \* how many uids there are
  Orphans,    \* uids whose users row was removed by hand
  PageSize,   \* userPageSize
  Faults      \* what may fail: see below

Uids == 1..LastUid   \* in the order of ORDER BY uid

(* "db": a statement; "api": a call of the Kubernetes API; "inner": the    *)
(* inner gateway restarts; "truncate": the connection breaks while the     *)
(* rows of a list are read, which ends rows.Next and shows in rows.Err.    *)
ASSUME AuditAssumption ==
  /\ LastUid \in Nat
  /\ Orphans \subseteq Uids
  /\ PageSize \in Nat \ {0}
  /\ Faults \subseteq {"db", "api", "inner", "truncate"}

VARIABLES
  users,      \* rows of users
  databases,  \* db_<uid> databases in CockroachDB
  workers,    \* owners of WorkerApp CRs
  audit,      \* what the audit does next
  offset,     \* offset of the next page
  userSet,    \* users loaded so far
  crList,     \* owners of the CRs listed
  dbList,     \* databases listed
  todo,       \* uids the current loop has still to visit
  known,      \* users there were when the audit began
  clean       \* nothing has failed in this audit

vars == <<users, databases, workers, audit, offset, userSet, crList,
          dbList, todo, known, clean>>
local == <<audit, offset, userSet, crList, dbList, todo, known, clean>>

AuditStep == {"idle", "load", "listCRs", "listDBs", "init", "dropCRs",
              "dropDBs", "done"}

Init ==
  /\ users = {}
  /\ databases = Orphans /\ workers = Orphans
  /\ audit = "idle" /\ offset = 0
  /\ userSet = {} /\ crList = {} /\ dbList = {} /\ todo = {}
  /\ known = {} /\ clean = TRUE

-----------------------------------------------------------------------------
(* The rest of the system.                                                 *)

(* GenerateUID draws digits at random; it is taken to find an unused uid.  *)
Register(u) ==
  /\ u \notin users \cup Orphans
  /\ users' = users \cup {u}
  /\ UNCHANGED <<databases, workers, local>>

(* registerUserJob or createRDBJob runs InitUserRDB, whose statement that  *)
(* counts is CREATE DATABASE IF NOT EXISTS.  The job may come late or, if  *)
(* its task is lost or it fails, never.                                    *)
InitUserRDB(u) ==
  /\ u \in users
  /\ databases' = databases \cup {u}
  /\ UNCHANGED <<users, workers, local>>

(* The user deploys a worker, or deletes the last one.                     *)
Deploy(u) ==
  /\ u \in users
  /\ workers' = workers \cup {u}
  /\ UNCHANGED <<users, databases, local>>

DeleteWorker(u) ==
  /\ u \in users
  /\ workers' = workers \ {u}
  /\ UNCHANGED <<users, databases, local>>

\* The locals of the audit when it ends without finishing.
Forget ==
  /\ audit' = "idle" /\ offset' = 0
  /\ userSet' = {} /\ crList' = {} /\ dbList' = {} /\ todo' = {}
  /\ known' = {} /\ clean' = TRUE

(* A restart ends the audit where it is; main submits a new one.           *)
InnerRestart ==
  /\ "inner" \in Faults /\ audit # "idle"
  /\ Forget
  /\ UNCHANGED <<users, databases, workers>>

-----------------------------------------------------------------------------
(* The audit.                                                              *)
system == <<users, databases, workers>>

StartAudit ==
  /\ audit \in {"idle", "done"} /\ audit' = "load"
  /\ offset' = 0 /\ userSet' = {} /\ crList' = {} /\ dbList' = {}
  /\ known' = users /\ clean' = TRUE
  /\ UNCHANGED <<system, todo>>

(* The place of a row, counted from 0, in the order of ORDER BY uid.       *)
Rank(u) == Cardinality({v \in users : v < u})

\* Mutant: the query counts rows from 1.
PageFromOne == {u \in users : offset < Rank(u) /\ Rank(u) <= offset + PageSize}

(* SELECT uid FROM users ORDER BY uid LIMIT PageSize OFFSET offset.        *)
Page == {u \in users : offset <= Rank(u) /\ Rank(u) < offset + PageSize}

(* The rows read before the connection broke.                              *)
Truncations(page) == {{v \in page : v < u} : u \in page}

(* The audit returns the error; it has changed nothing yet.                *)
GiveUp(fault) == fault \in Faults /\ Forget

(* One turn of loadAllUserUIDs: a short page ends the loop.                *)
LoadPage ==
  /\ audit = "load"
  /\ \/ \E page \in {Page} \cup IF "truncate" \in Faults THEN Truncations(Page) ELSE {} :
          /\ userSet' = userSet \cup page
          /\ IF Cardinality(page) < PageSize
             THEN audit' = "listCRs" /\ UNCHANGED offset
             ELSE offset' = offset + PageSize /\ UNCHANGED audit
          /\ clean' = (page = Page)
          /\ UNCHANGED <<crList, dbList, todo, known>>
     \/ GiveUp("db")
  /\ UNCHANGED system

ListCRs ==
  /\ audit = "listCRs"
  /\ \/ /\ audit' = "listDBs" /\ crList' = workers
        /\ UNCHANGED <<offset, userSet, dbList, todo, known, clean>>
     \/ GiveUp("api")
  /\ UNCHANGED system

(* A list that is nil (existingDBs = nil) makes the audit skip both loops   *)
(* over the databases.  That is so after an error, and also when there is  *)
(* no database at all: nothing is appended to the slice that is returned.  *)
ListDBs ==
  /\ audit = "listDBs"
  /\ \/ /\ dbList' = databases
        /\ UNCHANGED clean
     \/ /\ "truncate" \in Faults
        /\ dbList' \in SUBSET databases
        /\ clean' = FALSE
     \/ /\ "db" \in Faults
        /\ dbList' = {}
        /\ clean' = FALSE
  /\ \/ dbList' # {} /\ audit' = "init" /\ todo' = userSet \ dbList'
     \/ dbList' = {} /\ audit' = "dropCRs" /\ todo' = crList \ userSet
  /\ UNCHANGED <<system, offset, userSet, crList, known>>

Visit(u) ==
  /\ todo' = todo \ {u}
  /\ UNCHANGED <<users, audit, offset, userSet, crList, dbList, known>>

(* A failed turn of a loop is only logged.                                 *)
Failed(fault) ==
  /\ fault \in Faults /\ clean' = FALSE
  /\ UNCHANGED <<databases, workers>>

(* One turn of the loop of checkUserRDBInitialization.                     *)
InitMissing(u) ==
  /\ audit = "init" /\ u \in todo /\ Visit(u)
  /\ \/ databases' = databases \cup {u} /\ UNCHANGED <<workers, clean>>
     \/ Failed("db")

(* One turn of the loop of cleanOrphanWorkers.                             *)
DropWorkers(u) ==
  /\ audit = "dropCRs" /\ u \in todo /\ Visit(u)
  /\ \/ workers' = workers \ {u} /\ UNCHANGED <<databases, clean>>
     \/ Failed("api")

(* One turn of the loop of cleanOrphanRDBs.                                *)
DropDatabase(u) ==
  /\ audit = "dropDBs" /\ u \in todo /\ Visit(u)
  /\ \/ databases' = databases \ {u} /\ UNCHANGED <<workers, clean>>
     \/ Failed("db")

\* Mutant: the databases are cleaned only when they could not be listed.
NextLoopInverted ==
  /\ todo = {}
  /\ \/ audit = "init" /\ audit' = "dropCRs" /\ todo' = crList \ userSet
     \/ audit \in {"dropCRs", "dropDBs"} /\ audit' = "done" /\ UNCHANGED todo
  /\ UNCHANGED <<system, offset, userSet, crList, dbList, known, clean>>

(* A loop has ended and the next one begins.                               *)
NextLoop ==
  /\ todo = {}
  /\ \/ audit = "init" /\ audit' = "dropCRs" /\ todo' = crList \ userSet
     \/ audit = "dropCRs" /\ audit' = "dropDBs" /\ todo' = dbList \ userSet
     \/ audit = "dropDBs" /\ audit' = "done" /\ UNCHANGED todo
  /\ UNCHANGED <<system, offset, userSet, crList, dbList, known, clean>>

Next ==
  \/ \E u \in Uids :
       \/ Register(u) \/ InitUserRDB(u) \/ Deploy(u) \/ DeleteWorker(u)
       \/ InitMissing(u) \/ DropWorkers(u) \/ DropDatabase(u)
  \/ InnerRestart
  \/ StartAudit \/ LoadPage \/ ListCRs \/ ListDBs \/ NextLoop

Spec == Init /\ [][Next]_vars

-----------------------------------------------------------------------------
(***************************************************************************)
(* Properties.                                                             *)
(***************************************************************************)
(* Types, and the audit never holds more users than there are.             *)
TypeOK ==
  /\ users \subseteq Uids \ Orphans
  /\ databases \subseteq Uids /\ workers \subseteq Uids
  /\ audit \in AuditStep
  /\ offset \in Nat /\ offset <= Cardinality(users)
  /\ userSet \subseteq users
  /\ crList \subseteq Uids /\ dbList \subseteq Uids /\ todo \subseteq Uids
  /\ known \subseteq users /\ clean \in BOOLEAN

(* This step of the audit takes nothing from the users in S.               *)
Spares(S) ==
  \A u \in S \cap todo :
    /\ u \in databases => u \in databases'
    /\ u \in workers /\ u \notin todo' => u \in workers'

(* Users who were there when the audit began keep their databases and      *)
(* workers, although others register while it pages through the table.     *)
KnownUsersSpared == [][Spares(known)]_vars

(* "cleanOrphanRDBs" deletes the databases whose owner does not exist:     *)
(* whoever has a row keeps a database and workers.                         *)
OwnersSpared == [][Spares(users)]_vars

(* An audit in which nothing failed has repaired what it is there for:     *)
(* no orphan has anything left, and every user it found has a database,    *)
(* unless there was no database at all when it looked.                     *)
AuditRepairs ==
  audit = "done" /\ clean =>
    /\ dbList # {} => known \subseteq databases
    /\ Orphans \cap (databases \cup workers) = {}

(* "checkUserRDBInitialization" looks at every user and creates what is    *)
(* missing: without the exception.  The first user whose registration job  *)
(* failed is not repaired.                                                 *)
AuditInitializes == audit = "done" /\ clean => known \subseteq databases
=============================================================================

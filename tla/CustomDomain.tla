----------------------------- MODULE CustomDomain -----------------------------
(***************************************************************************)
(* Custom domains: the rows of custom_domains, the goroutine that waits    *)
(* for a domain's TXT record (k8s/customdomain.go), the handlers that add  *)
(* and delete a domain, and the periodic job that looks again at the       *)
(* domains once verified (jobs/customdomain.jobs.go).                      *)
(*                                                                         *)
(* An id stands for a cdid and for the token drawn with it; ids are drawn  *)
(* in order, and none twice: a cdid has 32 random bits, and the table      *)
(* refuses one that is there.                                              *)
(***************************************************************************)
EXTENDS Naturals, FiniteSets

CONSTANTS
  Domains,   \* domain names
  MaxRows,   \* bound: how many rows are ever inserted
  Attempts,  \* questions of the verification loop (12 in the program)
  Clients,   \* deletions that can be in progress at the same time
  Clusters,  \* whether the process of the handlers has Kubernetes clients:
             \* cmd/outer has none, a process that calls InitK8s has
  Faults     \* the faults that may happen, a subset of FaultKinds

(* "db": a statement fails; "dns": a question gets no answer; "api": a     *)
(* call of the Kubernetes API fails, perhaps with effect; "outer",         *)
(* "inner": a gateway restarts.                                            *)
FaultKinds == {"db", "dns", "api", "outer", "inner"}

ASSUME DomainAssumption ==
  /\ MaxRows \in Nat /\ Attempts \in Nat \ {0}
  /\ Clusters \subseteq BOOLEAN /\ Faults \subseteq FaultKinds

Ids == 1..MaxRows
RowStatus == {"none", "pending", "success", "error", "gone"}
Kinds == {"Service", "Certificate", "IngressRoute"}

VARIABLES
  cluster,    \* the handlers' process has Kubernetes clients
  lastId,     \* the last id drawn
  domain,     \* the domain of each row
  row,        \* its status; "none": not inserted, "gone": deleted
  loop,       \* the verification goroutine of each row
  objects,    \* what exists in the cluster for each row
  published,  \* ids whose token the DNS answers with
  removal,    \* what each client's DeleteCustomDomain is doing
  check,      \* the domain check: rows it still has to look at
  proven,     \* history: ids whose token a lookup found
  missed,     \* history: rows whose token a lookup did not find
  hasty,      \* history: ids deleted while their loop was running
  happened    \* history: the kinds of faults there have been

cdVars  == <<cluster, lastId, domain, row, loop, objects, published>>
history == <<proven, missed, hasty, happened>>
vars == <<cdVars, removal, check, history>>

NoLoop    == [stage |-> "none", tries |-> 0]
NoRemoval == [stage |-> "idle", id |-> 0]
NoCheck   == [stage |-> "idle", id |-> 0, todo |-> {}]

Init ==
  /\ cluster \in Clusters
  /\ lastId = 0
  /\ domain = [i \in Ids |-> "none"] /\ row = [i \in Ids |-> "none"]
  /\ loop = [i \in Ids |-> NoLoop]
  /\ objects = [i \in Ids |-> {}]
  /\ published = {}
  /\ removal = [c \in Clients |-> NoRemoval]
  /\ check = NoCheck
  /\ proven = {} /\ missed = {} /\ hasty = {} /\ happened = {}

HasRow(i) == row[i] \in {"pending", "success", "error"}

(* The faults that properties look back at; the others pass without a      *)
(* trace.                                                                  *)
Lasting == {"db", "api", "outer"}

Fault(kind) == kind \in Faults /\ happened' = happened \cup ({kind} \cap Lasting)

(* UpdateCustomDomainStatus: no row, no effect; errors are not looked at.  *)
SetStatus(i, status) ==
  \/ /\ row' = IF HasRow(i) THEN [row EXCEPT ![i] = status] ELSE row
     /\ UNCHANGED happened
  \/ Fault("db") /\ UNCHANGED row

-----------------------------------------------------------------------------
(***************************************************************************)
(* Adding a domain, and the loop that verifies it.                         *)
(***************************************************************************)

(* AddCustomDomain inserts the row, which the table refuses if the domain  *)
(* has one, and starts the goroutine.                                      *)
AddCustomDomain(d) ==
  /\ lastId < MaxRows
  /\ \A i \in Ids : HasRow(i) => domain[i] # d
  /\ lastId' = lastId + 1
  /\ domain' = [domain EXCEPT ![lastId + 1] = d]
  /\ row' = [row EXCEPT ![lastId + 1] = "pending"]
  /\ loop' = [loop EXCEPT ![lastId + 1] = [stage |-> "asking", tries |-> 0]]
  /\ UNCHANGED <<cluster, objects, published, removal, check, history>>

(* The owner of the DNS zone adds or removes the TXT record.               *)
ChangeTXT(i) ==
  /\ i <= lastId
  /\ published' = IF i \in published THEN published \ {i} ELSE published \cup {i}
  /\ UNCHANGED <<cluster, lastId, domain, row, loop, objects, removal, check, history>>

(* net.LookupTXT: the record is seen, or it is not there, or there is no   *)
(* answer.                                                                 *)
Lookup(i, seen) ==
  /\ proven' = IF seen THEN proven \cup {i} ELSE proven
  /\ missed' = IF seen \/ ~HasRow(i) THEN missed ELSE missed \cup {i}
  /\ UNCHANGED hasty
  /\ \/ (seen <=> i \in published) /\ UNCHANGED happened
     \/ ~seen /\ i \in published /\ Fault("dns")

Step(i, stage) ==
  loop' = [loop EXCEPT ![i] = IF stage = "none" THEN NoLoop ELSE [@ EXCEPT !.stage = stage]]

\* Mutant: the attempts are not counted.
AskForever(i) ==
  /\ loop[i].stage = "asking"
  /\ \E seen \in BOOLEAN : Lookup(i, seen) /\ Step(i, IF seen THEN "found" ELSE "asking")
  /\ UNCHANGED <<cluster, lastId, domain, row, objects, published, removal, check>>

(* One turn of StartVerification: it sleeps, then asks.                    *)
VerifyTXT(i) ==
  /\ loop[i].stage = "asking"
  /\ \E seen \in BOOLEAN :
       /\ Lookup(i, seen)
       /\ loop' = [loop EXCEPT ![i] =
            IF seen THEN [stage |-> "found", tries |-> 0]
            ELSE [tries |-> @.tries + 1,
                  stage |-> IF @.tries + 1 < Attempts THEN "asking" ELSE "missed"]]
  /\ UNCHANGED <<cluster, lastId, domain, row, objects, published, removal, check>>

\* Mutant: the row is found by its domain instead of its cdid.
SucceedByDomain(i) ==
  /\ loop[i].stage = "found"
  /\ row' = [j \in Ids |-> IF HasRow(j) /\ domain[j] = domain[i] THEN "success" ELSE row[j]]
  /\ Step(i, IF cluster THEN "Service" ELSE "none")
  /\ UNCHANGED <<cluster, lastId, domain, objects, published, removal, check, history>>

\* Mutant: the loop does not return after the record was found.
SucceedAndGoOn(i) ==
  /\ loop[i].stage = "found"
  /\ SetStatus(i, "success")
  /\ loop' = [loop EXCEPT ![i] =
       [tries |-> @.tries + 1,
        stage |-> IF @.tries + 1 < Attempts THEN "asking" ELSE "missed"]]
  /\ UNCHANGED <<cluster, lastId, domain, objects, published, removal, check,
                 proven, missed, hasty>>

(* The record was found: the row says so, and CreateIngressRoute follows.  *)
Succeed(i) ==
  /\ loop[i].stage = "found"
  /\ SetStatus(i, "success")
  /\ Step(i, IF cluster THEN "Service" ELSE "none")
  /\ UNCHANGED <<cluster, lastId, domain, objects, published, removal, check,
                 proven, missed, hasty>>

(* No attempt is left.                                                     *)
GiveUp(i) ==
  /\ loop[i].stage = "missed"
  /\ SetStatus(i, "error")
  /\ Step(i, "none")
  /\ UNCHANGED <<cluster, lastId, domain, objects, published, removal, check,
                 proven, missed, hasty>>

NextCreate == [Service |-> "Certificate", Certificate |-> "IngressRoute",
               IngressRoute |-> "none"]

\* Mutant: CreateIngressRoute logs an error and goes on with the next object.
CreateObjectIgnoring(i) ==
  LET k == loop[i].stage IN
  /\ k \in Kinds
  /\ \/ objects' = [objects EXCEPT ![i] = @ \cup {k}] /\ UNCHANGED happened
     \/ UNCHANGED objects /\ Fault("api")
  /\ Step(i, NextCreate[k])
  /\ UNCHANGED <<cluster, lastId, domain, row, published, removal, check, proven, missed, hasty>>

(* CreateIngressRoute: the three objects in turn; an error, which nobody   *)
(* looks at, ends it.                                                      *)
CreateObject(i) ==
  LET k == loop[i].stage IN
  /\ k \in Kinds
  /\ \/ /\ objects' = [objects EXCEPT ![i] = @ \cup {k}]
        /\ Step(i, NextCreate[k])
        /\ UNCHANGED happened
     \/ /\ Fault("api")
        /\ objects' \in {objects, [objects EXCEPT ![i] = @ \cup {k}]}
        /\ Step(i, "none")
  /\ UNCHANGED <<cluster, lastId, domain, row, published, removal, check, proven, missed, hasty>>

LoopNext(i) == VerifyTXT(i) \/ Succeed(i) \/ GiveUp(i) \/ CreateObject(i)

-----------------------------------------------------------------------------
(***************************************************************************)
(* DeleteCustomDomain.  Deleting a row that is not there is no error, so   *)
(* the objects are deleted also when the row was gone before.              *)
(***************************************************************************)
DeleteRow(c, i) ==
  /\ removal[c].stage = "idle" /\ i <= lastId
  /\ \/ /\ row' = [row EXCEPT ![i] = "gone"]
        /\ removal' = [removal EXCEPT ![c] =
             IF cluster THEN [stage |-> "Service", id |-> i] ELSE NoRemoval]
        /\ hasty' = IF loop[i].stage = "none" THEN hasty ELSE hasty \cup {i}
        /\ missed' = missed \ {i}
        /\ UNCHANGED happened
     \/ Fault("db") /\ UNCHANGED <<row, removal, hasty, missed>>
  /\ UNCHANGED <<cluster, lastId, domain, loop, objects, published, check, proven>>

NextDelete == [Service |-> "IngressRoute", IngressRoute |-> "Certificate",
               Certificate |-> "idle"]

\* Mutant: the Certificate is forgotten.
DeleteObjectButCertificate(c) ==
  LET k == removal[c].stage IN
  /\ k \in Kinds
  /\ \/ objects' = [objects EXCEPT ![removal[c].id] = @ \ {k}] /\ UNCHANGED happened
     \/ Fault("api") /\ UNCHANGED objects
  /\ removal' = [removal EXCEPT ![c] =
       IF k = "IngressRoute" THEN NoRemoval ELSE [@ EXCEPT !.stage = NextDelete[k]]]
  /\ UNCHANGED <<cluster, lastId, domain, row, loop, published, check, proven, missed, hasty>>

(* Errors are ignored.                                                     *)
DeleteObject(c) ==
  LET k == removal[c].stage IN
  /\ k \in Kinds
  /\ \/ objects' = [objects EXCEPT ![removal[c].id] = @ \ {k}] /\ UNCHANGED happened
     \/ Fault("api") /\ UNCHANGED objects
  /\ removal' = [removal EXCEPT ![c] =
       IF k = "Certificate" THEN NoRemoval ELSE [@ EXCEPT !.stage = NextDelete[k]]]
  /\ UNCHANGED <<cluster, lastId, domain, row, loop, published, check, proven, missed, hasty>>

-----------------------------------------------------------------------------
(***************************************************************************)
(* domainCheckJob, which the inner gateway runs when the task is posted to *)
(* it: the scheduler, which is to post it, has no ticker for it.           *)
(***************************************************************************)
ListAllSuccessDomains ==
  /\ check.stage = "idle"
  /\ \E i \in Ids : row[i] = "success"
  /\ check' = [stage |-> "asking", id |-> 0, todo |-> {i \in Ids : row[i] = "success"}]
  /\ UNCHANGED <<cdVars, removal, history>>

Visited(i) ==
  IF check.todo \subseteq {i} THEN NoCheck
                              ELSE [stage |-> "asking", id |-> 0, todo |-> check.todo \ {i}]

(* A question without an answer counts as a missing record.                *)
CheckTXT(i) ==
  /\ check.stage = "asking" /\ i \in check.todo
  /\ \E seen \in BOOLEAN :
       /\ Lookup(i, seen)
       /\ check' = IF seen THEN Visited(i) ELSE [check EXCEPT !.stage = "failed", !.id = i]
  /\ UNCHANGED <<cdVars, removal>>

MarkError ==
  /\ check.stage = "failed"
  /\ SetStatus(check.id, "error")
  /\ check' = Visited(check.id)
  /\ UNCHANGED <<cluster, lastId, domain, loop, objects, published, removal,
                 proven, missed, hasty>>

-----------------------------------------------------------------------------
(* Goroutines and requests end with their process, and nothing at start-up *)
(* looks for rows that are pending.                                        *)
OuterRestart ==
  /\ Fault("outer")
  /\ loop' = [i \in Ids |-> NoLoop]
  /\ removal' = [c \in Clients |-> NoRemoval]
  /\ UNCHANGED <<cluster, lastId, domain, row, objects, published, check, proven, missed, hasty>>

InnerRestart ==
  /\ Fault("inner")
  /\ check' = NoCheck
  /\ UNCHANGED <<cdVars, removal, proven, missed, hasty>>

Next ==
  \/ \E d \in Domains : AddCustomDomain(d)
  \/ \E i \in Ids : ChangeTXT(i) \/ LoopNext(i) \/ CheckTXT(i)
  \/ \E c \in Clients : DeleteObject(c) \/ \E i \in Ids : DeleteRow(c, i)
  \/ ListAllSuccessDomains \/ MarkError
  \/ OuterRestart \/ InnerRestart

Spec == Init /\ [][Next]_vars

(* A goroutine that sleeps wakes up, and a lookup, a statement or a call   *)
(* returns.                                                                *)
FairSpec == Spec /\ \A i \in Ids : WF_vars(LoopNext(i))

-----------------------------------------------------------------------------
(***************************************************************************)
(* Properties.                                                             *)
(***************************************************************************)

(* Types, and the table has one row of a domain at most.                   *)
TypeOK ==
  /\ cluster \in BOOLEAN
  /\ lastId \in 0..MaxRows
  /\ domain \in [Ids -> Domains \cup {"none"}]
  /\ row \in [Ids -> RowStatus]
  /\ \A i \in Ids : row[i] = "none" <=> i > lastId
  /\ \A i, j \in Ids : HasRow(i) /\ HasRow(j) /\ domain[i] = domain[j] => i = j
  /\ loop \in [Ids -> [stage : {"none", "asking", "found", "missed"} \cup Kinds,
                       tries : 0..Attempts]]
  /\ objects \in [Ids -> SUBSET Kinds]
  /\ published \in SUBSET Ids
  /\ removal \in [Clients -> [stage : {"idle"} \cup Kinds, id : 0..MaxRows]]
  /\ \A c \in Clients : removal[c].stage # "idle" => removal[c].id \in Ids
  /\ check \in [stage : {"idle", "asking", "failed"}, id : 0..MaxRows, todo : SUBSET Ids]
  /\ check.stage = "failed" => check.id \in Ids
  /\ {proven, missed, hasty} \subseteq SUBSET Ids
  /\ happened \in SUBSET Lasting

(* A verified domain has shown the token of its own row, also when an      *)
(* earlier row of the domain was deleted while its loop was asking and the *)
(* answer arrives after the domain was added again; and what the cluster   *)
(* serves belongs to such a row.                                           *)
VerifiedWasProven ==
  \A i \in Ids : row[i] = "success" \/ objects[i] # {} => i \in proven

(* A verdict stands: a verified domain becomes an error only through the   *)
(* domain check, which asked in vain, and an error or a deletion is final, *)
(* whatever loops, checks and deletions are doing at the same time.        *)
VerdictStands ==
  [][\A i \in Ids :
       /\ row[i] = "success" /\ row'[i] = "error" =>
            check.stage = "failed" /\ check.id = i /\ i \in missed
       /\ row[i] = "success" => row'[i] # "pending"
       /\ row[i] = "error" => row'[i] \in {"error", "gone"}
       /\ row[i] = "gone" => row'[i] = "gone"]_vars

(* An error has a reason: some question was not answered with the token.   *)
ErrorWasMissed == \A i \in Ids : row[i] = "error" => i \in missed

(* A domain that is routed, and that nobody deleted, has the Service and   *)
(* the Certificate the route names, even when calls fail.                  *)
RouteIsComplete ==
  \A i \in Ids :
    HasRow(i) /\ "IngressRoute" \in objects[i] => objects[i] = Kinds

(* A deletion leaves nothing in the cluster, unless it came while the loop *)
(* of the row was running, or calls failed, or the process ended.          *)
DeletedLeavesNothing ==
  \A i \in Ids :
    /\ row[i] = "gone" /\ i \notin hasty /\ happened \cap {"api", "outer"} = {}
    /\ \A c \in Clients : removal[c].id # i
    => objects[i] = {}

(* Every domain is decided, unless the process of its loop ended or the    *)
(* verdict could not be written.                                           *)
PendingResolves ==
  \A i \in Ids :
    row[i] = "pending" ~> (row[i] # "pending" \/ happened \cap {"db", "outer"} # {})
=============================================================================

------------------------- MODULE WorkerConfigProofs -------------------------
(***************************************************************************)
(* Theorems of WorkerConfig, for every set of requests and keys, any       *)
(* number of deploys, and every set of faults.                             *)
(*                                                                         *)
(* As long as the changes of a part do not cross, one request at most is   *)
(* on its way with it (Single): what it has read is still what the row     *)
(* says (Merged), and nobody moves the object between its Get and its      *)
(* Update (Synced).                                                        *)
(***************************************************************************)
EXTENDS WorkerConfig, TLAPS

(* A request and the job of its task.                                      *)
Steps ==
  \A r \in Requests :
    /\ req[r].stage = "new" => job[r].stage = "none"
    /\ req[r].stage \in {"write", "post"} <=> job[r].stage = "unposted"
    /\ req[r].stage = "write" => req[r].key \in Keys
    /\ job[r].stage = "update" => job[r].version # 0

Changes(r, p) == Busy(r) /\ Part(r) = p

Single ==
  \A p \in Parts \ crossed : \A r, q \in Requests : Changes(r, p) /\ Changes(q, p) => r = q

Merged ==
  \A p \in Parts \ crossed : \A r \in Requests : Changes(r, p) /\ req[r].stage = "write" =>
    \A k \in Keys : k # req[r].key => req[r].data[k] = row[p][k]

Objects == \A p \in Parts : object[p].version = 0 => object[p].data = Nothing

(* What a part has in the cluster, or is about to get, follows its row.    *)
Follows(p, data, map) ==
  /\ p = "env" => data = map
  /\ p = "secret" => \A k \in Keys : data[k] \in Requests => map[k] = "listed"

(* The row is not written yet, or the object is.                           *)
Level(r) == req[r].stage = "write" \/ job[r].stage = "active"

Synced ==
  happened = {} => \A p \in Parts \ (crossed \cup early) :
    /\ (\A r \in Requests : Changes(r, p) => Level(r)) => Follows(p, object[p].data, row[p])
    /\ \A r \in Requests : Changes(r, p) =>
         /\ req[r].stage = "write" => Follows(p, job[r].data, req[r].data)
         /\ ~Level(r) => Follows(p, job[r].data, row[p])
         /\ job[r].stage # "error"
         /\ job[r].stage = "update" => job[r].version = object[p].version

(* What only a deploy brings about.                                        *)
Deployed ==
  ~cr =>
    /\ status # "active" /\ deploy # "written" /\ control = "idle"
    /\ \A p \in Parts : object[p].version = 0
    /\ \A r \in Requests : job[r].stage \in {"none", "unposted", "queued"}

IInv == TypeOK /\ Steps /\ Single /\ Merged /\ Objects /\ RowKept /\ Synced /\ Deployed

-----------------------------------------------------------------------------
LEMMA NothingIsMap == Nothing \in Maps /\ \A k \in Keys : Nothing[k] \notin Requests
  BY ConfigAssumption DEF Nothing, Maps, Values

LEMMA InitEstablishes == Init => IInv
  <1> SUFFICES ASSUME Init PROVE IInv
    OBVIOUS
  <1> USE ConfigAssumption, NothingIsMap DEF Init, Parts
  <1>1. TypeOK
    <2>1. /\ row \in [Parts -> Maps] /\ wanted \in [Parts -> Maps]
          /\ pods \in [template : 0..(1 + second), data : [Parts -> Maps]]
      OBVIOUS
    <2>2. req \in [Requests -> [stage : {"new", "write", "post", "done"},
                                key : Keys \cup {"none"}, data : Maps]]
      BY DEF Fresh
    <2>3. job \in [Requests -> [stage : {"none", "unposted", "queued", "update", "active", "error"},
                                part : Parts, data : Maps, version : Nat]]
      BY DEF NoJob
    <2>4. object \in [Parts -> [data : Maps, version : Nat]]
      BY DEF NoObject
    <2>5. deploys \in 0..MaxDeploys /\ template \in 0..(1 + second)
      OBVIOUS
    <2>6. {crossed, early} \subseteq SUBSET Parts /\ happened \in SUBSET FaultKinds
      OBVIOUS
    <2>7. QED
      BY <2>1, <2>2, <2>3, <2>4, <2>5, <2>6 DEF TypeOK
  <1>2. Steps /\ Single /\ Merged
    BY DEF Steps, Single, Merged, Changes, Busy, Fresh, NoJob
  <1>3. Objects /\ Deployed
    BY DEF Objects, NoObject, Deployed, NoJob
  <1>4. RowKept
    BY DEF RowKept
  <1>5. Synced
    BY DEF Synced, Changes, Busy, NoJob, NoObject, Follows
  <1>6. QED
    BY <1>1, <1>2, <1>3, <1>4, <1>5 DEF IInv

-----------------------------------------------------------------------------
(***************************************************************************)
(* What the actions share.                                                 *)
(***************************************************************************)
Grows ==
  /\ happened \subseteq happened' /\ happened' \in SUBSET FaultKinds
  /\ happened' = {} => happened = {}

LEMMA FaultGrows ==
  ASSUME TypeOK, NEW kind, Fault(kind) \/ UNCHANGED happened
  PROVE  Grows /\ (Fault(kind) => happened' # {})
  BY ConfigAssumption DEF TypeOK, Fault, FaultKinds, Grows

(* Nothing happens to the configuration.                                   *)
LEMMA ConfigKept ==
  ASSUME IInv, Grows, UNCHANGED <<row, req, job, object, wanted, crossed>>, early \subseteq early'
  PROVE  Steps' /\ Single' /\ Merged' /\ Objects' /\ RowKept' /\ Synced'
  <1> USE DEF IInv, Changes, Busy, Part
  <1>1. Steps' /\ Single' /\ Merged' /\ Objects' /\ RowKept'
    BY DEF Steps, Single, Merged, Objects, RowKept
  <1>2. Synced'
    BY DEF Synced, Grows, Level, Follows
  <1>3. QED
    BY <1>1, <1>2

JobType == [stage : {"none", "unposted", "queued", "update", "active", "error"},
            part : Parts, data : Maps, version : Nat]
RequestType == [stage : {"new", "write", "post", "done"}, key : Keys \cup {"none"}, data : Maps]

LEMMA Typed ==
  ASSUME TypeOK
  PROVE  /\ job \in [Requests -> JobType] /\ req \in [Requests -> RequestType]
         /\ row \in [Parts -> Maps] /\ wanted \in [Parts -> Maps]
         /\ object \in [Parts -> [data : Maps, version : Nat]]
         /\ \A r \in Requests : Part(r) \in Parts
  BY DEF TypeOK, JobType, RequestType, Part

-----------------------------------------------------------------------------
(***************************************************************************)
(* The requests.                                                           *)
(***************************************************************************)

(* What a request is about to write and to post fits together.             *)
LEMMA NewRowTyped ==
  ASSUME TypeOK, NEW r \in Requests, NEW ask \in Asks
  PROVE  /\ ask.part \in Parts /\ ask.key \in Keys
         /\ NewRow(r, ask) \in Maps /\ TaskData(r, ask) \in Maps
         /\ \A k \in Keys : k # ask.key => NewRow(r, ask)[k] = row[ask.part][k]
         /\ Follows(ask.part, TaskData(r, ask), NewRow(r, ask))
  <1>1. ask \in AllAsks
    BY ConfigAssumption
  <1>2. ask.part \in Parts /\ ask.key \in Keys /\ ask.delete \in BOOLEAN
    BY <1>1 DEF AllAsks
  <1>3. row[ask.part] \in Maps
    BY <1>2, Typed
  <1>4. /\ NewRow(r, ask) \in Maps
        /\ \A k \in Keys : k # ask.key => NewRow(r, ask)[k] = row[ask.part][k]
    BY <1>2, <1>3 DEF NewRow, Maps, Values
  <1>5. TaskData(r, ask) \in Maps
    BY <1>2, <1>4, NothingIsMap DEF TaskData, Maps, Values
  <1>6. ASSUME ask.part = "secret", NEW k \in Keys, TaskData(r, ask)[k] \in Requests
        PROVE  NewRow(r, ask)[k] = "listed"
    <2>1. TaskData(r, ask) = [Nothing EXCEPT ![ask.key] = IF ask.delete THEN "empty" ELSE r]
      BY <1>6 DEF TaskData
    <2>2. Nothing \in [Keys -> Values]
      BY NothingIsMap DEF Maps
    <2>3. k = ask.key /\ ~ask.delete
      BY <1>2, <1>6, <2>1, <2>2, NothingIsMap, ConfigAssumption
    <2>4. QED
      BY <1>3, <1>6, <2>3 DEF NewRow, Maps
  <1>7. ask.part = "env" => TaskData(r, ask) = NewRow(r, ask)
    BY DEF TaskData
  <1>8. QED
    BY <1>2, <1>4, <1>5, <1>6, <1>7 DEF Follows

LEMMA ReadRowPreserves ==
  ASSUME IInv, NEW r \in Requests, NEW ask \in Asks, ReadRow(r, ask) PROVE IInv'
  <1> USE DEF IInv, ReadRow, Changes, Busy, Part, clusterVars, deployVars, controlVars
  <1>a. PICK p \in Parts : p = ask.part
    BY NewRowTyped
  <1>b. /\ req' \in [Requests -> RequestType] /\ job' \in [Requests -> JobType]
        /\ req'[r] = [stage |-> "write", key |-> ask.key, data |-> NewRow(r, ask)]
        /\ job'[r] = [stage |-> "unposted", part |-> p, data |-> TaskData(r, ask), version |-> 0]
        /\ \A q \in Requests : q # r => req'[q] = req[q] /\ job'[q] = job[q]
    <2>1. [stage |-> "write", key |-> ask.key, data |-> NewRow(r, ask)] \in RequestType
      BY NewRowTyped DEF RequestType
    <2>2. [stage |-> "unposted", part |-> p, data |-> TaskData(r, ask), version |-> 0] \in JobType
      BY NewRowTyped DEF JobType
    <2>3. QED
      BY <1>a, <2>1, <2>2, Typed
  <1>c. /\ crossed \subseteq crossed' /\ crossed' \in SUBSET Parts
        /\ p \notin crossed' => \A q \in Requests : Busy(q) => Part(q) # p
    BY <1>a DEF TypeOK
  <1>d. job[r].stage = "none"
    BY DEF Steps
  <1>1. TypeOK'
    BY <1>b, <1>c DEF TypeOK, RequestType, JobType
  <1>2. Steps'
    BY <1>b, NewRowTyped DEF Steps
  <1>3. Single'
    BY <1>b, <1>c DEF Single
  <1>4. Merged'
    <2>1. \A k \in Keys : k # ask.key => NewRow(r, ask)[k] = row[p][k]
      BY <1>a, NewRowTyped
    <2>2. QED
      BY <1>b, <1>c, <2>1 DEF Merged
  <1>5. Objects'
    BY DEF Objects
  <1>6. RowKept'
    BY <1>c DEF RowKept
  <1>7. Synced'
    <2> SUFFICES ASSUME happened = {}, NEW o \in Parts \ (crossed' \cup early')
                 PROVE  /\ (\A q \in Requests : Changes(q, o)' => Level(q)') => Follows(o, object[o].data, row[o])
                        /\ \A q \in Requests : Changes(q, o)' =>
                             /\ req'[q].stage = "write" => Follows(o, job'[q].data, req'[q].data)
                             /\ ~Level(q)' => Follows(o, job'[q].data, row[o])
                             /\ job'[q].stage # "error"
                             /\ job'[q].stage = "update" => job'[q].version = object[o].version
      BY DEF Synced, Follows
    <2>1. \A q \in Requests : Changes(q, o) => Changes(q, o)' /\ (Level(q)' <=> Level(q)) /\ q # r
      BY <1>b, <1>d DEF Level
    <2>2. (\A q \in Requests : Changes(q, o) => Level(q)) => Follows(o, object[o].data, row[o])
      BY <1>c DEF Synced
    <2>3. Follows(p, TaskData(r, ask), NewRow(r, ask))
      BY <1>a, NewRowTyped
    <2>4. ASSUME NEW q \in Requests, q # r, Changes(q, o)'
          PROVE  /\ req'[q].stage = "write" => Follows(o, job'[q].data, req'[q].data)
                 /\ ~Level(q)' => Follows(o, job'[q].data, row[o])
                 /\ job'[q].stage # "error"
                 /\ job'[q].stage = "update" => job'[q].version = object[o].version
      BY <1>b, <1>c, <2>4 DEF Synced, Level
    <2>5. QED
      BY <1>b, <2>1, <2>2, <2>3, <2>4 DEF Level
  <1>8. Deployed'
    BY <1>b DEF Deployed
  <1>q. QED
    BY <1>1, <1>2, <1>3, <1>4, <1>5, <1>6, <1>7, <1>8

(* What a request has read is still what the row says but for its key: so  *)
(* its write changes no other.                                             *)
LEMMA WriteRowPreserves ==
  ASSUME IInv, NEW r \in Requests, WriteRow(r) PROVE IInv'
  <1> USE DEF IInv, WriteRow, Changes, Busy, Part, clusterVars, deployVars, controlVars
  <1>a. PICK p \in Parts, k \in Keys : p = Part(r) /\ k = req[r].key
    BY Typed DEF Steps
  <1>b. Grows /\ (UNCHANGED happened \/ happened' # {})
    BY FaultGrows
  <1>c. /\ req' \in [Requests -> RequestType]
        /\ req'[r].stage \in {"post", "done"}
        /\ \A q \in Requests : q # r => req'[q] = req[q]
    BY Typed, NothingIsMap DEF RequestType, Done
  <1>d. /\ job' \in [Requests -> JobType]
        /\ \/ req'[r].stage = "post" /\ UNCHANGED job /\ UNCHANGED happened
           \/ req'[r].stage = "done" /\ job'[r] = NoJob /\ happened' # {}
        /\ \A q \in Requests : q # r => job'[q] = job[q]
    <2>1. NoJob \in JobType
      BY NothingIsMap DEF JobType, NoJob, Parts
    <2>2. CASE UNCHANGED <<job, happened>> /\ req' = [req EXCEPT ![r] = [Done EXCEPT !.stage = "post"]]
      <3>1. req \in [Requests -> RequestType] /\ [Done EXCEPT !.stage = "post"].stage = "post"
        BY Typed DEF Done
      <3>2. req'[r].stage = "post"
        BY <2>2, <3>1
      <3>3. job \in [Requests -> JobType] /\ job' = job /\ happened' = happened
        BY <2>2, Typed
      <3>4. QED
        BY <3>2, <3>3
    <2>3. CASE Fault("db") /\ req' = [req EXCEPT ![r] = Done] /\ job' = [job EXCEPT ![r] = NoJob]
      BY <2>1, <2>3, Typed, FaultGrows DEF Done
    <2>4. QED
      BY <2>2, <2>3
  <1>e. \/ UNCHANGED <<row, status, wanted>> /\ happened' # {}
        \/ /\ row' = [row EXCEPT ![p] = req[r].data] /\ status' = "loading"
           /\ wanted' = [wanted EXCEPT ![p][k] = req[r].data[k]]
    BY <1>a, FaultGrows
  <1>f. req[r].data \in Maps
    BY Typed DEF RequestType
  <1>g. /\ \A o \in Parts : o # p => row'[o] = row[o] /\ wanted'[o] = wanted[o]
        /\ row' \in [Parts -> Maps] /\ wanted' \in [Parts -> Maps]
        /\ row'[p] = row[p] \/ row'[p] = req[r].data
    <2>1. CASE UNCHANGED <<row, wanted>>
      BY <2>1, Typed
    <2>2. CASE /\ row' = [row EXCEPT ![p] = req[r].data]
               /\ wanted' = [wanted EXCEPT ![p][k] = req[r].data[k]]
      <3>1. [wanted[p] EXCEPT ![k] = req[r].data[k]] \in Maps
        BY <1>f, Typed DEF Maps
      <3>2. wanted' \in [Parts -> Maps] /\ \A o \in Parts : o # p => wanted'[o] = wanted[o]
        BY <2>2, <3>1, Typed
      <3>3. row' \in [Parts -> Maps] /\ row'[p] = req[r].data /\ \A o \in Parts : o # p => row'[o] = row[o]
        BY <2>2, <1>f, Typed
      <3>4. QED
        BY <3>2, <3>3
    <2>3. QED
      BY <1>e, <2>1, <2>2
  <1>h. req[r].stage = "write" /\ job[r].stage = "unposted"
    BY DEF Steps
  <1>1. TypeOK'
    BY <1>b, <1>c, <1>d, <1>e, <1>g DEF TypeOK, RequestType, JobType, Grows
  <1>2. Steps'
    BY <1>c, <1>d, <1>h DEF Steps, NoJob
  <1>3. Single'
    BY <1>d DEF Single, NoJob
  <1>4. Merged'
    <2> SUFFICES ASSUME NEW o \in Parts \ crossed, NEW q \in Requests, Changes(q, o)', req'[q].stage = "write",
                        NEW m \in Keys, m # req'[q].key
                 PROVE  req'[q].data[m] = row'[o][m]
      BY DEF Merged
    <2>1. q # r /\ Changes(q, o)
      BY <1>c, <1>d
    <2>2. o # p
      BY <1>a, <1>h, <2>1 DEF Single
    <2>3. QED
      BY <1>c, <1>g, <2>1, <2>2 DEF Merged
  <1>5. Objects'
    BY DEF Objects
  <1>6. RowKept'
    <2>1. ASSUME p \notin crossed PROVE row'[p] = wanted'[p]
      <3>1. row[p] = wanted[p] /\ \A m \in Keys : m # k => req[r].data[m] = row[p][m]
        BY <1>a, <1>h, <2>1 DEF RowKept, Merged
      <3>2. wanted[p] \in [Keys -> Values] /\ req[r].data \in [Keys -> Values]
        BY <1>f, Typed DEF Maps
      <3>3. [wanted[p] EXCEPT ![k] = req[r].data[k]] = req[r].data
        BY <3>1, <3>2
      <3>4. QED
        BY <1>e, <3>1, <3>3, Typed
    <2>2. QED
      BY <1>g, <2>1 DEF RowKept
  <1>7. Synced'
    <2> SUFFICES ASSUME happened' = {}, NEW o \in Parts \ (crossed \cup early)
                 PROVE  /\ (\A q \in Requests : Changes(q, o)' => Level(q)') => Follows(o, object[o].data, row'[o])
                        /\ \A q \in Requests : Changes(q, o)' =>
                             /\ req'[q].stage = "write" => Follows(o, job'[q].data, req'[q].data)
                             /\ ~Level(q)' => Follows(o, job'[q].data, row'[o])
                             /\ job'[q].stage # "error"
                             /\ job'[q].stage = "update" => job'[q].version = object[o].version
      BY DEF Synced, Follows
    <2>0. happened = {} /\ UNCHANGED job /\ req'[r].stage = "post"
      BY <1>b, <1>d DEF Grows
    <2>1. CASE o = p
      <3>1. ~Level(r)' /\ Changes(r, p)'
        BY <1>a, <1>h, <2>0 DEF Level
      <3>2. \A q \in Requests : Changes(q, p)' => q = r
        BY <1>a, <1>h, <2>0, <2>1 DEF Single
      <3>3. Follows(p, job[r].data, req[r].data)
        BY <1>a, <1>h, <2>0, <2>1 DEF Synced
      <3>4. row'[p] = req[r].data
        BY <1>e, <1>f, <1>a, Typed
      <3>5. QED
        BY <1>h, <2>0, <2>1, <3>1, <3>2, <3>3, <3>4
    <2>2. CASE o # p
      <3>1. \A q \in Requests : Changes(q, o)' => q # r /\ Changes(q, o) /\ (Level(q)' <=> Level(q))
        BY <1>a, <1>c, <2>0, <2>2 DEF Level
      <3>2. \A q \in Requests : Changes(q, o) => Changes(q, o)'
        BY <2>0
      <3>3. QED
        BY <1>c, <1>g, <2>0, <2>2, <3>1, <3>2 DEF Synced
    <2>3. QED
      BY <2>1, <2>2
  <1>8. Deployed'
    BY <1>d, <1>e DEF Deployed, NoJob
  <1>q. QED
    BY <1>1, <1>2, <1>3, <1>4, <1>5, <1>6, <1>7, <1>8

-----------------------------------------------------------------------------
(* A change is over: it has come to its end, or something has happened, or *)
(* it found no object.                                                     *)
LEMMA JobEnds ==
  ASSUME IInv, Grows, NEW r \in Requests,
         UNCHANGED <<row, object, wanted, crossed>>, early \subseteq early',
         job' = [job EXCEPT ![r] = NoJob],
         \/ req' = [req EXCEPT ![r] = Done]
         \/ req' = req /\ req[r].stage \notin {"write", "post"},
         job[r].stage \in {"active", "error"} \/ happened' # {} \/ Part(r) \in early'
  PROVE  /\ job' \in [Requests -> JobType] /\ req' \in [Requests -> RequestType]
         /\ Steps' /\ Single' /\ Merged' /\ Objects' /\ RowKept' /\ Synced'
         /\ \A q \in Requests : job'[q].stage \in {job[q].stage, "none"}
  <1> USE DEF IInv, Changes, Busy, Part
  <1>1. job' \in [Requests -> JobType] /\ job'[r] = NoJob /\ \A q \in Requests : q # r => job'[q] = job[q]
    <2>1. NoJob \in JobType
      BY NothingIsMap DEF JobType, NoJob, Parts
    <2>2. QED
      BY <2>1, Typed
  <1>2. /\ req' \in [Requests -> RequestType] /\ \A q \in Requests : q # r => req'[q] = req[q]
        /\ req'[r].stage \notin {"write", "post"} /\ (req[r].stage = "new" \/ req'[r].stage # "new")
    <2>1. Done \in RequestType /\ Done.stage = "done"
      BY NothingIsMap DEF RequestType, Done
    <2>2. QED
      BY <2>1, Typed
  <1>3. Steps' /\ Single' /\ Merged' /\ Objects' /\ RowKept'
    BY <1>1, <1>2 DEF Steps, Single, Merged, Objects, RowKept, NoJob
  <1>4. Synced'
    <2> SUFFICES ASSUME happened' = {}, NEW o \in Parts \ (crossed \cup early')
                 PROVE  /\ (\A q \in Requests : Changes(q, o)' => Level(q)') => Follows(o, object[o].data, row[o])
                        /\ \A q \in Requests : Changes(q, o)' =>
                             /\ req'[q].stage = "write" => Follows(o, job'[q].data, req'[q].data)
                             /\ ~Level(q)' => Follows(o, job'[q].data, row[o])
                             /\ job'[q].stage # "error"
                             /\ job'[q].stage = "update" => job'[q].version = object[o].version
      BY DEF Synced, Follows
    <2>1. \A q \in Requests : Changes(q, o)' => q # r /\ Changes(q, o) /\ (Level(q)' <=> Level(q))
      BY <1>1, <1>2 DEF Level, NoJob
    <2>2. happened = {}
      BY DEF Grows
    <2>3. Changes(r, o) => Level(r)
      BY <2>2 DEF Level, Synced
    <2>4. \A q \in Requests : q # r /\ Changes(q, o) => Changes(q, o)'
      BY <1>1
    <2>5. QED
      BY <1>1, <1>2, <2>1, <2>2, <2>3, <2>4 DEF Synced
  <1>5. QED
    BY <1>1, <1>2, <1>3, <1>4 DEF NoJob

(* A change goes on to its next stage.                                     *)
LEMMA JobSteps ==
  ASSUME IInv, Grows, NEW r \in Requests, NEW n \in JobType,
         UNCHANGED <<row, object, wanted, crossed>>, early \subseteq early',
         job' = [job EXCEPT ![r] = n],
         req' = [req EXCEPT ![r] = Done] \/ (req' = req /\ job[r].stage # "unposted"),
         job[r].stage \notin {"none", "active"}, req[r].stage # "write",
         n.stage \in {"queued", "update"}, n.part = job[r].part, n.data = job[r].data,
         n.stage = "update" => n.version = object[n.part].version /\ n.version # 0
  PROVE  /\ job' \in [Requests -> JobType] /\ req' \in [Requests -> RequestType]
         /\ Steps' /\ Single' /\ Merged' /\ Objects' /\ RowKept' /\ Synced'
  <1> USE DEF IInv, Changes, Busy, Part
  <1>1. /\ job' \in [Requests -> JobType] /\ job'[r] = n /\ \A q \in Requests : q # r => job'[q] = job[q]
    BY Typed
  <1>2. /\ req' \in [Requests -> RequestType] /\ \A q \in Requests : q # r => req'[q] = req[q]
        /\ req'[r].stage \notin {"write", "post"} /\ req'[r].stage # "new"
    <2>1. Done \in RequestType /\ Done.stage = "done"
      BY NothingIsMap DEF RequestType, Done
    <2>2. req[r].stage # "new" /\ (req[r].stage \in {"write", "post"} => job[r].stage = "unposted")
      BY DEF Steps
    <2>3. QED
      BY <2>1, <2>2, Typed
  <1>3. Steps' /\ Single' /\ Merged' /\ Objects' /\ RowKept'
    <2>1. Steps'
      BY <1>1, <1>2 DEF Steps
    <2>2. Single'
      BY <1>1 DEF Single
    <2>3. Merged'
      BY <1>1, <1>2 DEF Merged
    <2>4. Objects' /\ RowKept'
      BY DEF Objects, RowKept
    <2>5. QED
      BY <2>1, <2>2, <2>3, <2>4
  <1>4. Synced'
    <2> SUFFICES ASSUME happened' = {}, NEW o \in Parts \ (crossed \cup early')
                 PROVE  /\ (\A q \in Requests : Changes(q, o)' => Level(q)') => Follows(o, object[o].data, row[o])
                        /\ \A q \in Requests : Changes(q, o)' =>
                             /\ req'[q].stage = "write" => Follows(o, job'[q].data, req'[q].data)
                             /\ ~Level(q)' => Follows(o, job'[q].data, row[o])
                             /\ job'[q].stage # "error"
                             /\ job'[q].stage = "update" => job'[q].version = object[o].version
      BY DEF Synced, Follows
    <2>1. happened = {} /\ ~Level(r) /\ ~Level(r)'
      BY <1>1, <1>2 DEF Grows, Level
    <2>2. \A q \in Requests : Changes(q, o)' <=> Changes(q, o)
      BY <1>1
    <2>3. \A q \in Requests : Level(q)' <=> Level(q)
      BY <1>1, <1>2, <2>1 DEF Level
    <2>4. (\A q \in Requests : Changes(q, o)' => Level(q)') => Follows(o, object[o].data, row[o])
      BY <2>1, <2>2, <2>3 DEF Synced
    <2>5. ASSUME NEW q \in Requests, Changes(q, o)'
          PROVE  /\ req'[q].stage = "write" => Follows(o, job'[q].data, req'[q].data)
                 /\ ~Level(q)' => Follows(o, job'[q].data, row[o])
                 /\ job'[q].stage # "error"
                 /\ job'[q].stage = "update" => job'[q].version = object[o].version
      <3>1. CASE q # r
        BY <1>1, <1>2, <2>1, <2>2, <2>3, <2>5, <3>1 DEF Synced
      <3>2. CASE q = r
        <4>1. Changes(r, o) /\ Follows(o, job[r].data, row[o])
          BY <2>1, <2>2, <2>5, <3>2 DEF Synced
        <4>2. QED
          BY <1>1, <1>2, <2>1, <3>2, <4>1
      <3>3. QED
        BY <3>1, <3>2
    <2>6. QED
      BY <2>4, <2>5
  <1>5. QED
    BY <1>1, <1>2, <1>3, <1>4

LEMMA SendTaskPreserves ==
  ASSUME IInv, NEW r \in Requests, SendTask(r) PROVE IInv'
  <1> USE DEF IInv, SendTask, Part, clusterVars, deployVars, controlVars
  <1>a. Grows /\ (UNCHANGED happened \/ happened' # {})
    BY FaultGrows
  <1>b. job[r].stage = "unposted" /\ job \in [Requests -> JobType]
    BY Typed DEF Steps
  <1>1. CASE job' = [job EXCEPT ![r].stage = "queued"]
    <2>1. [job[r] EXCEPT !.stage = "queued"] \in JobType
      BY <1>b DEF JobType
    <2>2. PICK n \in JobType : n = [job[r] EXCEPT !.stage = "queued"]
      BY <2>1
    <2>3. /\ n.stage = "queued" /\ n.part = job[r].part /\ n.data = job[r].data
          /\ job' = [job EXCEPT ![r] = n]
      BY <1>1, <1>b, <2>2 DEF JobType
    <2>. /\ UNCHANGED <<row, object, wanted, crossed>> /\ early \subseteq early'
         /\ req' = [req EXCEPT ![r] = Done] /\ req[r].stage = "post"
      OBVIOUS
    <2>4. /\ job' \in [Requests -> JobType] /\ req' \in [Requests -> RequestType]
          /\ Steps' /\ Single' /\ Merged' /\ Objects' /\ RowKept' /\ Synced'
      <3> HIDE DEF SendTask
      <3>1. QED
        BY <1>a, <1>b, <2>3, JobSteps
    <2>5. TypeOK'
      BY <1>a, <2>4 DEF TypeOK, JobType, RequestType, Grows
    <2>6. Deployed'
      BY <1>b, <2>3 DEF Deployed
    <2>7. QED
      BY <2>4, <2>5, <2>6
  <1>2. CASE Fault("net") /\ job' = [job EXCEPT ![r] = NoJob]
    <2>1. /\ job' \in [Requests -> JobType] /\ req' \in [Requests -> RequestType]
          /\ Steps' /\ Single' /\ Merged' /\ Objects' /\ RowKept' /\ Synced'
          /\ \A q \in Requests : job'[q].stage \in {job[q].stage, "none"}
      BY <1>2, <1>a, FaultGrows, JobEnds
    <2>2. TypeOK'
      BY <1>a, <2>1 DEF TypeOK, JobType, RequestType, Grows
    <2>3. Deployed'
      BY <2>1 DEF Deployed
    <2>4. QED
      BY <2>1, <2>2, <2>3
  <1>3. QED
    BY <1>1, <1>2

LEMMA SyncGetPreserves ==
  ASSUME IInv, NEW r \in Requests, SyncGet(r) PROVE IInv'
  <1> USE DEF IInv, SyncGet, Part, handlerVars, clusterVars, deployVars, controlVars
  <1>a. Grows /\ (UNCHANGED happened \/ happened' # {})
    BY FaultGrows
  <1>b. /\ job[r].stage = "queued" /\ job \in [Requests -> JobType] /\ req[r].stage \notin {"write", "post"}
        /\ job[r].part \in Parts /\ object[job[r].part].version \in Nat
    BY Typed DEF Steps
  <1>c. early \subseteq early' /\ early' \in SUBSET Parts
    BY <1>b DEF TypeOK
  <1>1. CASE /\ object[Part(r)].version # 0 /\ UNCHANGED early
             /\ job' = [job EXCEPT ![r].stage = "update", ![r].version = object[Part(r)].version]
    <2>1. [job[r] EXCEPT !.stage = "update", !.version = object[Part(r)].version] \in JobType
      BY <1>b DEF JobType
    <2>2. PICK n \in JobType : n = [job[r] EXCEPT !.stage = "update", !.version = object[Part(r)].version]
      BY <2>1
    <2>3. /\ n.stage = "update" /\ n.part = job[r].part /\ n.data = job[r].data
          /\ n.version = object[job[r].part].version /\ n.version # 0 /\ job' = [job EXCEPT ![r] = n]
      BY <1>1, <1>b, <2>2 DEF JobType
    <2>4. /\ job' \in [Requests -> JobType] /\ req' \in [Requests -> RequestType]
          /\ Steps' /\ Single' /\ Merged' /\ Objects' /\ RowKept' /\ Synced'
      BY <1>a, <1>b, <1>c, <2>3, JobSteps
    <2>5. TypeOK'
      BY <1>a, <1>c, <2>4 DEF TypeOK, JobType, RequestType, Grows
    <2>6. Deployed'
      BY <1>1, <1>b DEF Deployed
    <2>7. QED
      BY <2>4, <2>5, <2>6
  <1>2. CASE job' = [job EXCEPT ![r] = NoJob] /\ (happened' # {} \/ Part(r) \in early')
    <2>1. /\ job' \in [Requests -> JobType] /\ req' \in [Requests -> RequestType]
          /\ Steps' /\ Single' /\ Merged' /\ Objects' /\ RowKept' /\ Synced'
          /\ \A q \in Requests : job'[q].stage \in {job[q].stage, "none"}
      BY <1>2, <1>a, <1>b, <1>c, JobEnds
    <2>2. TypeOK'
      BY <1>a, <1>c, <2>1 DEF TypeOK, JobType, RequestType, Grows
    <2>3. Deployed'
      BY <2>1 DEF Deployed
    <2>4. QED
      BY <2>1, <2>2, <2>3
  <1>3. QED
    BY <1>1, <1>2, FaultGrows

(* An Update is refused only when changes have crossed; otherwise it sets  *)
(* the object to what follows the row.                                     *)
LEMMA SyncUpdatePreserves ==
  ASSUME IInv, NEW r \in Requests, SyncUpdate(r) PROVE IInv'
  <1> USE DEF IInv, Changes, Busy, handlerVars, deployVars
  <1>a. PICK p \in Parts : p = Part(r)
    BY Typed
  <1>b. Grows /\ (UNCHANGED happened \/ happened' # {})
    BY FaultGrows DEF SyncUpdate
  <1>c. PICK stage \in {"active", "error"} :
          /\ job' = [job EXCEPT ![r] = [NoJob EXCEPT !.stage = stage, !.part = p]]
          /\ stage = "active" => UpdateObject(p, job[r].data)
          /\ stage = "error" /\ happened' = {} => job[r].version # object[p].version
    BY <1>a, FaultGrows DEF SyncUpdate
  <1>d. /\ job[r].stage = "update" /\ job[r].part = p
        /\ UNCHANGED <<row, status, req, deploy, deploys, cr, control, listening, second, template, pods>>
        /\ UNCHANGED <<wanted, crossed, early, twice>>
        /\ UpdateObject(p, job[r].data) \/ UNCHANGED <<object, updates>>
    BY <1>a DEF SyncUpdate, Part
  <1>e. /\ job' \in [Requests -> JobType]
        /\ job'[r].stage = stage /\ job'[r].part = p
        /\ \A q \in Requests : q # r => job'[q] = job[q]
    <2>1. NoJob \in JobType
      BY NothingIsMap DEF JobType, NoJob, Parts
    <2>2. [NoJob EXCEPT !.stage = stage, !.part = p] \in JobType
      BY <2>1 DEF JobType
    <2>3. [NoJob EXCEPT !.stage = stage, !.part = p].stage = stage /\ [NoJob EXCEPT !.stage = stage, !.part = p].part = p
      BY <2>1 DEF JobType
    <2>4. QED
      BY <1>c, <2>2, <2>3, Typed
  <1>f. /\ object' \in [Parts -> [data : Maps, version : Nat]] /\ updates' \in Nat
        /\ \A o \in Parts : o # p => object'[o] = object[o]
        /\ \/ object' = object
           \/ object'[p].data = job[r].data /\ object'[p].version # 0
        /\ stage = "active" => object'[p].data = job[r].data
    <2>1. job[r].data \in Maps /\ object[p].version \in Nat /\ updates \in Nat
      BY Typed DEF JobType, TypeOK
    <2>2. CASE UpdateObject(p, job[r].data)
      <3>1. [data |-> job[r].data, version |-> object[p].version + 1] \in [data : Maps, version : Nat]
        BY <2>1
      <3>2. object' = [object EXCEPT ![p] = [data |-> job[r].data, version |-> object[p].version + 1]]
        BY <2>2 DEF UpdateObject
      <3>3. /\ object' \in [Parts -> [data : Maps, version : Nat]]
            /\ object'[p] = [data |-> job[r].data, version |-> object[p].version + 1]
            /\ \A o \in Parts : o # p => object'[o] = object[o]
        BY <3>1, <3>2, Typed
      <3>4. updates' \in Nat
        BY <2>1, <2>2 DEF UpdateObject
      <3>5. QED
        BY <2>1, <3>3, <3>4
    <2>3. CASE UNCHANGED <<object, updates>> /\ stage = "error"
      BY <2>1, <2>3, Typed
    <2>4. QED
      BY <1>c, <1>d, <2>2, <2>3
  <1>1. TypeOK'
    BY <1>b, <1>d, <1>e, <1>f DEF TypeOK, JobType, Grows
  <1>2. Steps' /\ Single' /\ Merged'
    <2>1. Steps'
      BY <1>d, <1>e DEF Steps
    <2>2. Single'
      BY <1>d, <1>e DEF Single, Part
    <2>3. Merged'
      BY <1>d, <1>e DEF Merged, Part
    <2>4. QED
      BY <2>1, <2>2, <2>3
  <1>3. Objects'
    BY <1>f DEF Objects
  <1>4. RowKept'
    BY <1>d DEF RowKept
  <1>5. Synced'
    <2> SUFFICES ASSUME happened' = {}, NEW o \in Parts \ (crossed \cup early)
                 PROVE  /\ (\A q \in Requests : Changes(q, o)' => Level(q)') => Follows(o, object'[o].data, row[o])
                        /\ \A q \in Requests : Changes(q, o)' =>
                             /\ req[q].stage = "write" => Follows(o, job'[q].data, req[q].data)
                             /\ ~Level(q)' => Follows(o, job'[q].data, row[o])
                             /\ job'[q].stage # "error"
                             /\ job'[q].stage = "update" => job'[q].version = object'[o].version
      BY <1>d DEF Synced, Follows
    <2>0. happened = {} /\ ~Level(r) /\ Changes(r, p)
      BY <1>b, <1>d DEF Grows, Level, Steps, Part
    <2>1. CASE o = p
      <3>1. \A q \in Requests : Changes(q, p)' => q = r
        BY <1>e, <2>0, <2>1 DEF Single, Part
      <3>2. Follows(p, job[r].data, row[p]) /\ job[r].version = object[p].version
        BY <1>d, <2>0, <2>1 DEF Synced
      <3>3. stage = "active"
        BY <1>c, <3>2
      <3>4. req[r].stage # "write"
        BY <1>d DEF Steps
      <3>5. Level(r)'
        BY <1>e, <3>3 DEF Level
      <3>6. QED
        BY <1>d, <1>e, <1>f, <2>1, <3>1, <3>2, <3>3, <3>4, <3>5
    <2>2. CASE o # p
      <3>1. \A q \in Requests : Changes(q, o)' <=> Changes(q, o)
        BY <1>d, <1>e, <2>2 DEF Part
      <3>2. \A q \in Requests : Changes(q, o) => q # r /\ (Level(q)' <=> Level(q))
        BY <1>d, <1>e, <2>2 DEF Part, Level
      <3>3. QED
        BY <1>e, <1>f, <2>0, <2>2, <3>1, <3>2 DEF Synced
    <2>3. QED
      BY <2>1, <2>2
  <1>6. Deployed'
    BY <1>d DEF Deployed
  <1>q. QED
    BY <1>1, <1>2, <1>3, <1>4, <1>5, <1>6

LEMMA SyncStatusPreserves ==
  ASSUME IInv, NEW r \in Requests, SyncStatus(r) PROVE IInv'
  <1> USE DEF IInv, SyncStatus, Part, clusterVars, deployVars, controlVars
  <1>a. Grows
    BY FaultGrows
  <1>b. job[r].stage \in {"active", "error"} /\ req[r].stage \notin {"write", "post"}
    BY DEF Steps
  <1>c. status' \in {status, job[r].stage}
    OBVIOUS
  <1>1. /\ job' \in [Requests -> JobType] /\ req' \in [Requests -> RequestType]
        /\ Steps' /\ Single' /\ Merged' /\ Objects' /\ RowKept' /\ Synced'
        /\ \A q \in Requests : job'[q].stage \in {job[q].stage, "none"}
    BY <1>a, <1>b, JobEnds
  <1>2. TypeOK'
    BY <1>a, <1>b, <1>c, <1>1 DEF TypeOK, JobType, RequestType, Grows
  <1>3. Deployed'
    BY <1>b, <1>1 DEF Deployed
  <1>4. QED
    BY <1>1, <1>2, <1>3

-----------------------------------------------------------------------------
(***************************************************************************)
(* Deploys and the controller.                                             *)
(***************************************************************************)
LEMMA DeployPreserves ==
  ASSUME IInv, DeployWorker \/ WriteCR \/ DeployEnds PROVE IInv'
  <1> USE DEF IInv, handlerVars, clusterVars, deployVars, controlVars, history
  <1>a. Grows /\ UNCHANGED <<row, req, job, object, wanted, crossed, early, twice>>
    BY FaultGrows DEF DeployWorker, WriteCR, DeployEnds
  <1>1. Steps' /\ Single' /\ Merged' /\ Objects' /\ RowKept' /\ Synced'
    BY <1>a, ConfigKept
  <1>2. CASE DeployWorker
    <2>1. deploys + 1 \in 0..MaxDeploys
      BY <1>2, ConfigAssumption DEF DeployWorker, TypeOK
    <2>2. TypeOK'
      BY <1>2, <1>a, <2>1 DEF DeployWorker, TypeOK, Grows
    <2>3. Deployed'
      BY <1>2 DEF DeployWorker, Deployed
    <2>4. QED
      BY <1>1, <2>2, <2>3
  <1>3. CASE WriteCR
    <2>1. TypeOK'
      BY <1>3, <1>a DEF WriteCR, TypeOK, Grows
    <2>2. Deployed'
      BY <1>3 DEF WriteCR, Deployed
    <2>3. QED
      BY <1>1, <2>1, <2>2
  <1>4. CASE DeployEnds
    <2>1. TypeOK'
      BY <1>4, <1>a DEF DeployEnds, TypeOK, Grows
    <2>2. Deployed'
      BY <1>4 DEF DeployEnds, Deployed
    <2>3. QED
      BY <1>1, <2>1, <2>2
  <1>5. QED
    BY <1>2, <1>3, <1>4

(* An object that is created is empty, as what there was not yet.  No job  *)
(* holds the version of an object that is not there.                       *)
LEMMA EnsureObjectPreserves ==
  ASSUME IInv, EnsureObject PROVE IInv'
  <1> USE DEF IInv, Changes, Busy, Part, handlerVars, deployVars
  <1>a. Grows
    BY FaultGrows DEF EnsureObject
  <1>b. /\ control \in {"ConfigMap", "Secret"} /\ control' \in {"idle", "ConfigMap", "Secret", "Deployment"}
        /\ UNCHANGED <<row, status, req, job, template, pods, deploy, deploys, cr>>
        /\ UNCHANGED <<listening, updates, second, wanted, crossed, early, twice>>
    BY DEF EnsureObject
  <1>c. cr
    BY <1>b DEF Deployed
  <1>d. PICK p \in Parts : p = PartOf[control]
    BY <1>b DEF PartOf, Parts
  <1>e. \/ object' = object
        \/ /\ object[p].version = 0
           /\ object' = [object EXCEPT ![p] = [data |-> Nothing, version |-> 1]]
    BY <1>d DEF EnsureObject
  <1>f. /\ object' \in [Parts -> [data : Maps, version : Nat]]
        /\ \A o \in Parts : \/ object'[o] = object[o]
                            \/ object[o].version = 0 /\ object'[o].data = Nothing /\ object'[o].version = 1
    <2>1. [data |-> Nothing, version |-> 1] \in [data : Maps, version : Nat]
      BY NothingIsMap
    <2>2. CASE object' = object
      BY <2>2, Typed
    <2>3. CASE /\ object[p].version = 0
               /\ object' = [object EXCEPT ![p] = [data |-> Nothing, version |-> 1]]
      BY <2>1, <2>3, Typed
    <2>4. QED
      BY <1>e, <2>2, <2>3
  <1>1. TypeOK'
    BY <1>a, <1>b, <1>f DEF TypeOK, Grows
  <1>2. Steps' /\ Single' /\ Merged' /\ RowKept'
    BY <1>b DEF Steps, Single, Merged, RowKept
  <1>3. Objects'
    BY <1>f DEF Objects
  <1>4. \A o \in Parts : object'[o].data = object[o].data
    BY <1>f DEF Objects
  <1>5. Synced'
    <2> SUFFICES ASSUME happened' = {}, NEW o \in Parts \ (crossed \cup early)
                 PROVE  /\ (\A q \in Requests : Changes(q, o) => Level(q)) => Follows(o, object'[o].data, row[o])
                        /\ \A q \in Requests : Changes(q, o) =>
                             /\ req[q].stage = "write" => Follows(o, job[q].data, req[q].data)
                             /\ ~Level(q) => Follows(o, job[q].data, row[o])
                             /\ job[q].stage # "error"
                             /\ job[q].stage = "update" => job[q].version = object'[o].version
      BY <1>b DEF Synced, Follows, Level
    <2>1. happened = {}
      BY <1>a DEF Grows
    <2>2. \A q \in Requests : Changes(q, o) /\ job[q].stage = "update" =>
            job[q].version = object[o].version /\ object[o].version # 0
      BY <2>1 DEF Synced, Steps
    <2>3. QED
      BY <1>f, <1>4, <2>1, <2>2 DEF Synced
  <1>6. Deployed'
    BY <1>b, <1>c DEF Deployed
  <1>7. QED
    BY <1>1, <1>2, <1>3, <1>5, <1>6

LEMMA SecondsGrow ==
  \A m, n \in Nat : n \in {m, m + 1} => 0..(1 + m) \subseteq 0..(1 + n)
  <1> SUFFICES ASSUME NEW m \in Nat, NEW x \in 0..(1 + m)
               PROVE  x \in 0..(1 + m + 1)
    BY Zenon, SMT
  <1>1. x \in Nat /\ 0 <= x /\ x <= 1 + m
    OBVIOUS
  <1>2. QED
    BY <1>1

(* Deployments, restarts of the pods, and the informers leave the          *)
(* configuration alone.                                                    *)
LEMMA RolloutPreserves ==
  ASSUME IInv, EnsureDeployment \/ RestartDeployment \/ List \/ StartPods PROVE IInv'
  <1> USE DEF IInv, handlerVars, clusterVars, deployVars, controlVars, history
  <1>a. Grows /\ UNCHANGED <<row, status, req, job, object, deploy, deploys, cr, wanted, crossed, early>>
    BY FaultGrows DEF EnsureDeployment, RestartDeployment, List, StartPods
  <1>b. control' \in {control, "idle"}
    BY DEF EnsureDeployment, RestartDeployment, List, StartPods
  <1>1. Steps' /\ Single' /\ Merged' /\ Objects' /\ RowKept' /\ Synced'
    BY <1>a, ConfigKept
  <1>2. Deployed'
    BY <1>a, <1>b DEF Deployed
  <1>3. TypeOK'
    <2>1. /\ second \in Nat /\ updates \in Nat /\ template \in 0..(1 + second)
          /\ pods \in [template : 0..(1 + second), data : [Parts -> Maps]] /\ pods.template \in 0..(1 + second)
          /\ [p \in Parts |-> object[p].data] \in [Parts -> Maps]
      BY Typed DEF TypeOK
    <2>2. /\ second' \in Nat /\ updates' \in Nat /\ listening' \in BOOLEAN /\ twice' \in BOOLEAN
          /\ second' \in {second, second + 1} /\ template' \in 0..(1 + second')
      <3>1. CASE EnsureDeployment
        BY <2>1, <3>1 DEF EnsureDeployment, TypeOK
      <3>2. CASE RestartDeployment
        <4>1. listening' \in BOOLEAN /\ twice' \in BOOLEAN /\ updates' \in Nat
          <5>1. updates > 0 /\ updates' = updates - 1 /\ listening' = listening
            BY <3>2 DEF RestartDeployment
          <5>2. twice' \in BOOLEAN
            BY <3>2 DEF RestartDeployment, TypeOK
          <5>3. listening' \in BOOLEAN
            BY <5>1 DEF TypeOK
          <5>4. QED
            BY <2>1, <5>1, <5>2, <5>3
        <4>2. second' = second \/ second' = second + 1
          BY <3>2 DEF RestartDeployment
        <4>3. template' = template \/ template' = 1 + second'
          BY <3>2 DEF RestartDeployment
        <4>4. template \in 0..(1 + second')
          BY <2>1, <4>2
        <4>5. second' \in Nat /\ 1 + second' \in 0..(1 + second')
          BY <2>1, <4>2
        <4>6. QED
          BY <4>1, <4>2, <4>3, <4>4, <4>5
      <3>3. CASE List \/ StartPods
        BY <2>1, <3>3 DEF List, StartPods, TypeOK
      <3>4. QED
        BY <3>1, <3>2, <3>3
    <2>3. pods' \in [template : 0..(1 + second'), data : [Parts -> Maps]]
      <3>1. 0..(1 + second) \subseteq 0..(1 + second')
        BY <2>1, <2>2, SecondsGrow
      <3>2. pods' = pods \/ (second' = second /\ pods' = [template |-> template, data |-> [p \in Parts |-> object[p].data]])
        BY DEF EnsureDeployment, RestartDeployment, List, StartPods
      <3>3. QED
        BY <2>1, <3>1, <3>2
    <2>4. QED
      BY <1>a, <1>b, <2>2, <2>3 DEF TypeOK, Grows
  <1>4. QED
    BY <1>1, <1>2, <1>3

(* After a restart nothing is claimed of what was under way.               *)
LEMMA RestartPreserves ==
  ASSUME IInv, OuterRestart \/ InnerRestart PROVE IInv'
  <1> USE DEF IInv, handlerVars, clusterVars, deployVars, controlVars, Changes, Busy, Part
  <1>a. Grows /\ happened' # {}
    BY FaultGrows DEF OuterRestart, InnerRestart
  <1>b. /\ UNCHANGED <<row, status, object, template, pods, deploys, cr, second>>
        /\ UNCHANGED <<wanted, crossed, early, twice>>
    BY DEF OuterRestart, InnerRestart
  <1>c. NoJob \in JobType /\ Done \in RequestType
    BY NothingIsMap DEF JobType, NoJob, Parts, RequestType, Done
  <1>d. /\ job' \in [Requests -> JobType] /\ req' \in [Requests -> RequestType]
        /\ \A r \in Requests : job'[r] = job[r] \/ job'[r] = NoJob
        /\ \A r \in Requests : req'[r] = req[r] \/ req'[r] = Done
    BY <1>c, Typed DEF OuterRestart, InnerRestart
  <1>1. TypeOK'
    <2>1. /\ deploy' \in {deploy, "idle"} /\ control' \in {control, "idle", "ConfigMap"}
          /\ listening' \in {listening, FALSE} /\ updates' \in {updates, 0}
      BY DEF OuterRestart, InnerRestart
    <2>2. 0 \in Nat
      OBVIOUS
    <2>3. QED
      BY <1>a, <1>b, <1>d, <2>1, <2>2 DEF TypeOK, JobType, RequestType, Grows
  <1>2. Steps'
    <2>1. CASE OuterRestart
      <3>1. \A r \in Requests :
              IF req[r].stage \in {"write", "post"} THEN req'[r] = Done /\ job'[r] = NoJob
              ELSE req'[r] = req[r] /\ job'[r] = job[r]
        BY <2>1 DEF OuterRestart
      <3>2. QED
        BY <3>1 DEF Steps, Done, NoJob
    <2>2. CASE InnerRestart
      <3>1. \A r \in Requests :
              IF req[r].stage \in {"write", "post"} THEN job'[r] = job[r] ELSE job'[r] = NoJob
        BY <2>2 DEF InnerRestart
      <3>2. req' = req
        BY <2>2 DEF InnerRestart
      <3>3. QED
        BY <3>1, <3>2 DEF Steps, NoJob
    <2>3. QED
      BY <2>1, <2>2
  <1>3. Single' /\ Merged'
    BY <1>b, <1>d DEF Single, Merged, NoJob, Done
  <1>4. Objects' /\ RowKept' /\ Synced'
    BY <1>a, <1>b DEF Objects, RowKept, Synced
  <1>5. Deployed'
    BY <1>b, <1>d DEF Deployed, OuterRestart, InnerRestart, NoJob
  <1>6. QED
    BY <1>1, <1>2, <1>3, <1>4, <1>5

-----------------------------------------------------------------------------
LEMMA StepPreserves ==
  ASSUME IInv, [Next]_vars PROVE IInv'
  <1>1. CASE UNCHANGED vars
    <2>1. /\ UNCHANGED <<row, status, req, job, object, template, pods, deploy, deploys, cr>>
          /\ UNCHANGED <<control, listening, updates, second, wanted, crossed, early, twice, happened>>
      BY <1>1 DEF vars, handlerVars, clusterVars, deployVars, controlVars, history
    <2>2. Steps' /\ Single' /\ Merged' /\ Objects' /\ RowKept' /\ Synced'
      BY <2>1, ConfigKept DEF IInv, TypeOK, Grows
    <2>3. TypeOK' /\ Deployed'
      BY <2>1 DEF IInv, TypeOK, Deployed
    <2>4. QED
      BY <2>2, <2>3 DEF IInv
  <1>2. CASE \E r \in Requests : RequestNext(r) \/ SyncNext(r) \/ \E ask \in Asks : ReadRow(r, ask)
    BY <1>2, ReadRowPreserves, WriteRowPreserves, SendTaskPreserves, SyncGetPreserves,
       SyncUpdatePreserves, SyncStatusPreserves DEF RequestNext, SyncNext
  <1>3. CASE DeployWorker \/ WriteCR \/ DeployEnds
    BY <1>3, DeployPreserves
  <1>4. CASE ControlNext \/ RestartDeployment \/ List \/ StartPods
    BY <1>4, EnsureObjectPreserves, RolloutPreserves DEF ControlNext
  <1>5. CASE OuterRestart \/ InnerRestart
    BY <1>5, RestartPreserves
  <1>6. QED
    BY <1>1, <1>2, <1>3, <1>4, <1>5 DEF Next

LEMMA Inductive == Spec => []IInv
  BY InitEstablishes, StepPreserves, PTL DEF Spec

-----------------------------------------------------------------------------
(* Every variable keeps its type, among them the template of the pods,     *)
(* which is never ahead of the last second in which they were restarted.   *)
THEOREM TypeCorrect == Spec => []TypeOK
  <1>1. IInv => TypeOK
    BY DEF IInv
  <1>2. QED
    BY <1>1, Inductive, PTL

(* Requests of any number that change a part one after the other lose no   *)
(* key of each other, although each writes the whole map it has read, and  *)
(* whatever statements fail: only two that overlap can.                    *)
THEOREM NoKeyLost == Spec => []RowKept
  <1>1. IInv => RowKept
    BY DEF IInv
  <1>2. QED
    BY <1>1, Inductive, PTL

(* When all changes of a part have come to their ends, one after the       *)
(* other, without faults and after a deploy, the cluster has what the row  *)
(* says.                                                                   *)
THEOREM Converged == Spec => []ClusterFollowsRow
  <1>1. ASSUME IInv, NEW p \in Parts, Quiet(p) PROVE Follows(p, object[p].data, row[p])
    BY <1>1 DEF IInv, Synced, Quiet, Changes
  <1>2. IInv => ClusterFollowsRow
    BY <1>1 DEF ClusterFollowsRow, Follows, Parts
  <1>3. QED
    BY <1>2, Inductive, PTL

(* Only a deploy that has written the CR, or a job that has found an       *)
(* object the controller made for the CR, shows a worker active.           *)
THEOREM DeployedBeforeActive == Spec => []ActiveWasDeployed
  <1>1. IInv => ActiveWasDeployed
    BY DEF IInv, Deployed, ActiveWasDeployed
  <1>2. QED
    BY <1>1, Inductive, PTL
=============================================================================

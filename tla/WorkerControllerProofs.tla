------------------------ MODULE WorkerControllerProofs -----------------------
(***************************************************************************)
(* Theorems of WorkerController, for every number of specs and faults and  *)
(* every set of scenarios.                                                 *)
(***************************************************************************)
EXTENDS WorkerController, SequenceTheorems, TLAPS

(***************************************************************************)
(* Types.  A snapshot of the CR, whether the API server's, a change on its *)
(* way or the cached one, is NoCR or has a spec and a generation; a        *)
(* handler is idle, reconciles a spec, or deletes.                         *)
(***************************************************************************)
Versions == {NoCR} \cup [spec : 1..lastSpec, gen : 1..lastSpec]

Works == [stage : {"idle"} \cup StatusStages \cup Kinds,
          call  : {"none", "get", "create", "update", "delete"},
          spec  : 0..lastSpec, fresh : BOOLEAN]

Fits(w) ==
  /\ w.stage = "idle" <=> w.call = "none"
  /\ w.spec = 0 <=> w.call \in {"none", "delete"}
  /\ w.spec = 0 => w.fresh = FALSE
  /\ w.call \in {"create", "delete"} => w.stage \in Kinds

Types ==
  /\ phase \in {"none", "Deploying", "Running", "Failed"}
  /\ lastSpec \in 0..MaxSpec
  /\ cr \in Versions /\ crCache \in Versions
  /\ watch \in Seq(Versions) /\ notices \in Seq(0..lastSpec)
  /\ object \in [Kinds -> 0..lastSpec]
  /\ listed \subseteq Handlers
  /\ deleted \in [Watched -> Nat]
  /\ work \in [Handlers -> Works] /\ \A h \in Handlers : Fits(work[h])
  /\ happened \subseteq FaultKinds /\ faults \in 0..MaxFaults

(***************************************************************************)
(* The informer of the CR.  What it has stored, followed by the changes it *)
(* has not, leads to the CR of the API server, one generation at a time;   *)
(* and when the last thing its handlers were told is that the CR is gone,  *)
(* it is not in the cache.                                                 *)
(***************************************************************************)
Store(i) == IF i = 0 THEN crCache ELSE watch[i]

Chain ==
  /\ "CR" \in listed => Store(Len(watch)) = cr
  /\ \A i \in 1..Len(watch) : Store(i) # NoCR /\ Store(i - 1) # NoCR =>
       Store(i).gen = Store(i - 1).gen + 1

Unlisted ==
  "CR" \notin listed =>
    watch = <<>> /\ notices = <<>> /\ crCache = NoCR /\ work["CR"] = Idle

ToldGone == IF notices = <<>> THEN work["CR"].call = "delete" ELSE notices[Len(notices)] = 0

Status ==
  /\ cr # NoCR => cr.spec = lastSpec
  /\ phase # "none" => cr # NoCR
  /\ \A h \in Handlers : work[h].stage \in StatusStages /\ work[h].fresh => cr # NoCR

IInv == Types /\ Chain /\ Unlisted /\ (ToldGone => crCache = NoCR) /\ Status

(* The objects a reconciliation and a deletion have before them.           *)
Ahead == [idle |-> {}, deploying |-> Kinds, ConfigMap |-> Kinds, Secret |-> Kinds \ {"ConfigMap"},
          Deployment |-> Watched, Service |-> Watched \ {"Deployment"},
          IngressRoute |-> {"IngressRoute"}, running |-> {}, failed |-> {}]
Still == [Deployment |-> Kinds, Service |-> Kinds \ {"Deployment"},
          ConfigMap |-> Kinds \ {"Deployment", "Service"},
          Secret |-> {"Secret", "IngressRoute"}, IngressRoute |-> {"IngressRoute"}]

(***************************************************************************)
(* A CR that was never deleted, among objects nobody deletes: only the     *)
(* handlers of the CR have work.                                           *)
(***************************************************************************)
Quiet == happened \subseteq {"api", "restart", "relist"} /\ (cr # NoCR \/ lastSpec = 0)

OnlyCR ==
  /\ \A k \in Watched : work[k] = Idle /\ deleted[k] = 0
  /\ cr.spec = cr.gen /\ crCache.spec = crCache.gen
  /\ \A i \in 1..Len(watch) : watch[i] # NoCR /\ watch[i].spec = watch[i].gen
  /\ \A i \in 1..Len(notices) : notices[i] # 0
  /\ work["CR"].call # "delete"
  /\ notices # <<>> => notices[Len(notices)] = crCache.spec

(* Objects with a spec of their own, and those that are only there.        *)
Made(done, spec) ==
  /\ \A k \in done : object[k] # 0
  /\ \A k \in done \cap {"Deployment", "IngressRoute"} : object[k] = spec

Reconciled(w) ==
  /\ w.stage \in Kinds \cup {"running"} => Made(Kinds \ Ahead[w.stage], w.spec)
  /\ w.call = "create" => object[w.stage] = 0
  /\ w.call = "update" /\ w.stage \in Kinds =>
       object[w.stage] # 0 /\ (w.stage = "IngressRoute" => w.fresh)
  /\ w.stage = "running" /\ w.call = "update" => w.fresh \/ w.spec < lastSpec

CRFollowed(w) ==
  /\ w.stage # "failed"
  /\ notices = <<>> /\ crCache # NoCR =>
       \/ w.spec = crCache.spec
       \/ /\ w = Idle /\ Made(Kinds, crCache.spec)
          /\ crCache.spec = lastSpec => phase = "Running"

QInv ==
  Quiet =>
    /\ OnlyCR
    /\ Reconciled(work["CR"])
    /\ phase = "Running" => Complete
    /\ "api" \notin happened => CRFollowed(work["CR"])

(***************************************************************************)
(* Without faults, after the CR is gone.                                   *)
(***************************************************************************)
Over == cr = NoCR /\ crCache = NoCR /\ watch = <<>> /\ lastSpec # 0

(* Nobody else has work, and deletions are only reported once the CR is    *)
(* gone; its deletion is the last change, which its handlers hear last.    *)
CRGoneLast ==
  /\ \A k \in Watched : work[k] = Idle /\ (deleted[k] # 0 => Over)
  /\ \A i \in 1..Len(watch) : watch[i] = NoCR => i = Len(watch) /\ Store(i - 1) # NoCR
  /\ \A i \in 1..Len(notices) : notices[i] = 0 => i = Len(notices) /\ Over

(* What DeleteAll has passed is gone, and when it has passed everything,   *)
(* or was never needed, there is nothing.                                  *)
Nothing == \A k \in Kinds : object[k] = 0

Emptying(w) ==
  w.call = "delete" => Over /\ notices = <<>> /\ \A k \in Kinds \ Still[w.stage] : object[k] = 0

NInv ==
  happened = {} =>
    /\ CRGoneLast /\ Emptying(work["CR"])
    /\ "CR" \notin listed => Nothing
    /\ cr = NoCR /\ crCache = NoCR /\ watch = <<>> =>
         ToldGone \/ (notices = <<>> /\ work["CR"] = Idle /\ Nothing)

(***************************************************************************)
(* Only the handlers of the CR delete.  An object that is missing is on    *)
(* its way: a reconciliation is to come, or one is under way that has the  *)
(* object before it and will not stop at the object it is about to write.  *)
(***************************************************************************)
Carries(w, k) ==
  /\ w.call # "delete" /\ k \in Ahead[w.stage]
  /\ w.call = "create" => object[w.stage] = 0
  /\ w.call = "update" /\ w.stage \in Kinds => object[w.stage] # 0

Coming(k) ==
  \/ "CR" \notin listed \/ watch # <<>>
  \/ \E i \in 1..Len(notices) : notices[i] # 0
  \/ \E j \in Watched : deleted[j] # 0
  \/ \E h \in Handlers : Carries(work[h], k)

HInv ==
  /\ \A k \in Watched : work[k].call # "delete"
  /\ happened \subseteq {"subDelete", "restart", "recreate"} /\ cr # NoCR =>
       \A k \in Watched : object[k] # 0 \/ Coming(k)

-----------------------------------------------------------------------------
(***************************************************************************)
(* Sequences and stages.                                                   *)
(***************************************************************************)
LEMMA Pushed ==
  ASSUME NEW S, NEW s \in Seq(S), NEW e \in S,
         NEW t, t = Append(s, e) \/ t = s \o <<e>>
  PROVE  /\ t \in Seq(S) /\ t # <<>> /\ Len(t) = Len(s) + 1 /\ t[Len(t)] = e
         /\ \A i \in 1..Len(s) : t[i] = s[i]
  OBVIOUS

LEMMA Shifted ==
  ASSUME NEW S, NEW s \in Seq(S), s # <<>>
  PROVE  /\ Head(s) \in S /\ Head(s) = s[1] /\ Len(s) \in Nat \ {0}
         /\ Tail(s) \in Seq(S) /\ Len(Tail(s)) = Len(s) - 1
         /\ \A i \in 1..Len(Tail(s)) : Tail(s)[i] = s[i + 1]
         /\ Tail(s) = <<>> <=> Len(s) = 1
  <1>1. Head(s) = s[1] /\ Len(s) \in Nat \ {0}
    OBVIOUS
  <1>2. /\ Head(s) \in S /\ Tail(s) \in Seq(S) /\ Len(Tail(s)) = Len(s) - 1
        /\ \A i \in 1..Len(Tail(s)) : Tail(s)[i] = s[i + 1]
    BY HeadTailProperties
  <1>3. Tail(s) = <<>> <=> Len(Tail(s)) = 0
    BY <1>2, EmptySeq
  <1>4. QED
    BY <1>1, <1>2, <1>3

LEMMA Stages ==
  /\ \A s \in Kinds \cup {"deploying"} :
       /\ NextStage[s] \in Kinds \cup {"running"}
       /\ Ahead[NextStage[s]] = Ahead[s] \ {s}
  /\ \A s \in {"running", "failed"} : NextStage[s] = "idle"
  BY DEF NextStage, Ahead, Kinds, Watched

(* A handler that fits and is idle is Idle; what it does next; and what     *)
(* another one's write leaves of it.                                       *)
LEMMA Idles ==
  ASSUME NEW w \in Works, Fits(w)
  PROVE  w = Idle <=> w.stage = "idle"
  BY DEF Works, Fits, Idle

LEMMA Entered ==
  ASSUME lastSpec \in Nat, NEW h \in Handlers, work[h] \in Works, Fits(work[h]), work[h].call \in {"get", "create", "update"},
         NEW stage \in StatusStages \cup Kinds \cup {"idle"}
  PROVE  /\ Enter(h, stage) \in Works /\ Fits(Enter(h, stage)) /\ work[h].spec \in 1..lastSpec
         /\ stage = "idle" => Enter(h, stage) = Idle
         /\ stage # "idle" =>
              Enter(h, stage) = [stage |-> stage, call |-> "get", spec |-> work[h].spec, fresh |-> FALSE]
  <1>1. CASE stage = "idle"
    BY <1>1 DEF Enter, Works, Fits, Idle
  <1>2. CASE stage # "idle"
    <2>1. Enter(h, stage) = [stage |-> stage, call |-> "get", spec |-> work[h].spec, fresh |-> FALSE]
      BY <1>2 DEF Enter, Works
    <2>2. QED
      BY <1>2, <2>1 DEF Works, Fits
  <1>3. QED
    BY <1>1, <1>2

LEMMA Outdated ==
  ASSUME NEW w, w \in [Handlers -> Works], NEW stages, NEW h \in Handlers, Fits(w[h]),
         NEW o, o = Outdate(w, stages)[h]
  PROVE  /\ o \in Works /\ Fits(o)
         /\ o.stage = w[h].stage /\ o.call = w[h].call /\ o.spec = w[h].spec
         /\ o.fresh => w[h].fresh /\ w[h].stage \notin stages
         /\ w[h].stage \notin stages => o = w[h]
  <1>1. o = IF w[h].stage \in stages THEN [w[h] EXCEPT !.fresh = FALSE] ELSE w[h]
    BY DEF Outdate
  <1>2. w[h] \in Works
    OBVIOUS
  <1>3. CASE w[h].stage \in stages
    <2>1. o = [stage |-> w[h].stage, call |-> w[h].call, spec |-> w[h].spec, fresh |-> FALSE]
      BY <1>1, <1>2, <1>3 DEF Works
    <2>2. QED
      BY <1>2, <1>3, <2>1 DEF Works, Fits
  <1>4. CASE w[h].stage \notin stages
    BY <1>1, <1>2, <1>4
  <1>5. QED
    BY <1>3, <1>4

LEMMA Occurred ==
  ASSUME happened \subseteq FaultKinds, faults \in 0..MaxFaults, NEW f, Occurs(f) \/ UNCHANGED history
  PROVE  /\ happened' \subseteq FaultKinds /\ faults' \in 0..MaxFaults
         /\ happened \subseteq happened' /\ (f \in happened' \/ happened' = happened)
  BY ControllerAssumption DEF Occurs, history

(* What a snapshot is.                                                     *)
LEMMA Snapshots ==
  ASSUME lastSpec \in Nat, NEW v \in Versions
  PROVE  /\ v.spec \in 0..lastSpec /\ v.gen \in 0..lastSpec
         /\ v = NoCR <=> v.spec = 0
         /\ v = NoCR <=> v.gen = 0
  BY DEF Versions, NoCR

LEMMA Noticed ==
  ASSUME NEW old, NEW new
  PROVE  \/ /\ Notice(old, new) = <<>>
            /\ (old = NoCR /\ new = NoCR) \/ (old # NoCR /\ new # NoCR /\ old.gen = new.gen)
         \/ Notice(old, new) = <<new.spec>> /\ Notice(old, new) # <<>> /\ new # old
  BY DEF Notice, NoCR

-----------------------------------------------------------------------------
(***************************************************************************)
(* Types, and what the informer of the CR knows.                           *)
(***************************************************************************)
LEMMA TypesImplyTypeOK == ASSUME Types PROVE TypeOK
  <1>1. lastSpec \in Nat /\ Versions \subseteq Snapshot /\ 0..lastSpec \subseteq 0..MaxSpec
    BY ControllerAssumption DEF Types, Versions, NoCR, Snapshot
  <1>2. watch \in Seq(Snapshot) /\ notices \in Seq(0..MaxSpec)
    BY <1>1, SeqMonotonic DEF Types
  <1>3. cr = NoCR <=> cr.spec = 0
    BY <1>1, Snapshots DEF Types
  <1>4. \A h \in Handlers : work[h].spec = 0 <=> work[h].call \in {"none", "delete"}
    BY DEF Types, Fits
  <1>5. object \in [Kinds -> 0..MaxSpec]
    BY <1>1 DEF Types
  <1>6. QED
    BY <1>1, <1>2, <1>3, <1>4, <1>5 DEF Types, TypeOK, Works

LEMMA InitIInv == Init => IInv
  <1> SUFFICES ASSUME Init PROVE IInv
    OBVIOUS
  <1>1. Idle \in Works /\ Fits(Idle)
    BY DEF Init, Works, Fits, Idle
  <1>2. Types
    BY <1>1, ControllerAssumption DEF Init, Types, Versions
  <1>3. Len(watch) = 0 /\ "CR" \in Handlers
    BY DEF Init, Handlers
  <1>5. Chain
    BY <1>3 DEF Init, Chain, Store
  <1>6. Unlisted /\ (ToldGone => crCache = NoCR)
    BY <1>3 DEF Init, Unlisted, ToldGone
  <1>4. Status
    BY DEF Init, Status, Idle
  <1>7. QED
    BY <1>2, <1>4, <1>5, <1>6 DEF IInv

LEMMA Outdates ==
  ASSUME Types, NEW stages, work' = Outdate(work, stages)
  PROVE  work' \in [Handlers -> Works] /\ \A h \in Handlers : Fits(work'[h])
  <1>1. ASSUME NEW h \in Handlers PROVE work'[h] \in Works /\ Fits(work'[h])
    BY Outdated DEF Types
  <1>2. work' = [h \in Handlers |-> work'[h]]
    BY DEF Outdate
  <1>3. QED
    BY <1>1, <1>2

LEMMA CRChangesKeeps ==
  ASSUME IInv, NEW c, CRChanges(c), lastSpec' \in Nat, lastSpec <= lastSpec', lastSpec' <= MaxSpec,
         c \in Versions', c # NoCR => c.spec = lastSpec' /\ c.gen = cr.gen + 1,
         phase' = "none" \/ (phase' = phase /\ c # NoCR),
         happened' \subseteq FaultKinds, faults' \in 0..MaxFaults
  PROVE  IInv'
  <1> USE DEF IInv
  <1>1. /\ lastSpec \in Nat /\ Versions \subseteq Versions' /\ Works \subseteq Works'
        /\ 0..lastSpec \subseteq 0..lastSpec'
    BY DEF Types, Versions, Works
  <1>2. /\ work' = Outdate(work, StatusStages) /\ cr' = c
        /\ UNCHANGED <<object, listed, crCache, notices, deleted>>
        /\ watch' = IF "CR" \in listed THEN Append(watch, c) ELSE watch
    BY DEF CRChanges
  <1>3. ASSUME NEW h \in Handlers
        PROVE  /\ work'[h].stage = work[h].stage /\ work'[h].call = work[h].call
               /\ work'[h].fresh => work'[h].stage \notin StatusStages
               /\ work[h].stage \notin StatusStages => work'[h] = work[h]
    <2>1. /\ work \in [Handlers -> Works] /\ Fits(work[h])
          /\ work'[h] = Outdate(work, StatusStages)[h]
      BY <1>2 DEF Types
    <2>2. QED
      BY <2>1, Outdated
  <1>4. watch \in Seq(Versions') /\ notices \in Seq(0..lastSpec')
    BY <1>1, SeqMonotonic DEF Types
  <1>5. watch' \in Seq(Versions')
    BY <1>2, <1>4
  <1>6. Types'
    <2>1. work' \in [Handlers -> Works'] /\ \A h \in Handlers : Fits(work'[h])
      BY <1>1, <1>2, Outdates
    <2>2. object' \in [Kinds -> 0..lastSpec'] /\ crCache' \in Versions'
      BY <1>1, <1>2 DEF Types
    <2>3. (Versions)' = Versions' /\ lastSpec' \in 0..MaxSpec
      BY ControllerAssumption
    <2>4. QED
      BY <1>2, <1>4, <1>5, <2>1, <2>2, <2>3 DEF Types
  <1>7. Chain'
    <2>1. CASE "CR" \in listed
      <3> DEFINE n == Len(watch)
      <3>0. n \in Nat
        BY <1>4
      <3>1. /\ watch' # <<>> /\ Len(watch') = n + 1 /\ watch'[n + 1] = c
            /\ \A i \in 1..n : watch'[i] = watch[i]
        BY <1>2, <1>4, <2>1, Pushed
      <3>2. crCache' = crCache /\ (IF n = 0 THEN crCache ELSE watch[n]) = cr
        BY <1>2, <2>1 DEF Store, Chain
      <3>3. \A i \in 1..n : watch[i] # NoCR /\ (IF i - 1 = 0 THEN crCache ELSE watch[i - 1]) # NoCR =>
              watch[i].gen = (IF i - 1 = 0 THEN crCache ELSE watch[i - 1]).gen + 1
        BY <3>0 DEF Store, Chain
      <3> HIDE DEF n
      <3>4. ASSUME NEW i \in 1..(n + 1), watch'[i] # NoCR,
                   (IF i - 1 = 0 THEN crCache' ELSE watch'[i - 1]) # NoCR
            PROVE  watch'[i].gen = (IF i - 1 = 0 THEN crCache' ELSE watch'[i - 1]).gen + 1
        <4>1. CASE i \in 1..n
          <5>1. watch'[i] = watch[i] /\ (i - 1 # 0 => watch'[i - 1] = watch[i - 1])
            BY <3>0, <3>1, <4>1
          <5>2. QED
            BY <3>2, <3>3, <3>4, <4>1, <5>1
        <4>2. CASE i = n + 1
          <5>1. i - 1 = n /\ (n # 0 => watch'[n] = watch[n]) /\ watch'[i] = c
            BY <3>0, <3>1, <4>2
          <5>2. QED
            BY <3>2, <3>4, <5>1
        <4>3. QED
          BY <3>0, <4>1, <4>2
      <3>5. (IF Len(watch') = 0 THEN crCache' ELSE watch'[Len(watch')]) = cr'
        BY <1>2, <3>0, <3>1
      <3>6. QED
        BY <3>0, <3>1, <3>4, <3>5 DEF Chain, Store
    <2>2. CASE "CR" \notin listed
      BY <1>2, <2>2 DEF Chain, Unlisted
    <2>3. QED
      BY <2>1, <2>2
  <1>8. Unlisted'
    <2>1. work["CR"] = Idle => work'["CR"] = Idle
      <3>1. "CR" \in Handlers /\ Idle.stage \notin StatusStages
        BY DEF Handlers, Idle, StatusStages
      <3>2. QED
        BY <1>3, <3>1
    <2>2. QED
      BY <1>2, <2>1 DEF Unlisted
  <1>9. (ToldGone => crCache = NoCR)'
    BY <1>2, <1>3 DEF ToldGone, Handlers
  <1>10. Status'
    BY <1>2, <1>3 DEF Status
  <1>11. QED
    BY <1>6, <1>7, <1>8, <1>9, <1>10

LEMMA WriteSpecKeeps == ASSUME IInv, WriteSpec PROVE IInv'
  <1>1. lastSpec \in Nat /\ lastSpec' = lastSpec + 1 /\ lastSpec + 1 <= MaxSpec /\ phase' = phase
    BY ControllerAssumption DEF IInv, Types, WriteSpec
  <1>2. cr.gen \in 0..lastSpec
    BY <1>1, Snapshots DEF IInv, Types
  <1>3. PICK c : c = [spec |-> lastSpec + 1, gen |-> cr.gen + 1]
    OBVIOUS
  <1>4. c \in Versions' /\ c # NoCR /\ c.spec = lastSpec' /\ c.gen = cr.gen + 1
    BY <1>1, <1>2, <1>3 DEF Versions, NoCR
  <1>5. happened' \subseteq FaultKinds /\ faults' \in 0..MaxFaults
    BY Occurred DEF WriteSpec, IInv, Types
  <1>6. CRChanges(c)
    BY <1>3 DEF WriteSpec
  <1>7. QED
    BY <1>1, <1>4, <1>5, <1>6, CRChangesKeeps

LEMMA DeleteCRKeeps == ASSUME IInv, DeleteCR PROVE IInv'
  <1>1. lastSpec \in Nat /\ lastSpec' = lastSpec /\ lastSpec <= MaxSpec
    BY ControllerAssumption DEF IInv, Types, DeleteCR
  <1>2. NoCR \in Versions'
    BY DEF Versions
  <1>3. happened' \subseteq FaultKinds /\ faults' \in 0..MaxFaults
    BY DEF DeleteCR, IInv, Types, history
  <1>4. CRChanges(NoCR) /\ phase' = "none"
    BY DEF DeleteCR
  <1>5. QED
    BY <1>1, <1>2, <1>3, <1>4, CRChangesKeeps

(* Steps that neither the CR nor its informer takes part in.               *)
LEMMA StepKeeps ==
  ASSUME IInv, UNCHANGED <<cr, lastSpec, listed, watch, crCache, notices>>,
         work' \in [Handlers -> Works], \A h \in Handlers : Fits(work'[h]),
         work["CR"] = Idle => work'["CR"] = Idle,
         work'["CR"].call = "delete" => work["CR"].call = "delete",
         \A h \in Handlers : work'[h].stage \in StatusStages /\ work'[h].fresh => cr # NoCR,
         phase' \in {"none", "Deploying", "Running", "Failed"}, phase' # "none" => cr # NoCR,
         object' \in [Kinds -> 0..lastSpec], deleted' \in [Watched -> Nat],
         happened' \subseteq FaultKinds, faults' \in 0..MaxFaults
  PROVE  IInv'
  <1> USE DEF IInv
  <1>1. Types'
    BY DEF Types, Versions, Works
  <1>2. Chain'
    BY DEF Chain, Store
  <1>3. Unlisted' /\ (ToldGone => crCache = NoCR)' /\ Status'
    BY DEF Unlisted, ToldGone, Status
  <1>4. QED
    BY <1>1, <1>2, <1>3

LEMMA Going ==
  ASSUME Types, NEW k \in Kinds, Gone(k)
  PROVE  /\ object' \in [Kinds -> 0..lastSpec] /\ deleted' \in [Watched -> Nat]
         /\ object'[k] = 0 /\ \A j \in Kinds \ {k} : object'[j] = object[j]
         /\ \A j \in Watched : deleted'[j] = deleted[j] \/ (j = k /\ k \in listed /\ deleted'[j] # 0)
         /\ k \in Watched \cap listed /\ object[k] # 0 => deleted'[k] # 0
         /\ \A j \in Watched : deleted[j] # 0 => deleted'[j] # 0
         /\ UNCHANGED <<cr, phase, lastSpec, listed, watch, crCache, notices>>
  <1>1. lastSpec \in Nat /\ object \in [Kinds -> 0..lastSpec] /\ listed \subseteq Handlers
        /\ deleted \in [Watched -> Nat]
    BY ControllerAssumption DEF Types
  <1>2. k \in listed => k \in Watched
    BY <1>1 DEF Kinds, Watched, Handlers
  <1>3. QED
    BY <1>1, <1>2 DEF Gone

LEMMA DeleteObjectKeeps == ASSUME IInv, NEW k \in Watched, DeleteObject(k) PROVE IInv'
  <1>1. k \in Kinds /\ Gone(k) /\ work' = Outdate(work, {k})
    BY DEF DeleteObject, Kinds
  <1>2. /\ object' \in [Kinds -> 0..lastSpec] /\ deleted' \in [Watched -> Nat]
        /\ UNCHANGED <<cr, phase, lastSpec, listed, watch, crCache, notices>>
    BY <1>1, Going DEF IInv
  <1>3. work' \in [Handlers -> Works] /\ \A h \in Handlers : Fits(work'[h])
    BY <1>1, Outdates DEF IInv
  <1>4. ASSUME NEW h \in Handlers
        PROVE  /\ work'[h].stage = work[h].stage /\ work'[h].call = work[h].call
               /\ work'[h].fresh => work[h].fresh
               /\ work[h].stage # k => work'[h] = work[h]
    <2>1. work'[h] = Outdate(work, {k})[h] /\ work \in [Handlers -> Works] /\ Fits(work[h])
      BY <1>1 DEF IInv, Types
    <2>2. QED
      BY <2>1, Outdated
  <1>5. work["CR"] = Idle => work'["CR"] = Idle
    BY <1>4 DEF Handlers, Idle, Watched
  <1>6. happened' \subseteq FaultKinds /\ faults' \in 0..MaxFaults
    BY Occurred DEF DeleteObject, IInv, Types
  <1>7. work'["CR"].call = "delete" => work["CR"].call = "delete"
    BY <1>4 DEF Handlers
  <1>8. \A h \in Handlers : work'[h].stage \in StatusStages /\ work'[h].fresh => cr # NoCR
    BY <1>4 DEF IInv, Status
  <1>9. phase' \in {"none", "Deploying", "Running", "Failed"} /\ (phase' # "none" => cr # NoCR)
    BY <1>2 DEF IInv, Status, Types
  <1>10. QED
    BY <1>2, <1>3, <1>5, <1>6, <1>7, <1>8, <1>9, StepKeeps

LEMMA ListKeeps == ASSUME IInv, NEW i \in Handlers, List(i) PROVE IInv'
  <1> USE DEF IInv
  <1>1. /\ UNCHANGED <<cr, phase, lastSpec, object, watch, deleted, work, happened, faults>>
        /\ i \notin listed /\ listed' = listed \cup {i} /\ lastSpec \in Nat
    BY ControllerAssumption DEF List, apiVars, history, Types
  <1>2. Versions' = Versions /\ Works' = Works /\ Status'
    BY <1>1 DEF Versions, Works, Status
  <1>3. CASE i = "CR"
    <2>1. /\ crCache' = cr /\ notices' = Notice(NoCR, cr) /\ watch = <<>> /\ work["CR"] = Idle
      BY <1>1, <1>3 DEF List, Unlisted
    <2>2. NoCR \in Versions /\ cr \in Versions /\ <<>> \in Seq(0..lastSpec) /\ NoCR.spec = 0
      BY DEF Versions, Types, NoCR
    <2>3. notices' \in Seq(0..lastSpec) /\ (cr = NoCR => notices' = <<>>)
          /\ (cr # NoCR => notices' = <<cr.spec>> /\ cr.spec # 0)
      <3>1. cr = NoCR => notices' = <<>>
        BY <2>1 DEF Notice
      <3>2. cr # NoCR => notices' = <<cr.spec>>
        BY <2>1 DEF Notice
      <3>3. cr.spec \in 0..lastSpec /\ (cr # NoCR => cr.spec # 0)
        BY <1>1, <2>2, Snapshots
      <3>4. <<cr.spec>> \in Seq(0..lastSpec)
        BY <3>3
      <3>5. QED
        BY <2>2, <3>1, <3>2, <3>3, <3>4
    <2>4. Types'
      BY <1>1, <1>2, <2>1, <2>2, <2>3 DEF Types
    <2>5. Chain' /\ Unlisted'
      BY <1>1, <1>3, <2>1 DEF Chain, Unlisted, Store
    <2>6. (ToldGone => crCache = NoCR)'
      BY <1>1, <2>1, <2>3 DEF ToldGone, Idle
    <2>7. QED
      BY <1>2, <2>4, <2>5, <2>6
  <1>4. CASE i # "CR"
    <2>1. UNCHANGED <<crCache, notices>>
      BY <1>4 DEF List
    <2>2. Types'
      BY <1>1, <1>2, <2>1 DEF Types
    <2>3. Chain' /\ Unlisted' /\ (ToldGone => crCache = NoCR)'
      BY <1>1, <1>4, <2>1 DEF Chain, Unlisted, Store, ToldGone
    <2>4. QED
      BY <1>2, <2>2, <2>3
  <1>5. QED
    BY <1>3, <1>4

(* What the informer stores next, and what it tells its handlers.          *)
LEMMA Observed ==
  ASSUME IInv, Observe
  PROVE  /\ Len(watch) \in Nat \ {0} /\ crCache' = watch[1] /\ watch[1] \in Versions
         /\ watch' \in Seq(Versions) /\ Len(watch') = Len(watch) - 1
         /\ \A i \in 1..Len(watch') : watch'[i] = watch[i + 1]
         /\ watch' = <<>> <=> Len(watch) = 1
         /\ watch[1] # NoCR /\ crCache # NoCR => watch[1].gen = crCache.gen + 1
         /\ notices' \in Seq(0..lastSpec) /\ \A i \in 1..Len(notices) : notices'[i] = notices[i]
         /\ \/ notices' = notices /\ crCache = NoCR /\ crCache' = NoCR
            \/ /\ notices' # <<>> /\ Len(notices') = Len(notices) + 1
               /\ notices'[Len(notices')] = crCache'.spec
         /\ "CR" \in listed /\ watch # <<>>
         /\ UNCHANGED <<apiVars, listed, deleted, work, history>>
  <1> USE DEF IInv
  <1>1. /\ watch # <<>> /\ watch' = Tail(watch) /\ crCache' = Head(watch)
        /\ notices' = notices \o Notice(crCache, Head(watch))
        /\ UNCHANGED <<apiVars, listed, deleted, work, history>>
    BY DEF Observe
  <1>2. watch \in Seq(Versions) /\ notices \in Seq(0..lastSpec) /\ crCache \in Versions /\ lastSpec \in Nat
    BY ControllerAssumption DEF Types
  <1>3. /\ Head(watch) \in Versions /\ Head(watch) = watch[1] /\ Len(watch) \in Nat \ {0}
        /\ Tail(watch) \in Seq(Versions) /\ Len(Tail(watch)) = Len(watch) - 1
        /\ \A i \in 1..Len(Tail(watch)) : Tail(watch)[i] = watch[i + 1]
        /\ Tail(watch) = <<>> <=> Len(watch) = 1
    BY <1>1, <1>2, Shifted
  <1>4. watch[1] # NoCR /\ crCache # NoCR => watch[1].gen = crCache.gen + 1
    <2>1. 1 \in 1..Len(watch) /\ 1 - 1 = 0 /\ 1 # 0
      BY <1>3
    <2>2. Store(1) # NoCR /\ Store(0) # NoCR => Store(1).gen = Store(0).gen + 1
      BY <2>1 DEF Chain
    <2>3. QED
      BY <2>2 DEF Store
  <1>5. watch[1] # NoCR /\ crCache # NoCR => watch[1].gen # crCache.gen
    <2>1. crCache.gen \in Nat
      BY <1>2, Snapshots
    <2>2. QED
      BY <1>4, <2>1
  <1>6. /\ notices' \in Seq(0..lastSpec) /\ \A i \in 1..Len(notices) : notices'[i] = notices[i]
        /\ \/ /\ notices' = notices
              /\ (crCache = NoCR /\ Head(watch) = NoCR)
                 \/ (crCache # NoCR /\ Head(watch) # NoCR /\ crCache.gen = Head(watch).gen)
           \/ /\ notices' # <<>> /\ Len(notices') = Len(notices) + 1
              /\ notices'[Len(notices')] = Head(watch).spec
    <2>1. Head(watch).spec \in 0..lastSpec
      BY <1>2, <1>3, Snapshots
    <2>2. CASE Notice(crCache, Head(watch)) = <<>>
      <3>1. notices' = notices
        BY <1>1, <1>2, <2>2, ConcatEmptySeq
      <3>2. (crCache = NoCR /\ Head(watch) = NoCR)
            \/ (crCache # NoCR /\ Head(watch) # NoCR /\ crCache.gen = Head(watch).gen)
        BY <2>2, Noticed
      <3>3. QED
        BY <1>2, <3>1, <3>2
    <2>3. CASE Notice(crCache, Head(watch)) = <<Head(watch).spec>>
      <3>1. notices' = notices \o <<Head(watch).spec>>
        BY <1>1, <2>3
      <3>2. QED
        BY <1>2, <2>1, <3>1, Pushed
    <2>4. QED
      BY <2>2, <2>3, Noticed
  <1>7. "CR" \in listed
    BY <1>1 DEF Unlisted
  <1>8. QED
    BY <1>1, <1>3, <1>4, <1>5, <1>6, <1>7

LEMMA ObserveKeeps == ASSUME IInv, Observe PROVE IInv'
  <1> USE DEF IInv
  <1> DEFINE n == Len(watch)
  <1>1. /\ n \in Nat \ {0} /\ crCache' = watch[1] /\ watch[1] \in Versions
        /\ watch' \in Seq(Versions) /\ Len(watch') = n - 1
        /\ \A i \in 1..(n - 1) : watch'[i] = watch[i + 1]
        /\ notices' \in Seq(0..lastSpec)
        /\ \/ notices' = notices /\ crCache = NoCR /\ crCache' = NoCR
           \/ notices' # <<>> /\ notices'[Len(notices')] = crCache'.spec
        /\ "CR" \in listed
        /\ UNCHANGED <<cr, phase, lastSpec, object, listed, deleted, work, happened, faults>>
    BY Observed DEF apiVars, history
  <1>2. lastSpec \in Nat
    BY ControllerAssumption DEF Types
  <1>3. Types'
    BY <1>1 DEF Types, Versions, Works
  <1>4. (IF n = 0 THEN crCache ELSE watch[n]) = cr
    BY <1>1 DEF Chain, Store
  <1>5. \A i \in 1..n : watch[i] # NoCR /\ (IF i - 1 = 0 THEN crCache ELSE watch[i - 1]) # NoCR =>
          watch[i].gen = (IF i - 1 = 0 THEN crCache ELSE watch[i - 1]).gen + 1
    BY <1>1 DEF Chain, Store
  <1> HIDE DEF n
  <1>6. Chain'
    <2>1. (IF Len(watch') = 0 THEN crCache' ELSE watch'[Len(watch')]) = cr'
      <3>1. n # 1 => n - 1 \in 1..(n - 1) /\ (n - 1) + 1 = n
        BY <1>1
      <3>2. QED
        BY <1>1, <1>4, <3>1
    <2>2. ASSUME NEW i \in 1..(n - 1)
          PROVE  /\ watch'[i] = watch[i + 1] /\ i + 1 \in 1..n /\ (i + 1) - 1 = i /\ i # 0
                 /\ (IF i - 1 = 0 THEN crCache' ELSE watch'[i - 1]) = watch[i]
      <3>1. CASE i = 1
        BY <1>1, <3>1
      <3>2. CASE i # 1
        <4>1. i - 1 \in 1..(n - 1) /\ (i - 1) + 1 = i
          BY <1>1, <3>2
        <4>2. QED
          BY <1>1, <4>1
      <3>3. QED
        BY <3>1, <3>2
    <2>3. \A i \in 1..Len(watch') : watch'[i] # NoCR /\ (IF i - 1 = 0 THEN crCache' ELSE watch'[i - 1]) # NoCR =>
            watch'[i].gen = (IF i - 1 = 0 THEN crCache' ELSE watch'[i - 1]).gen + 1
      <3> SUFFICES ASSUME NEW i \in 1..(n - 1), watch'[i] # NoCR,
                          (IF i - 1 = 0 THEN crCache' ELSE watch'[i - 1]) # NoCR
                   PROVE  watch'[i].gen = (IF i - 1 = 0 THEN crCache' ELSE watch'[i - 1]).gen + 1
        BY <1>1
      <3>1. watch[i + 1].gen = watch[i].gen + 1
        <4>1. watch[i + 1] # NoCR /\ watch[i] # NoCR /\ i + 1 \in 1..n /\ (i + 1) - 1 = i /\ i # 0
          BY <2>2
        <4>2. QED
          BY <1>5, <4>1
      <3>2. QED
        BY <2>2, <3>1
    <2>4. QED
      BY <1>1, <2>1, <2>3 DEF Chain, Store
  <1>7. Unlisted' /\ Status'
    BY <1>1 DEF Unlisted, Status
  <1>8. (ToldGone => crCache = NoCR)'
    BY <1>1, <1>2, Snapshots DEF ToldGone
  <1>9. QED
    BY <1>3, <1>6, <1>7, <1>8

LEMMA Relisted ==
  ASSUME IInv, NEW i \in Handlers, Relist(i)
  PROVE  /\ i \in listed /\ UNCHANGED <<apiVars, listed, work>>
         /\ \/ /\ i = "CR" /\ watch' = <<>> /\ crCache' = cr /\ UNCHANGED deleted
               /\ notices' \in Seq(0..lastSpec) /\ \A n \in 1..Len(notices) : notices'[n] = notices[n]
               /\ \/ /\ notices' = notices
                     /\ cr = NoCR \/ (crCache # NoCR /\ crCache.gen = cr.gen)
                  \/ /\ notices' # <<>> /\ Len(notices') = Len(notices) + 1
                     /\ notices'[Len(notices')] = cr.spec /\ cr # NoCR
            \/ /\ UNCHANGED <<watch, crCache, notices>> /\ deleted' \in [Watched -> Nat]
               /\ \A k \in Watched : deleted[k] = 0 => deleted'[k] = 0
  <1> USE DEF IInv
  <1>1. /\ cr \in Versions /\ crCache \in Versions /\ notices \in Seq(0..lastSpec) /\ lastSpec \in Nat
        /\ deleted \in [Watched -> Nat]
    BY ControllerAssumption DEF Types
  <1>2. i \in listed /\ UNCHANGED <<apiVars, listed, work>>
    BY DEF Relist
  <1>3. CASE /\ i = "CR" /\ watch' = <<>> /\ crCache' = cr /\ UNCHANGED deleted
             /\ notices' = IF cr = NoCR THEN notices ELSE notices \o Notice(crCache, cr)
    <2>1. CASE cr = NoCR
      BY <1>1, <1>2, <1>3, <2>1
    <2>2. CASE cr # NoCR /\ Notice(crCache, cr) = <<>>
      <3>1. notices' = notices
        BY <1>1, <1>3, <2>2, ConcatEmptySeq
      <3>2. crCache # NoCR /\ crCache.gen = cr.gen
        BY <2>2, Noticed
      <3>3. QED
        BY <1>1, <1>2, <1>3, <3>1, <3>2
    <2>3. CASE cr # NoCR /\ Notice(crCache, cr) = <<cr.spec>>
      <3>1. notices' = notices \o <<cr.spec>> /\ cr.spec \in 0..lastSpec
        BY <1>1, <1>3, <2>3, Snapshots
      <3>2. QED
        BY <1>1, <1>2, <1>3, <2>3, <3>1, Pushed
    <2>4. QED
      BY <2>1, <2>2, <2>3, Noticed
  <1>4. CASE /\ i \in Watched /\ UNCHANGED <<watch, crCache, notices>>
             /\ \E n \in 0..deleted[i] : deleted' = [deleted EXCEPT ![i] = n]
    <2>1. PICK n \in 0..deleted[i] : deleted' = [deleted EXCEPT ![i] = n]
      BY <1>4
    <2>2. deleted[i] \in Nat /\ n \in Nat /\ (deleted[i] = 0 => n = 0)
      BY <1>1, <1>4, <2>1
    <2>3. QED
      BY <1>1, <1>2, <1>4, <2>1, <2>2
  <1>5. QED
    BY <1>3, <1>4 DEF Relist

LEMMA RelistKeeps == ASSUME IInv, NEW i \in Handlers, Relist(i) PROVE IInv'
  <1> USE DEF IInv
  <1>1. /\ i \in listed /\ UNCHANGED <<cr, phase, lastSpec, object, listed, work>>
        /\ happened' \subseteq FaultKinds /\ faults' \in 0..MaxFaults
    BY Occurred DEF Relist, Types, apiVars
  <1>2. Status' /\ lastSpec \in Nat
    BY <1>1, ControllerAssumption DEF Status, Types
  <1>3. CASE /\ i = "CR" /\ watch' = <<>> /\ crCache' = cr /\ UNCHANGED deleted
             /\ notices' \in Seq(0..lastSpec)
             /\ \/ notices' = notices /\ (cr = NoCR \/ crCache # NoCR)
                \/ notices' # <<>> /\ notices'[Len(notices')] = cr.spec /\ cr # NoCR
    <2>1. Types'
      BY <1>1, <1>3 DEF Types, Versions, Works
    <2>2. Chain' /\ Unlisted'
      BY <1>1, <1>3 DEF Chain, Unlisted, Store
    <2>3. cr # NoCR => cr.spec # 0
      BY <1>2, Snapshots DEF Types
    <2>4. (ToldGone => crCache = NoCR)'
      BY <1>1, <1>3, <2>3 DEF ToldGone
    <2>5. QED
      BY <1>2, <2>1, <2>2, <2>4
  <1>4. CASE UNCHANGED <<watch, crCache, notices>> /\ deleted' \in [Watched -> Nat]
    <2>1. Types'
      BY <1>1, <1>4 DEF Types, Versions, Works
    <2>2. Chain' /\ Unlisted' /\ (ToldGone => crCache = NoCR)'
      BY <1>1, <1>4 DEF Chain, Unlisted, Store, ToldGone
    <2>3. QED
      BY <1>2, <2>1, <2>2
  <1>5. QED
    BY <1>3, <1>4, Relisted

LEMMA RestartKeeps == ASSUME IInv, Restart PROVE IInv'
  <1> USE DEF IInv
  <1>1. /\ UNCHANGED <<cr, phase, lastSpec, object>>
        /\ happened' \subseteq FaultKinds /\ faults' \in 0..MaxFaults
        /\ listed' = {} /\ watch' = <<>> /\ crCache' = NoCR /\ notices' = <<>>
        /\ deleted' = [k \in Watched |-> 0] /\ work' = [h \in Handlers |-> Idle]
    BY Occurred DEF Restart, Types, apiVars
  <1>2. lastSpec \in Nat /\ "CR" \in Handlers
    BY ControllerAssumption DEF Types, Handlers
  <1>3. Idle \in Works /\ Fits(Idle) /\ NoCR \in Versions
    BY <1>2 DEF Works, Fits, Idle, Versions
  <1>4. Types'
    BY <1>1, <1>3 DEF Types, Versions, Works
  <1>5. Chain' /\ Unlisted' /\ (ToldGone => crCache = NoCR)' /\ Status'
    BY <1>1, <1>2 DEF Chain, Unlisted, ToldGone, Status, Idle
  <1>6. QED
    BY <1>4, <1>5

(* What the handlers of the CR take from their queue.                      *)
LEMMA Taken ==
  ASSUME IInv, OnCR
  PROVE  /\ notices \in Seq(0..lastSpec) /\ lastSpec \in Nat /\ Len(notices) \in Nat \ {0}
         /\ notices[1] \in 0..lastSpec /\ notices' \in Seq(0..lastSpec)
         /\ Len(notices') = Len(notices) - 1
         /\ \A i \in 1..Len(notices') : notices'[i] = notices[i + 1]
         /\ notices' = <<>> <=> Len(notices) = 1
         /\ notices # <<>> /\ "CR" \in listed /\ work["CR"] = Idle
         /\ work' = [work EXCEPT !["CR"] = IF notices[1] = 0 THEN DeleteAll ELSE Reconcile(notices[1])]
         /\ UNCHANGED <<apiVars, listed, watch, crCache, deleted, history>>
  <1> USE DEF IInv
  <1>1. /\ work["CR"].stage = "idle" /\ notices # <<>> /\ notices' = Tail(notices)
        /\ work' = [work EXCEPT !["CR"] = IF Head(notices) = 0 THEN DeleteAll ELSE Reconcile(Head(notices))]
        /\ UNCHANGED <<apiVars, listed, watch, crCache, deleted, history>>
    BY DEF OnCR
  <1>2. notices \in Seq(0..lastSpec) /\ lastSpec \in Nat /\ "CR" \in Handlers
    BY ControllerAssumption DEF Types, Handlers
  <1>3. work["CR"] = Idle
    BY <1>1, <1>2, Idles DEF Types
  <1>4. "CR" \in listed
    BY <1>1 DEF Unlisted
  <1>5. QED
    BY <1>1, <1>2, <1>3, <1>4, Shifted

LEMMA Begun ==
  ASSUME lastSpec \in Nat, NEW s \in 0..lastSpec
  PROVE  /\ DeleteAll \in Works /\ Fits(DeleteAll)
         /\ s # 0 => Reconcile(s) \in Works /\ Fits(Reconcile(s))
  BY DEF DeleteAll, Reconcile, Works, Fits, StatusStages, Kinds, Watched

LEMMA OnCRKeeps == ASSUME IInv, OnCR PROVE IInv'
  <1> USE DEF IInv
  <1>1. /\ notices[1] \in 0..lastSpec /\ notices' \in Seq(0..lastSpec)
        /\ Len(notices) \in Nat \ {0} /\ Len(notices') = Len(notices) - 1
        /\ \A i \in 1..Len(notices') : notices'[i] = notices[i + 1]
        /\ notices' = <<>> <=> Len(notices) = 1
        /\ notices # <<>> /\ "CR" \in listed /\ lastSpec \in Nat
        /\ work' = [work EXCEPT !["CR"] = IF notices[1] = 0 THEN DeleteAll ELSE Reconcile(notices[1])]
        /\ UNCHANGED <<cr, phase, lastSpec, object, listed, watch, crCache, deleted, happened, faults>>
    BY Taken DEF apiVars, history
  <1>2. "CR" \in Handlers /\ work \in [Handlers -> Works] /\ \A h \in Handlers : Fits(work[h])
    BY DEF Types, Handlers
  <1>3. PICK w : /\ w \in Works /\ Fits(w) /\ work' = [work EXCEPT !["CR"] = w] /\ w.fresh = FALSE
                 /\ w.call = "delete" => notices[1] = 0
    <2>1. CASE notices[1] = 0
      BY <1>1, <2>1, Begun DEF DeleteAll
    <2>2. CASE notices[1] # 0
      <3>1. Reconcile(notices[1]) \in Works /\ Fits(Reconcile(notices[1]))
        BY <1>1, <2>2, Begun
      <3>2. work' = [work EXCEPT !["CR"] = Reconcile(notices[1])]
        BY <1>1, <2>2
      <3>3. Reconcile(notices[1]).fresh = FALSE /\ Reconcile(notices[1]).call = "get"
        BY DEF Reconcile
      <3>4. QED
        BY <3>1, <3>2, <3>3
    <2>3. QED
      BY <2>1, <2>2
  <1>4. /\ work' \in [Handlers -> Works] /\ work'["CR"] = w
        /\ \A h \in Handlers : h # "CR" => work'[h] = work[h]
    BY <1>2, <1>3
  <1>5. \A h \in Handlers : Fits(work'[h])
    BY <1>2, <1>3, <1>4
  <1>6. Types'
    BY <1>1, <1>4, <1>5 DEF Types, Versions, Works
  <1>7. Chain' /\ Unlisted'
    BY <1>1 DEF Chain, Unlisted, Store
  <1>8. (ToldGone => crCache = NoCR)'
    <2> SUFFICES ASSUME ToldGone' PROVE crCache = NoCR
      BY <1>1
    <2>1. CASE notices' = <<>>
      <3>1. notices[Len(notices)] = 0
        BY <1>1, <1>3, <1>4, <2>1 DEF ToldGone
      <3>2. QED
        BY <1>1, <3>1 DEF ToldGone
    <2>2. CASE notices' # <<>>
      <3>1. Len(notices') \in 1..Len(notices') /\ Len(notices') + 1 = Len(notices)
        BY <1>1, <2>2
      <3>2. notices[Len(notices)] = 0
        BY <1>1, <2>2, <3>1 DEF ToldGone
      <3>3. QED
        BY <1>1, <3>2 DEF ToldGone
    <2>3. QED
      BY <2>1, <2>2
  <1>9. Status'
    BY <1>1, <1>3, <1>4 DEF Status
  <1>10. QED
    BY <1>6, <1>7, <1>8, <1>9

-----------------------------------------------------------------------------
(***************************************************************************)
(* What a step of handler h does: it moves on to w, and may make what      *)
(* other handlers have read stale.                                         *)
(***************************************************************************)
Entry(h, stage) == [stage |-> stage, call |-> "get", spec |-> work[h].spec, fresh |-> FALSE]

Moves(h, w) ==
  /\ work' \in [Handlers -> Works] /\ \A g \in Handlers : Fits(work'[g])
  /\ work'[h] = w
  /\ \A g \in Handlers \ {h} :
       /\ work'[g].stage = work[g].stage /\ work'[g].call = work[g].call
       /\ work'[g].spec = work[g].spec /\ (work'[g].fresh => work[g].fresh)
       /\ work[g] = Idle => work'[g] = Idle

LEMMA Moved ==
  ASSUME Types, NEW h \in Handlers, NEW w \in Works, Fits(w), NEW stages,
         \/ work' = [work EXCEPT ![h] = w]
         \/ work' = [Outdate(work, stages) EXCEPT ![h] = w]
  PROVE  Moves(h, w)
  <1>1. work \in [Handlers -> Works] /\ \A g \in Handlers : Fits(work[g])
    BY DEF Types
  <1>2. CASE work' = [work EXCEPT ![h] = w]
    BY <1>1, <1>2 DEF Moves
  <1>3. CASE work' = [Outdate(work, stages) EXCEPT ![h] = w]
    <2> DEFINE o == Outdate(work, stages)
    <2>1. o = [g \in Handlers |-> o[g]]
      BY DEF Outdate
    <2> HIDE DEF o
    <2>2. work'[h] = w /\ \A g \in Handlers \ {h} : work'[g] = o[g]
      BY <1>3, <2>1 DEF o
    <2>3. ASSUME NEW g \in Handlers \ {h}
          PROVE  /\ work'[g] \in Works /\ Fits(work'[g])
                 /\ work'[g].stage = work[g].stage /\ work'[g].call = work[g].call
                 /\ work'[g].spec = work[g].spec /\ (work'[g].fresh => work[g].fresh)
                 /\ work[g] = Idle => work'[g] = Idle
      <3>1. work'[g] = Outdate(work, stages)[g] /\ Fits(work[g])
        BY <1>1, <2>2 DEF o
      <3>2. /\ work'[g] \in Works /\ Fits(work'[g])
            /\ work'[g].stage = work[g].stage /\ work'[g].call = work[g].call
            /\ work'[g].spec = work[g].spec /\ (work'[g].fresh => work[g].fresh)
        BY <1>1, <3>1, Outdated
      <3>3. work[g] = Idle => work'[g] = Idle
        <4>1. work[g] = Idle => work[g].stage = "idle"
          BY DEF Idle
        <4>2. work'[g].stage = "idle" => work'[g] = Idle
          BY <3>2, Idles
        <4>3. QED
          BY <3>2, <4>1, <4>2
      <3>4. QED
        BY <3>2, <3>3
    <2>4. work' \in [Handlers -> Works]
      <3>1. work' = [g \in Handlers |-> work'[g]]
        BY <1>3, <2>1 DEF o
      <3>2. QED
        BY <2>2, <2>3, <3>1
    <2>5. QED
      BY <2>2, <2>3, <2>4 DEF Moves
  <1>4. QED
    BY <1>2, <1>3

LEMMA Entries ==
  ASSUME Types, NEW h \in Handlers, work[h].call \in {"get", "create", "update"}
  PROVE  /\ lastSpec \in Nat /\ work[h].spec \in 1..lastSpec
         /\ \A stage \in StatusStages \cup Kinds :
              /\ Enter(h, stage) = Entry(h, stage) /\ Entry(h, stage) \in Works /\ Fits(Entry(h, stage))
         /\ Enter(h, "idle") = Idle /\ Idle \in Works /\ Fits(Idle)
  <1>1. lastSpec \in Nat /\ work[h] \in Works /\ Fits(work[h])
    BY ControllerAssumption DEF Types
  <1>2. "idle" \notin StatusStages \cup Kinds
    BY DEF StatusStages, Kinds, Watched
  <1>3. QED
    BY <1>1, <1>2, Entered DEF Entry

LEMMA Gets ==
  ASSUME IInv, NEW h \in Handlers, GetStatus(h)
  PROVE  /\ work[h].stage \in StatusStages /\ work[h].call = "get" /\ work[h].spec \in 1..lastSpec
         /\ UNCHANGED <<apiVars, informerVars>>
         /\ happened \subseteq happened' /\ happened' \subseteq FaultKinds /\ faults' \in 0..MaxFaults
         /\ \E w \in Works :
              /\ Moves(h, w)
              /\ \/ /\ cr # NoCR /\ w.stage = work[h].stage /\ w.call = "update"
                    /\ w.spec = work[h].spec /\ w.fresh = TRUE
                 \/ /\ cr = NoCR \/ "api" \in happened'
                    /\ IF work[h].stage = "deploying" THEN w = Entry(h, "ConfigMap") ELSE w = Idle
  <1> USE DEF IInv
  <1>1. work[h].stage \in StatusStages /\ work[h].call = "get" /\ UNCHANGED <<apiVars, informerVars>>
    BY DEF GetStatus, Step
  <1>2. lastSpec \in Nat /\ work[h].spec \in 1..lastSpec
    BY <1>1, Entries
  <1>3. happened \subseteq happened' /\ happened' \subseteq FaultKinds /\ faults' \in 0..MaxFaults
    BY Occurred DEF GetStatus, Types
  <1>4. CASE cr # NoCR /\ Step(h, [work[h] EXCEPT !.call = "update", !.fresh = TRUE])
    <2>1. work[h] \in Works /\ Fits(work[h])
      BY DEF Types
    <2>2. PICK w : w = [work[h] EXCEPT !.call = "update", !.fresh = TRUE]
      OBVIOUS
    <2>3. /\ w \in Works /\ w.stage = work[h].stage /\ w.call = "update"
          /\ w.spec = work[h].spec /\ w.fresh = TRUE
      BY <2>1, <2>2 DEF Works
    <2>4. Fits(w)
      BY <1>1, <1>2, <2>1, <2>3 DEF Fits, StatusStages
    <2>5. Moves(h, w)
      BY <1>4, <2>2, <2>3, <2>4, Moved DEF Step
    <2>6. QED
      BY <1>1, <1>2, <1>3, <1>4, <2>3, <2>5
  <1>5. CASE (cr = NoCR \/ "api" \in happened') /\ Step(h, Continue(h))
    <2>1. work[h].stage = "deploying" => Continue(h) = Enter(h, "ConfigMap")
      BY DEF Continue, NextStage
    <2>2. work[h].stage # "deploying" => Continue(h) = Enter(h, "idle")
      BY <1>1 DEF Continue, NextStage, StatusStages
    <2>3. "ConfigMap" \in StatusStages \cup Kinds
      BY DEF Kinds
    <2>4. PICK w : w = Continue(h)
      OBVIOUS
    <2>5. w \in Works /\ Fits(w) /\ IF work[h].stage = "deploying" THEN w = Entry(h, "ConfigMap") ELSE w = Idle
      BY <1>1, <2>1, <2>2, <2>3, <2>4, Entries
    <2>6. Moves(h, w)
      BY <1>5, <2>4, <2>5, Moved DEF Step
    <2>7. QED
      BY <1>1, <1>2, <1>3, <1>5, <2>5, <2>6
  <1>6. QED
    BY <1>4, <1>5 DEF GetStatus, Occurs

LEMMA Puts ==
  ASSUME IInv, NEW h \in Handlers, PutStatus(h)
  PROVE  /\ work[h].stage \in StatusStages /\ work[h].call = "update" /\ work[h].spec \in 1..lastSpec
         /\ UNCHANGED <<cr, lastSpec, object, informerVars>>
         /\ happened \subseteq happened' /\ happened' \subseteq FaultKinds /\ faults' \in 0..MaxFaults
         /\ \/ work[h].fresh /\ cr # NoCR /\ phase' = Phase[work[h].stage] /\ UNCHANGED happened
            \/ phase' = phase /\ (work[h].fresh => "api" \in happened')
         /\ \E w \in Works : Moves(h, w) /\ IF work[h].stage = "deploying" THEN w = Entry(h, "ConfigMap") ELSE w = Idle
  <1> USE DEF IInv
  <1>1. /\ work[h].stage \in StatusStages /\ work[h].call = "update"
        /\ UNCHANGED <<cr, lastSpec, object, informerVars>>
        /\ \/ work' = [work EXCEPT ![h] = Continue(h)]
           \/ work' = [Outdate(work, StatusStages) EXCEPT ![h] = Continue(h)]
    BY DEF PutStatus
  <1>2. lastSpec \in Nat /\ work[h].spec \in 1..lastSpec
    BY <1>1, Entries
  <1>3. happened \subseteq happened' /\ happened' \subseteq FaultKinds /\ faults' \in 0..MaxFaults
    BY Occurred DEF PutStatus, Types
  <1>4. \/ work[h].fresh /\ cr # NoCR /\ phase' = Phase[work[h].stage] /\ UNCHANGED happened
        \/ phase' = phase /\ (work[h].fresh => "api" \in happened')
    <2>1. CASE work[h].fresh /\ phase' = Phase[work[h].stage] /\ UNCHANGED history
      BY <1>1, <2>1 DEF Status, history
    <2>2. CASE UNCHANGED phase /\ IF work[h].fresh THEN Occurs("api") ELSE UNCHANGED history
      BY <2>2 DEF Occurs
    <2>3. QED
      BY <2>1, <2>2 DEF PutStatus
  <1>5. work[h].stage = "deploying" => Continue(h) = Enter(h, "ConfigMap")
    BY DEF Continue, NextStage
  <1>6. work[h].stage # "deploying" => Continue(h) = Enter(h, "idle")
    BY <1>1 DEF Continue, NextStage, StatusStages
  <1>7. "ConfigMap" \in StatusStages \cup Kinds
    BY DEF Kinds
  <1>8. PICK w : w = Continue(h)
    OBVIOUS
  <1>9. w \in Works /\ Fits(w) /\ IF work[h].stage = "deploying" THEN w = Entry(h, "ConfigMap") ELSE w = Idle
    BY <1>1, <1>5, <1>6, <1>7, <1>8, Entries
  <1>10. Moves(h, w)
    BY <1>1, <1>8, <1>9, Moved
  <1>11. QED
    BY <1>1, <1>2, <1>3, <1>4, <1>9, <1>10

(* What follows from what a Get of object k finds.                         *)
Found(h, k, w) ==
  \/ w = Entry(h, "failed") /\ "api" \in happened'
  \/ w = Entry(h, NextStage[k]) /\ object[k] # 0 /\ k \in {"ConfigMap", "Secret", "Service"}
  \/ w.stage = k /\ w.call = "create" /\ object[k] = 0
  \/ /\ w.stage = k /\ w.call = "update" /\ w.fresh = TRUE
     /\ object[k] # 0 /\ k \in {"Deployment", "IngressRoute"}

LEMMA Looks ==
  ASSUME IInv, NEW h \in Handlers, NEW k, k = work[h].stage, GetObject(h)
  PROVE  /\ k \in Kinds /\ work[h].call = "get" /\ work[h].spec \in 1..lastSpec
         /\ UNCHANGED <<apiVars, informerVars>>
         /\ happened \subseteq happened' /\ happened' \subseteq FaultKinds /\ faults' \in 0..MaxFaults
         /\ \E w \in Works : Moves(h, w) /\ w.spec = work[h].spec /\ Found(h, k, w)
  <1> USE DEF IInv
  <1> DEFINE seen == IF object[k] = 0 THEN [work[h] EXCEPT !.call = "create"]
                     ELSE IF k \in {"Deployment", "IngressRoute"}
                          THEN [work[h] EXCEPT !.call = "update", !.fresh = TRUE]
                     ELSE Continue(h)
  <1>1. /\ k \in Kinds /\ work[h].call = "get" /\ UNCHANGED <<apiVars, informerVars>>
        /\ \/ UNCHANGED history /\ work' = [work EXCEPT ![h] = seen]
           \/ Occurs("api") /\ work' = [work EXCEPT ![h] = Enter(h, "failed")]
    BY DEF GetObject, Step
  <1>2. /\ lastSpec \in Nat /\ work[h].spec \in 1..lastSpec
        /\ work[h] \in Works /\ Fits(work[h]) /\ k \notin {"idle"} \cup StatusStages
    BY <1>1, Entries DEF Types, Kinds, Watched, StatusStages
  <1>3. happened \subseteq happened' /\ happened' \subseteq FaultKinds /\ faults' \in 0..MaxFaults
    BY Occurred DEF GetObject, Types
  <1>4. CASE Occurs("api") /\ work' = [work EXCEPT ![h] = Enter(h, "failed")]
    <2>1. PICK w : w = Entry(h, "failed")
      OBVIOUS
    <2>2. w \in Works /\ Fits(w) /\ w = Enter(h, "failed") /\ w.spec = work[h].spec
      <3>1. "failed" \in StatusStages \cup Kinds
        BY DEF StatusStages
      <3>2. QED
        BY <1>1, <2>1, <3>1, Entries DEF Entry
    <2>3. Moves(h, w) /\ "api" \in happened'
      BY <1>4, <2>2, Moved DEF Occurs
    <2>4. QED
      BY <1>1, <1>2, <1>3, <2>1, <2>2, <2>3 DEF Found
  <1>5. CASE work' = [work EXCEPT ![h] = seen]
    <2>1. PICK w : w = seen
      OBVIOUS
    <2>2. CASE object[k] = 0
      <3>1. w = [work[h] EXCEPT !.call = "create"]
        BY <2>1, <2>2
      <3>2. w \in Works /\ w.stage = k /\ w.call = "create" /\ w.spec = work[h].spec
        BY <1>2, <3>1 DEF Works
      <3>3. Fits(w)
        BY <1>1, <1>2, <3>2 DEF Fits
      <3>4. Moves(h, w)
        BY <1>5, <2>1, <3>2, <3>3, Moved
      <3>5. QED
        BY <1>1, <1>2, <1>3, <2>2, <3>2, <3>4 DEF Found
    <2>3. CASE object[k] # 0 /\ k \in {"Deployment", "IngressRoute"}
      <3>1. w = [work[h] EXCEPT !.call = "update", !.fresh = TRUE]
        BY <2>1, <2>3
      <3>2. w \in Works /\ w.stage = k /\ w.call = "update" /\ w.spec = work[h].spec /\ w.fresh = TRUE
        BY <1>2, <3>1 DEF Works
      <3>3. Fits(w)
        BY <1>1, <1>2, <3>2 DEF Fits
      <3>4. Moves(h, w)
        BY <1>5, <2>1, <3>2, <3>3, Moved
      <3>5. QED
        BY <1>1, <1>2, <1>3, <2>3, <3>2, <3>4 DEF Found
    <2>4. CASE object[k] # 0 /\ k \notin {"Deployment", "IngressRoute"}
      <3>1. w = Enter(h, NextStage[k]) /\ k \in {"ConfigMap", "Secret", "Service"}
        BY <1>1, <2>1, <2>4 DEF Continue, Kinds, Watched
      <3>2. NextStage[k] \in StatusStages \cup Kinds
        BY <1>1, Stages DEF StatusStages
      <3>3. w = Entry(h, NextStage[k]) /\ w \in Works /\ Fits(w)
        BY <1>1, <3>1, <3>2, Entries
      <3>4. w.spec = work[h].spec
        BY <3>3 DEF Entry
      <3>5. Moves(h, w)
        BY <1>5, <2>1, <3>3, Moved
      <3>6. QED
        BY <1>1, <1>2, <1>3, <2>4, <3>1, <3>3, <3>4, <3>5 DEF Found
    <2>5. QED
      BY <2>2, <2>3, <2>4
  <1>6. QED
    BY <1>1, <1>4, <1>5

LEMMA Writes ==
  ASSUME IInv, NEW h \in Handlers, NEW k, k = work[h].stage, PutObject(h)
  PROVE  /\ k \in Kinds /\ work[h].call \in {"create", "update"} /\ work[h].spec \in 1..lastSpec
         /\ UNCHANGED <<cr, phase, lastSpec, informerVars>>
         /\ happened \subseteq happened' /\ happened' \subseteq FaultKinds /\ faults' \in 0..MaxFaults
         /\ \E w \in Works :
              /\ Moves(h, w) /\ w.spec = work[h].spec
              /\ \/ /\ Accepted(h, k) /\ object' = [object EXCEPT ![k] = work[h].spec]
                    /\ w = Entry(h, NextStage[k])
                 \/ /\ w = Entry(h, "failed") /\ UNCHANGED object
                    /\ Accepted(h, k) => "api" \in happened'
  <1> USE DEF IInv
  <1>1. /\ k \in Kinds /\ work[h].call \in {"create", "update"}
        /\ UNCHANGED <<cr, phase, lastSpec, informerVars>>
        /\ \/ /\ Accepted(h, k) /\ object' = [object EXCEPT ![k] = work[h].spec]
              /\ work' = [Outdate(work, {k}) EXCEPT ![h] = Continue(h)]
           \/ /\ UNCHANGED object /\ work' = [work EXCEPT ![h] = Enter(h, "failed")]
              /\ Accepted(h, k) => Occurs("api")
    BY DEF PutObject
  <1>2. lastSpec \in Nat /\ work[h].spec \in 1..lastSpec
    BY <1>1, Entries
  <1>3. happened \subseteq happened' /\ happened' \subseteq FaultKinds /\ faults' \in 0..MaxFaults
    BY Occurred DEF PutObject, Types
  <1>4. CASE /\ Accepted(h, k) /\ object' = [object EXCEPT ![k] = work[h].spec]
             /\ work' = [Outdate(work, {k}) EXCEPT ![h] = Continue(h)]
    <2>1. NextStage[k] \in StatusStages \cup Kinds /\ Continue(h) = Enter(h, NextStage[k])
      BY <1>1, Stages DEF StatusStages, Continue
    <2>2. PICK w : w = Continue(h)
      OBVIOUS
    <2>3. w = Entry(h, NextStage[k]) /\ w \in Works /\ Fits(w)
      BY <1>1, <2>1, <2>2, Entries
    <2>4. w.spec = work[h].spec
      BY <2>3 DEF Entry
    <2>5. Moves(h, w)
      BY <1>4, <2>2, <2>3, Moved
    <2>6. QED
      BY <1>1, <1>2, <1>3, <1>4, <2>3, <2>4, <2>5
  <1>5. CASE /\ UNCHANGED object /\ work' = [work EXCEPT ![h] = Enter(h, "failed")]
             /\ Accepted(h, k) => Occurs("api")
    <2>1. "failed" \in StatusStages \cup Kinds
      BY DEF StatusStages
    <2>2. PICK w : w = Entry(h, "failed")
      OBVIOUS
    <2>3. w = Enter(h, "failed") /\ w \in Works /\ Fits(w)
      BY <1>1, <2>1, <2>2, Entries
    <2>4. w.spec = work[h].spec
      BY <2>2 DEF Entry
    <2>5. Moves(h, w)
      BY <1>5, <2>3, Moved
    <2>6. Accepted(h, k) => "api" \in happened'
      BY <1>5 DEF Occurs
    <2>7. QED
      BY <1>1, <1>2, <1>3, <1>5, <2>2, <2>3, <2>4, <2>5, <2>6
  <1>6. QED
    BY <1>1, <1>4, <1>5

LEMMA Deletes ==
  ASSUME IInv, NEW h \in Handlers, NEW k, k = work[h].stage, DeleteNext(h)
  PROVE  /\ k \in Kinds /\ work[h].call = "delete"
         /\ UNCHANGED <<cr, phase, lastSpec, listed, watch, crCache, notices>>
         /\ happened \subseteq happened' /\ happened' \subseteq FaultKinds /\ faults' \in 0..MaxFaults
         /\ Gone(k) \/ ("api" \in happened' /\ UNCHANGED <<object, deleted>>)
         /\ \E w \in Works :
              /\ Moves(h, w)
              /\ IF k = "IngressRoute" THEN w = Idle
                 ELSE /\ w.call = "delete" /\ w.stage = NextDelete[k] /\ w.stage \in Kinds
                      /\ Still[w.stage] = Still[k] \ {k}
  <1> USE DEF IInv
  <1> DEFINE next == IF k = "IngressRoute" THEN Idle ELSE [work[h] EXCEPT !.stage = NextDelete[k]]
  <1>1. work[h] \in Works /\ Fits(work[h]) /\ work[h].call = "delete" /\ k \in Kinds /\ lastSpec \in Nat
    BY ControllerAssumption DEF DeleteNext, Types, Fits
  <1>2. happened \subseteq happened' /\ happened' \subseteq FaultKinds /\ faults' \in 0..MaxFaults
    BY Occurred DEF DeleteNext, Types
  <1>3. Gone(k) \/ ("api" \in happened' /\ UNCHANGED <<apiVars, informerVars>>)
    BY DEF DeleteNext, Occurs
  <1>4. UNCHANGED <<cr, phase, lastSpec, listed, watch, crCache, notices>>
    BY <1>3 DEF Gone, apiVars, informerVars
  <1>5. PICK w : w = next
    OBVIOUS
  <1>6. w \in Works /\ Fits(w)
        /\ IF k = "IngressRoute" THEN w = Idle
           ELSE /\ w.call = "delete" /\ w.stage = NextDelete[k] /\ w.stage \in Kinds
                /\ Still[w.stage] = Still[k] \ {k}
    <2>1. CASE k = "IngressRoute"
      BY <1>1, <1>5, <2>1 DEF Works, Fits, Idle
    <2>2. CASE k # "IngressRoute"
      <3>1. NextDelete[k] \in Kinds /\ Still[NextDelete[k]] = Still[k] \ {k}
        BY <1>1, <2>2 DEF NextDelete, Still, Kinds, Watched
      <3>2. w = [stage |-> NextDelete[k], call |-> "delete", spec |-> work[h].spec, fresh |-> work[h].fresh]
        BY <1>1, <1>5, <2>2 DEF Works
      <3>3. "idle" \notin Kinds
        BY DEF Kinds, Watched
      <3>4. w \in Works /\ Fits(w)
        BY <1>1, <3>1, <3>2, <3>3 DEF Works, Fits
      <3>5. QED
        BY <2>2, <3>1, <3>2, <3>4
    <2>3. QED
      BY <2>1, <2>2
  <1>7. Moves(h, w)
    BY <1>5, <1>6, Moved DEF DeleteNext
  <1>8. QED
    BY <1>1, <1>2, <1>3, <1>4, <1>6, <1>7 DEF apiVars, informerVars

LEMMA Asked ==
  ASSUME IInv, NEW k \in Watched, OnSubResourceDelete(k)
  PROVE  /\ work[k] = Idle /\ deleted[k] # 0 /\ deleted' \in [Watched -> Nat]
         /\ \A j \in Watched : deleted[j] = 0 => deleted'[j] = 0
         /\ UNCHANGED <<apiVars, listed, watch, crCache, notices, history>>
         /\ \E w \in Works :
              /\ Moves(k, w)
              /\ IF crCache = NoCR THEN w = Idle ELSE w = Reconcile(crCache.spec)
  <1> USE DEF IInv
  <1>1. /\ work[k].stage = "idle" /\ deleted[k] > 0 /\ deleted' = [deleted EXCEPT ![k] = @ - 1]
        /\ work' = [work EXCEPT ![k] = IF crCache = NoCR THEN Idle ELSE Reconcile(crCache.spec)]
        /\ UNCHANGED <<apiVars, listed, watch, crCache, notices, history>>
    BY DEF OnSubResourceDelete
  <1>2. /\ k \in Handlers /\ work[k] \in Works /\ Fits(work[k]) /\ lastSpec \in Nat
        /\ deleted \in [Watched -> Nat] /\ crCache \in Versions
    BY ControllerAssumption DEF Types, Handlers
  <1>3. work[k] = Idle
    BY <1>1, <1>2, Idles
  <1>4. /\ deleted' \in [Watched -> Nat] /\ deleted[k] # 0
        /\ \A j \in Watched : deleted[j] = 0 => deleted'[j] = 0
    BY <1>1, <1>2
  <1>5. PICK w : w = IF crCache = NoCR THEN Idle ELSE Reconcile(crCache.spec)
    OBVIOUS
  <1>6. w \in Works /\ Fits(w)
    <2>1. crCache.spec \in 0..lastSpec /\ (crCache # NoCR => crCache.spec # 0)
      BY <1>2, Snapshots
    <2>2. QED
      BY <1>2, <1>3, <1>5, <2>1, Begun
  <1>7. Moves(k, w)
    BY <1>1, <1>2, <1>5, <1>6, Moved
  <1>8. QED
    BY <1>1, <1>3, <1>4, <1>5, <1>6, <1>7

(* A handler that works keeps what the informer knows.                     *)
LEMMA MovesKeeps ==
  ASSUME IInv, NEW h \in Handlers, NEW w, Moves(h, w),
         UNCHANGED <<cr, lastSpec, listed, watch, crCache, notices>>,
         h = "CR" => work[h] # Idle /\ (w.call = "delete" => work[h].call = "delete"),
         w.stage \in StatusStages /\ w.fresh => cr # NoCR,
         phase' \in {"none", "Deploying", "Running", "Failed"}, phase' # "none" => cr # NoCR,
         object' \in [Kinds -> 0..lastSpec], deleted' \in [Watched -> Nat],
         happened' \subseteq FaultKinds, faults' \in 0..MaxFaults
  PROVE  IInv'
  <1>1. "CR" \in Handlers
    BY DEF Handlers
  <1>2. work' \in [Handlers -> Works] /\ \A g \in Handlers : Fits(work'[g])
    BY DEF Moves
  <1>3. work["CR"] = Idle => work'["CR"] = Idle
    BY <1>1 DEF Moves
  <1>4. work'["CR"].call = "delete" => work["CR"].call = "delete"
    BY <1>1 DEF Moves
  <1>5. \A g \in Handlers : work'[g].stage \in StatusStages /\ work'[g].fresh => cr # NoCR
    <2> SUFFICES ASSUME NEW g \in Handlers, work'[g].stage \in StatusStages, work'[g].fresh PROVE cr # NoCR
      OBVIOUS
    <2>1. CASE g = h
      BY <2>1 DEF Moves
    <2>2. CASE g # h
      <3>1. work[g].stage \in StatusStages /\ work[g].fresh
        BY <2>2 DEF Moves
      <3>2. QED
        BY <3>1 DEF IInv, Status
    <2>3. QED
      BY <2>1, <2>2
  <1>6. QED
    BY <1>2, <1>3, <1>4, <1>5, StepKeeps

LEMMA HandlerKeeps == ASSUME IInv, NEW h \in Handlers, HandlerNext(h) PROVE IInv'
  <1>1. /\ phase \in {"none", "Deploying", "Running", "Failed"} /\ (phase # "none" => cr # NoCR)
        /\ object \in [Kinds -> 0..lastSpec] /\ deleted \in [Watched -> Nat] /\ lastSpec \in Nat
        /\ happened \subseteq FaultKinds /\ faults \in 0..MaxFaults
    BY ControllerAssumption DEF IInv, Types, Status
  <1>2. CASE GetStatus(h)
    <2>1. /\ work[h].call = "get" /\ UNCHANGED <<apiVars, informerVars>>
          /\ happened' \subseteq FaultKinds /\ faults' \in 0..MaxFaults
      BY <1>2, Gets
    <2>2. PICK w \in Works : Moves(h, w) /\ w.call # "delete" /\ (w.fresh => cr # NoCR)
      <3>1. PICK w \in Works :
              /\ Moves(h, w)
              /\ \/ /\ cr # NoCR /\ w.stage = work[h].stage /\ w.call = "update"
                    /\ w.spec = work[h].spec /\ w.fresh = TRUE
                 \/ IF work[h].stage = "deploying" THEN w = Entry(h, "ConfigMap") ELSE w = Idle
        BY <1>2, Gets
      <3>2. QED
        BY <3>1 DEF Entry, Idle
    <2>3. work[h] # Idle
      BY <2>1 DEF Idle
    <2>4. QED
      BY <1>1, <2>1, <2>2, <2>3, MovesKeeps DEF apiVars, informerVars
  <1>3. CASE PutStatus(h)
    <2>1. /\ work[h].call = "update" /\ UNCHANGED <<cr, lastSpec, object, informerVars>>
          /\ happened' \subseteq FaultKinds /\ faults' \in 0..MaxFaults
          /\ work[h].stage \in StatusStages
          /\ (cr # NoCR /\ phase' = Phase[work[h].stage]) \/ phase' = phase
      BY <1>3, Puts
    <2>2. PICK w \in Works : Moves(h, w) /\ IF work[h].stage = "deploying" THEN w = Entry(h, "ConfigMap") ELSE w = Idle
      BY <1>3, Puts
    <2>3. w.call # "delete" /\ w.fresh = FALSE
      BY <2>2 DEF Entry, Idle
    <2>4. work[h] # Idle
      BY <2>1 DEF Idle
    <2>5. phase' \in {"none", "Deploying", "Running", "Failed"} /\ (phase' # "none" => cr # NoCR)
      BY <1>1, <2>1 DEF Phase, StatusStages
    <2>6. QED
      BY <1>1, <2>1, <2>2, <2>3, <2>4, <2>5, MovesKeeps DEF informerVars
  <1>4. CASE GetObject(h)
    <2>1. /\ work[h].call = "get" /\ UNCHANGED <<apiVars, informerVars>> /\ work[h].stage \in Kinds
          /\ happened' \subseteq FaultKinds /\ faults' \in 0..MaxFaults
      BY <1>4, Looks
    <2>2. PICK w \in Works :
            /\ Moves(h, w) /\ w.spec = work[h].spec
            /\ \/ \E stage \in StatusStages \cup Kinds : w = Entry(h, stage)
               \/ w.stage \in Kinds /\ w.call \in {"create", "update"}
      <3>1. NextStage[work[h].stage] \in StatusStages \cup Kinds /\ "failed" \in StatusStages
        BY <2>1, Stages DEF StatusStages
      <3>2. PICK k : k = work[h].stage
        OBVIOUS
      <3>3. PICK w \in Works :
              Moves(h, w) /\ w.spec = work[h].spec /\ Found(h, k, w)
        BY <1>4, <3>2, Looks
      <3>4. QED
        BY <2>1, <3>1, <3>2, <3>3 DEF Found
    <2>3. w.call # "delete" /\ (w.stage \in StatusStages => w.fresh = FALSE)
      BY <2>2 DEF Entry, StatusStages, Kinds, Watched
    <2>4. work[h] # Idle
      BY <2>1 DEF Idle
    <2>5. QED
      BY <1>1, <2>1, <2>2, <2>3, <2>4, MovesKeeps DEF apiVars, informerVars
  <1>5. CASE PutObject(h)
    <2>1. /\ work[h].call \in {"create", "update"} /\ UNCHANGED <<cr, phase, lastSpec, informerVars>>
          /\ happened' \subseteq FaultKinds /\ faults' \in 0..MaxFaults
          /\ work[h].stage \in Kinds /\ work[h].spec \in 1..lastSpec
      BY <1>5, Writes
    <2>2. PICK w \in Works :
            /\ Moves(h, w) /\ \E stage : w = Entry(h, stage)
            /\ object' = [object EXCEPT ![work[h].stage] = work[h].spec] \/ UNCHANGED object
      BY <1>5, Writes
    <2>3. w.call # "delete" /\ w.fresh = FALSE
      BY <2>2 DEF Entry
    <2>4. work[h] # Idle
      BY <2>1 DEF Idle
    <2>5. object' \in [Kinds -> 0..lastSpec]
      BY <1>1, <2>1, <2>2
    <2>6. QED
      BY <1>1, <2>1, <2>2, <2>3, <2>4, <2>5, MovesKeeps DEF informerVars
  <1>6. CASE DeleteNext(h)
    <2>1. /\ work[h].call = "delete" /\ UNCHANGED <<cr, phase, lastSpec, listed, watch, crCache, notices>>
          /\ happened' \subseteq FaultKinds /\ faults' \in 0..MaxFaults
          /\ work[h].stage \in Kinds
          /\ Gone(work[h].stage) \/ UNCHANGED <<object, deleted>>
      BY <1>6, Deletes
    <2>2. PICK w \in Works : Moves(h, w) /\ (w = Idle \/ w.stage \in Kinds)
      BY <1>6, Deletes
    <2>3. w.stage \notin StatusStages
      BY <2>2 DEF StatusStages, Kinds, Watched, Idle
    <2>4. work[h] # Idle
      BY <2>1 DEF Idle
    <2>5. object' \in [Kinds -> 0..lastSpec] /\ deleted' \in [Watched -> Nat]
      BY <1>1, <2>1, Going DEF IInv
    <2>6. QED
      BY <1>1, <2>1, <2>2, <2>3, <2>4, <2>5, MovesKeeps
  <1>7. CASE h \in Watched /\ OnSubResourceDelete(h)
    <2>1. deleted' \in [Watched -> Nat] /\ UNCHANGED <<apiVars, listed, watch, crCache, notices, history>>
      BY <1>7, Asked
    <2>2. PICK w : Moves(h, w) /\ (w = Idle \/ w = Reconcile(crCache.spec))
      BY <1>7, Asked
    <2>3. w.fresh = FALSE /\ h # "CR"
      BY <1>7, <2>2 DEF Idle, Reconcile, Watched
    <2>4. QED
      BY <1>1, <2>1, <2>2, <2>3, MovesKeeps DEF apiVars, history
  <1>8. QED
    BY <1>2, <1>3, <1>4, <1>5, <1>6, <1>7, OnCRKeeps DEF HandlerNext

-----------------------------------------------------------------------------
LEMMA Preserved == ASSUME IInv, [Next]_vars PROVE IInv'
  <1>1. CASE UNCHANGED vars
    BY <1>1 DEF vars, apiVars, informerVars, history, IInv, Types, Versions, Works, Chain, Store,
       Unlisted, ToldGone, Status
  <1>2. CASE Next
    BY <1>2, WriteSpecKeeps, DeleteCRKeeps, DeleteObjectKeeps, ObserveKeeps, RestartKeeps, ListKeeps,
       RelistKeeps, HandlerKeeps DEF Next
  <1>3. QED
    BY <1>1, <1>2

(* The inductive invariant holds in every reachable state.                 *)
THEOREM Invariance == Spec => []IInv
  BY InitIInv, Preserved, PTL DEF Spec

(* The variables have their types, and whatever a handler reconciles is a  *)
(* spec the CR once had.                                                   *)
THEOREM TypeCorrect == Spec => []TypeOK
  <1>1. IInv => TypeOK
    BY TypesImplyTypeOK DEF IInv
  <1>2. QED
    BY <1>1, Invariance, PTL

-----------------------------------------------------------------------------
(***************************************************************************)
(* A CR that was never deleted.                                            *)
(***************************************************************************)
LEMMA Growing == ASSUME IInv, [Next]_vars PROVE happened \subseteq happened' /\ (Quiet' => Quiet)
  <1>1. CASE WriteSpec
    <2>1. happened \subseteq happened' /\ (cr = NoCR /\ lastSpec > 0 => "recreate" \in happened')
      BY <1>1 DEF WriteSpec, Occurs, history
    <2>2. lastSpec \in Nat
      BY ControllerAssumption DEF IInv, Types
    <2>3. QED
      BY <2>1, <2>2 DEF Quiet
  <1>2. CASE DeleteCR
    BY <1>2 DEF DeleteCR, CRChanges, history, Quiet
  <1>3. CASE UNCHANGED <<cr, lastSpec>> /\ happened \subseteq happened'
    BY <1>3 DEF Quiet
  <1>4. CASE \E k \in Watched : DeleteObject(k)
    BY <1>3, <1>4 DEF DeleteObject, Gone, Occurs
  <1>5. CASE Observe \/ Restart \/ \E i \in Handlers : List(i) \/ Relist(i)
    BY <1>3, <1>5 DEF Observe, Restart, List, Relist, apiVars, history, Occurs
  <1>6. CASE \E h \in Handlers : HandlerNext(h)
    <2>1. PICK h \in Handlers : HandlerNext(h)
      BY <1>6
    <2>2. CASE GetStatus(h) \/ PutStatus(h) \/ GetObject(h) \/ PutObject(h) \/ DeleteNext(h)
      BY <1>3, <2>2, Gets, Puts, Looks, Writes, Deletes DEF apiVars
    <2>3. CASE OnCR \/ OnSubResourceDelete(h)
      BY <1>3, <2>3 DEF OnCR, OnSubResourceDelete, apiVars, history
    <2>4. QED
      BY <2>1, <2>2, <2>3 DEF HandlerNext
  <1>7. CASE UNCHANGED vars
    BY <1>3, <1>7 DEF vars, apiVars, history
  <1>8. QED
    BY <1>1, <1>2, <1>4, <1>5, <1>6, <1>7 DEF Next

LEMMA InitQInv == Init => QInv
  <1> SUFFICES ASSUME Init PROVE QInv
    OBVIOUS
  <1>1. OnlyCR
    BY DEF Init, OnlyCR, NoCR, Idle, Handlers, Watched
  <1>2. Reconciled(work["CR"]) /\ CRFollowed(work["CR"])
    BY DEF Init, Reconciled, CRFollowed, Idle, Handlers, Kinds, Watched
  <1>3. QED
    BY <1>1, <1>2 DEF QInv, Init

LEMMA QWriteSpec == ASSUME IInv, QInv, Quiet, WriteSpec PROVE QInv'
  <1>1. OnlyCR /\ Reconciled(work["CR"]) /\ (phase = "Running" => Complete)
        /\ ("api" \notin happened => CRFollowed(work["CR"]))
    BY DEF QInv
  <1>2. PICK c : /\ c = [spec |-> lastSpec + 1, gen |-> cr.gen + 1] /\ CRChanges(c)
                 /\ lastSpec' = lastSpec + 1 /\ phase' = phase
    BY DEF WriteSpec
  <1>3. /\ work' = Outdate(work, StatusStages) /\ cr' = c
        /\ UNCHANGED <<object, listed, crCache, notices, deleted>>
        /\ watch' = IF "CR" \in listed THEN Append(watch, c) ELSE watch
    BY <1>2 DEF CRChanges
  <1>4. /\ lastSpec \in Nat /\ cr \in Versions /\ crCache \in Versions /\ watch \in Seq(Versions)
        /\ work \in [Handlers -> Works] /\ \A h \in Handlers : Fits(work[h])
    BY ControllerAssumption DEF IInv, Types
  <1>5. c.spec = c.gen /\ c # NoCR
    <2>1. cr.gen = lastSpec
      BY <1>1, <1>4, Snapshots DEF IInv, Status, Quiet, OnlyCR
    <2>2. QED
      BY <1>2, <1>4, <2>1 DEF NoCR
  <1>6. ASSUME NEW h \in Handlers
        PROVE  /\ work'[h].stage = work[h].stage /\ work'[h].call = work[h].call /\ work'[h].spec = work[h].spec
               /\ work[h].stage \notin StatusStages => work'[h] = work[h]
               /\ work[h] = Idle => work'[h] = Idle
    <2>1. work'[h] = Outdate(work, StatusStages)[h]
      BY <1>3
    <2>2. /\ work'[h].stage = work[h].stage /\ work'[h].call = work[h].call /\ work'[h].spec = work[h].spec
          /\ work[h].stage \notin StatusStages => work'[h] = work[h]
      BY <1>4, <2>1, Outdated
    <2>3. work[h] = Idle => work[h].stage \notin StatusStages
      BY DEF Idle, StatusStages
    <2>4. QED
      BY <2>2, <2>3
  <1>7. "CR" \in Handlers /\ Watched \subseteq Handlers
    BY DEF Handlers
  <1>8. OnlyCR'
    <2>1. ASSUME NEW i \in 1..Len(watch') PROVE watch'[i] # NoCR /\ watch'[i].spec = watch'[i].gen
      <3>1. CASE "CR" \in listed
        <4>1. watch \in Seq(Versions \cup {c})
          BY <1>4, SeqMonotonic
        <4>2. /\ Len(watch') = Len(watch) + 1 /\ watch'[Len(watch')] = c /\ Len(watch) \in Nat
              /\ \A j \in 1..Len(watch) : watch'[j] = watch[j]
          BY <1>3, <3>1, <4>1, Pushed
        <4>3. i \in 1..Len(watch) \/ i = Len(watch')
          BY <4>2
        <4>4. QED
          BY <1>1, <1>5, <4>2, <4>3 DEF OnlyCR
      <3>2. CASE "CR" \notin listed
        BY <1>1, <1>3, <3>2 DEF OnlyCR
      <3>3. QED
        BY <3>1, <3>2
    <2>2. QED
      BY <1>1, <1>3, <1>5, <1>6, <1>7, <2>1 DEF OnlyCR
  <1>9. Reconciled(work["CR"])'
    <2>1. work["CR"].stage \in Kinds => work'["CR"] = work["CR"]
      BY <1>6, <1>7 DEF Kinds, Watched, StatusStages
    <2>2. work["CR"].spec < lastSpec'
      BY <1>2, <1>4, <1>7 DEF Works
    <2>3. QED
      BY <1>1, <1>3, <1>6, <1>7, <2>1, <2>2 DEF Reconciled, Made
  <1>10. "api" \notin happened' => CRFollowed(work["CR"])'
    <2>1. crCache.spec # lastSpec'
      BY <1>2, <1>4, Snapshots
    <2>2. happened \subseteq happened'
      BY Growing DEF Next
    <2>3. QED
      BY <1>1, <1>3, <1>6, <1>7, <2>1, <2>2 DEF CRFollowed, Made
  <1>11. QED
    BY <1>1, <1>2, <1>3, <1>8, <1>9, <1>10 DEF QInv, Complete

(* Steps of the informers.                                                 *)
LEMMA QObserve == ASSUME IInv, QInv, Quiet, Observe PROVE QInv'
  <1>1. OnlyCR /\ Reconciled(work["CR"]) /\ (phase = "Running" => Complete)
        /\ ("api" \notin happened => CRFollowed(work["CR"]))
    BY DEF QInv
  <1>2. /\ Len(watch) \in Nat \ {0} /\ crCache' = watch[1] /\ watch[1] \in Versions
        /\ Len(watch') = Len(watch) - 1 /\ \A i \in 1..Len(watch') : watch'[i] = watch[i + 1]
        /\ \A i \in 1..Len(notices) : notices'[i] = notices[i]
        /\ \/ notices' = notices /\ crCache = NoCR /\ crCache' = NoCR
           \/ /\ notices' # <<>> /\ Len(notices') = Len(notices) + 1
              /\ notices'[Len(notices')] = crCache'.spec
        /\ UNCHANGED <<cr, phase, lastSpec, object, listed, deleted, work, happened, faults>>
    BY Observed DEF apiVars, history
  <1>3. lastSpec \in Nat /\ Len(notices) \in Nat
    BY ControllerAssumption DEF IInv, Types
  <1>4. 1 \in 1..Len(watch) /\ watch[1] # NoCR /\ watch[1].spec = watch[1].gen /\ watch[1].spec # 0
    BY <1>1, <1>2, <1>3, Snapshots DEF OnlyCR
  <1>5. \A i \in 1..Len(watch') : watch'[i] # NoCR /\ watch'[i].spec = watch'[i].gen
    BY <1>1, <1>2 DEF OnlyCR
  <1>6. \A i \in 1..Len(notices') : notices'[i] # 0
    BY <1>1, <1>2, <1>3, <1>4 DEF OnlyCR
  <1>7. OnlyCR'
    BY <1>1, <1>2, <1>4, <1>5, <1>6 DEF OnlyCR
  <1>8. Reconciled(work["CR"])' /\ (phase = "Running" => Complete)'
    BY <1>1, <1>2 DEF Reconciled, Made, Complete
  <1>9. CRFollowed(work["CR"]) => CRFollowed(work["CR"])'
    BY <1>2, <1>4 DEF CRFollowed
  <1>10. QED
    BY <1>1, <1>2, <1>7, <1>8, <1>9 DEF QInv

LEMMA QList == ASSUME IInv, QInv, Quiet, NEW i \in Handlers, List(i) PROVE QInv'
  <1>1. OnlyCR /\ Reconciled(work["CR"]) /\ (phase = "Running" => Complete)
        /\ ("api" \notin happened => CRFollowed(work["CR"]))
    BY DEF QInv
  <1>2. /\ UNCHANGED <<cr, phase, lastSpec, object, watch, deleted, work, happened, faults>> /\ i \notin listed
    BY DEF List, apiVars, history
  <1>3. /\ lastSpec \in Nat /\ cr \in Versions
    BY ControllerAssumption DEF IInv, Types
  <1>4. Reconciled(work["CR"])' /\ (phase = "Running" => Complete)'
    BY <1>1, <1>2 DEF Reconciled, Made, Complete
  <1>5. CASE i = "CR"
    <2>1. crCache' = cr /\ notices' = Notice(NoCR, cr) /\ watch = <<>> /\ work["CR"] = Idle
      BY <1>2, <1>5 DEF List, IInv, Unlisted
    <2>2. CASE cr = NoCR
      <3>1. notices' = <<>> /\ crCache' = NoCR
        BY <2>1, <2>2 DEF Notice
      <3>2. OnlyCR'
        BY <1>1, <1>2, <2>1, <2>2, <3>1 DEF OnlyCR
      <3>3. CRFollowed(work["CR"])'
        BY <1>2, <2>1, <3>1 DEF CRFollowed, Idle
      <3>4. QED
        BY <1>2, <1>4, <3>2, <3>3 DEF QInv
    <2>3. CASE cr # NoCR
      <3>1. notices' = <<cr.spec>> /\ cr.spec # 0
        BY <1>3, <2>1, <2>3, Snapshots DEF Notice
      <3>2. notices' # <<>> /\ Len(notices') = 1 /\ notices'[1] = cr.spec
        BY <3>1
      <3>3. OnlyCR'
        BY <1>1, <1>2, <2>1, <3>1, <3>2 DEF OnlyCR
      <3>4. CRFollowed(work["CR"])'
        BY <1>2, <2>1, <3>2 DEF CRFollowed, Idle
      <3>5. QED
        BY <1>2, <1>4, <3>3, <3>4 DEF QInv
    <2>4. QED
      BY <2>2, <2>3
  <1>6. CASE i # "CR"
    <2>1. UNCHANGED <<crCache, notices>>
      BY <1>6 DEF List
    <2>2. OnlyCR' /\ (CRFollowed(work["CR"]) => CRFollowed(work["CR"])')
      BY <1>1, <1>2, <2>1 DEF OnlyCR, CRFollowed, Made
    <2>3. QED
      BY <1>1, <1>2, <1>4, <2>2 DEF QInv
  <1>7. QED
    BY <1>5, <1>6

LEMMA QRelist == ASSUME IInv, QInv, Quiet, NEW i \in Handlers, Relist(i) PROVE QInv'
  <1>1. OnlyCR /\ Reconciled(work["CR"]) /\ (phase = "Running" => Complete)
        /\ ("api" \notin happened => CRFollowed(work["CR"]))
    BY DEF QInv
  <1>2. UNCHANGED <<cr, phase, lastSpec, object, listed, work>> /\ happened \subseteq happened'
    BY Relisted, Growing DEF Next, apiVars
  <1>3. /\ lastSpec \in Nat /\ cr \in Versions /\ crCache \in Versions /\ Len(notices) \in Nat
    BY ControllerAssumption DEF IInv, Types
  <1>4. Reconciled(work["CR"])' /\ (phase = "Running" => Complete)'
    BY <1>1, <1>2 DEF Reconciled, Made, Complete
  <1>5. CASE /\ watch' = <<>> /\ crCache' = cr /\ notices' = notices /\ UNCHANGED deleted
             /\ cr = NoCR \/ (crCache # NoCR /\ crCache.gen = cr.gen)
    <2>1. crCache.spec = cr.spec /\ (crCache = NoCR <=> cr = NoCR)
      <3>1. cr = NoCR => lastSpec = 0
        BY DEF Quiet
      <3>2. QED
        BY <1>1, <1>3, <1>5, <3>1, Snapshots DEF OnlyCR
    <2>2. OnlyCR' /\ (CRFollowed(work["CR"]) => CRFollowed(work["CR"])')
      BY <1>1, <1>2, <1>5, <2>1 DEF OnlyCR, CRFollowed, Made
    <2>3. QED
      BY <1>1, <1>2, <1>4, <2>2 DEF QInv
  <1>6. CASE /\ watch' = <<>> /\ crCache' = cr /\ cr # NoCR /\ UNCHANGED deleted
             /\ \A n \in 1..Len(notices) : notices'[n] = notices[n]
             /\ notices' # <<>> /\ Len(notices') = Len(notices) + 1 /\ notices'[Len(notices')] = cr.spec
    <2>1. cr.spec # 0
      BY <1>3, <1>6, Snapshots
    <2>2. \A n \in 1..Len(notices') : notices'[n] # 0
      BY <1>1, <1>3, <1>6, <2>1 DEF OnlyCR
    <2>3. OnlyCR' /\ (CRFollowed(work["CR"]) => CRFollowed(work["CR"])')
      BY <1>1, <1>2, <1>6, <2>2 DEF OnlyCR, CRFollowed
    <2>4. QED
      BY <1>1, <1>2, <1>4, <2>3 DEF QInv
  <1>7. CASE UNCHANGED <<watch, crCache, notices>> /\ \A k \in Watched : deleted[k] = 0 => deleted'[k] = 0
    <2>1. OnlyCR' /\ (CRFollowed(work["CR"]) => CRFollowed(work["CR"])')
      BY <1>1, <1>2, <1>7 DEF OnlyCR, CRFollowed, Made
    <2>2. QED
      BY <1>1, <1>2, <1>4, <2>1 DEF QInv
  <1>8. QED
    BY <1>5, <1>6, <1>7, Relisted

LEMMA QRestart == ASSUME IInv, QInv, Quiet, Restart PROVE QInv'
  <1>1. OnlyCR /\ (phase = "Running" => Complete)
    BY DEF QInv
  <1>2. /\ UNCHANGED <<cr, phase, lastSpec, object>> /\ watch' = <<>> /\ crCache' = NoCR /\ notices' = <<>>
        /\ deleted' = [k \in Watched |-> 0] /\ work' = [h \in Handlers |-> Idle]
    BY DEF Restart, apiVars
  <1>3. \A h \in Handlers : work'[h] = Idle
    BY <1>2
  <1>4. "CR" \in Handlers /\ Watched \subseteq Handlers
    BY DEF Handlers
  <1>5. OnlyCR'
    BY <1>1, <1>2, <1>3, <1>4 DEF OnlyCR, NoCR, Idle
  <1>6. Reconciled(work["CR"])' /\ CRFollowed(work["CR"])' /\ (phase = "Running" => Complete)'
    BY <1>1, <1>2, <1>3, <1>4 DEF Reconciled, CRFollowed, Idle, Kinds, Watched, Complete
  <1>7. QED
    BY <1>5, <1>6 DEF QInv

LEMMA QOnCR == ASSUME IInv, QInv, Quiet, OnCR PROVE QInv'
  <1>1. OnlyCR /\ (phase = "Running" => Complete)
    BY DEF QInv
  <1>2. /\ Len(notices) \in Nat \ {0} /\ Len(notices') = Len(notices) - 1
        /\ \A i \in 1..Len(notices') : notices'[i] = notices[i + 1]
        /\ notices' = <<>> <=> Len(notices) = 1
        /\ notices # <<>>
        /\ work' = [work EXCEPT !["CR"] = IF notices[1] = 0 THEN DeleteAll ELSE Reconcile(notices[1])]
        /\ UNCHANGED <<cr, phase, lastSpec, object, listed, watch, crCache, deleted, happened, faults>>
    BY Taken DEF apiVars, history
  <1>3. 1 \in 1..Len(notices) /\ notices[1] # 0
    BY <1>1, <1>2 DEF OnlyCR
  <1>4. /\ work'["CR"] = Reconcile(notices[1]) /\ \A k \in Watched : work'[k] = work[k]
    BY <1>2, <1>3 DEF IInv, Types, Handlers, Watched
  <1>5. notices' # <<>> => notices'[Len(notices')] = crCache.spec
    <2>1. notices' # <<>> => Len(notices') \in 1..Len(notices') /\ Len(notices') + 1 = Len(notices)
      BY <1>2
    <2>2. QED
      BY <1>1, <1>2, <2>1 DEF OnlyCR
  <1>6. \A i \in 1..Len(notices') : notices'[i] # 0
    BY <1>1, <1>2 DEF OnlyCR
  <1>7. OnlyCR'
    BY <1>1, <1>2, <1>4, <1>5, <1>6 DEF OnlyCR, Reconcile
  <1>8. Reconciled(work["CR"])' /\ (phase = "Running" => Complete)'
    BY <1>1, <1>2, <1>4 DEF Reconciled, Reconcile, Complete, Kinds, Watched
  <1>9. CRFollowed(work["CR"])'
    BY <1>1, <1>2, <1>4 DEF CRFollowed, Reconcile, OnlyCR
  <1>10. QED
    BY <1>7, <1>8, <1>9 DEF QInv

(* Steps of the handlers: only that of the CR has work.                    *)
LEMMA QMoves ==
  ASSUME IInv, QInv, Quiet, NEW w, Moves("CR", w), w.call # "delete",
         UNCHANGED <<cr, lastSpec, informerVars>>, happened \subseteq happened',
         Reconciled(w)', (phase = "Running" => Complete)',
         "api" \notin happened' => CRFollowed(w)'
  PROVE  QInv'
  <1>1. work'["CR"] = w /\ \A k \in Watched : work[k] = Idle => work'[k] = Idle
    BY DEF Moves, Handlers, Watched
  <1>2. OnlyCR'
    BY <1>1 DEF QInv, OnlyCR, informerVars
  <1>3. Reconciled(work["CR"])' /\ ("api" \notin happened' => CRFollowed(work["CR"])')
    BY <1>1 DEF Reconciled, CRFollowed
  <1>4. QED
    BY <1>2, <1>3 DEF QInv

LEMMA QHandler == ASSUME IInv, QInv, Quiet, Quiet', NEW h \in Handlers, HandlerNext(h) PROVE QInv'
  <1>1. /\ OnlyCR /\ Reconciled(work["CR"]) /\ (phase = "Running" => Complete)
        /\ ("api" \notin happened => CRFollowed(work["CR"])) /\ happened \subseteq happened'
    BY Growing DEF QInv, Next
  <1>2. CASE h # "CR"
    <2>1. h \in Watched /\ work[h] = Idle /\ deleted[h] = 0
      BY <1>1, <1>2 DEF OnlyCR, Handlers
    <2>2. h \notin {"CR"} /\ ~(deleted[h] > 0)
      BY <1>2, <2>1
    <2>3. ~HandlerNext(h)
      BY <2>1, <2>2 DEF HandlerNext, OnSubResourceDelete, GetStatus, PutStatus, GetObject, PutObject, DeleteNext,
         Idle, StatusStages, Kinds, Watched
    <2>4. QED
      BY <2>3
  <1>3. CASE h = "CR"
    <2> DEFINE s == work["CR"].spec
    <2>1. "CR" \in Handlers /\ "CR" \notin Watched /\ work["CR"].call # "delete"
      BY <1>1 DEF Handlers, Watched, OnlyCR
    <2>2. CASE GetStatus("CR")
      <3>1. /\ work["CR"].stage \in StatusStages /\ s \in 1..lastSpec /\ UNCHANGED <<apiVars, informerVars>>
            /\ work["CR"].call = "get"
        BY <2>1, <2>2, Gets
      <3>2. PICK w \in Works :
              /\ Moves("CR", w)
              /\ \/ /\ cr # NoCR /\ w.stage = work["CR"].stage /\ w.call = "update"
                    /\ w.spec = work["CR"].spec /\ w.fresh = TRUE
                 \/ /\ cr = NoCR \/ "api" \in happened'
                    /\ IF work["CR"].stage = "deploying" THEN w = Entry("CR", "ConfigMap") ELSE w = Idle
        BY <2>1, <2>2, Gets
      <3>3. CASE w.stage = work["CR"].stage /\ w.call = "update" /\ w.spec = s /\ w.fresh = TRUE
        <4>1. Reconciled(w)'
          BY <1>1, <3>1, <3>3 DEF Reconciled, Made, StatusStages, Kinds, Watched, apiVars
        <4>2. CRFollowed(work["CR"]) => CRFollowed(w)'
          BY <3>1, <3>3 DEF CRFollowed, Idle, StatusStages, informerVars
        <4>3. QED
          BY <1>1, <3>1, <3>2, <3>3, <4>1, <4>2, QMoves DEF apiVars, Complete
      <3>4. CASE work["CR"].stage = "deploying" /\ w = Entry("CR", "ConfigMap")
        <4>1. w.stage = "ConfigMap" /\ w.call = "get" /\ w.spec = s
          BY <3>4 DEF Entry
        <4>2. Reconciled(w)'
          BY <4>1 DEF Reconciled, Made, Ahead
        <4>3. CRFollowed(work["CR"]) => CRFollowed(w)'
          BY <3>1, <3>4, <4>1 DEF CRFollowed, Idle, informerVars
        <4>4. QED
          BY <1>1, <3>1, <3>2, <4>1, <4>2, <4>3, QMoves DEF apiVars, Complete
      <3>5. CASE (cr = NoCR \/ "api" \in happened') /\ w = Idle
        <4>1. "api" \in happened'
          <5>1. lastSpec # 0
            BY <3>1, ControllerAssumption DEF IInv, Types
          <5>2. QED
            BY <3>5, <5>1 DEF Quiet
        <4>2. Reconciled(w)' /\ w.call # "delete"
          BY <3>5 DEF Reconciled, Idle, Kinds, Watched
        <4>3. QED
          BY <1>1, <3>1, <3>2, <4>1, <4>2, QMoves DEF apiVars, Complete
      <3>6. QED
        BY <3>2, <3>3, <3>4, <3>5
    <2>3. CASE PutStatus("CR")
      <3>1. /\ work["CR"].stage \in StatusStages /\ s \in 1..lastSpec /\ work["CR"].call = "update"
            /\ UNCHANGED <<cr, lastSpec, object, informerVars>>
            /\ \/ phase' = Phase[work["CR"].stage]
               \/ phase' = phase /\ (work["CR"].fresh => "api" \in happened')
        BY <2>1, <2>3, Puts
      <3>2. PICK w \in Works : Moves("CR", w) /\ IF work["CR"].stage = "deploying" THEN w = Entry("CR", "ConfigMap") ELSE w = Idle
        BY <2>1, <2>3, Puts
      <3>3. (phase = "Running" => Complete)'
        <4>1. work["CR"].stage # "running" => phase' # "Running" \/ phase' = phase
          BY <3>1 DEF Phase, StatusStages
        <4>2. work["CR"].stage = "running" => Complete
          BY <1>1 DEF Reconciled, Made, Ahead, Complete
        <4>3. QED
          BY <1>1, <3>1, <4>1, <4>2 DEF Complete
      <3>4. CASE work["CR"].stage = "deploying"
        <4>1. w.stage = "ConfigMap" /\ w.call = "get" /\ w.spec = s
          BY <3>2, <3>4 DEF Entry
        <4>2. Reconciled(w)'
          BY <4>1 DEF Reconciled, Made, Ahead
        <4>3. CRFollowed(work["CR"]) => CRFollowed(w)'
          BY <3>1, <3>4, <4>1 DEF CRFollowed, Idle, informerVars
        <4>4. QED
          BY <1>1, <3>1, <3>2, <3>3, <4>1, <4>2, <4>3, QMoves
      <3>5. CASE work["CR"].stage = "failed"
        <4>1. w = Idle
          BY <3>2, <3>5
        <4>2. Reconciled(w)' /\ w.call # "delete"
          BY <4>1 DEF Reconciled, Idle, Kinds, Watched
        <4>3. "api" \in happened'
          BY <1>1, <3>5 DEF CRFollowed
        <4>4. QED
          BY <1>1, <3>1, <3>2, <3>3, <4>2, <4>3, QMoves
      <3>6. CASE work["CR"].stage = "running"
        <4>1. w = Idle
          BY <3>2, <3>6
        <4>2. Reconciled(w)' /\ w.call # "delete"
          BY <4>1 DEF Reconciled, Idle, Kinds, Watched
        <4>3. ASSUME "api" \notin happened' PROVE CRFollowed(w)'
          <5>1. CRFollowed(work["CR"]) /\ work["CR"] # Idle
            BY <1>1, <3>1, <4>3 DEF Idle
          <5>2. Made(Kinds, s)
            BY <1>1, <3>6 DEF Reconciled, Ahead
          <5>3. notices = <<>> /\ crCache # NoCR => s = crCache.spec
            BY <5>1 DEF CRFollowed
          <5>4. s = lastSpec => work["CR"].fresh
            <6>1. ~(lastSpec < lastSpec)
              BY ControllerAssumption DEF IInv, Types
            <6>2. QED
              BY <1>1, <3>1, <3>6, <6>1 DEF Reconciled
          <5>5. s = lastSpec => phase' = "Running"
            BY <3>1, <3>6, <4>3, <5>4 DEF Phase
          <5>6. w.stage # "failed"
            BY <4>1 DEF Idle
          <5>7. QED
            BY <3>1, <4>1, <5>2, <5>3, <5>5, <5>6 DEF CRFollowed, Made, informerVars
        <4>4. QED
          BY <1>1, <3>1, <3>2, <3>3, <4>2, <4>3, QMoves
      <3>7. QED
        BY <3>1, <3>4, <3>5, <3>6 DEF StatusStages
    <2>4. CASE GetObject("CR")
      <3>1. PICK k : k = work["CR"].stage
        OBVIOUS
      <3>2. k \in Kinds /\ work["CR"].call = "get" /\ s \in 1..lastSpec /\ UNCHANGED <<apiVars, informerVars>>
        BY <2>1, <2>4, <3>1, Looks
      <3>3. PICK w \in Works : Moves("CR", w) /\ w.spec = s /\ Found("CR", k, w)
        BY <2>1, <2>4, <3>1, Looks
      <3>4. Made(Kinds \ Ahead[k], s)
        BY <1>1, <3>1, <3>2 DEF Reconciled
      <3>5. (phase = "Running" => Complete)'
        BY <1>1, <3>2 DEF apiVars, Complete
      <3>6. w.stage # "failed" /\ w # Idle /\ "api" \notin happened' => CRFollowed(w)'
        <4>1. work["CR"] # Idle
          BY <3>2 DEF Idle
        <4>2. QED
          BY <1>1, <3>2, <3>3, <4>1 DEF CRFollowed, informerVars
      <3>7. CASE w = Entry("CR", "failed") /\ "api" \in happened'
        <4>1. Reconciled(w)' /\ w.call # "delete"
          BY <3>7 DEF Entry, Reconciled, Kinds, Watched
        <4>2. QED
          BY <1>1, <3>2, <3>3, <3>5, <3>7, <4>1, QMoves DEF apiVars
      <3>8. CASE w = Entry("CR", NextStage[k]) /\ object[k] # 0 /\ k \in {"ConfigMap", "Secret", "Service"}
        <4>1. /\ NextStage[k] \in Kinds \cup {"running"} /\ Ahead[NextStage[k]] = Ahead[k] \ {k}
          BY <3>2, Stages
        <4>2. w.stage = NextStage[k] /\ w.call = "get" /\ w # Idle /\ w.stage # "failed"
          BY <3>8, <4>1 DEF Entry, Idle, Kinds, Watched
        <4>3. Made(Kinds \ Ahead[w.stage], s)
          BY <3>4, <3>8, <4>1, <4>2 DEF Made
        <4>4. Reconciled(w)'
          BY <3>2, <3>3, <4>2, <4>3 DEF Reconciled, Made, apiVars
        <4>5. QED
          BY <1>1, <3>2, <3>3, <3>5, <3>6, <4>2, <4>4, QMoves DEF apiVars
      <3>9. CASE w.stage = k /\ w.call = "create" /\ object[k] = 0
        <4>1. w # Idle /\ w.stage # "failed"
          BY <3>2, <3>9 DEF Idle, Kinds, Watched
        <4>2. Reconciled(w)'
          BY <3>2, <3>3, <3>4, <3>9 DEF Reconciled, Made, apiVars
        <4>3. QED
          BY <1>1, <3>2, <3>3, <3>5, <3>6, <3>9, <4>1, <4>2, QMoves DEF apiVars
      <3>10. CASE w.stage = k /\ w.call = "update" /\ w.fresh = TRUE /\ object[k] # 0
        <4>1. w # Idle /\ w.stage # "failed"
          BY <3>2, <3>10 DEF Idle, Kinds, Watched
        <4>2. Reconciled(w)'
          BY <3>2, <3>3, <3>4, <3>10 DEF Reconciled, Made, apiVars
        <4>3. QED
          BY <1>1, <3>2, <3>3, <3>5, <3>6, <3>10, <4>1, <4>2, QMoves DEF apiVars
      <3>11. QED
        BY <3>3, <3>7, <3>8, <3>9, <3>10 DEF Found
    <2>5. CASE PutObject("CR")
      <3>1. PICK k : k = work["CR"].stage
        OBVIOUS
      <3>2. /\ k \in Kinds /\ work["CR"].call \in {"create", "update"} /\ s \in 1..lastSpec
            /\ UNCHANGED <<cr, phase, lastSpec, informerVars>>
        BY <2>1, <2>5, <3>1, Writes
      <3>3. PICK w \in Works :
              /\ Moves("CR", w) /\ w.spec = work["CR"].spec
              /\ \/ /\ Accepted("CR", k) /\ object' = [object EXCEPT ![k] = work["CR"].spec]
                    /\ w = Entry("CR", NextStage[k])
                 \/ /\ w = Entry("CR", "failed") /\ UNCHANGED object
                    /\ Accepted("CR", k) => "api" \in happened'
        BY <2>1, <2>5, <3>1, Writes
      <3>4. Made(Kinds \ Ahead[k], s) /\ Accepted("CR", k)
        BY <1>1, <3>1, <3>2 DEF Reconciled, Accepted
      <3>5. CASE w = Entry("CR", "failed") /\ UNCHANGED object /\ "api" \in happened'
        <4>1. Reconciled(w)' /\ w.call # "delete"
          BY <3>5 DEF Entry, Reconciled, Kinds, Watched
        <4>2. (phase = "Running" => Complete)'
          BY <1>1, <3>2, <3>5 DEF Complete
        <4>3. QED
          BY <1>1, <3>2, <3>3, <3>5, <4>1, <4>2, QMoves
      <3>6. CASE object' = [object EXCEPT ![k] = s] /\ w = Entry("CR", NextStage[k])
        <4>1. /\ NextStage[k] \in Kinds \cup {"running"} /\ Ahead[NextStage[k]] = Ahead[k] \ {k}
          BY <3>2, Stages
        <4>2. w.stage = NextStage[k] /\ w.call = "get" /\ w # Idle /\ w.stage # "failed"
          BY <3>6, <4>1 DEF Entry, Idle, Kinds, Watched
        <4>3. object'[k] = s /\ s # 0 /\ \A j \in Kinds \ {k} : object'[j] = object[j]
          BY <3>2, <3>6, ControllerAssumption DEF IInv, Types
        <4>4. Made(Kinds \ Ahead[w.stage], w.spec)'
          <5>1. w.spec = s /\ Kinds \ Ahead[w.stage] = (Kinds \ Ahead[k]) \cup {k}
            BY <3>2, <3>3, <4>1, <4>2
          <5>2. \A j \in (Kinds \ Ahead[k]) \cup {k} : object'[j] # 0
            BY <3>4, <4>3 DEF Made
          <5>3. \A j \in ((Kinds \ Ahead[k]) \cup {k}) \cap {"Deployment", "IngressRoute"} : object'[j] = s
            BY <3>4, <4>3 DEF Made
          <5>4. QED
            BY <5>1, <5>2, <5>3 DEF Made
        <4>5. Reconciled(w)'
          BY <4>2, <4>4 DEF Reconciled
        <4>6. (phase = "Running" => Complete)'
          BY <1>1, <3>2, <4>3 DEF Complete
        <4>7. "api" \notin happened' => CRFollowed(w)'
          <5>1. work["CR"] # Idle
            BY <3>2 DEF Idle
          <5>2. QED
            BY <1>1, <3>2, <3>3, <4>2, <5>1 DEF CRFollowed, informerVars
        <4>8. QED
          BY <1>1, <3>2, <3>3, <4>2, <4>5, <4>6, <4>7, QMoves
      <3>7. QED
        BY <3>3, <3>4, <3>5, <3>6
    <2>6. QED
      BY <1>3, <2>1, <2>2, <2>3, <2>4, <2>5, QOnCR DEF HandlerNext, DeleteNext
  <1>4. QED
    BY <1>2, <1>3

LEMMA QPreserved == ASSUME IInv, QInv, [Next]_vars PROVE QInv'
  <1> SUFFICES ASSUME Quiet' PROVE QInv'
    BY DEF QInv
  <1>1. Quiet
    BY Growing
  <1>2. CASE UNCHANGED vars
    BY <1>2 DEF vars, apiVars, informerVars, history, QInv, Quiet, OnlyCR, Reconciled, CRFollowed, Made, Complete
  <1>3. CASE DeleteCR
    BY <1>3 DEF DeleteCR, CRChanges, Quiet, IInv, Types, Status, Versions, NoCR
  <1>4. CASE \E k \in Watched : DeleteObject(k)
    BY <1>4 DEF DeleteObject, Occurs, Quiet
  <1>5. CASE Next /\ ~DeleteCR /\ ~\E k \in Watched : DeleteObject(k)
    BY <1>1, <1>5, QWriteSpec, QObserve, QRestart, QList, QRelist, QHandler DEF Next
  <1>6. QED
    BY <1>2, <1>3, <1>4, <1>5

(* Whatever the order of a worker's deploys, and although the controller   *)
(* restarts or loses its watches between any two calls, the cluster ends   *)
(* up with the CR's spec in the Deployment and the route, and says so.     *)
THEOREM Following == Spec => []ClusterFollowsCR
  <1>1. IInv /\ QInv => ClusterFollowsCR
    <2> SUFFICES ASSUME IInv, QInv, Settled, cr # NoCR, happened \subseteq {"restart", "relist"}
                 PROVE  Follows /\ phase = "Running"
      BY DEF ClusterFollowsCR
    <2>1. Quiet /\ CRFollowed(work["CR"])
      BY DEF Quiet, QInv
    <2>2. "CR" \in Handlers
      BY DEF Handlers
    <2>3. /\ lastSpec \in Nat /\ cr \in Versions /\ work["CR"] \in Works /\ Fits(work["CR"])
      BY <2>2, ControllerAssumption DEF IInv, Types
    <2>4. crCache = cr /\ cr.spec = lastSpec /\ notices = <<>> /\ work["CR"].stage = "idle"
      BY <2>2 DEF Settled, IInv, Chain, Store, Status
    <2>5. work["CR"].spec = 0 /\ cr.spec # 0
      BY <2>3, <2>4, Snapshots DEF Fits
    <2>6. Made(Kinds, cr.spec) /\ phase = "Running"
      BY <2>1, <2>4, <2>5 DEF CRFollowed
    <2>7. QED
      BY <2>6 DEF Made, Follows, Complete, Kinds, Watched
  <1>2. Spec => [](IInv /\ QInv)
    BY InitIInv, InitQInv, Preserved, QPreserved, PTL DEF Spec
  <1>3. QED
    BY <1>1, <1>2, PTL

(* A CR that says Running has all its objects, also after calls failed.    *)
THEOREM RunningTrue == Spec => []RunningIsTrue
  <1>1. IInv /\ QInv => RunningIsTrue
    BY DEF RunningIsTrue, IInv, Status, QInv, Quiet
  <1>2. Spec => [](IInv /\ QInv)
    BY InitIInv, InitQInv, Preserved, QPreserved, PTL DEF Spec
  <1>3. QED
    BY <1>1, <1>2, PTL

-----------------------------------------------------------------------------
(***************************************************************************)
(* Without faults.                                                         *)
(***************************************************************************)
LEMMA InitNInv == Init => NInv
  <1> SUFFICES ASSUME Init PROVE NInv
    OBVIOUS
  <1>1. CRGoneLast /\ Emptying(work["CR"]) /\ Nothing
    BY DEF Init, CRGoneLast, Emptying, Nothing, Idle, Handlers, Watched
  <1>2. notices = <<>> /\ work["CR"] = Idle
    BY DEF Init, Handlers
  <1>3. QED
    BY <1>1, <1>2 DEF NInv

LEMMA NWriteSpec == ASSUME IInv, NInv, happened' = {}, WriteSpec PROVE NInv'
  <1>1. happened = {} /\ ~(cr = NoCR /\ lastSpec > 0)
    BY DEF WriteSpec, Occurs, history
  <1>2. CRGoneLast /\ Emptying(work["CR"]) /\ ("CR" \notin listed => Nothing)
    BY <1>1 DEF NInv
  <1>3. PICK c : c = [spec |-> lastSpec + 1, gen |-> cr.gen + 1] /\ CRChanges(c) /\ lastSpec' = lastSpec + 1
    BY DEF WriteSpec
  <1>4. /\ work' = Outdate(work, StatusStages) /\ cr' = c
        /\ UNCHANGED <<object, listed, crCache, notices, deleted>>
        /\ watch' = IF "CR" \in listed THEN Append(watch, c) ELSE watch
    BY <1>3 DEF CRChanges
  <1>5. /\ lastSpec \in Nat /\ cr \in Versions /\ crCache \in Versions /\ watch \in Seq(Versions)
        /\ deleted \in [Watched -> Nat]
        /\ work \in [Handlers -> Works] /\ \A h \in Handlers : Fits(work[h])
    BY ControllerAssumption DEF IInv, Types
  <1>6. c # NoCR /\ ~Over
    BY <1>1, <1>3, <1>5 DEF NoCR, Over
  <1>7. "CR" \in Handlers /\ Watched \subseteq Handlers
    BY DEF Handlers
  <1>8. ASSUME NEW h \in Handlers
        PROVE  work'[h].call = work[h].call /\ (work[h] = Idle => work'[h] = Idle)
    <2>1. work'[h] = Outdate(work, StatusStages)[h]
      BY <1>4
    <2>2. work'[h].call = work[h].call /\ (work[h].stage \notin StatusStages => work'[h] = work[h])
      BY <1>5, <2>1, Outdated
    <2>3. work[h] = Idle => work[h].stage \notin StatusStages
      BY DEF Idle, StatusStages
    <2>4. QED
      BY <2>2, <2>3
  <1>9. \A i \in 1..Len(watch') : watch'[i] # NoCR
    <2>1. ASSUME NEW i \in 1..Len(watch) PROVE watch[i] # NoCR
      <3>1. SUFFICES ASSUME watch[i] = NoCR PROVE FALSE
        OBVIOUS
      <3>2. i = Len(watch) /\ Store(i - 1) # NoCR
        BY <1>2, <3>1 DEF CRGoneLast
      <3>3. "CR" \in listed
        BY <1>5, <3>2 DEF IInv, Unlisted
      <3>4. Len(watch) # 0
        BY <1>5, <3>2
      <3>5. cr = NoCR
        BY <3>1, <3>2, <3>3, <3>4 DEF IInv, Chain, Store
      <3>6. lastSpec = 0
        BY <1>1, <1>5, <3>5
      <3>7. Versions = {NoCR}
        BY <3>6 DEF Versions
      <3>8. Store(i - 1) \in Versions
        <4>1. i - 1 = 0 \/ i - 1 \in 1..Len(watch)
          BY <1>5
        <4>2. QED
          BY <1>5, <4>1 DEF Store
      <3>9. QED
        BY <3>2, <3>7, <3>8
    <2>2. CASE "CR" \in listed
      <3>1. watch \in Seq(Versions \cup {c})
        BY <1>5, SeqMonotonic
      <3>2. /\ Len(watch') = Len(watch) + 1 /\ watch'[Len(watch')] = c /\ Len(watch) \in Nat
            /\ \A j \in 1..Len(watch) : watch'[j] = watch[j]
        BY <1>4, <2>2, <3>1, Pushed
      <3>3. QED
        BY <1>6, <2>1, <3>2
    <2>3. CASE "CR" \notin listed
      BY <1>4, <2>1, <2>3
    <2>4. QED
      BY <2>2, <2>3
  <1>10. /\ \A k \in Watched : work'[k] = Idle /\ deleted'[k] = 0
         /\ \A i \in 1..Len(notices') : notices'[i] # 0
    BY <1>2, <1>4, <1>6, <1>7, <1>8 DEF CRGoneLast
  <1>11. CRGoneLast'
    BY <1>9, <1>10 DEF CRGoneLast
  <1>12. Emptying(work["CR"])'
    BY <1>2, <1>6, <1>7, <1>8 DEF Emptying
  <1>13. QED
    BY <1>2, <1>4, <1>6, <1>11, <1>12 DEF NInv, Nothing

LEMMA NDeleteCR == ASSUME IInv, NInv, happened = {}, DeleteCR PROVE NInv'
  <1>1. CRGoneLast /\ Emptying(work["CR"]) /\ ("CR" \notin listed => Nothing)
    BY DEF NInv
  <1>2. CRChanges(NoCR) /\ lastSpec' = lastSpec /\ cr # NoCR
    BY DEF DeleteCR
  <1>3. /\ work' = Outdate(work, StatusStages) /\ cr' = NoCR
        /\ UNCHANGED <<object, listed, crCache, notices, deleted>>
        /\ watch' = IF "CR" \in listed THEN Append(watch, NoCR) ELSE watch
    BY <1>2 DEF CRChanges
  <1>4. /\ lastSpec \in Nat /\ watch \in Seq(Versions) /\ NoCR \in Versions
        /\ work \in [Handlers -> Works] /\ \A h \in Handlers : Fits(work[h])
    BY ControllerAssumption DEF IInv, Types, Versions
  <1>5. ~Over
    BY <1>2 DEF Over
  <1>6. "CR" \in Handlers /\ Watched \subseteq Handlers
    BY DEF Handlers
  <1>7. ASSUME NEW h \in Handlers
        PROVE  work'[h].call = work[h].call /\ (work[h] = Idle => work'[h] = Idle)
    <2>1. work'[h] = Outdate(work, StatusStages)[h]
      BY <1>3
    <2>2. work'[h].call = work[h].call /\ (work[h].stage \notin StatusStages => work'[h] = work[h])
      BY <1>4, <2>1, Outdated
    <2>3. work[h] = Idle => work[h].stage \notin StatusStages
      BY DEF Idle, StatusStages
    <2>4. QED
      BY <2>2, <2>3
  <1>8. /\ \A k \in Watched : work'[k] = Idle /\ deleted'[k] = 0
        /\ \A i \in 1..Len(notices') : notices'[i] # 0
    BY <1>1, <1>3, <1>5, <1>6, <1>7 DEF CRGoneLast
  <1>9. Emptying(work["CR"])'
    BY <1>1, <1>5, <1>6, <1>7 DEF Emptying
  <1>10. CASE "CR" \in listed
    <2> DEFINE n == Len(watch)
    <2>1. n \in Nat /\ (IF n = 0 THEN crCache ELSE watch[n]) = cr
      BY <1>4, <1>10 DEF IInv, Chain, Store
    <2>2. /\ Len(watch') = n + 1 /\ watch' # <<>>
          /\ \A j \in 1..n : watch'[j] = watch[j]
      BY <1>3, <1>4, <1>10, Pushed
    <2>3. \A i \in 1..n : watch[i] # NoCR
      BY <1>1, <1>2, <2>1 DEF CRGoneLast
    <2> HIDE DEF n
    <2>4. ASSUME NEW i \in 1..Len(watch'), watch'[i] = NoCR
          PROVE  i = Len(watch') /\ (IF i - 1 = 0 THEN crCache' ELSE watch'[i - 1]) # NoCR
      <3>1. i = n + 1 /\ i - 1 = n
        BY <2>1, <2>2, <2>3, <2>4
      <3>2. n # 0 => watch'[n] = watch[n]
        BY <2>1, <2>2
      <3>3. QED
        BY <1>2, <1>3, <2>1, <2>2, <3>1, <3>2
    <2>5. CRGoneLast'
      BY <1>8, <2>4 DEF CRGoneLast, Store
    <2>6. QED
      BY <1>3, <1>9, <1>10, <2>2, <2>5 DEF NInv
  <1>11. CASE "CR" \notin listed
    <2>1. watch' = <<>> /\ notices' = <<>> /\ work["CR"] = Idle /\ Nothing
      BY <1>1, <1>3, <1>11 DEF IInv, Unlisted
    <2>2. CRGoneLast'
      BY <1>8, <2>1 DEF CRGoneLast
    <2>3. Nothing' /\ work'["CR"] = Idle
      BY <1>3, <1>6, <1>7, <2>1 DEF Nothing
    <2>4. QED
      BY <1>9, <2>1, <2>2, <2>3 DEF NInv
  <1>12. QED
    BY <1>10, <1>11

LEMMA NObserve == ASSUME IInv, NInv, happened = {}, Observe PROVE NInv'
  <1> DEFINE n == Len(watch)
  <1>1. CRGoneLast /\ Emptying(work["CR"])
    BY DEF NInv
  <1>2. /\ n \in Nat \ {0} /\ crCache' = watch[1] /\ watch[1] \in Versions
        /\ Len(watch') = n - 1 /\ \A i \in 1..Len(watch') : watch'[i] = watch[i + 1]
        /\ watch' = <<>> <=> n = 1
        /\ \A i \in 1..Len(notices) : notices'[i] = notices[i]
        /\ \/ notices' = notices /\ crCache = NoCR /\ crCache' = NoCR
           \/ /\ notices' # <<>> /\ Len(notices') = Len(notices) + 1
              /\ notices'[Len(notices')] = crCache'.spec
        /\ UNCHANGED <<cr, phase, lastSpec, object, listed, deleted, work, happened, faults>>
        /\ "CR" \in listed /\ watch # <<>>
    BY Observed DEF apiVars, history
  <1>3. /\ lastSpec \in Nat /\ Len(notices) \in Nat /\ crCache \in Versions
    BY ControllerAssumption DEF IInv, Types
  <1>4. ~Over
    BY <1>2 DEF Over
  <1>5. /\ \A k \in Watched : work'[k] = Idle /\ deleted'[k] = 0
        /\ \A i \in 1..Len(notices) : notices[i] # 0
        /\ work["CR"].call # "delete"
    BY <1>1, <1>2, <1>4 DEF CRGoneLast, Emptying
  <1>6. \A i \in 1..n : watch[i] = NoCR => i = n /\ (IF i - 1 = 0 THEN crCache ELSE watch[i - 1]) # NoCR
    BY <1>1 DEF CRGoneLast, Store
  <1>7. cr = watch[n]
    BY <1>2 DEF IInv, Chain, Store
  <1> HIDE DEF n
  <1>8. watch[1] = NoCR => Over' /\ crCache # NoCR /\ notices' # notices
    <2> SUFFICES ASSUME watch[1] = NoCR PROVE Over' /\ crCache # NoCR /\ notices' # notices
      OBVIOUS
    <2>1. 1 \in 1..n /\ 1 - 1 = 0
      BY <1>2
    <2>2. n = 1 /\ crCache # NoCR
      BY <1>6, <2>1
    <2>3. lastSpec # 0
      BY <1>3, <2>2 DEF Versions
    <2>4. Len(notices') # Len(notices)
      BY <1>2, <1>3, <2>2
    <2>5. QED
      BY <1>2, <1>7, <2>2, <2>3, <2>4 DEF Over
  <1>9. \A i \in 1..Len(watch') : watch'[i] = NoCR =>
          i = Len(watch') /\ (IF i - 1 = 0 THEN crCache' ELSE watch'[i - 1]) # NoCR
    <2> SUFFICES ASSUME NEW i \in 1..(n - 1), watch'[i] = NoCR
                 PROVE  i = n - 1 /\ (IF i - 1 = 0 THEN crCache' ELSE watch'[i - 1]) # NoCR
      BY <1>2
    <2>1. i + 1 \in 1..n /\ watch[i + 1] = NoCR /\ (i + 1) - 1 = i /\ i # 0
      BY <1>2
    <2>2. i + 1 = n /\ watch[i] # NoCR
      BY <1>6, <2>1
    <2>3. i = 1 \/ (i - 1 \in 1..(n - 1) /\ (i - 1) + 1 = i)
      BY <1>2
    <2>4. QED
      BY <1>2, <2>2, <2>3
  <1>10. \A i \in 1..Len(notices') : notices'[i] = 0 => i = Len(notices') /\ Over'
    <2>1. CASE notices' = notices
      BY <1>5, <2>1
    <2>2. CASE Len(notices') = Len(notices) + 1 /\ notices'[Len(notices')] = crCache'.spec
      <3>1. crCache'.spec = 0 => Over'
        BY <1>2, <1>3, <1>8, Snapshots
      <3>2. QED
        BY <1>2, <1>3, <1>5, <2>2, <3>1
    <2>3. QED
      BY <1>2, <2>1, <2>2
  <1>11. CRGoneLast'
    BY <1>5, <1>9, <1>10 DEF CRGoneLast, Store
  <1>12. Emptying(work["CR"])'
    BY <1>2, <1>5 DEF Emptying
  <1>13. crCache' = NoCR => ToldGone'
    <2>1. NoCR.spec = 0
      BY DEF NoCR
    <2>2. QED
      BY <1>2, <1>8, <2>1 DEF ToldGone
  <1>14. QED
    BY <1>2, <1>11, <1>12, <1>13 DEF NInv

LEMMA NList == ASSUME IInv, NInv, happened = {}, NEW i \in Handlers, List(i) PROVE NInv'
  <1>1. /\ CRGoneLast /\ Emptying(work["CR"]) /\ ("CR" \notin listed => Nothing)
        /\ cr = NoCR /\ crCache = NoCR /\ watch = <<>> =>
             ToldGone \/ (notices = <<>> /\ work["CR"] = Idle /\ Nothing)
    BY DEF NInv
  <1>2. /\ UNCHANGED <<cr, phase, lastSpec, object, watch, deleted, work, happened, faults>> /\ i \notin listed
        /\ listed' = listed \cup {i}
    BY DEF List, apiVars, history
  <1>3. /\ lastSpec \in Nat /\ cr \in Versions
    BY ControllerAssumption DEF IInv, Types
  <1>4. CASE i = "CR"
    <2>1. /\ crCache' = cr /\ notices' = Notice(NoCR, cr) /\ watch = <<>> /\ work["CR"] = Idle
          /\ notices = <<>> /\ crCache = NoCR
      BY <1>2, <1>4 DEF List, IInv, Unlisted
    <2>2. CASE cr = NoCR
      <3>1. notices' = <<>> /\ crCache' = NoCR
        BY <2>1, <2>2 DEF Notice
      <3>2. CRGoneLast' /\ Emptying(work["CR"])'
        BY <1>1, <1>2, <2>1, <2>2, <3>1 DEF CRGoneLast, Emptying, Over, Idle
      <3>3. Nothing'
        BY <1>1, <1>2, <1>4 DEF Nothing
      <3>4. QED
        BY <1>2, <2>1, <3>1, <3>2, <3>3 DEF NInv
    <2>3. CASE cr # NoCR
      <3>1. notices' = <<cr.spec>> /\ cr.spec # 0
        BY <1>3, <2>1, <2>3, Snapshots DEF Notice
      <3>2. notices' # <<>> /\ Len(notices') = 1 /\ notices'[1] = cr.spec
        BY <3>1
      <3>3. CRGoneLast' /\ Emptying(work["CR"])'
        BY <1>1, <1>2, <2>1, <2>3, <3>1, <3>2 DEF CRGoneLast, Emptying, Over, Idle
      <3>4. QED
        BY <1>2, <1>4, <2>3, <3>3 DEF NInv
    <2>4. QED
      BY <2>2, <2>3
  <1>5. CASE i # "CR"
    <2>1. UNCHANGED <<crCache, notices>>
      BY <1>5 DEF List
    <2>2. CRGoneLast' /\ Emptying(work["CR"])' /\ (ToldGone => ToldGone') /\ (Nothing => Nothing')
      BY <1>1, <1>2, <2>1 DEF CRGoneLast, Emptying, Over, Store, ToldGone, Nothing
    <2>3. QED
      BY <1>1, <1>2, <1>5, <2>1, <2>2 DEF NInv
  <1>6. QED
    BY <1>4, <1>5

LEMMA NOnCR == ASSUME IInv, NInv, happened = {}, OnCR PROVE NInv'
  <1>1. /\ CRGoneLast
        /\ cr = NoCR /\ crCache = NoCR /\ watch = <<>> =>
             ToldGone \/ (notices = <<>> /\ work["CR"] = Idle /\ Nothing)
    BY DEF NInv
  <1>2. /\ Len(notices) \in Nat \ {0} /\ Len(notices') = Len(notices) - 1
        /\ \A i \in 1..Len(notices') : notices'[i] = notices[i + 1]
        /\ notices' = <<>> <=> Len(notices) = 1
        /\ notices # <<>> /\ "CR" \in listed
        /\ work' = [work EXCEPT !["CR"] = IF notices[1] = 0 THEN DeleteAll ELSE Reconcile(notices[1])]
        /\ UNCHANGED <<cr, phase, lastSpec, object, listed, watch, crCache, deleted, happened, faults>>
    BY Taken DEF apiVars, history
  <1>3. /\ work'["CR"] = IF notices[1] = 0 THEN DeleteAll ELSE Reconcile(notices[1])
        /\ \A k \in Watched : work'[k] = work[k]
    BY <1>2 DEF IInv, Types, Handlers, Watched
  <1>4. \A i \in 1..Len(notices') : notices'[i] = 0 => i = Len(notices') /\ Over
    BY <1>1, <1>2 DEF CRGoneLast
  <1>5. CRGoneLast'
    BY <1>1, <1>2, <1>3, <1>4 DEF CRGoneLast, Over, Store
  <1>6. CASE notices[1] = 0
    <2>1. Len(notices) = 1 /\ Over /\ notices' = <<>>
      BY <1>1, <1>2, <1>6 DEF CRGoneLast
    <2>2. work'["CR"].call = "delete" /\ work'["CR"].stage = "Deployment"
      BY <1>3, <1>6 DEF DeleteAll
    <2>3. Still["Deployment"] = Kinds
      BY DEF Still
    <2>4. Emptying(work["CR"])'
      BY <1>2, <2>1, <2>2, <2>3 DEF Emptying, Over
    <2>5. ToldGone'
      BY <2>1, <2>2 DEF ToldGone
    <2>6. QED
      BY <1>2, <1>5, <2>4, <2>5 DEF NInv
  <1>7. CASE notices[1] # 0
    <2>1. work'["CR"].call = "get"
      BY <1>3, <1>7 DEF Reconcile
    <2>2. Emptying(work["CR"])'
      BY <2>1 DEF Emptying
    <2>3. cr' = NoCR /\ crCache' = NoCR /\ watch' = <<>> => ToldGone'
      <3>1. SUFFICES ASSUME cr = NoCR, crCache = NoCR, watch = <<>> PROVE ToldGone'
        BY <1>2
      <3>2. notices[Len(notices)] = 0
        BY <1>1, <1>2, <3>1 DEF ToldGone
      <3>3. Len(notices') \in 1..Len(notices') /\ Len(notices') + 1 = Len(notices)
        BY <1>2, <1>7, <3>2
      <3>4. QED
        BY <1>2, <3>2, <3>3 DEF ToldGone
    <2>4. QED
      BY <1>2, <1>5, <2>2, <2>3 DEF NInv
  <1>8. QED
    BY <1>6, <1>7

(* The CR's handler reconciles.                                            *)
LEMMA NReconciles ==
  ASSUME IInv, NInv, happened = {}, NEW w, Moves("CR", w), w.call # "delete",
         work["CR"].call \in {"get", "create", "update"},
         UNCHANGED <<cr, lastSpec, informerVars>>
  PROVE  NInv'
  <1>1. work'["CR"] = w /\ \A k \in Watched : work[k] = Idle => work'[k] = Idle
    BY DEF Moves, Handlers, Watched
  <1>2. "CR" \in listed
    BY DEF IInv, Unlisted, Idle
  <1>3. CRGoneLast' /\ Emptying(work["CR"])'
    BY <1>1 DEF NInv, CRGoneLast, Emptying, Over, Store, informerVars
  <1>4. cr = NoCR /\ crCache = NoCR /\ watch = <<>> => ToldGone /\ notices # <<>>
    BY DEF NInv, ToldGone, Idle
  <1>5. cr' = NoCR /\ crCache' = NoCR /\ watch' = <<>> => ToldGone'
    BY <1>4 DEF ToldGone, informerVars
  <1>6. QED
    BY <1>2, <1>3, <1>5 DEF NInv, informerVars

LEMMA NHandler == ASSUME IInv, NInv, happened' = {}, NEW h \in Handlers, HandlerNext(h) PROVE NInv'
  <1>1. happened = {} /\ Watched \subseteq Handlers /\ "CR" \notin Watched /\ "CR" \in Handlers
    BY Growing DEF Next, Handlers, Watched
  <1>2. /\ CRGoneLast /\ Emptying(work["CR"]) /\ ("CR" \notin listed => Nothing)
        /\ cr = NoCR /\ crCache = NoCR /\ watch = <<>> =>
             ToldGone \/ (notices = <<>> /\ work["CR"] = Idle /\ Nothing)
    BY <1>1 DEF NInv
  <1>3. CASE h \in Watched
    <2>1. work[h] = Idle /\ h # "CR"
      BY <1>1, <1>2, <1>3 DEF CRGoneLast
    <2>2. OnSubResourceDelete(h)
      BY <2>1 DEF HandlerNext, GetStatus, PutStatus, GetObject, PutObject, DeleteNext,
         Idle, StatusStages, Kinds, Watched
    <2>3. /\ deleted[h] # 0
          /\ \A j \in Watched : deleted[j] = 0 => deleted'[j] = 0
          /\ UNCHANGED <<cr, phase, lastSpec, object, listed, watch, crCache, notices, happened, faults>>
      BY <1>3, <2>2, Asked DEF apiVars, history
    <2>4. PICK w : Moves(h, w) /\ IF crCache = NoCR THEN w = Idle ELSE w = Reconcile(crCache.spec)
      BY <1>3, <2>2, Asked
    <2>5. w = Idle
      BY <1>2, <1>3, <2>3, <2>4 DEF CRGoneLast, Over
    <2>6. /\ \A k \in Watched : work'[k] = Idle
          /\ work'["CR"].call = work["CR"].call /\ work'["CR"].stage = work["CR"].stage
          /\ work["CR"] = Idle => work'["CR"] = Idle
      BY <1>1, <1>2, <2>1, <2>4, <2>5 DEF Moves, CRGoneLast
    <2>7. CRGoneLast' /\ Emptying(work["CR"])'
      BY <1>2, <2>3, <2>6 DEF CRGoneLast, Emptying, Over, Store
    <2>8. (ToldGone => ToldGone') /\ (Nothing => Nothing')
      BY <2>3, <2>6 DEF ToldGone, Nothing
    <2>9. QED
      BY <1>2, <2>3, <2>6, <2>7, <2>8 DEF NInv
  <1>4. CASE h = "CR" /\ (GetStatus(h) \/ PutStatus(h) \/ GetObject(h) \/ PutObject(h))
    <2>1. /\ work["CR"].call \in {"get", "create", "update"}
          /\ UNCHANGED <<cr, lastSpec, informerVars>>
      BY <1>1, <1>4, Gets, Puts, Looks, Writes DEF apiVars
    <2>2. PICK w : Moves("CR", w) /\ w.call # "delete"
      <3>1. CASE GetStatus("CR")
        <4>1. PICK w \in Works :
                /\ Moves("CR", w)
                /\ \/ /\ cr # NoCR /\ w.stage = work["CR"].stage /\ w.call = "update"
                      /\ w.spec = work["CR"].spec /\ w.fresh = TRUE
                   \/ IF work["CR"].stage = "deploying" THEN w = Entry("CR", "ConfigMap") ELSE w = Idle
          BY <1>1, <3>1, Gets
        <4>2. QED
          BY <4>1 DEF Entry, Idle
      <3>2. CASE PutStatus("CR")
        <4>1. PICK w \in Works : Moves("CR", w) /\ IF work["CR"].stage = "deploying" THEN w = Entry("CR", "ConfigMap") ELSE w = Idle
          BY <1>1, <3>2, Puts
        <4>2. QED
          BY <4>1 DEF Entry, Idle
      <3>3. CASE GetObject("CR")
        <4>1. PICK k : k = work["CR"].stage
          OBVIOUS
        <4>2. PICK w \in Works : Moves("CR", w) /\ w.spec = work["CR"].spec /\ Found("CR", k, w)
          BY <1>1, <3>3, <4>1, Looks
        <4>3. QED
          BY <4>2 DEF Entry, Found
      <3>4. CASE PutObject("CR")
        <4>1. PICK w : Moves("CR", w) /\ \E stage : w = Entry("CR", stage)
          BY <1>1, <3>4, Writes
        <4>2. QED
          BY <4>1 DEF Entry
      <3>5. QED
        BY <1>4, <3>1, <3>2, <3>3, <3>4
    <2>4. QED
      BY <1>1, <2>1, <2>2, NReconciles
  <1>5. CASE h = "CR" /\ DeleteNext(h)
    <2>1. PICK k : k = work["CR"].stage
      OBVIOUS
    <2>2. /\ k \in Kinds /\ work["CR"].call = "delete" /\ Gone(k)
          /\ UNCHANGED <<cr, phase, lastSpec, listed, watch, crCache, notices>>
      BY <1>1, <1>5, <2>1, Deletes
    <2>3. PICK w \in Works :
              /\ Moves("CR", w)
              /\ IF k = "IngressRoute" THEN w = Idle
                 ELSE /\ w.call = "delete" /\ w.stage = NextDelete[k] /\ w.stage \in Kinds
                      /\ Still[w.stage] = Still[k] \ {k}
      BY <1>1, <1>5, <2>1, Deletes
    <2>4. object'[k] = 0 /\ \A j \in Kinds \ {k} : object'[j] = object[j]
      BY <2>2, Going DEF IInv
    <2>5. Over /\ notices = <<>> /\ \A j \in Kinds \ Still[k] : object[j] = 0
      BY <1>2, <2>1, <2>2 DEF Emptying
    <2>6. work'["CR"] = w /\ \A j \in Watched : work'[j] = Idle
      BY <1>1, <1>2, <2>3 DEF Moves, CRGoneLast
    <2>7. Over' /\ notices' = <<>>
      BY <2>2, <2>5 DEF Over
    <2>8. CRGoneLast'
      BY <2>6, <2>7 DEF CRGoneLast, Over
    <2>9. "CR" \in listed
      BY <2>2 DEF IInv, Unlisted, Idle
    <2>10. CASE k = "IngressRoute"
      <3>1. w = Idle /\ Still[k] = {k}
        BY <2>3, <2>10 DEF Still
      <3>2. Nothing'
        BY <2>4, <2>5, <3>1 DEF Nothing
      <3>3. Emptying(work["CR"])'
        BY <2>6, <3>1 DEF Emptying, Idle
      <3>4. QED
        BY <2>2, <2>6, <2>7, <2>8, <2>9, <3>1, <3>2, <3>3 DEF NInv
    <2>11. CASE k # "IngressRoute"
      <3>1. w.call = "delete" /\ Still[w.stage] = Still[k] \ {k}
        BY <2>3, <2>11
      <3>2. Emptying(work["CR"])'
        BY <2>4, <2>5, <2>6, <2>7, <3>1 DEF Emptying
      <3>3. ToldGone'
        BY <2>6, <2>7, <3>1 DEF ToldGone
      <3>4. QED
        BY <2>2, <2>8, <2>9, <3>2, <3>3 DEF NInv
    <2>12. QED
      BY <2>10, <2>11
  <1>6. CASE h = "CR" /\ OnCR
    BY <1>1, <1>6, NOnCR
  <1>7. QED
    BY <1>1, <1>3, <1>4, <1>5, <1>6 DEF HandlerNext, Handlers

LEMMA NPreserved == ASSUME IInv, NInv, [Next]_vars PROVE NInv'
  <1> SUFFICES ASSUME happened' = {} PROVE NInv'
    BY DEF NInv
  <1>1. happened = {}
    BY Growing
  <1>2. CASE UNCHANGED vars
    BY <1>2 DEF vars, apiVars, informerVars, history, NInv, CRGoneLast, Emptying, Nothing, ToldGone,
       Over, Store
  <1>3. ASSUME NEW fault, Occurs(fault) PROVE FALSE
    BY <1>3 DEF Occurs
  <1>4. CASE Restart \/ (\E k \in Watched : DeleteObject(k)) \/ \E i \in Handlers : Relist(i)
    BY <1>3, <1>4 DEF Restart, DeleteObject, Relist
  <1>5. CASE Next /\ ~Restart /\ (~\E k \in Watched : DeleteObject(k)) /\ ~\E i \in Handlers : Relist(i)
    BY <1>1, <1>5, NWriteSpec, NDeleteCR, NObserve, NList, NHandler DEF Next
  <1>6. QED
    BY <1>2, <1>4, <1>5

(* Nothing is left of a worker whose CR was deleted, whatever the handlers *)
(* were doing when it was.                                                 *)
THEOREM Emptied == Spec => []NothingLeft
  <1>1. IInv /\ NInv => NothingLeft
    <2> SUFFICES ASSUME IInv, NInv, Settled, cr = NoCR, happened = {} PROVE Nothing
      BY DEF NothingLeft, Nothing
    <2>1. "CR" \in Handlers
      BY DEF Handlers
    <2>2. work["CR"] \in Works /\ Fits(work["CR"]) /\ work["CR"].stage = "idle"
      BY <2>1 DEF Settled, IInv, Types
    <2>3. work["CR"] = Idle
      BY <2>2, Idles
    <2>4. crCache = NoCR /\ watch = <<>> /\ notices = <<>>
      BY <2>1 DEF Settled, IInv, Chain, Store
    <2>5. ~ToldGone
      BY <2>3, <2>4 DEF ToldGone, Idle
    <2>6. QED
      BY <2>4, <2>5 DEF NInv
  <1>2. Spec => [](IInv /\ NInv)
    BY InitIInv, InitNInv, Preserved, NPreserved, PTL DEF Spec
  <1>3. QED
    BY <1>1, <1>2, PTL

-----------------------------------------------------------------------------
(***************************************************************************)
(* Objects somebody deletes.                                               *)
(***************************************************************************)
Repairable == happened \subseteq {"subDelete", "restart", "recreate"} /\ cr # NoCR

LEMMA InitHInv == Init => HInv
  BY DEF Init, HInv, Idle, Handlers

(* Only the handlers of the CR delete.                                     *)
LEMMA HOnlyCRDeletes ==
  ASSUME IInv, HInv, [Next]_vars
  PROVE  \A k \in Watched : work'[k].call # "delete"
  <1> SUFFICES ASSUME NEW k \in Watched PROVE work'[k].call # "delete"
    OBVIOUS
  <1>1. /\ work[k].call # "delete" /\ k \in Handlers /\ k # "CR"
        /\ work \in [Handlers -> Works] /\ \A h \in Handlers : Fits(work[h])
    BY DEF HInv, IInv, Types, Handlers, Watched
  <1>2. ASSUME NEW stages, work' = Outdate(work, stages) PROVE work'[k].call # "delete"
    <2>1. work'[k] = Outdate(work, stages)[k]
      BY <1>2
    <2>2. QED
      BY <1>1, <2>1, Outdated
  <1>3. CASE WriteSpec \/ DeleteCR \/ \E j \in Watched : DeleteObject(j)
    BY <1>2, <1>3 DEF WriteSpec, DeleteCR, CRChanges, DeleteObject
  <1>4. CASE (UNCHANGED work) \/ work' = [h \in Handlers |-> Idle]
    BY <1>1, <1>4 DEF Idle
  <1>5. CASE Observe \/ Restart \/ (\E i \in Handlers : List(i) \/ Relist(i)) \/ UNCHANGED vars
    BY <1>4, <1>5 DEF Observe, Restart, List, Relist, vars
  <1>6. CASE \E h \in Handlers : HandlerNext(h)
    <2>1. PICK h \in Handlers : HandlerNext(h)
      BY <1>6
    <2>2. ASSUME NEW w, Moves(h, w), w.call # "delete" \/ h = "CR" PROVE work'[k].call # "delete"
      BY <1>1, <2>2 DEF Moves
    <2>3. CASE OnCR
      BY <1>1, <2>3 DEF OnCR
    <2>4. CASE h \in Watched /\ OnSubResourceDelete(h)
      <3>1. PICK w : Moves(h, w) /\ (w = Idle \/ w = Reconcile(crCache.spec))
        BY <2>4, Asked
      <3>2. QED
        BY <2>2, <3>1 DEF Idle, Reconcile
    <2>5. CASE GetStatus(h)
      <3>1. PICK w \in Works :
              /\ Moves(h, w)
              /\ \/ /\ cr # NoCR /\ w.stage = work[h].stage /\ w.call = "update"
                    /\ w.spec = work[h].spec /\ w.fresh = TRUE
                 \/ IF work[h].stage = "deploying" THEN w = Entry(h, "ConfigMap") ELSE w = Idle
        BY <2>5, Gets
      <3>2. QED
        BY <2>2, <3>1 DEF Entry, Idle
    <2>6. CASE PutStatus(h)
      <3>1. PICK w \in Works : Moves(h, w) /\ IF work[h].stage = "deploying" THEN w = Entry(h, "ConfigMap") ELSE w = Idle
        BY <2>6, Puts
      <3>2. QED
        BY <2>2, <3>1 DEF Entry, Idle
    <2>7. CASE GetObject(h)
      <3>1. PICK j : j = work[h].stage
        OBVIOUS
      <3>2. PICK w \in Works : Moves(h, w) /\ w.spec = work[h].spec /\ Found(h, j, w)
        BY <2>7, <3>1, Looks
      <3>3. QED
        BY <2>2, <3>2 DEF Entry, Found
    <2>8. CASE PutObject(h)
      <3>1. PICK w : Moves(h, w) /\ \E stage : w = Entry(h, stage)
        BY <2>8, Writes
      <3>2. QED
        BY <2>2, <3>1 DEF Entry
    <2>9. CASE DeleteNext(h)
      <3>1. h = "CR"
        BY <2>9 DEF DeleteNext, HInv, Handlers
      <3>2. PICK w : Moves(h, w)
        BY <2>9, Deletes
      <3>3. QED
        BY <2>2, <3>1, <3>2
    <2>10. QED
      BY <2>1, <2>3, <2>4, <2>5, <2>6, <2>7, <2>8, <2>9 DEF HandlerNext
  <1>7. QED
    BY <1>3, <1>5, <1>6 DEF Next

(* What the informer of the CR knows of a CR that exists.                  *)
LEMMA Behind ==
  ASSUME IInv, cr # NoCR, crCache = NoCR
  PROVE  "CR" \notin listed \/ watch # <<>>
  BY DEF IInv, Chain, Store

LEMMA HObserve == ASSUME IInv, Repairable, Observe, NEW k PROVE Coming(k)'
  <1>1. /\ Len(watch) \in Nat \ {0} /\ crCache' = watch[1] /\ watch[1] \in Versions
        /\ watch' = <<>> <=> Len(watch) = 1
        /\ \/ notices' = notices /\ crCache = NoCR /\ crCache' = NoCR
           \/ /\ notices' # <<>> /\ Len(notices') = Len(notices) + 1
              /\ notices'[Len(notices')] = crCache'.spec
        /\ "CR" \in listed
    BY Observed
  <1>2. lastSpec \in Nat /\ Len(notices) \in Nat
    BY ControllerAssumption DEF IInv, Types
  <1>3. CASE watch' # <<>>
    BY <1>3 DEF Coming
  <1>4. CASE watch' = <<>>
    <2>1. crCache' = cr
      BY <1>1, <1>4 DEF IInv, Chain, Store
    <2>2. crCache' # NoCR /\ crCache'.spec # 0
      BY <1>1, <1>2, <2>1, Snapshots DEF Repairable
    <2>3. Len(notices') \in 1..Len(notices') /\ notices'[Len(notices')] # 0
      BY <1>1, <1>2, <2>2
    <2>4. QED
      BY <2>3 DEF Coming
  <1>5. QED
    BY <1>3, <1>4

LEMMA HList ==
  ASSUME IInv, Repairable, NEW i \in Handlers, List(i), NEW k, object[k] # 0 \/ Coming(k)
  PROVE  object'[k] # 0 \/ Coming(k)'
  <1>1. UNCHANGED <<object, watch, deleted, work>> /\ i \notin listed /\ listed' = listed \cup {i}
    BY DEF List, apiVars
  <1>2. CASE i = "CR"
    <2>1. notices' = <<cr.spec>>
      BY <1>2 DEF List, Notice, Repairable
    <2>2. cr.spec # 0
      BY ControllerAssumption, Snapshots DEF IInv, Types, Repairable
    <2>3. 1 \in 1..Len(notices') /\ notices'[1] # 0
      BY <2>1, <2>2
    <2>4. QED
      BY <2>3 DEF Coming
  <1>3. CASE i # "CR"
    <2>1. UNCHANGED notices
      BY <1>3 DEF List
    <2>2. QED
      BY <1>1, <1>3, <2>1 DEF Coming, Carries
  <1>4. QED
    BY <1>2, <1>3

LEMMA HOnCR ==
  ASSUME IInv, Repairable, OnCR, NEW k \in Watched, object[k] # 0 \/ Coming(k)
  PROVE  object'[k] # 0 \/ Coming(k)'
  <1>1. /\ Len(notices) \in Nat \ {0} /\ Len(notices') = Len(notices) - 1
        /\ \A i \in 1..Len(notices') : notices'[i] = notices[i + 1]
        /\ "CR" \in listed /\ work["CR"] = Idle
        /\ work' = [work EXCEPT !["CR"] = IF notices[1] = 0 THEN DeleteAll ELSE Reconcile(notices[1])]
        /\ UNCHANGED <<object, listed, watch, deleted>>
    BY Taken DEF apiVars
  <1>2. /\ "CR" \in Handlers
        /\ work'["CR"] = IF notices[1] = 0 THEN DeleteAll ELSE Reconcile(notices[1])
        /\ \A h \in Handlers \ {"CR"} : work'[h] = work[h]
    BY <1>1 DEF IInv, Types, Handlers
  <1>3. CASE notices[1] # 0
    <2>1. PICK w : w = Reconcile(notices[1])
      OBVIOUS
    <2>2. Carries(w, k)'
      BY <2>1 DEF Carries, Reconcile, Ahead, Kinds
    <2>3. work'["CR"] = w
      BY <1>2, <1>3, <2>1
    <2>4. QED
      BY <1>2, <2>2, <2>3 DEF Coming
  <1>4. CASE notices[1] = 0
    <2>1. ~Carries(work["CR"], k)
      BY <1>1 DEF Carries, Idle, Ahead
    <2>2. ASSUME NEW i \in 1..Len(notices), notices[i] # 0
          PROVE  \E j \in 1..Len(notices') : notices'[j] # 0
      <3>1. i - 1 \in 1..Len(notices') /\ (i - 1) + 1 = i
        BY <1>1, <1>4, <2>2
      <3>2. QED
        BY <1>1, <2>2, <3>1
    <2>3. ASSUME NEW h \in Handlers, Carries(work[h], k) PROVE Carries(work[h], k)'
      BY <1>1, <1>2, <2>1, <2>3 DEF Carries
    <2>4. QED
      BY <1>1, <2>2, <2>3 DEF Coming
  <1>5. QED
    BY <1>3, <1>4

(* A handler moves on: it still has before it what is missing, or has      *)
(* written it; and it takes nothing from the others.                       *)
LEMMA HMoves ==
  ASSUME NEW h \in Handlers, NEW w, Moves(h, w), NEW k, object[k] # 0 \/ Coming(k),
         UNCHANGED <<listed, watch, notices>>,
         \A j \in Watched : deleted[j] # 0 => deleted'[j] # 0,
         object[k] # 0 => object'[k] # 0,
         Carries(work[h], k) => object'[k] # 0 \/ Carries(w, k)',
         \A s \in Kinds : object'[s] = object[s] \/ (s = work[h].stage /\ object'[s] # 0),
         \A s \in Kinds : object'[s] # object[s] /\ k \in Ahead[s] => object'[k] # 0 \/ Carries(w, k)'
  PROVE  object'[k] # 0 \/ Coming(k)'
  <1> SUFFICES ASSUME Coming(k), object'[k] = 0, ~Carries(w, k)' PROVE Coming(k)'
    BY DEF Moves, Coming
  <1>1. CASE "CR" \notin listed \/ watch # <<>> \/ (\E i \in 1..Len(notices) : notices[i] # 0)
             \/ \E j \in Watched : deleted[j] # 0
    BY <1>1 DEF Coming
  <1>2. CASE \E g \in Handlers : Carries(work[g], k)
    <2>1. PICK g \in Handlers \ {h} : Carries(work[g], k)
      BY <1>2
    <2>2. PICK o : o = work'[g]
      OBVIOUS
    <2>3. o.stage = work[g].stage /\ o.call = work[g].call
      BY <2>2 DEF Moves
    <2>4. o.stage \in Kinds => object'[o.stage] = object[o.stage]
      BY <2>1, <2>3 DEF Carries
    <2>5. o.call = "create" => object[o.stage] = 0 /\ o.stage \in Kinds
      <3>1. Fits(o)
        BY <2>2 DEF Moves
      <3>2. QED
        BY <2>1, <2>3, <3>1 DEF Carries, Fits
    <2>6. Carries(o, k)'
      BY <2>1, <2>3, <2>4, <2>5 DEF Carries
    <2>7. QED
      BY <2>2, <2>6 DEF Coming
  <1>3. QED
    BY <1>1, <1>2 DEF Coming

LEMMA HHandler ==
  ASSUME IInv, HInv, Repairable, "api" \notin happened', NEW h \in Handlers, HandlerNext(h),
         NEW k \in Watched, object[k] # 0 \/ Coming(k)
  PROVE  object'[k] # 0 \/ Coming(k)'
  <1>1. k \in Kinds /\ cr # NoCR /\ lastSpec \in Nat /\ object \in [Kinds -> 0..lastSpec]
    BY ControllerAssumption DEF Kinds, Repairable, IInv, Types
  <1>2. CASE GetStatus(h)
    <2>1. work[h].stage \in StatusStages /\ UNCHANGED <<apiVars, informerVars>>
      BY <1>2, Gets
    <2>2. PICK w \in Works : Moves(h, w) /\ w.stage = work[h].stage /\ w.call = "update"
      <3>1. PICK w \in Works :
              /\ Moves(h, w)
              /\ \/ /\ cr # NoCR /\ w.stage = work[h].stage /\ w.call = "update"
                    /\ w.spec = work[h].spec /\ w.fresh = TRUE
                 \/ /\ cr = NoCR \/ "api" \in happened'
                    /\ IF work[h].stage = "deploying" THEN w = Entry(h, "ConfigMap") ELSE w = Idle
        BY <1>2, Gets
      <3>2. QED
        BY <1>1, <3>1
    <2>3. Carries(work[h], k) => Carries(w, k)'
      BY <2>1, <2>2 DEF Carries, StatusStages, Kinds, Watched
    <2>4. QED
      BY <2>1, <2>2, <2>3, HMoves DEF apiVars, informerVars
  <1>3. CASE PutStatus(h)
    <2>1. work[h].stage \in StatusStages /\ UNCHANGED <<object, informerVars>>
      BY <1>3, Puts
    <2>2. PICK w \in Works : Moves(h, w) /\ IF work[h].stage = "deploying" THEN w = Entry(h, "ConfigMap") ELSE w = Idle
      BY <1>3, Puts
    <2>3. Carries(work[h], k) => Carries(w, k)'
      BY <1>1, <2>1, <2>2 DEF Carries, StatusStages, Ahead, Entry
    <2>4. QED
      BY <2>1, <2>2, <2>3, HMoves DEF informerVars
  <1>4. CASE GetObject(h)
    <2>1. PICK s : s = work[h].stage
      OBVIOUS
    <2>2. s \in Kinds /\ UNCHANGED <<apiVars, informerVars>>
      BY <1>4, <2>1, Looks
    <2>3. PICK w \in Works : Moves(h, w) /\ w.spec = work[h].spec /\ Found(h, s, w)
      BY <1>4, <2>1, Looks
    <2>4. Ahead[NextStage[s]] = Ahead[s] \ {s}
      BY <2>2, Stages
    <2>5. Carries(work[h], k) => object[k] # 0 \/ Carries(w, k)'
      <3>1. CASE w = Entry(h, NextStage[s]) /\ object[s] # 0
        BY <2>1, <2>2, <2>4, <3>1 DEF Carries, Entry
      <3>2. CASE w.stage = s /\ ((w.call = "create" /\ object[s] = 0) \/ (w.call = "update" /\ object[s] # 0))
        BY <2>1, <2>2, <3>2 DEF Carries, apiVars
      <3>3. QED
        BY <2>3, <3>1, <3>2 DEF Found
    <2>6. QED
      BY <2>2, <2>3, <2>5, HMoves DEF apiVars, informerVars
  <1>5. CASE PutObject(h)
    <2>1. PICK s : s = work[h].stage
      OBVIOUS
    <2>2. /\ s \in Kinds /\ UNCHANGED informerVars /\ work[h].spec \in 1..lastSpec
          /\ work[h].call \in {"create", "update"}
      BY <1>5, <2>1, Writes
    <2>3. PICK w \in Works :
            /\ Moves(h, w) /\ w.spec = work[h].spec
            /\ \/ /\ Accepted(h, s) /\ object' = [object EXCEPT ![s] = work[h].spec]
                  /\ w = Entry(h, NextStage[s])
               \/ /\ w = Entry(h, "failed") /\ UNCHANGED object
                  /\ Accepted(h, s) => "api" \in happened'
      BY <1>5, <2>1, Writes
    <2>4. CASE object' = [object EXCEPT ![s] = work[h].spec] /\ w = Entry(h, NextStage[s])
      <3>1. /\ object'[s] # 0 /\ \A j \in Kinds \ {s} : object'[j] = object[j]
        BY <1>1, <2>2, <2>4
      <3>2. Ahead[NextStage[s]] = Ahead[s] \ {s}
        BY <2>2, Stages
      <3>3. k \in Ahead[s] => object'[k] # 0 \/ Carries(w, k)'
        BY <2>4, <3>1, <3>2 DEF Carries, Entry
      <3>4. Carries(work[h], k) => object'[k] # 0 \/ Carries(w, k)'
        BY <2>1, <3>3 DEF Carries
      <3>5. /\ object[k] # 0 => object'[k] # 0
            /\ \A j \in Kinds : object'[j] = object[j] \/ (j = work[h].stage /\ object'[j] # 0)
            /\ \A j \in Kinds : object'[j] # object[j] /\ k \in Ahead[j] => object'[k] # 0 \/ Carries(w, k)'
        BY <1>1, <2>1, <3>1, <3>3
      <3>6. Moves(h, w) /\ UNCHANGED <<listed, watch, notices, deleted>>
        BY <2>2, <2>3 DEF informerVars
      <3>7. QED
        BY <3>4, <3>5, <3>6, HMoves
    <2>5. CASE UNCHANGED object /\ ~Accepted(h, s)
      <3>1. Carries(work[h], k) => object[k] # 0
        <4>1. SUFFICES ASSUME Carries(work[h], k) PROVE object[k] # 0
          OBVIOUS
        <4>2. work[h].call = "update" /\ s = "IngressRoute" /\ object[s] # 0
          BY <2>1, <2>2, <2>5, <4>1 DEF Carries, Accepted
        <4>3. k = s
          BY <2>1, <4>1, <4>2 DEF Carries, Ahead
        <4>4. QED
          BY <4>2, <4>3
      <3>2. QED
        BY <2>2, <2>3, <2>5, <3>1, HMoves DEF informerVars
    <2>6. QED
      BY <2>3, <2>4, <2>5
  <1>6. CASE DeleteNext(h)
    <2>1. h = "CR" /\ work["CR"].call = "delete"
      BY <1>6 DEF DeleteNext, HInv, Handlers
    <2>2. UNCHANGED <<listed, watch, notices>>
      BY <1>6, Deletes
    <2>3. CASE ToldGone
      BY <1>1, <2>2, <2>3, Behind DEF IInv, Coming
    <2>4. CASE ~ToldGone
      <3>1. notices # <<>> /\ notices[Len(notices)] # 0 /\ notices \in Seq(0..lastSpec)
        BY <2>1, <2>4 DEF ToldGone, IInv, Types
      <3>2. Len(notices) \in 1..Len(notices)
        BY <3>1
      <3>3. QED
        BY <2>2, <3>1, <3>2 DEF Coming
    <2>5. QED
      BY <2>3, <2>4
  <1>7. CASE h \in Watched /\ OnSubResourceDelete(h)
    <2>1. UNCHANGED <<object, listed, watch, notices>>
      BY <1>7, Asked DEF apiVars
    <2>2. CASE crCache = NoCR
      BY <1>1, <2>1, <2>2, Behind DEF Coming
    <2>3. CASE crCache # NoCR
      <3>1. PICK w : Moves(h, w) /\ w = Reconcile(crCache.spec)
        BY <1>7, <2>3, Asked
      <3>2. Carries(w, k)'
        BY <1>1, <3>1 DEF Carries, Reconcile, Ahead, Kinds
      <3>3. work'[h] = w
        BY <3>1 DEF Moves
      <3>4. QED
        BY <3>2, <3>3 DEF Coming
    <2>4. QED
      BY <2>2, <2>3
  <1>8. QED
    BY <1>2, <1>3, <1>4, <1>5, <1>6, <1>7, HOnCR DEF HandlerNext

LEMMA HPreserved == ASSUME IInv, HInv, [Next]_vars PROVE HInv'
  <1> SUFFICES ASSUME Repairable', NEW k \in Watched PROVE object'[k] # 0 \/ Coming(k)'
    BY HOnlyCRDeletes DEF HInv, Repairable
  <1>1. happened \subseteq {"subDelete", "restart", "recreate"} /\ {"api", "relist", "blindDelete"} \cap happened' = {}
    BY Growing DEF Repairable
  <1>2. Repairable /\ UNCHANGED cr => object[k] # 0 \/ Coming(k)
    BY DEF Repairable, HInv
  <1>3. CASE WriteSpec
    <2>1. PICK c : CRChanges(c)
      BY <1>3 DEF WriteSpec
    <2>2. "CR" \in listed' => watch' # <<>>
      <3>1. watch \in Seq(Versions)
        BY DEF IInv, Types
      <3>2. "CR" \in listed => watch' = Append(watch, c)
        BY <2>1 DEF CRChanges
      <3>3. listed' = listed
        BY <2>1 DEF CRChanges
      <3>4. QED
        BY <3>1, <3>2, <3>3
    <2>3. QED
      BY <2>2 DEF Coming
  <1>4. CASE DeleteCR
    BY <1>4 DEF DeleteCR, CRChanges, Repairable
  <1>5. CASE \E j \in Watched : DeleteObject(j)
    <2>1. PICK j \in Watched : DeleteObject(j)
      BY <1>5
    <2>2. j \in listed /\ Gone(j) /\ object[j] # 0 /\ j \in Kinds
      BY <1>1, <2>1 DEF DeleteObject, Occurs, Kinds
    <2>3. deleted'[j] # 0
      BY <2>2, Going DEF IInv
    <2>4. QED
      BY <2>3 DEF Coming
  <1>6. CASE Restart
    BY <1>6 DEF Restart, Coming
  <1>7. CASE \E i \in Handlers : Relist(i)
    BY <1>1, <1>7 DEF Relist, Occurs
  <1>8. CASE Observe \/ (\E i \in Handlers : List(i) \/ HandlerNext(i)) \/ UNCHANGED vars
    <2>1. UNCHANGED cr
      <3>1. ASSUME NEW i \in Handlers, HandlerNext(i) PROVE UNCHANGED cr
        BY <3>1, Gets, Puts, Looks, Writes, Deletes DEF HandlerNext, apiVars, OnCR, OnSubResourceDelete
      <3>2. QED
        BY <1>8, <3>1 DEF Observe, List, apiVars, vars
    <2>2. Repairable /\ (object[k] # 0 \/ Coming(k))
      BY <1>1, <1>2, <2>1 DEF Repairable
    <2>3. CASE UNCHANGED vars
      BY <2>2, <2>3 DEF vars, apiVars, informerVars, Coming, Carries
    <2>4. QED
      BY <1>1, <1>8, <2>2, <2>3, HObserve, HList, HHandler
  <1>9. QED
    BY <1>3, <1>4, <1>5, <1>6, <1>7, <1>8 DEF Next

(* The Deployment, the Service or the route that somebody deletes comes    *)
(* back, also when up to four reconciliations run at the same time and     *)
(* stop at each other's objects, and whatever DeleteAll still deletes of a *)
(* CR that is there again.                                                 *)
THEOREM Heals == Spec => []Healed
  <1>1. IInv /\ HInv => Healed
    <2> SUFFICES ASSUME IInv, HInv, Settled, Repairable, NEW k \in Watched PROVE object[k] # 0
      BY DEF Healed, Repairable
    <2>1. object[k] # 0 \/ Coming(k)
      BY DEF HInv, Repairable
    <2>2. "CR" \in listed /\ watch = <<>> /\ Len(notices) = 0 /\ \A j \in Watched : deleted[j] = 0
      BY DEF Settled, Handlers
    <2>3. \A h \in Handlers : ~Carries(work[h], k)
      BY DEF Settled, Carries, Ahead
    <2>4. QED
      BY <2>1, <2>2, <2>3 DEF Coming
  <1>2. Spec => [](IInv /\ HInv)
    BY InitIInv, InitHInv, Preserved, HPreserved, PTL DEF Spec
  <1>3. QED
    BY <1>1, <1>2, PTL
=============================================================================

-------------------------- MODULE CustomDomainProofs --------------------------
(***************************************************************************)
(* Theorems of CustomDomain, for every set of domains and of clients, any  *)
(* number of rows and attempts, and every set of faults.                   *)
(*                                                                         *)
(* No statement looks at the status it overwrites, so that verdicts stand  *)
(* rests on who is left to write one: a loop only writes for a row that is *)
(* pending or gone (Loops), the check only for one that was verified       *)
(* (Checks).  That a deletion leaves nothing rests on some client who      *)
(* still has to delete whatever is left (Leaving).                         *)
(***************************************************************************)
EXTENDS CustomDomain, TLAPS

(* What a verification goroutine knows of its row.                         *)
Loops ==
  \A i \in Ids :
    /\ loop[i].stage # "none" => i <= lastId
    /\ loop[i].stage \in {"asking", "found", "missed"} => row[i] \in {"pending", "gone"}
    /\ loop[i].stage = "asking" => loop[i].tries < Attempts
    /\ loop[i].stage \in {"found"} \cup Kinds => i \in proven
    /\ loop[i].stage = "missed" => i \in missed \/ row[i] = "gone"
    /\ loop[i].stage \in Kinds => cluster

(* The order in which CreateIngressRoute creates, seen in what there is.   *)
Objects ==
  \A i \in Ids :
    /\ objects[i] # {} => i \in proven /\ cluster /\ row[i] # "none"
    /\ HasRow(i) =>
         /\ loop[i].stage = "Certificate" => "Service" \in objects[i]
         /\ loop[i].stage = "IngressRoute" => {"Service", "Certificate"} \subseteq objects[i]
         /\ "IngressRoute" \in objects[i] => objects[i] = Kinds

Removals == \A c \in Clients : removal[c].stage # "idle" => row[removal[c].id] = "gone"

(* The rows the domain check visits were verified once.                    *)
Checks ==
  /\ \A i \in check.todo : row[i] \in {"success", "error", "gone"}
  /\ check.stage = "failed" =>
       /\ row[check.id] \in {"success", "error", "gone"}
       /\ check.id \in missed \/ row[check.id] = "gone"

Verdicts ==
  \A i \in Ids :
    /\ row[i] = "success" => i \in proven
    /\ row[i] = "error" => i \in missed

Remaining == [Service |-> Kinds, IngressRoute |-> {"IngressRoute", "Certificate"},
              Certificate |-> {"Certificate"}]

InOrder(i) == row[i] = "gone" /\ i \notin hasty /\ happened \cap {"api", "outer"} = {}

Removed(i, c) ==
  /\ removal[c].stage \in Kinds /\ removal[c].id = i
  /\ objects[i] \subseteq Remaining[removal[c].stage]

Leaving ==
  \A i \in Ids : InOrder(i) =>
    /\ loop[i].stage = "none"
    /\ objects[i] = {} \/ \E c \in Clients : Removed(i, c)

IInv ==
  /\ TypeOK /\ Loops /\ Objects /\ Removals /\ Checks /\ Verdicts /\ Leaving

-----------------------------------------------------------------------------
LEMMA InitEstablishes == Init => IInv
  <1> SUFFICES ASSUME Init PROVE IInv
    OBVIOUS
  <1> USE DomainAssumption DEF Init, Ids, Kinds, RowStatus, NoLoop, NoRemoval, NoCheck, HasRow
  <1>1. TypeOK
    BY DEF TypeOK
  <1>2. Loops
    BY DEF Loops
  <1>3. Objects
    BY DEF Objects
  <1>4. Removals
    BY DEF Removals
  <1>5. Checks
    BY DEF Checks
  <1>6. Verdicts
    BY DEF Verdicts
  <1>7. Leaving
    BY DEF Leaving, InOrder
  <1>8. QED
    BY <1>1, <1>2, <1>3, <1>4, <1>5, <1>6, <1>7 DEF IInv

-----------------------------------------------------------------------------
(***************************************************************************)
(* What the actions share.                                                 *)
(***************************************************************************)
Grows == happened \subseteq happened' /\ happened' \in SUBSET Lasting

LEMMA FaultGrows ==
  ASSUME TypeOK, NEW kind, Fault(kind) \/ UNCHANGED happened
  PROVE  Grows
  BY DEF TypeOK, Fault, Lasting, Grows

(* A status is written to a row that is there, or nothing happens.         *)
LEMMA StatusWritten ==
  ASSUME TypeOK, NEW n \in Ids, NEW status \in {"success", "error"}, SetStatus(n, status)
  PROVE  /\ Grows
         /\ row' \in [Ids -> RowStatus]
         /\ \A i \in Ids : row'[i] = row[i] \/ (i = n /\ HasRow(n) /\ row'[n] = status)
  <1>1. Grows
    BY FaultGrows DEF SetStatus
  <1>2. row \in [Ids -> RowStatus]
    BY DEF TypeOK
  <1>3. \/ HasRow(n) /\ row' = [row EXCEPT ![n] = status]
        \/ UNCHANGED row
    BY DEF SetStatus
  <1>4. row' \in [Ids -> RowStatus]
    BY <1>2, <1>3 DEF RowStatus
  <1>5. \A i \in Ids : row'[i] = row[i] \/ (i = n /\ HasRow(n) /\ row'[n] = status)
    BY <1>2, <1>3
  <1>6. QED
    BY <1>1, <1>4, <1>5

(* Rows that keep being there, and are not more than before, keep apart.   *)
LEMMA RowsKept ==
  ASSUME TypeOK, UNCHANGED <<domain, lastId>>,
         \A i \in Ids : row'[i] = "none" <=> row[i] = "none",
         \A i \in Ids : HasRow(i)' => HasRow(i)
  PROVE  /\ \A i \in Ids : row'[i] = "none" <=> i > lastId'
         /\ \A i, j \in Ids : HasRow(i)' /\ HasRow(j)' /\ domain'[i] = domain'[j] => i = j
  <1>1. \A i \in Ids : row'[i] = "none" <=> i > lastId'
    BY DEF TypeOK
  <1>2. ASSUME NEW i \in Ids, NEW j \in Ids, HasRow(i)', HasRow(j)', domain'[i] = domain'[j]
        PROVE  i = j
    BY <1>2 DEF TypeOK
  <1>3. QED
    BY <1>1, <1>2

LEMMA LeavingKept ==
  ASSUME Leaving, Grows, hasty \subseteq hasty', UNCHANGED <<objects, removal>>,
         \A i \in Ids : row'[i] = "gone" => row[i] = "gone",
         \A i \in Ids : row[i] = "gone" /\ loop[i].stage = "none" => loop'[i].stage = "none"
  PROVE  Leaving'
  <1> SUFFICES ASSUME NEW i \in Ids, InOrder(i)'
               PROVE  /\ loop'[i].stage = "none"
                      /\ objects'[i] = {} \/ \E c \in Clients : Removed(i, c)'
    BY DEF Leaving
  <1>1. InOrder(i)
    BY DEF InOrder, Grows
  <1>2. loop'[i].stage = "none"
    BY <1>1 DEF Leaving, InOrder
  <1>3. \A c \in Clients : Removed(i, c) => Removed(i, c)'
    BY DEF Removed
  <1>4. QED
    BY <1>1, <1>2, <1>3 DEF Leaving

-----------------------------------------------------------------------------
(***************************************************************************)
(* Adding a domain, and the environment.                                   *)
(***************************************************************************)
LEMMA AddCustomDomainPreserves == ASSUME IInv, NEW d \in Domains, AddCustomDomain(d) PROVE IInv'
  <1> USE DEF IInv, AddCustomDomain, history
  <1>a. \A i \in Ids : i # lastId + 1 => row'[i] = row[i] /\ loop'[i] = loop[i]
    BY DEF TypeOK
  <1>b. \A i \in Ids : i = lastId + 1 =>
          /\ row[i] = "none" /\ objects[i] = {}
          /\ row'[i] = "pending" /\ loop'[i] = [stage |-> "asking", tries |-> 0]
    BY DEF TypeOK, Objects, Ids
  <1>1. TypeOK'
    BY DomainAssumption DEF TypeOK, RowStatus, Ids, HasRow
  <1>2. Loops'
    BY <1>a, <1>b, DomainAssumption DEF Loops, Ids, TypeOK, Kinds
  <1>3. Objects'
    BY <1>a, <1>b DEF Objects, HasRow
  <1>4. Removals'
    BY <1>a, <1>b DEF Removals, TypeOK
  <1>5. Checks'
    BY <1>a, <1>b DEF Checks, TypeOK
  <1>6. Verdicts'
    BY <1>a, <1>b DEF Verdicts
  <1>7. Leaving'
    <2>1. Grows
      BY DEF Grows, TypeOK
    <2> QED
      BY <1>a, <1>b, <2>1, LeavingKept
  <1>q. QED
    BY <1>1, <1>2, <1>3, <1>4, <1>5, <1>6, <1>7 DEF IInv

LEMMA ChangeTXTPreserves == ASSUME IInv, NEW n \in Ids, ChangeTXT(n) PROVE IInv'
  <1> USE DEF IInv, ChangeTXT, history
  <1>1. TypeOK'
    BY DEF TypeOK, HasRow
  <1>2. Loops'
    BY DEF Loops
  <1>3. Objects'
    BY DEF Objects, HasRow
  <1>4. Removals'
    BY DEF Removals
  <1>5. Checks'
    BY DEF Checks
  <1>6. Verdicts'
    BY DEF Verdicts
  <1>7. Leaving'
    BY LeavingKept DEF Grows, TypeOK
  <1>q. QED
    BY <1>1, <1>2, <1>3, <1>4, <1>5, <1>6, <1>7 DEF IInv

-----------------------------------------------------------------------------
(***************************************************************************)
(* The verification loop.                                                  *)
(***************************************************************************)
LEMMA VerifyTXTPreserves == ASSUME IInv, NEW n \in Ids, VerifyTXT(n) PROVE IInv'
  <1> USE DEF IInv, VerifyTXT
  <1>a. PICK seen \in BOOLEAN :
          /\ Lookup(n, seen)
          /\ loop' = [loop EXCEPT ![n] =
               IF seen THEN [stage |-> "found", tries |-> 0]
               ELSE [tries |-> @.tries + 1,
                     stage |-> IF @.tries + 1 < Attempts THEN "asking" ELSE "missed"]]
    OBVIOUS
  <1>b. Grows
    BY <1>a, FaultGrows DEF Lookup
  <1>c. /\ proven \subseteq proven' /\ missed \subseteq missed' /\ UNCHANGED hasty
        /\ {proven', missed'} \subseteq SUBSET Ids
        /\ seen => n \in proven'
        /\ ~seen /\ HasRow(n) => n \in missed'
    BY <1>a DEF Lookup, TypeOK
  <1>d. loop[n].stage = "asking" /\ loop[n].tries \in 0..Attempts /\ loop[n].tries < Attempts
    BY DEF TypeOK, Loops
  <1>e. loop \in [Ids -> [stage : {"none", "asking", "found", "missed"} \cup Kinds,
                          tries : 0..Attempts]]
    BY DEF TypeOK
  <1>f. /\ loop'[n] \in [stage : {"asking", "found", "missed"}, tries : 0..Attempts]
        /\ loop'[n].stage = "asking" => loop'[n].tries < Attempts
        /\ loop'[n].stage = "found" => seen
        /\ loop'[n].stage = "missed" => ~seen
    BY <1>a, <1>d, <1>e, DomainAssumption
  <1>g. \A i \in Ids : i # n => loop'[i] = loop[i]
    BY <1>a, <1>e
  <1>1. TypeOK'
    <2>1. loop' \in [Ids -> [stage : {"none", "asking", "found", "missed"} \cup Kinds,
                             tries : 0..Attempts]]
      BY <1>a, <1>e, <1>f, <1>g
    <2> QED
      BY <2>1, <1>b, <1>c DEF TypeOK, HasRow, Grows
  <1>2. Loops'
    BY <1>c, <1>d, <1>f, <1>g DEF Loops, HasRow, Kinds
  <1>3. Objects'
    BY <1>c, <1>f, <1>g DEF Objects, HasRow
  <1>4. Removals'
    BY DEF Removals
  <1>5. Checks'
    BY <1>c DEF Checks
  <1>6. Verdicts'
    BY <1>c DEF Verdicts
  <1>7. Leaving'
    BY <1>b, <1>c, <1>d, <1>g, LeavingKept
  <1>q. QED
    BY <1>1, <1>2, <1>3, <1>4, <1>5, <1>6, <1>7 DEF IInv

LEMMA SucceedPreserves == ASSUME IInv, NEW n \in Ids, Succeed(n) PROVE IInv'
  <1> USE DEF IInv, Succeed
  <1>a. /\ Grows
        /\ row' \in [Ids -> RowStatus]
        /\ \A i \in Ids : row'[i] = row[i] \/ (i = n /\ HasRow(n) /\ row'[n] = "success")
    BY StatusWritten
  <1>b. /\ loop[n].stage # "none" /\ n \in proven
        /\ row[n] \in {"pending", "gone"}
    BY DEF Loops, TypeOK
  <1>c. loop \in [Ids -> [stage : {"none", "asking", "found", "missed"} \cup Kinds,
                          tries : 0..Attempts]]
    BY DEF TypeOK
  <1>d. /\ loop'[n].stage \in {"Service", "none"}
        /\ loop'[n].tries \in 0..Attempts
        /\ loop'[n].stage = "Service" => cluster
    BY <1>c, DomainAssumption DEF Step, NoLoop, TypeOK
  <1>e. \A i \in Ids : i # n => loop'[i] = loop[i]
    BY <1>c DEF Step
  <1>1. TypeOK'
    <2>1. loop' \in [Ids -> [stage : {"none", "asking", "found", "missed"} \cup Kinds,
                             tries : 0..Attempts]]
      BY <1>c, DomainAssumption DEF Step, NoLoop, Kinds
    <2>2. /\ \A i \in Ids : row'[i] = "none" <=> row[i] = "none"
          /\ \A i \in Ids : HasRow(i)' => HasRow(i)
      BY <1>a DEF HasRow
    <2>3. /\ \A i \in Ids : row'[i] = "none" <=> i > lastId'
          /\ \A i, j \in Ids : HasRow(i)' /\ HasRow(j)' /\ domain'[i] = domain'[j] => i = j
      BY <2>2, RowsKept
    <2> QED
      BY <1>a, <2>1, <2>3 DEF TypeOK, Grows
  <1>2. Loops'
    BY <1>a, <1>b, <1>d, <1>e DEF Loops, HasRow, Kinds
  <1>3. Objects'
    BY <1>a, <1>b, <1>d, <1>e DEF Objects, HasRow
  <1>4. Removals'
    BY <1>a DEF Removals, TypeOK, HasRow
  <1>5. Checks'
    BY <1>a DEF Checks, TypeOK, HasRow
  <1>6. Verdicts'
    BY <1>a, <1>b DEF Verdicts, HasRow
  <1>7. Leaving'
    BY <1>a, <1>b, <1>e, LeavingKept
  <1>q. QED
    BY <1>1, <1>2, <1>3, <1>4, <1>5, <1>6, <1>7 DEF IInv

LEMMA GiveUpPreserves == ASSUME IInv, NEW n \in Ids, GiveUp(n) PROVE IInv'
  <1> USE DEF IInv, GiveUp
  <1>a. /\ Grows
        /\ row' \in [Ids -> RowStatus]
        /\ \A i \in Ids : row'[i] = row[i] \/ (i = n /\ HasRow(n) /\ row'[n] = "error")
    BY StatusWritten
  <1>b. /\ loop[n].stage # "none"
        /\ n \in missed \/ row[n] = "gone"
        /\ row[n] \in {"pending", "gone"}
    BY DEF Loops, TypeOK
  <1>c. loop \in [Ids -> [stage : {"none", "asking", "found", "missed"} \cup Kinds,
                          tries : 0..Attempts]]
    BY DEF TypeOK
  <1>d. /\ loop'[n].stage \in {"none"}
        /\ loop'[n].tries \in 0..Attempts
    BY <1>c, DomainAssumption DEF Step, NoLoop, TypeOK
  <1>e. \A i \in Ids : i # n => loop'[i] = loop[i]
    BY <1>c DEF Step
  <1>1. TypeOK'
    <2>1. loop' \in [Ids -> [stage : {"none", "asking", "found", "missed"} \cup Kinds,
                             tries : 0..Attempts]]
      BY <1>c, DomainAssumption DEF Step, NoLoop, Kinds
    <2>2. /\ \A i \in Ids : row'[i] = "none" <=> row[i] = "none"
          /\ \A i \in Ids : HasRow(i)' => HasRow(i)
      BY <1>a DEF HasRow
    <2>3. /\ \A i \in Ids : row'[i] = "none" <=> i > lastId'
          /\ \A i, j \in Ids : HasRow(i)' /\ HasRow(j)' /\ domain'[i] = domain'[j] => i = j
      BY <2>2, RowsKept
    <2> QED
      BY <1>a, <2>1, <2>3 DEF TypeOK, Grows
  <1>2. Loops'
    BY <1>a, <1>b, <1>d, <1>e DEF Loops, HasRow, Kinds
  <1>3. Objects'
    BY <1>a, <1>b, <1>d, <1>e DEF Objects, HasRow
  <1>4. Removals'
    BY <1>a DEF Removals, TypeOK, HasRow
  <1>5. Checks'
    BY <1>a DEF Checks, TypeOK, HasRow
  <1>6. Verdicts'
    BY <1>a, <1>b DEF Verdicts, HasRow
  <1>7. Leaving'
    BY <1>a, <1>b, <1>e, LeavingKept
  <1>q. QED
    BY <1>1, <1>2, <1>3, <1>4, <1>5, <1>6, <1>7 DEF IInv

LEMMA CreateObjectPreserves == ASSUME IInv, NEW n \in Ids, CreateObject(n) PROVE IInv'
  <1> USE DEF IInv, CreateObject
  <1> DEFINE k == loop[n].stage
  <1>a. k \in Kinds /\ n \in proven /\ cluster /\ row[n] # "none"
    <2>1. k \in Kinds
      OBVIOUS
    <2>2. n <= lastId /\ n \in proven /\ cluster
      BY <2>1 DEF Loops, Kinds
    <2>3. row[n] # "none"
      BY <2>2, DomainAssumption DEF TypeOK, Ids
    <2> QED
      BY <2>1, <2>2, <2>3
  <1>b. Grows
    BY FaultGrows
  <1>c. loop \in [Ids -> [stage : {"none", "asking", "found", "missed"} \cup Kinds,
                          tries : 0..Attempts]]
    BY DEF TypeOK
  <1>d. objects \in [Ids -> SUBSET Kinds]
    BY DEF TypeOK
  <1>e. \A i \in Ids : i # n => loop'[i] = loop[i] /\ objects'[i] = objects[i]
    BY <1>c, <1>d DEF Step
  <1>f. /\ objects'[n] \in {objects[n], objects[n] \cup {k}}
        /\ loop'[n].stage \in {"none", "Certificate", "IngressRoute"}
        /\ loop'[n].stage = "Certificate" => k = "Service" /\ k \in objects'[n]
        /\ loop'[n].stage = "IngressRoute" => k = "Certificate" /\ k \in objects'[n]
    BY <1>a, <1>c, <1>d DEF Step, NoLoop, NextCreate, Kinds
  <1>g. /\ loop' \in [Ids -> [stage : {"none", "asking", "found", "missed"} \cup Kinds,
                              tries : 0..Attempts]]
        /\ objects' \in [Ids -> SUBSET Kinds]
    BY <1>a, <1>c, <1>d, DomainAssumption DEF Step, NoLoop, NextCreate, Kinds
  <1>1. TypeOK'
    BY <1>b, <1>g DEF TypeOK, HasRow, Grows
  <1>2. Loops'
    BY <1>a, <1>e, <1>f DEF Loops, Kinds
  <1>3. Objects'
    <2> SUFFICES ASSUME NEW i \in Ids
                 PROVE  /\ objects'[i] # {} => i \in proven /\ cluster /\ row[i] # "none"
                        /\ HasRow(i) =>
                             /\ loop'[i].stage = "Certificate" => "Service" \in objects'[i]
                             /\ loop'[i].stage = "IngressRoute" =>
                                  {"Service", "Certificate"} \subseteq objects'[i]
                             /\ "IngressRoute" \in objects'[i] => objects'[i] = Kinds
      BY DEF Objects, HasRow
    <2>1. CASE i # n
      BY <2>1, <1>e DEF Objects
    <2>2. CASE i = n
      BY <2>2, <1>a, <1>d, <1>f DEF Objects, Kinds
    <2> QED
      BY <2>1, <2>2
  <1>4. Removals'
    BY DEF Removals
  <1>5. Checks'
    BY DEF Checks
  <1>6. Verdicts'
    BY DEF Verdicts
  <1>7. Leaving'
    <2> SUFFICES ASSUME NEW i \in Ids, InOrder(i)'
                 PROVE  /\ loop'[i].stage = "none"
                        /\ objects'[i] = {} \/ \E c \in Clients : Removed(i, c)'
      BY DEF Leaving
    <2>1. InOrder(i)
      BY <1>b DEF InOrder, Grows
    <2>2. i # n
      BY <2>1, <1>a DEF Leaving, Kinds
    <2>3. \A c \in Clients : Removed(i, c) => Removed(i, c)'
      BY <2>2, <1>e DEF Removed
    <2> QED
      BY <2>1, <2>2, <2>3, <1>e DEF Leaving
  <1>q. QED
    BY <1>1, <1>2, <1>3, <1>4, <1>5, <1>6, <1>7 DEF IInv

-----------------------------------------------------------------------------
(***************************************************************************)
(* Deletions.                                                              *)
(***************************************************************************)
LEMMA DeleteRowPreserves == ASSUME IInv, NEW c \in Clients, NEW n \in Ids, DeleteRow(c, n) PROVE IInv'
  <1> USE DEF IInv
  <1>a. CASE Fault("db") /\ UNCHANGED <<row, removal, hasty, missed>>
    <2>0. Grows /\ UNCHANGED <<cluster, lastId, domain, loop, objects, published, check, proven,
                               row, removal, hasty, missed>>
      BY <1>a, FaultGrows DEF DeleteRow
    <2>1. TypeOK'
      BY <2>0 DEF TypeOK, HasRow, Grows
    <2>2. Loops' /\ Objects' /\ Removals' /\ Checks' /\ Verdicts'
      BY <2>0 DEF Loops, Objects, Removals, Checks, Verdicts, HasRow
    <2>3. Leaving'
      BY <2>0, LeavingKept
    <2> QED
      BY <2>1, <2>2, <2>3
  <1>b. CASE /\ row' = [row EXCEPT ![n] = "gone"]
             /\ removal' = [removal EXCEPT ![c] =
                  IF cluster THEN [stage |-> "Service", id |-> n] ELSE NoRemoval]
             /\ hasty' = IF loop[n].stage = "none" THEN hasty ELSE hasty \cup {n}
             /\ missed' = missed \ {n}
             /\ UNCHANGED happened
    <2>0. /\ UNCHANGED <<cluster, lastId, domain, loop, objects, published, check, proven>>
          /\ removal[c].stage = "idle" /\ n <= lastId
      BY <1>b DEF DeleteRow
    <2>a. row \in [Ids -> RowStatus] /\ row[n] # "none"
      BY <2>0 DEF TypeOK, Ids
    <2>b. row'[n] = "gone" /\ \A i \in Ids : i # n => row'[i] = row[i]
      BY <1>b, <2>a
    <2>c. removal \in [Clients -> [stage : {"idle"} \cup Kinds, id : 0..MaxRows]]
      BY DEF TypeOK
    <2>d. /\ \A x \in Clients : x # c => removal'[x] = removal[x]
          /\ removal'[c] = IF cluster THEN [stage |-> "Service", id |-> n] ELSE NoRemoval
      BY <1>b, <2>c
    <2>1. TypeOK'
      <3>1. /\ \A i \in Ids : row'[i] = "none" <=> row[i] = "none"
            /\ \A i \in Ids : HasRow(i)' => HasRow(i)
        BY <2>a, <2>b DEF HasRow
      <3>2. /\ \A i \in Ids : row'[i] = "none" <=> i > lastId'
            /\ \A i, j \in Ids : HasRow(i)' /\ HasRow(j)' /\ domain'[i] = domain'[j] => i = j
        BY <2>0, <3>1, RowsKept
      <3>3. /\ removal' \in [Clients -> [stage : {"idle"} \cup Kinds, id : 0..MaxRows]]
            /\ \A x \in Clients : removal'[x].stage # "idle" => removal'[x].id \in Ids
        BY <1>b, <2>c, <2>d, DomainAssumption DEF TypeOK, NoRemoval, Kinds, Ids
      <3>4. row' \in [Ids -> RowStatus] /\ {missed', hasty'} \subseteq SUBSET Ids
        BY <1>b, <2>a DEF RowStatus, TypeOK
      <3> QED
        BY <1>b, <2>0, <3>2, <3>3, <3>4 DEF TypeOK
    <2>2. Loops'
      BY <1>b, <2>0, <2>b DEF Loops
    <2>3. Objects'
      BY <2>0, <2>a, <2>b DEF Objects, HasRow
    <2>4. Removals'
      BY <2>b, <2>d DEF Removals, TypeOK, NoRemoval
    <2>5. Checks'
      BY <1>b, <2>0, <2>b DEF Checks, TypeOK
    <2>6. Verdicts'
      BY <1>b, <2>0, <2>b DEF Verdicts
    <2>7. Leaving'
      <3> SUFFICES ASSUME NEW i \in Ids, InOrder(i)'
                   PROVE  /\ loop[i].stage = "none"
                          /\ objects[i] = {} \/ \E x \in Clients : Removed(i, x)'
        BY <2>0 DEF Leaving
      <3>1. CASE i = n
        <4>1. loop[n].stage = "none"
          BY <1>b, <3>1 DEF InOrder
        <4>2. cluster => Removed(n, c)'
          BY <2>0, <2>d DEF Removed, Remaining, Kinds, TypeOK
        <4>3. ~cluster => objects[n] = {}
          BY DEF Objects
        <4> QED
          BY <3>1, <4>1, <4>2, <4>3
      <3>2. CASE i # n
        <4>1. InOrder(i)
          BY <1>b, <2>b, <3>2 DEF InOrder
        <4>2. \A x \in Clients : Removed(i, x) => x # c
          BY <2>0 DEF Removed, Kinds
        <4>3. \A x \in Clients : Removed(i, x) => Removed(i, x)'
          BY <2>0, <2>d, <4>2 DEF Removed
        <4> QED
          BY <4>1, <4>3 DEF Leaving
      <3> QED
        BY <3>1, <3>2
    <2> QED
      BY <2>1, <2>2, <2>3, <2>4, <2>5, <2>6, <2>7
  <1>c. QED
    BY <1>a, <1>b DEF DeleteRow

LEMMA DeleteObjectPreserves == ASSUME IInv, NEW c \in Clients, DeleteObject(c) PROVE IInv'
  <1> USE DEF IInv
  <1> DEFINE k == removal[c].stage
             n == removal[c].id
  <1>a. k \in Kinds /\ n \in Ids /\ row[n] = "gone"
    BY DEF DeleteObject, TypeOK, Removals, Kinds
  <1>b. Grows /\ UNCHANGED <<cluster, lastId, domain, row, loop, published, check,
                             proven, missed, hasty>>
    BY FaultGrows DEF DeleteObject
  <1>c. removal \in [Clients -> [stage : {"idle"} \cup Kinds, id : 0..MaxRows]]
    BY DEF TypeOK
  <1>d. objects \in [Ids -> SUBSET Kinds]
    BY DEF TypeOK
  <1>e. /\ \A x \in Clients : x # c => removal'[x] = removal[x]
        /\ removal'[c] = IF k = "Certificate" THEN NoRemoval
                         ELSE [stage |-> NextDelete[k], id |-> n]
    BY <1>a, <1>c DEF DeleteObject, NextDelete, Kinds
  <1>f. /\ objects' \in [Ids -> SUBSET Kinds]
        /\ \A i \in Ids : i # n => objects'[i] = objects[i]
        /\ objects'[n] \subseteq objects[n]
        /\ k \notin objects'[n] \/ Fault("api")
    BY <1>a, <1>d DEF DeleteObject
  <1>1. TypeOK'
    <2>1. removal' \in [Clients -> [stage : {"idle"} \cup Kinds, id : 0..MaxRows]]
      BY <1>a, <1>c, DomainAssumption DEF DeleteObject, NoRemoval, NextDelete, Kinds, Ids
    <2>2. \A x \in Clients : removal'[x].stage # "idle" => removal'[x].id \in Ids
      BY <1>a, <1>e DEF TypeOK, NoRemoval
    <2> QED
      BY <1>b, <1>f, <2>1, <2>2 DEF TypeOK, HasRow, Grows
  <1>2. Loops'
    BY <1>b DEF Loops
  <1>3. Objects'
    BY <1>a, <1>b, <1>f DEF Objects, HasRow
  <1>4. Removals'
    BY <1>a, <1>b, <1>e DEF Removals, NoRemoval
  <1>5. Checks'
    BY <1>b DEF Checks
  <1>6. Verdicts'
    BY <1>b DEF Verdicts
  <1>7. Leaving'
    <2> SUFFICES ASSUME NEW i \in Ids, InOrder(i)'
                 PROVE  /\ loop[i].stage = "none"
                        /\ objects'[i] = {} \/ \E x \in Clients : Removed(i, x)'
      BY <1>b DEF Leaving
    <2>1. InOrder(i)
      BY <1>b DEF InOrder, Grows
    <2>2. objects'[i] \subseteq objects[i]
      BY <1>f
    <2>3. CASE objects[i] = {}
      BY <2>1, <2>2, <2>3 DEF Leaving
    <2>4. CASE \E x \in Clients : Removed(i, x)
      <3>1. PICK x \in Clients : Removed(i, x)
        BY <2>4
      <3>2. CASE x # c
        BY <1>e, <2>1, <2>2, <3>1, <3>2 DEF Removed, Leaving
      <3>3. CASE x = c
        <4>1. i = n /\ objects[n] \subseteq Remaining[k]
          BY <3>1, <3>3 DEF Removed
        <4>2. k \notin objects'[n]
          BY <1>f, <4>1 DEF InOrder, Fault, Lasting
        <4>3. k = "Certificate" => objects'[n] = {}
          BY <1>f, <4>1, <4>2 DEF Remaining
        <4>4. k # "Certificate" => Removed(i, c)'
          BY <1>a, <1>e, <1>f, <4>1, <4>2 DEF Removed, Remaining, NextDelete, Kinds
        <4>5. loop[i].stage = "none"
          BY <2>1 DEF Leaving
        <4>6. objects'[i] = {} \/ Removed(i, c)'
          BY <4>1, <4>3, <4>4
        <4> QED
          BY <4>5, <4>6
      <3> QED
        BY <3>2, <3>3
    <2> QED
      BY <2>1, <2>3, <2>4 DEF Leaving
  <1>q. QED
    BY <1>1, <1>2, <1>3, <1>4, <1>5, <1>6, <1>7 DEF IInv

-----------------------------------------------------------------------------
(***************************************************************************)
(* The domain check, and restarts.                                         *)
(***************************************************************************)
LEMMA ListAllSuccessDomainsPreserves == ASSUME IInv, ListAllSuccessDomains PROVE IInv'
  <1> USE DEF IInv, ListAllSuccessDomains, cdVars, history
  <1>a. /\ check' \in [stage : {"idle", "asking", "failed"}, id : 0..MaxRows, todo : SUBSET Ids]
        /\ check'.stage # "failed"
    BY DomainAssumption
  <1>1. TypeOK'
    BY <1>a DEF TypeOK, HasRow
  <1>2. Loops'
    BY DEF Loops
  <1>3. Objects'
    BY DEF Objects, HasRow
  <1>4. Removals'
    BY DEF Removals
  <1>5. Checks'
    BY DEF Checks
  <1>6. Verdicts'
    BY DEF Verdicts
  <1>7. Leaving'
    BY LeavingKept DEF Grows, TypeOK
  <1>q. QED
    BY <1>1, <1>2, <1>3, <1>4, <1>5, <1>6, <1>7 DEF IInv

LEMMA CheckTXTPreserves == ASSUME IInv, NEW n \in Ids, CheckTXT(n) PROVE IInv'
  <1> USE DEF IInv, CheckTXT, cdVars
  <1>a. PICK seen \in BOOLEAN :
          /\ Lookup(n, seen)
          /\ check' = IF seen THEN Visited(n) ELSE [check EXCEPT !.stage = "failed", !.id = n]
    OBVIOUS
  <1>b. Grows
    BY <1>a, FaultGrows DEF Lookup
  <1>c. /\ proven \subseteq proven' /\ missed \subseteq missed' /\ UNCHANGED hasty
        /\ {proven', missed'} \subseteq SUBSET Ids
        /\ ~seen /\ HasRow(n) => n \in missed'
    BY <1>a DEF Lookup, TypeOK
  <1>d. check \in [stage : {"idle", "asking", "failed"}, id : 0..MaxRows, todo : SUBSET Ids]
    BY DEF TypeOK
  <1>e. /\ check' \in [stage : {"idle", "asking", "failed"}, id : 0..MaxRows, todo : SUBSET Ids]
        /\ check'.todo \subseteq check.todo
        /\ check'.stage = "failed" => ~seen /\ check'.id = n
    <2>1. CASE seen
      <3>1. check' = NoCheck \/ check' = [stage |-> "asking", id |-> 0, todo |-> check.todo \ {n}]
        BY <1>a, <2>1 DEF Visited
      <3>2. /\ 0 \in 0..MaxRows
            /\ check.todo \ {n} \in SUBSET Ids /\ check.todo \ {n} \subseteq check.todo
        BY <1>d, DomainAssumption
      <3> QED
        <4>1. CASE check' = NoCheck
          BY <2>1, <3>2, <4>1 DEF NoCheck
        <4>2. CASE check' = [stage |-> "asking", id |-> 0, todo |-> check.todo \ {n}]
          BY <2>1, <3>2, <4>2
        <4> QED
          BY <3>1, <4>1, <4>2
    <2>2. CASE ~seen
      <3>1. n \in 0..MaxRows
        BY DEF Ids
      <3>2. check' = [check EXCEPT !.stage = "failed", !.id = n]
        BY <1>a, <2>2
      <3> QED
        BY <1>d, <2>2, <3>1, <3>2
    <2> QED
      BY <2>1, <2>2
  <1>1. TypeOK'
    BY <1>b, <1>c, <1>e DEF TypeOK, HasRow, Grows
  <1>2. Loops'
    BY <1>c DEF Loops
  <1>3. Objects'
    BY <1>c DEF Objects, HasRow
  <1>4. Removals'
    BY DEF Removals
  <1>5. Checks'
    BY <1>c, <1>e DEF Checks, HasRow
  <1>6. Verdicts'
    BY <1>c DEF Verdicts
  <1>7. Leaving'
    BY <1>b, <1>c, LeavingKept
  <1>q. QED
    BY <1>1, <1>2, <1>3, <1>4, <1>5, <1>6, <1>7 DEF IInv

LEMMA MarkErrorPreserves == ASSUME IInv, MarkError PROVE IInv'
  <1> USE DEF IInv, MarkError
  <1>0. PICK n \in Ids : n = check.id
    BY DEF TypeOK
  <1>a. /\ n \in missed \/ row[n] = "gone"
        /\ row[n] \in {"success", "error", "gone"}
    BY <1>0 DEF Checks
  <1>b. /\ Grows
        /\ row' \in [Ids -> RowStatus]
        /\ \A i \in Ids : row'[i] = row[i] \/ (i = n /\ HasRow(n) /\ row'[n] = "error")
    <2>1. SetStatus(n, "error")
      BY <1>0
    <2> QED
      BY <2>1, StatusWritten
  <1>c. check \in [stage : {"idle", "asking", "failed"}, id : 0..MaxRows, todo : SUBSET Ids]
    BY DEF TypeOK
  <1>d. /\ check' \in [stage : {"idle", "asking", "failed"}, id : 0..MaxRows, todo : SUBSET Ids]
        /\ check'.todo \subseteq check.todo /\ check'.stage # "failed"
    BY <1>c, DomainAssumption DEF Visited, NoCheck
  <1>1. TypeOK'
    <2>1. /\ \A i \in Ids : row'[i] = "none" <=> row[i] = "none"
          /\ \A i \in Ids : HasRow(i)' => HasRow(i)
      BY <1>a, <1>b DEF HasRow
    <2>2. /\ \A i \in Ids : row'[i] = "none" <=> i > lastId'
          /\ \A i, j \in Ids : HasRow(i)' /\ HasRow(j)' /\ domain'[i] = domain'[j] => i = j
      BY <2>1, RowsKept
    <2> QED
      BY <1>b, <1>d, <2>2 DEF TypeOK, Grows
  <1>2. Loops'
    <2>1. \A i \in Ids : row[i] \in {"pending", "gone"} => row'[i] = row[i]
      BY <1>a, <1>b DEF HasRow
    <2> QED
      BY <2>1 DEF Loops
  <1>3. Objects'
    BY <1>a, <1>b DEF Objects, HasRow
  <1>4. Removals'
    BY <1>a, <1>b DEF Removals, TypeOK, HasRow
  <1>5. Checks'
    BY <1>a, <1>b, <1>c, <1>d DEF Checks
  <1>6. Verdicts'
    BY <1>a, <1>b DEF Verdicts, HasRow
  <1>7. Leaving'
    BY <1>a, <1>b, LeavingKept
  <1>q. QED
    BY <1>1, <1>2, <1>3, <1>4, <1>5, <1>6, <1>7 DEF IInv

LEMMA OuterRestartPreserves == ASSUME IInv, OuterRestart PROVE IInv'
  <1> USE DEF IInv, OuterRestart
  <1>a. Grows /\ "outer" \in happened'
    BY FaultGrows DEF Fault, Lasting
  <1>1. TypeOK'
    BY <1>a, DomainAssumption DEF TypeOK, HasRow, NoLoop, NoRemoval, Grows
  <1>2. Loops'
    BY DEF Loops, NoLoop, Kinds
  <1>3. Objects'
    BY DEF Objects, HasRow, NoLoop
  <1>4. Removals'
    BY DEF Removals, NoRemoval
  <1>5. Checks'
    BY DEF Checks
  <1>6. Verdicts'
    BY DEF Verdicts
  <1>7. Leaving'
    BY <1>a DEF Leaving, InOrder
  <1>q. QED
    BY <1>1, <1>2, <1>3, <1>4, <1>5, <1>6, <1>7 DEF IInv

LEMMA InnerRestartPreserves == ASSUME IInv, InnerRestart PROVE IInv'
  <1> USE DEF IInv, InnerRestart, cdVars
  <1>a. Grows
    BY FaultGrows
  <1>1. TypeOK'
    BY <1>a, DomainAssumption DEF TypeOK, HasRow, NoCheck, Grows
  <1>2. Loops'
    BY DEF Loops
  <1>3. Objects'
    BY DEF Objects, HasRow
  <1>4. Removals'
    BY DEF Removals
  <1>5. Checks'
    BY DEF Checks, NoCheck
  <1>6. Verdicts'
    BY DEF Verdicts
  <1>7. Leaving'
    BY <1>a, LeavingKept
  <1>q. QED
    BY <1>1, <1>2, <1>3, <1>4, <1>5, <1>6, <1>7 DEF IInv

LEMMA StutterPreserves == ASSUME IInv, UNCHANGED vars PROVE IInv'
  <1> USE DEF IInv, vars, cdVars, history
  <1>1. TypeOK' /\ Loops' /\ Objects'
    BY DEF TypeOK, Loops, Objects, HasRow
  <1>2. Removals' /\ Checks' /\ Verdicts'
    BY DEF Removals, Checks, Verdicts
  <1>3. Leaving'
    BY LeavingKept DEF Grows, TypeOK
  <1>4. QED
    BY <1>1, <1>2, <1>3

LEMMA StepPreserves == IInv /\ [Next]_vars => IInv'
  BY AddCustomDomainPreserves, ChangeTXTPreserves, VerifyTXTPreserves, SucceedPreserves,
     GiveUpPreserves, CreateObjectPreserves, DeleteRowPreserves, DeleteObjectPreserves,
     ListAllSuccessDomainsPreserves, CheckTXTPreserves, MarkErrorPreserves,
     OuterRestartPreserves, InnerRestartPreserves, StutterPreserves
  DEF Next, LoopNext

LEMMA Inductive == Spec => []IInv
  BY InitEstablishes, StepPreserves, PTL DEF Spec

-----------------------------------------------------------------------------
(***************************************************************************)
(* The theorems.                                                           *)
(***************************************************************************)

(* Types, one row of a domain at most, and no attempt beyond the last.     *)
THEOREM TypeCorrect == Spec => []TypeOK
  BY Inductive, PTL DEF IInv

(* A verified or served domain has shown the token of its own row.         *)
THEOREM Proven == Spec => []VerifiedWasProven
  <1>1. IInv => VerifiedWasProven
    BY DEF IInv, Verdicts, Objects, VerifiedWasProven
  <1>2. QED
    BY <1>1, Inductive, PTL

(* An error has a reason.                                                  *)
THEOREM Missed == Spec => []ErrorWasMissed
  <1>1. IInv => ErrorWasMissed
    BY DEF IInv, Verdicts, ErrorWasMissed
  <1>2. QED
    BY <1>1, Inductive, PTL

(* A route that nobody deleted has the Service and the Certificate.        *)
THEOREM RouteComplete == Spec => []RouteIsComplete
  <1>1. IInv => RouteIsComplete
    BY DEF IInv, Objects, RouteIsComplete
  <1>2. QED
    BY <1>1, Inductive, PTL

(* A deletion in good order leaves nothing in the cluster.                 *)
THEOREM NothingLeft == Spec => []DeletedLeavesNothing
  <1>1. IInv => DeletedLeavesNothing
    BY DEF IInv, Leaving, InOrder, Removed, DeletedLeavesNothing
  <1>2. QED
    BY <1>1, Inductive, PTL

-----------------------------------------------------------------------------
(* The step relation of VerdictStands.                                     *)
Stands ==
  \A i \in Ids :
    /\ row[i] = "success" /\ row'[i] = "error" =>
         check.stage = "failed" /\ check.id = i /\ i \in missed
    /\ row[i] = "success" => row'[i] # "pending"
    /\ row[i] = "error" => row'[i] \in {"error", "gone"}
    /\ row[i] = "gone" => row'[i] = "gone"

LEMMA StepStands == IInv /\ [Next]_vars => [Stands]_vars
  <1> SUFFICES ASSUME IInv, Next PROVE Stands
    OBVIOUS
  <1>1. CASE UNCHANGED row
    BY <1>1 DEF Stands
  <1>2. ASSUME NEW d \in Domains, AddCustomDomain(d) PROVE Stands
    <2>1. \A i \in Ids : i = lastId + 1 => row[i] = "none"
      BY <1>2 DEF IInv, TypeOK, Ids
    <2>2. \A i \in Ids : i # lastId + 1 => row'[i] = row[i]
      BY <1>2 DEF IInv, TypeOK, AddCustomDomain
    <2> QED
      BY <2>1, <2>2 DEF Stands
  <1>3. ASSUME NEW n \in Ids, Succeed(n) \/ GiveUp(n) PROVE Stands
    <2>1. row[n] \in {"pending", "gone"}
      BY <1>3 DEF IInv, Loops, Succeed, GiveUp
    <2>2. \A i \in Ids : row'[i] = row[i] \/ (i = n /\ HasRow(n) /\ row'[n] \in {"success", "error"})
      BY <1>3, StatusWritten DEF IInv, Succeed, GiveUp
    <2> QED
      BY <2>1, <2>2 DEF Stands, HasRow
  <1>4. ASSUME NEW c \in Clients, NEW n \in Ids, DeleteRow(c, n) PROVE Stands
    <2>1. row \in [Ids -> RowStatus]
      BY DEF IInv, TypeOK
    <2>2. \A i \in Ids : row'[i] = row[i] \/ row'[i] = "gone"
      BY <1>4, <2>1 DEF DeleteRow
    <2> QED
      BY <2>2 DEF Stands
  <1>5. CASE MarkError
    <2>1. check.id \in Ids /\ check.stage = "failed"
      BY <1>5 DEF IInv, TypeOK, MarkError
    <2>2. /\ row[check.id] \in {"success", "error", "gone"}
          /\ check.id \in missed \/ row[check.id] = "gone"
      BY <2>1 DEF IInv, Checks
    <2>3. PICK n \in Ids : n = check.id /\ SetStatus(n, "error")
      BY <1>5, <2>1 DEF MarkError
    <2>4. \A i \in Ids : row'[i] = row[i] \/ (i = n /\ HasRow(n) /\ row'[n] = "error")
      BY <2>3, StatusWritten DEF IInv
    <2> QED
      BY <2>1, <2>2, <2>3, <2>4 DEF Stands, HasRow
  <1>6. QED
    BY <1>1, <1>2, <1>3, <1>4, <1>5
    DEF Next, LoopNext, ChangeTXT, VerifyTXT, CreateObject, DeleteObject, CheckTXT, cdVars,
        ListAllSuccessDomains, OuterRestart, InnerRestart

(* Verdicts stand: only a domain check that asked in vain revises one.     *)
THEOREM VerdictFinal == Spec => VerdictStands
  <1>1. Spec => [][Stands]_vars
    BY Inductive, StepStands, PTL DEF Spec
  <1>2. QED
    BY <1>1, PTL DEF VerdictStands, Stands
=============================================================================

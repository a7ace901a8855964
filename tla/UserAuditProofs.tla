--------------------------- MODULE UserAuditProofs ---------------------------
(***************************************************************************)
(* Theorems of UserAudit, for every number of users and orphans and every  *)
(* size of a page.                                                         *)
(*                                                                         *)
(* The first part counts rows: the ranks of the users have no gaps, so a   *)
(* page with fewer rows than it may have is the last one, and a row only   *)
(* moves to later pages while others are inserted.                         *)
(***************************************************************************)
EXTENDS UserAudit, TLAPS, FiniteSetTheorems, WellFoundedInduction

LEMMA Finite ==
  ASSUME NEW S \in SUBSET Uids
  PROVE  IsFiniteSet(S) /\ Cardinality(S) \in Nat
  <1>1. IsFiniteSet(Uids)
    BY AuditAssumption, FS_Interval DEF Uids
  <1>2. IsFiniteSet(S)
    BY <1>1, FS_Subset
  <1>3. QED
    BY <1>2, FS_CardinalityType

LEMMA Least ==
  ASSUME NEW S \in SUBSET Uids, S # {}
  PROVE  \E m \in S : \A v \in S : m <= v
  <1>1. S \subseteq Nat
    BY AuditAssumption DEF Uids
  <1> DEFINE Less == OpToRel(<, Nat)
  <1>2. IsWellFoundedOn(Less, Nat)
    BY NatLessThanWellFounded
  <1>3. \A v, w \in Nat : v < w => <<v, w>> \in Less
    BY DEF OpToRel
  <1> HIDE DEF Less
  <1>4. PICK m \in S : \A v \in S : ~(<<v, m>> \in Less)
    BY <1>1, <1>2, WFMin
  <1>5. \A v \in S : m <= v
    <2> SUFFICES ASSUME NEW v \in S PROVE m <= v
      OBVIOUS
    <2>1. v \in Nat /\ m \in Nat
      BY <1>1
    <2>2. ~(v < m)
      BY <2>1, <1>3, <1>4
    <2>3. QED
      BY <2>1, <2>2
  <1>6. QED
    BY <1>5

LEMMA Greatest ==
  ASSUME NEW S \in SUBSET Uids, S # {}
  PROVE  \E m \in S : \A v \in S : v <= m
  <1> DEFINE T == {LastUid + 1 - v : v \in S}
  <1>1. T \in SUBSET Uids /\ T # {}
    <2>1. \A v \in S : LastUid + 1 - v \in Uids
      BY AuditAssumption DEF Uids
    <2>2. QED
      BY <2>1
  <1>2. PICK n \in T : \A w \in T : n <= w
    BY <1>1, Least
  <1>3. PICK m \in S : n = LastUid + 1 - m
    BY <1>2
  <1>4. \A v \in S : LastUid + 1 - m <= LastUid + 1 - v
    BY <1>2, <1>3
  <1>5. \A v \in S : v <= m
    BY <1>4, AuditAssumption DEF Uids
  <1>6. QED
    BY <1>5

LEMMA RankType ==
  ASSUME users \subseteq Uids, NEW u
  PROVE  /\ Rank(u) \in Nat
         /\ {v \in users : v < u} \in SUBSET Uids
  BY Finite DEF Rank

(* At most k rows come before place k ...                                  *)
LEMMA RowsBefore ==
  ASSUME users \subseteq Uids, NEW k \in Nat
  PROVE  Cardinality({v \in users : Rank(v) < k}) <= k
  <1> DEFINE A == {v \in users : Rank(v) < k}
  <1>1. A \in SUBSET Uids
    OBVIOUS
  <1>2. CASE A = {}
    <2>1. Cardinality(A) = 0
      BY <1>2, FS_EmptySet
    <2>2. QED
      BY <2>1
  <1>3. CASE A # {}
    <2>1. PICK m \in A : \A v \in A : v <= m
      BY <1>1, <1>3, Greatest
    <2> DEFINE B == {v \in users : v < m}
    <2>2. Rank(m) \in Nat /\ B \in SUBSET Uids
      BY RankType
    <2>3. IsFiniteSet(B)
      BY <2>2, Finite
    <2>4. m \notin B /\ Rank(m) = Cardinality(B)
      BY <1>1, <2>1 DEF Rank, Uids
    <2>5. /\ IsFiniteSet(B \cup {m})
          /\ Cardinality(B \cup {m}) = Rank(m) + 1
      BY <2>3, <2>4, FS_AddElement
    <2>6. A \in SUBSET (B \cup {m})
      BY <1>1, <2>1, AuditAssumption DEF Uids
    <2>7. Cardinality(A) <= Rank(m) + 1
      BY <2>5, <2>6, FS_Subset
    <2>8. Rank(m) < k
      BY <2>1
    <2>9. Cardinality(A) \in Nat
      BY <1>1, Finite
    <2>10. QED
      BY <2>2, <2>7, <2>8, <2>9
  <1>4. QED
    BY <1>2, <1>3

LEMMA PageIsUsers ==
  ASSUME users \subseteq Uids
  PROVE  Page \in SUBSET users /\ Page \in SUBSET Uids
  BY DEF Page

(* ... so a page is full when there are rows after it, ...                 *)
LEMMA FullPage ==
  ASSUME users \subseteq Uids, offset \in Nat,
         NEW u \in users, offset + PageSize <= Rank(u)
  PROVE  PageSize <= Cardinality(Page)
  <1> DEFINE Later  == {v \in users : offset + PageSize <= Rank(v)}
             Before == {v \in users : Rank(v) < offset}
  <1>1. Later \in SUBSET Uids /\ Later # {}
    OBVIOUS
  <1>2. PICK m \in Later : \A v \in Later : m <= v
    BY <1>1, Least
  <1> DEFINE B == {v \in users : v < m}
  <1>3. B \in SUBSET (Before \cup Page)
    <2> SUFFICES ASSUME NEW v \in B, v \notin Before PROVE v \in Page
      OBVIOUS
    <2>1. v \in users /\ v < m /\ v \in Nat /\ m \in Nat
      BY <1>1, <1>2, AuditAssumption DEF Uids
    <2>2. v \notin Later
      BY <2>1, <1>2
    <2>3. Rank(v) \in Nat
      BY RankType
    <2>4. QED
      BY <2>1, <2>2, <2>3, AuditAssumption DEF Page
  <1>4. /\ IsFiniteSet(Before) /\ Cardinality(Before) \in Nat
        /\ IsFiniteSet(Page) /\ Cardinality(Page) \in Nat
    <2>1. Before \in SUBSET Uids
      OBVIOUS
    <2>2. QED
      BY <2>1, PageIsUsers, Finite
  <1>5. /\ IsFiniteSet(Before \cup Page)
        /\ Cardinality(Before \cup Page) <= Cardinality(Before) + Cardinality(Page)
    <2>1. /\ IsFiniteSet(Before \cup Page)
          /\ Cardinality(Before \cup Page) =
               Cardinality(Before) + Cardinality(Page) - Cardinality(Before \cap Page)
      BY <1>4, FS_Union
    <2>2. Before \cap Page \in SUBSET Uids
      OBVIOUS
    <2>3. Cardinality(Before \cap Page) \in Nat
      BY <2>2, Finite
    <2>4. QED
      BY <2>1, <2>3, <1>4
  <1>6. Cardinality(B) <= Cardinality(Before \cup Page)
    BY <1>3, <1>5, FS_Subset
  <1>7. Cardinality(Before) <= offset
    BY RowsBefore
  <1>8. Cardinality(B) = Rank(m) /\ Rank(m) \in Nat /\ offset + PageSize <= Rank(m)
    BY <1>2, RankType DEF Rank
  <1>9. Cardinality(Before \cup Page) \in Nat
    BY <1>5, FS_CardinalityType
  <1>10. QED
    BY <1>4, <1>5, <1>6, <1>7, <1>8, <1>9, AuditAssumption

(* ... and the rows of a page and those before it are different rows.      *)
LEMMA PageFits ==
  ASSUME users \subseteq Uids, offset \in Nat, Page # {}
  PROVE  offset + Cardinality(Page) <= Cardinality(users)
  <1>1. PICK m \in Page : \A v \in Page : m <= v
    BY PageIsUsers, Least
  <1> DEFINE B == {v \in users : v < m}
  <1>2. B \in SUBSET Uids /\ Cardinality(B) = Rank(m) /\ Rank(m) \in Nat /\ offset <= Rank(m)
    BY <1>1, RankType DEF Rank, Page
  <1>3. B \cap Page = {}
    <2> SUFFICES ASSUME NEW v \in B, v \in Page PROVE FALSE
      OBVIOUS
    <2>1. v < m /\ m <= v /\ v \in Uids /\ m \in Uids
      BY <1>1, PageIsUsers
    <2>2. QED
      BY <2>1, AuditAssumption DEF Uids
  <1>4. /\ IsFiniteSet(B) /\ IsFiniteSet(Page) /\ Cardinality(Page) \in Nat
        /\ IsFiniteSet(users) /\ Cardinality(users) \in Nat
    BY <1>2, PageIsUsers, Finite
  <1>5. Cardinality(B \cup Page) = Cardinality(B) + Cardinality(Page) - Cardinality(B \cap Page)
    BY <1>4, FS_Union
  <1>6. Cardinality(B \cap Page) = 0
    BY <1>3, FS_EmptySet
  <1>7. B \cup Page \in SUBSET users
    BY PageIsUsers
  <1>8. Cardinality(B \cup Page) <= Cardinality(users)
    BY <1>4, <1>7, FS_Subset
  <1>9. QED
    BY <1>2, <1>4, <1>5, <1>6, <1>8

LEMMA Smaller ==
  ASSUME NEW S \in SUBSET Uids, NEW T \in SUBSET S, NEW u \in S, u \notin T
  PROVE  Cardinality(T) < Cardinality(S)
  <1>1. /\ IsFiniteSet(S) /\ IsFiniteSet(T)
        /\ Cardinality(S) \in Nat /\ Cardinality(T) \in Nat
    BY Finite
  <1>2. Cardinality(T \cup {u}) = Cardinality(T) + 1
    BY <1>1, FS_AddElement
  <1>3. Cardinality(T \cup {u}) <= Cardinality(S)
    BY <1>1, FS_Subset
  <1>4. QED
    BY <1>1, <1>2, <1>3

(* A page has PageSize rows at most.                                       *)
LEMMA PageSmall ==
  ASSUME users \subseteq Uids, offset \in Nat
  PROVE  Cardinality(Page) <= PageSize
  <1>1. Page \in SUBSET users /\ Page \in SUBSET Uids /\ Cardinality(Page) \in Nat
    BY PageIsUsers, Finite
  <1>2. CASE Page = {}
    BY <1>2, FS_EmptySet, AuditAssumption
  <1>3. CASE Page # {}
    <2>1. PICK m \in Page : \A v \in Page : m <= v
      BY <1>1, <1>3, Least
    <2>2. PICK n \in Page : \A v \in Page : v <= n
      BY <1>1, <1>3, Greatest
    <2> DEFINE Before == {v \in users : v < m}
               Below  == {v \in users : v < n}
               Rest   == Page \ {n}
    <2>3. /\ Before \in SUBSET Uids /\ Below \in SUBSET Uids /\ Rest \in SUBSET Uids
          /\ Rank(m) = Cardinality(Before) /\ Rank(n) = Cardinality(Below)
          /\ offset <= Rank(m) /\ Rank(n) < offset + PageSize
      BY <1>1, <2>1, <2>2 DEF Rank, Page
    <2>4. \A v \in Uids : v \in Nat
      BY AuditAssumption DEF Uids
    <2>5. /\ IsFiniteSet(Before) /\ IsFiniteSet(Below) /\ IsFiniteSet(Rest)
          /\ Rank(m) \in Nat /\ Rank(n) \in Nat /\ Cardinality(Rest) \in Nat
      BY <2>3, Finite
    <2>6. Before \cup Rest \subseteq Below /\ Before \cap Rest = {}
      <3>1. m \in Nat /\ n \in Nat /\ m <= n
        BY <1>1, <2>1, <2>4
      <3>2. ASSUME NEW v \in Before PROVE v \in Below /\ v \notin Rest
        <4>1. v \in users /\ v \in Nat /\ v < m
          BY <2>3, <2>4
        <4>2. v < n /\ ~(m <= v)
          BY <3>1, <4>1
        <4>3. QED
          BY <2>1, <4>1, <4>2
      <3>3. ASSUME NEW v \in Rest PROVE v \in Below
        <4>1. v \in users /\ v \in Nat /\ v # n /\ v <= n
          BY <1>1, <2>2, <2>4
        <4>2. v < n
          BY <3>1, <4>1
        <4>3. QED
          BY <4>1, <4>2
      <3>4. QED
        BY <3>2, <3>3
    <2>7. Cardinality(Before \cup Rest) = Rank(m) + Cardinality(Rest)
      <3>1. Cardinality(Before \cup Rest)
              = Cardinality(Before) + Cardinality(Rest) - Cardinality(Before \cap Rest)
        BY <2>5, FS_Union
      <3>2. Cardinality(Before \cap Rest) = 0
        BY <2>6, FS_EmptySet
      <3>3. QED
        BY <2>3, <2>5, <3>1, <3>2
    <2>8. Cardinality(Before \cup Rest) <= Rank(n)
      BY <2>3, <2>5, <2>6, FS_Subset
    <2>9. Cardinality(Page) = Cardinality(Rest) + 1
      <3>1. Cardinality(Rest \cup {n}) = Cardinality(Rest) + 1
        BY <2>5, FS_AddElement
      <3>2. Rest \cup {n} = Page
        OBVIOUS
      <3>3. QED
        BY <3>1, <3>2
    <2>10. QED
      BY <2>3, <2>5, <2>7, <2>8, <2>9, AuditAssumption
  <1>4. QED
    BY <1>2, <1>3

(* Rows are only added, so ranks only grow.                                *)
LEMMA RanksGrow ==
  ASSUME users \subseteq users', users' \subseteq Uids
  PROVE  /\ \A u : Rank(u) \in Nat /\ Rank(u)' \in Nat /\ Rank(u) <= Rank(u)'
         /\ Cardinality(users) \in Nat /\ Cardinality(users') \in Nat
         /\ Cardinality(users) <= Cardinality(users')
  <1>1. ASSUME NEW u PROVE Rank(u) \in Nat /\ Rank(u)' \in Nat /\ Rank(u) <= Rank(u)'
    <2> DEFINE B == {v \in users : v < u}
               C == {v \in users' : v < u}
    <2>1. B \in SUBSET C /\ B \in SUBSET Uids /\ C \in SUBSET Uids
      OBVIOUS
    <2>2. /\ IsFiniteSet(C) /\ Cardinality(C) \in Nat /\ Cardinality(B) \in Nat
      BY <2>1, Finite
    <2>3. Cardinality(B) <= Cardinality(C)
      BY <2>1, <2>2, FS_Subset
    <2>4. QED
      BY <2>2, <2>3 DEF Rank
  <1>2. IsFiniteSet(users') /\ Cardinality(users') \in Nat /\ Cardinality(users) \in Nat
    BY Finite
  <1>3. Cardinality(users) <= Cardinality(users')
    BY <1>2, FS_Subset
  <1>4. QED
    BY <1>1, <1>2, <1>3

-----------------------------------------------------------------------------
(***************************************************************************)
(* The invariant.  While pages are loaded, a user who was there from the   *)
(* start and is not loaded yet comes at or after the next page; afterwards *)
(* all of them are loaded, so no loop that deletes has one to visit.       *)
(***************************************************************************)
Paging == audit = "load" => \A u \in known \ userSet : offset <= Rank(u)

AllLoaded == audit \notin {"idle", "load"} => known \subseteq userSet

NoneToDrop == audit \in {"dropCRs", "dropDBs"} => known \cap todo = {}

(* What was read is all there was: no list ended early, or none can.       *)
Trusted == clean \/ "truncate" \notin Faults

IInv ==
  /\ TypeOK
  /\ audit = "load" => clean
  /\ Trusted => Paging /\ AllLoaded /\ NoneToDrop

LEMMA InitEstablishes == Init => IInv
  <1> SUFFICES ASSUME Init PROVE IInv
    OBVIOUS
  <1>1. TypeOK
    <2>1. Cardinality(users) = 0
      BY FS_EmptySet DEF Init
    <2>2. QED
      BY <2>1, AuditAssumption DEF Init, TypeOK, AuditStep
  <1>2. Paging /\ AllLoaded /\ NoneToDrop
    BY DEF Init, Paging, AllLoaded, NoneToDrop
  <1>3. QED
    BY <1>1, <1>2 DEF IInv, Init

(* A step that only adds users changes nothing the audit knows.            *)
LEMMA UsersStepPreserves ==
  ASSUME IInv, users \subseteq users', users' \subseteq Uids \ Orphans,
         databases' \subseteq Uids, workers' \subseteq Uids, UNCHANGED local
  PROVE  IInv'
  <1>1. TypeOK /\ users' \subseteq Uids
    BY DEF IInv
  <1>2. /\ Cardinality(users) \in Nat /\ Cardinality(users') \in Nat
        /\ Cardinality(users) <= Cardinality(users')
        /\ \A u : Rank(u) \in Nat /\ Rank(u)' \in Nat /\ Rank(u) <= Rank(u)'
    BY <1>1, RanksGrow
  <1>3. TypeOK'
    BY <1>1, <1>2 DEF TypeOK, local
  <1>4. ASSUME Paging PROVE Paging'
    <2> SUFFICES ASSUME audit' = "load", NEW u \in known \ userSet PROVE offset <= Rank(u)'
      BY DEF Paging, local
    <2>1. offset <= Rank(u) /\ offset \in Nat
      BY <1>1, <1>4 DEF Paging, TypeOK, local
    <2>2. QED
      BY <2>1, <1>2
  <1>5. (AllLoaded => AllLoaded') /\ (NoneToDrop => NoneToDrop')
    BY DEF AllLoaded, NoneToDrop, local
  <1>6. (Trusted' <=> Trusted) /\ ((audit = "load" => clean) <=> (audit' = "load" => clean'))
    BY DEF Trusted, local
  <1>7. QED
    BY <1>3, <1>4, <1>5, <1>6 DEF IInv

(* The audit ends without finishing.                                       *)
LEMMA ForgetPreserves ==
  ASSUME IInv, Forget, UNCHANGED system
  PROVE  IInv'
  <1>1. TypeOK'
    <2>1. Cardinality(users') \in Nat
      BY Finite DEF IInv, TypeOK, system
    <2>2. QED
      BY <2>1 DEF IInv, TypeOK, Forget, system, AuditStep
  <1>2. Paging' /\ AllLoaded' /\ NoneToDrop'
    BY DEF Forget, Paging, AllLoaded, NoneToDrop
  <1>3. QED
    BY <1>1, <1>2 DEF IInv, Forget

LEMMA StartAuditPreserves ==
  ASSUME IInv, StartAudit
  PROVE  IInv'
  <1>1. TypeOK'
    <2>1. Cardinality(users') \in Nat
      BY Finite DEF IInv, TypeOK, system, StartAudit
    <2>2. QED
      BY <2>1 DEF IInv, TypeOK, StartAudit, system, AuditStep
  <1>2. Paging' /\ AllLoaded' /\ NoneToDrop'
    <2>1. audit' = "load" /\ offset' = 0 /\ users' = users
      BY DEF StartAudit, system
    <2>2. \A u : Rank(u)' \in Nat
      BY <2>1, RankType DEF IInv, TypeOK, Rank
    <2>3. QED
      BY <2>1, <2>2 DEF Paging, AllLoaded, NoneToDrop
  <1>3. QED
    BY <1>1, <1>2 DEF IInv, StartAudit

LEMMA LoadPagePreserves ==
  ASSUME IInv, LoadPage
  PROVE  IInv'
  <1> USE AuditAssumption DEF IInv
  <1>1. CASE GiveUp("db") /\ UNCHANGED system
    BY <1>1, ForgetPreserves DEF GiveUp
  <1>2. ASSUME NEW page \in {Page} \cup IF "truncate" \in Faults THEN Truncations(Page) ELSE {},
               audit = "load", UNCHANGED system,
               userSet' = userSet \cup page,
               IF Cardinality(page) < PageSize
                 THEN audit' = "listCRs" /\ UNCHANGED offset
                 ELSE offset' = offset + PageSize /\ UNCHANGED audit,
               clean' = (page = Page),
               UNCHANGED <<crList, dbList, todo, known>>
        PROVE  IInv'
    <2>1. /\ users' = users /\ databases' = databases /\ workers' = workers
          /\ users \subseteq Uids /\ offset \in Nat /\ known \subseteq users
          /\ Cardinality(users) \in Nat
      BY <1>2, Finite DEF TypeOK, system
    <2>2. page \in SUBSET Page
      BY <1>2 DEF Truncations
    <2>3. /\ Page \in SUBSET users /\ page \in SUBSET Uids
          /\ Cardinality(page) \in Nat /\ Cardinality(Page) \in Nat
          /\ Cardinality(page) <= Cardinality(Page)
      <3>1. Page \in SUBSET users /\ Page \in SUBSET Uids
        BY <2>1, PageIsUsers
      <3>2. IsFiniteSet(Page) /\ Cardinality(Page) \in Nat
        BY <3>1, Finite
      <3>3. Cardinality(page) \in Nat
        BY <3>1, <2>2, Finite
      <3>4. QED
        BY <3>1, <3>2, <3>3, <2>2, FS_Subset
    <2>4. offset' \in Nat /\ offset' <= Cardinality(users)
      <3>1. CASE Cardinality(page) < PageSize
        BY <1>2, <2>1, <3>1 DEF TypeOK
      <3>2. CASE ~(Cardinality(page) < PageSize)
        <4>1. Page # {}
          BY <2>3, <3>2, FS_EmptySet
        <4>2. offset + Cardinality(Page) <= Cardinality(users)
          BY <4>1, <2>1, PageFits
        <4>3. QED
          BY <1>2, <4>2, <2>1, <2>3, <3>2
      <3>3. QED
        BY <3>1, <3>2
    <2>5. TypeOK'
      BY <1>2, <2>1, <2>2, <2>3, <2>4 DEF TypeOK, AuditStep
    <2>6. ASSUME Trusted' PROVE Paging' /\ AllLoaded' /\ NoneToDrop'
      <3>1. page = Page /\ \A u \in known \ userSet : offset <= Rank(u)
        BY <1>2, <2>6 DEF Paging, Trusted
      <3>2. \A u \in known : Rank(u)' = Rank(u) /\ Rank(u) \in Nat
        BY <2>1, RankType DEF Rank
      <3>3. \A u \in known \ userSet' : offset + PageSize <= Rank(u)
        BY <1>2, <2>1, <3>1, <3>2 DEF Page
      <3>4. CASE Cardinality(page) < PageSize
        <4>1. known \ userSet' = {}
          <5> SUFFICES ASSUME NEW u \in known \ userSet' PROVE FALSE
            OBVIOUS
          <5>1. PageSize <= Cardinality(Page)
            BY <2>1, <3>3, FullPage
          <5>2. QED
            BY <5>1, <3>1, <3>4, <2>3
        <4>2. QED
          BY <1>2, <3>4, <4>1 DEF Paging, AllLoaded, NoneToDrop
      <3>5. CASE ~(Cardinality(page) < PageSize)
        BY <1>2, <3>2, <3>3, <3>5 DEF Paging, AllLoaded, NoneToDrop
      <3>6. QED
        BY <3>4, <3>5
    <2>7. audit' = "load" => clean'
      <3>1. CASE page = Page
        BY <1>2, <3>1
      <3>2. CASE page # Page
        <4>1. PICK u \in Page : u \notin page
          BY <2>2, <3>2
        <4>2. Cardinality(page) < Cardinality(Page)
          BY <2>1, <2>2, <4>1, PageIsUsers, Smaller
        <4>3. Cardinality(Page) <= PageSize
          BY <2>1, PageSmall
        <4>4. Cardinality(page) < PageSize
          BY <2>3, <4>2, <4>3
        <4>5. QED
          BY <1>2, <4>4
      <3>3. QED
        BY <3>1, <3>2
    <2>8. QED
      BY <2>5, <2>6, <2>7
  <1>3. QED
    BY <1>1, <1>2 DEF LoadPage

(* Once the users are loaded the audit's lists need only have their types, *)
(* and the loops that delete must not have a known user to visit.          *)
LEMMA LoadedStepPreserves ==
  ASSUME IInv, audit \notin {"idle", "load"},
         audit' \in AuditStep \ {"idle", "load"},
         UNCHANGED <<users, offset, userSet, known>>,
         databases' \subseteq Uids, workers' \subseteq Uids,
         crList' \subseteq Uids, dbList' \subseteq Uids, todo' \subseteq Uids,
         clean' \in BOOLEAN, clean' => clean,
         AllLoaded /\ NoneToDrop => NoneToDrop'
  PROVE  IInv'
  <1>1. TypeOK'
    BY DEF IInv, TypeOK
  <1>2. Paging' /\ (AllLoaded => AllLoaded')
    BY DEF Paging, AllLoaded
  <1>3. Trusted' => Trusted
    BY DEF Trusted
  <1>4. QED
    BY <1>1, <1>2, <1>3 DEF IInv

LEMMA ListPreserves ==
  ASSUME IInv, ListCRs \/ ListDBs
  PROVE  IInv'
  <1>1. CASE ListCRs
    <2>1. CASE GiveUp("api") /\ UNCHANGED system
      BY <2>1, ForgetPreserves DEF GiveUp
    <2>2. CASE /\ audit' = "listDBs" /\ crList' = workers
               /\ UNCHANGED <<offset, userSet, dbList, todo, known, clean>>
      <3>1. AllLoaded /\ NoneToDrop => NoneToDrop'
        BY <2>2 DEF NoneToDrop
      <3>2. QED
        BY <1>1, <2>2, <3>1, LoadedStepPreserves DEF ListCRs, IInv, TypeOK, AuditStep, system
    <2>3. QED
      BY <1>1, <2>1, <2>2 DEF ListCRs
  <1>2. CASE ListDBs
    <2>1. dbList' \subseteq databases /\ clean' \in BOOLEAN
      BY <1>2 DEF ListDBs, IInv, TypeOK
    <2>c. clean' => clean
      BY <1>2, Zenon DEF ListDBs
    <2>2. \/ audit' = "init" /\ todo' = userSet \ dbList'
          \/ audit' = "dropCRs" /\ todo' = crList \ userSet
      BY <1>2 DEF ListDBs
    <2>3. audit = "listDBs" /\ UNCHANGED <<system, offset, userSet, crList, known>>
      BY <1>2 DEF ListDBs
    <2>4. AllLoaded /\ NoneToDrop => NoneToDrop'
      BY <2>2, <2>3 DEF AllLoaded, NoneToDrop
    <2>5. todo' \subseteq Uids
      BY <2>2 DEF IInv, TypeOK
    <2>6. QED
      BY <2>1, <2>c, <2>2, <2>3, <2>4, <2>5, LoadedStepPreserves DEF IInv, TypeOK, AuditStep, system
  <1>3. QED
    BY <1>1, <1>2

LEMMA LoopPreserves ==
  ASSUME IInv,
         NextLoop \/ \E u \in Uids : InitMissing(u) \/ DropWorkers(u) \/ DropDatabase(u)
  PROVE  IInv'
  <1>1. CASE NextLoop
    <2>1. AllLoaded /\ NoneToDrop => NoneToDrop'
      BY <1>1 DEF NextLoop, AllLoaded, NoneToDrop
    <2>2. QED
      BY <1>1, <2>1, LoadedStepPreserves DEF NextLoop, IInv, TypeOK, AuditStep, system
  <1>2. ASSUME NEW u \in Uids, InitMissing(u) \/ DropWorkers(u) \/ DropDatabase(u)
        PROVE  IInv'
    <2>1. /\ audit \in {"init", "dropCRs", "dropDBs"} /\ Visit(u)
          /\ databases' \subseteq Uids /\ workers' \subseteq Uids /\ clean' \in BOOLEAN
      BY <1>2 DEF InitMissing, DropWorkers, DropDatabase, Failed, IInv, TypeOK
    <2>c. clean' => clean
      BY <1>2, Zenon DEF InitMissing, DropWorkers, DropDatabase, Failed
    <2>2. AllLoaded /\ NoneToDrop => NoneToDrop'
      BY <2>1 DEF Visit, NoneToDrop
    <2>3. QED
      BY <2>1, <2>c, <2>2, LoadedStepPreserves DEF Visit, IInv, TypeOK, AuditStep
  <1>3. QED
    BY <1>1, <1>2

LEMMA NextPreserves == IInv /\ [Next]_vars => IInv'
  <1> SUFFICES ASSUME IInv, [Next]_vars PROVE IInv'
    OBVIOUS
  <1>1. ASSUME NEW u \in Uids, Register(u) \/ InitUserRDB(u) \/ Deploy(u) \/ DeleteWorker(u)
        PROVE  IInv'
    <2>1. /\ users \subseteq users' /\ users' \subseteq Uids \ Orphans
          /\ databases' \subseteq Uids /\ workers' \subseteq Uids /\ UNCHANGED local
      BY <1>1 DEF Register, InitUserRDB, Deploy, DeleteWorker, IInv, TypeOK
    <2>2. QED
      BY <2>1, UsersStepPreserves
  <1>2. CASE InnerRestart
    BY <1>2, ForgetPreserves DEF InnerRestart, system
  <1>3. CASE UNCHANGED vars
    <2>1. /\ users \subseteq users' /\ users' \subseteq Uids \ Orphans
          /\ databases' \subseteq Uids /\ workers' \subseteq Uids /\ UNCHANGED local
      BY <1>3 DEF vars, local, IInv, TypeOK
    <2>2. QED
      BY <2>1, UsersStepPreserves
  <1>4. CASE Next
    BY <1>1, <1>2, <1>4, StartAuditPreserves, LoadPagePreserves, ListPreserves, LoopPreserves
    DEF Next
  <1>5. QED
    BY <1>3, <1>4

-----------------------------------------------------------------------------
(***************************************************************************)
(* The theorems.                                                           *)
(***************************************************************************)
(* The invariant holds in every state of UserAudit.                        *)
THEOREM Invariance == Spec => []IInv
  BY InitEstablishes, NextPreserves, PTL DEF Spec

(* Types; the audit holds only users, and the offset stays in the table.   *)
THEOREM TypeCorrect == Spec => []TypeOK
  <1>1. IInv => TypeOK
    BY DEF IInv
  <1>2. QED
    BY <1>1, Invariance, PTL

LEMMA StepSpares ==
  ASSUME IInv, "truncate" \notin Faults, [Next]_vars
  PROVE  [Spares(known)]_vars
  <1> SUFFICES ASSUME NEW u \in known \cap todo
               PROVE  /\ u \in databases => u \in databases'
                      /\ u \in workers /\ u \notin todo' => u \in workers'
    BY DEF Spares
  <1>1. audit \notin {"dropCRs", "dropDBs"}
    BY DEF IInv, NoneToDrop, Trusted
  <1>2. CASE UNCHANGED vars
    BY <1>2 DEF vars
  <1>3. CASE \E v \in Uids : Register(v) \/ InitUserRDB(v) \/ Deploy(v) \/ DeleteWorker(v)
    BY <1>3 DEF Register, InitUserRDB, Deploy, DeleteWorker, local
  <1>4. CASE \E v \in Uids : InitMissing(v) \/ DropWorkers(v) \/ DropDatabase(v)
    BY <1>1, <1>4 DEF InitMissing, DropWorkers, DropDatabase, Failed
  <1>5. CASE InnerRestart \/ StartAudit \/ LoadPage \/ ListCRs \/ ListDBs \/ NextLoop
    BY <1>5 DEF InnerRestart, StartAudit, LoadPage, ListCRs, ListDBs, NextLoop, system
  <1>6. QED
    BY <1>2, <1>3, <1>4, <1>5 DEF Next

(* Users who were there when the audit began lose nothing, whoever         *)
(* registers while it pages through the table (loadAllUserUIDs), provided  *)
(* a page that ends early is not taken for the last one.                   *)
THEOREM KnownSpared ==
  ASSUME "truncate" \notin Faults
  PROVE  Spec => KnownUsersSpared
  <1>1. IInv /\ [Next]_vars => [Spares(known)]_vars
    BY StepSpares
  <1>2. QED
    BY <1>1, Invariance, PTL DEF Spec, KnownUsersSpared

-----------------------------------------------------------------------------
(***************************************************************************)
(* What a clean audit has still to do: orphans that have something are in  *)
(* the list the audit works from, then in what the loop has left to visit, *)
(* then there are none; and of the users it holds all have a database or   *)
(* will be visited.                                                        *)
(***************************************************************************)
OrphanWorkers   == Orphans \cap workers
OrphanDatabases == Orphans \cap databases

WorkersLeft ==
  /\ audit \in {"listDBs", "init"} => OrphanWorkers \subseteq crList
  /\ audit = "dropCRs" => OrphanWorkers \subseteq todo
  /\ audit \in {"dropDBs", "done"} => OrphanWorkers = {}

DatabasesLeft ==
  /\ audit \in {"init", "dropCRs"} => OrphanDatabases \subseteq dbList
  /\ audit = "dropDBs" => OrphanDatabases \subseteq todo
  /\ audit = "done" => OrphanDatabases = {}

UsersLeft ==
  /\ audit = "init" => todo \subseteq userSet /\ userSet \subseteq databases \cup todo
  /\ audit \in {"dropCRs", "dropDBs", "done"} /\ dbList # {} => known \subseteq databases

RInv == clean => WorkersLeft /\ DatabasesLeft /\ UsersLeft

LEMMA RInvPreserved ==
  ASSUME IInv, RInv, [Next]_vars
  PROVE  RInv'
  <1> USE DEF RInv
  <1>0. /\ users \cap Orphans = {} /\ userSet \subseteq users
        /\ clean => AllLoaded /\ NoneToDrop
    BY DEF IInv, TypeOK, Trusted
  <1>1. CASE UNCHANGED vars
    BY <1>1 DEF vars, WorkersLeft, DatabasesLeft, UsersLeft, OrphanWorkers, OrphanDatabases
  <1>2. ASSUME NEW u \in Uids, Register(u) \/ InitUserRDB(u) \/ Deploy(u) \/ DeleteWorker(u)
        PROVE  RInv'
    <2>1. /\ UNCHANGED local /\ databases \subseteq databases'
          /\ OrphanWorkers' \subseteq OrphanWorkers /\ OrphanDatabases' = OrphanDatabases
      BY <1>0, <1>2 DEF Register, InitUserRDB, Deploy, DeleteWorker, OrphanWorkers, OrphanDatabases
    <2>2. QED
      BY <2>1 DEF local, WorkersLeft, DatabasesLeft, UsersLeft
  <1>3. CASE StartAudit \/ LoadPage
    <2>1. audit' \in {"load", "listCRs", "idle"}
      BY <1>3 DEF StartAudit, LoadPage, GiveUp, Forget
    <2>2. QED
      BY <2>1 DEF WorkersLeft, DatabasesLeft, UsersLeft
  <1>4. CASE InnerRestart
    <2>1. audit' = "idle"
      BY <1>4 DEF InnerRestart, Forget
    <2>2. QED
      BY <2>1 DEF WorkersLeft, DatabasesLeft, UsersLeft
  <1>5. CASE ListCRs
    <2>1. \/ audit' = "idle"
          \/ audit' = "listDBs" /\ crList' = workers /\ workers' = workers
      BY <1>5 DEF ListCRs, GiveUp, Forget, system
    <2>2. QED
      BY <2>1 DEF WorkersLeft, DatabasesLeft, UsersLeft, OrphanWorkers
  <1>6. CASE ListDBs
    <2>1. audit = "listDBs" /\ UNCHANGED <<users, databases, workers, userSet, crList, known>>
      BY <1>6 DEF ListDBs, system
    <2>2. clean' => clean /\ dbList' = databases
      BY <1>6 DEF ListDBs
    <2>3. \/ audit' = "init" /\ todo' = userSet \ dbList'
          \/ audit' = "dropCRs" /\ todo' = crList \ userSet /\ dbList' = {}
      BY <1>6 DEF ListDBs
    <2>4. WorkersLeft => WorkersLeft'
      BY <1>0, <2>1, <2>3 DEF WorkersLeft, OrphanWorkers
    <2>5. clean' => DatabasesLeft' /\ UsersLeft'
      BY <2>1, <2>2, <2>3 DEF DatabasesLeft, UsersLeft, OrphanDatabases
    <2>6. QED
      BY <2>2, <2>4, <2>5
  <1>7. ASSUME NEW u \in Uids, InitMissing(u) \/ DropWorkers(u) \/ DropDatabase(u)
        PROVE  RInv'
    <2>0. SUFFICES ASSUME clean' PROVE WorkersLeft' /\ DatabasesLeft' /\ UsersLeft'
      OBVIOUS
    <2>1. /\ clean /\ u \in todo /\ todo' = todo \ {u}
          /\ UNCHANGED <<users, audit, offset, userSet, crList, dbList, known>>
      BY <1>7, <2>0 DEF InitMissing, DropWorkers, DropDatabase, Failed, Visit
    <2>2. CASE InitMissing(u)
      <3>1. audit = "init" /\ databases' = databases \cup {u} /\ workers' = workers
        BY <2>0, <2>2 DEF InitMissing, Failed
      <3>2. u \in users /\ u \notin Orphans
        BY <1>0, <2>1, <3>1 DEF UsersLeft
      <3>3. WorkersLeft'
        BY <2>1, <3>1 DEF WorkersLeft, OrphanWorkers
      <3>4. DatabasesLeft'
        BY <2>1, <3>1, <3>2 DEF DatabasesLeft, OrphanDatabases
      <3>5. UsersLeft'
        BY <2>1, <3>1 DEF UsersLeft
      <3>6. QED
        BY <3>3, <3>4, <3>5
    <2>3. CASE DropWorkers(u)
      <3>1. audit = "dropCRs" /\ workers' = workers \ {u} /\ databases' = databases
        BY <2>0, <2>3 DEF DropWorkers, Failed
      <3>2. QED
        BY <2>1, <3>1 DEF WorkersLeft, DatabasesLeft, UsersLeft, OrphanWorkers, OrphanDatabases
    <2>4. CASE DropDatabase(u)
      <3>1. audit = "dropDBs" /\ databases' = databases \ {u} /\ workers' = workers
        BY <2>0, <2>4 DEF DropDatabase, Failed
      <3>2. u \notin known
        BY <1>0, <2>1, <3>1 DEF NoneToDrop
      <3>3. QED
        BY <2>1, <3>1, <3>2 DEF WorkersLeft, DatabasesLeft, UsersLeft, OrphanWorkers, OrphanDatabases
    <2>5. QED
      BY <1>7, <2>2, <2>3, <2>4
  <1>8. CASE NextLoop
    <2>0. SUFFICES ASSUME clean' PROVE WorkersLeft' /\ DatabasesLeft' /\ UsersLeft'
      OBVIOUS
    <2>1. /\ clean /\ todo = {} /\ UNCHANGED <<users, databases, workers, userSet, crList, dbList, known>>
          /\ \/ audit = "init" /\ audit' = "dropCRs" /\ todo' = crList \ userSet
             \/ audit = "dropCRs" /\ audit' = "dropDBs" /\ todo' = dbList \ userSet
             \/ audit = "dropDBs" /\ audit' = "done"
      BY <1>8, <2>0 DEF NextLoop, system
    <2>2. WorkersLeft /\ DatabasesLeft /\ UsersLeft /\ AllLoaded
      BY <1>0, <2>1
    <2>3. WorkersLeft'
      BY <1>0, <2>1, <2>2 DEF WorkersLeft, OrphanWorkers
    <2>4. DatabasesLeft'
      BY <1>0, <2>1, <2>2 DEF DatabasesLeft, OrphanDatabases
    <2>5. UsersLeft'
      BY <2>1, <2>2 DEF UsersLeft, AllLoaded
    <2>6. QED
      BY <2>3, <2>4, <2>5
  <1>9. QED
    BY <1>1, <1>2, <1>3, <1>4, <1>5, <1>6, <1>7, <1>8 DEF Next

(* A clean audit repairs what it is there for, however many users there    *)
(* are, whoever registers or deploys beside it, and however its pages fall: *)
(* no orphan keeps a database or a worker, and (unless the list of the     *)
(* databases was empty) every user there was at the start has a database.  *)
THEOREM Repairs == Spec => []AuditRepairs
  <1>1. Init => RInv
    BY DEF Init, RInv, WorkersLeft, DatabasesLeft, UsersLeft
  <1>2. RInv => AuditRepairs
    BY DEF RInv, WorkersLeft, DatabasesLeft, UsersLeft, OrphanWorkers, OrphanDatabases,
       AuditRepairs
  <1>3. IInv /\ RInv /\ [Next]_vars => RInv'
    BY RInvPreserved
  <1>4. QED
    BY Invariance, <1>1, <1>2, <1>3, PTL DEF Spec
=============================================================================

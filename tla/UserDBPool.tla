----------------------------- MODULE UserDBPool -----------------------------
(***************************************************************************)
(* The pool of connections to the users' databases (userDBManager in       *)
(* k8s/rdb.go), shared by the goroutines that run jobs and handlers.       *)
(*                                                                         *)
(* A *sql.DB, the entry that holds it and the entry's element in the LRU   *)
(* list are created together, so one handle stands for all three; a handle *)
(* that nothing refers to any more is collected and its name used again.   *)
(* entry.db is nil exactly when the handle is closed.                      *)
(*                                                                         *)
(* The first lookup and the ping run without mgr.mu; everything from the   *)
(* second check to the return runs under it.  A ping of an open handle may *)
(* succeed or fail, one of a closed handle fails.                          *)
(*                                                                         *)
(* The pool is part of the inner gateway's process: its names differ from  *)
(* those of InnerGateway, so that one module can extend both.              *)
(***************************************************************************)
EXTENDS Naturals, Sequences, FiniteSets

CONSTANTS
  Users,
  Callers,   \* goroutines inside getOrCreateUserDB
  Handles,   \* names of handles
  PoolSize,  \* UserDBPoolSize
  Nil        \* no handle, no user, nobody

ASSUME PoolAssumption ==
  /\ Nil \notin Users \cup Handles \cup Callers
  /\ PoolSize \in Nat \ {0}

VARIABLES
  userDBs,   \* the handle of each user's entry, or Nil
  lruList,   \* its elements, the most recently used first
  open,      \* the handles that are not closed
  lock,      \* who holds mgr.mu for writing
  pc,        \* what each caller does next
  user,      \* the uid each caller asks for
  db,        \* the handle each caller has read or was given
  down       \* closeAll has run

userDBVars == <<userDBs, lruList, open, lock, pc, user, db, down>>
poolVars == <<userDBs, lruList, open>>

Step == {"idle", "ping", "touch", "lock", "check", "evict", "connect",
         "returned", "failed"}
Element == [uid : Users, handle : Handles]

Pooled == {u \in Users : userDBs[u] # Nil}
ElementOf(u, h) == [uid |-> u, handle |-> h]
InList(h) == \E i \in 1..Len(lruList) : lruList[i].handle = h

(* list.Remove of the element of handle h.                                 *)
Without(h) ==
  LET at == CHOOSE i \in 1..Len(lruList) : lruList[i].handle = h IN
  IF InList(h) THEN SubSeq(lruList, 1, at - 1) \o SubSeq(lruList, at + 1, Len(lruList))
  ELSE lruList

UserDBInit ==
  /\ userDBs = [u \in Users |-> Nil]
  /\ lruList = <<>>
  /\ open = {}
  /\ lock = Nil
  /\ pc = [c \in Callers |-> "idle"]
  /\ user = [c \in Callers |-> Nil]
  /\ db = [c \in Callers |-> Nil]
  /\ down = FALSE

-----------------------------------------------------------------------------
Goto(c, step) == pc' = [pc EXCEPT ![c] = step]

\* Mutant: the element is inserted again.
PushFront(u, h) == lruList' = <<ElementOf(u, h)>> \o Without(h)

(* list.MoveToFront: nothing happens to an element that was removed.       *)
MoveToFront(u, h) ==
  lruList' = IF InList(h) THEN <<ElementOf(u, h)>> \o Without(h) ELSE lruList

\* Mutant: an error returns without Unlock.
ReturnLocked(c, step, h) ==
  /\ lock' = IF step = "failed" THEN lock ELSE Nil
  /\ Goto(c, step)
  /\ db' = [db EXCEPT ![c] = h]
  /\ UNCHANGED <<user, down>>

(* Return from the part under mgr.mu: the deferred Unlock runs.            *)
Return(c, step, h) ==
  /\ lock' = Nil
  /\ Goto(c, step)
  /\ db' = [db EXCEPT ![c] = h]
  /\ UNCHANGED <<user, down>>

-----------------------------------------------------------------------------
(* The call, and the lookup under mgr.mu.RLock.                            *)
Lookup(c, u) ==
  /\ pc[c] = "idle" /\ lock = Nil
  /\ user' = [user EXCEPT ![c] = u]
  /\ db' = [db EXCEPT ![c] = userDBs[u]]
  /\ Goto(c, IF userDBs[u] = Nil THEN "lock" ELSE "ping")
  /\ UNCHANGED <<poolVars, lock, down>>

(* getDB and PingContext, outside mgr.mu.                                  *)
Ping(c) ==
  /\ pc[c] = "ping"
  /\ \/ db[c] \in open /\ Goto(c, "touch") /\ UNCHANGED db
     \/ Goto(c, "lock") /\ db' = [db EXCEPT ![c] = Nil]
  /\ UNCHANGED <<poolVars, lock, user, down>>

(* The connection was healthy: update the list and return it.              *)
Touch(c) ==
  /\ pc[c] = "touch" /\ lock = Nil
  /\ MoveToFront(user[c], db[c])
  /\ Goto(c, "returned")
  /\ UNCHANGED <<userDBs, open, lock, user, db, down>>

Lock(c) ==
  /\ pc[c] = "lock" /\ lock = Nil
  /\ lock' = c
  /\ Goto(c, "check")
  /\ UNCHANGED <<poolVars, user, db, down>>

\* Mutant: the second check is left out.
CheckNothing(c) ==
  /\ pc[c] = "check" /\ Goto(c, "evict")
  /\ UNCHANGED <<poolVars, lock, user, db, down>>

(* Double check: another caller may have connected meanwhile.              *)
Check(c) ==
  LET h == userDBs[user[c]] IN
  /\ pc[c] = "check"
  /\ \/ /\ h \in open
        /\ MoveToFront(user[c], h)
        /\ Return(c, "returned", h)
        /\ UNCHANGED <<userDBs, open>>
     \/ /\ h # Nil
        /\ open' = open \ {h}
        /\ lruList' = Without(h)
        /\ userDBs' = [userDBs EXCEPT ![user[c]] = Nil]
        /\ Goto(c, "evict")
        /\ UNCHANGED <<lock, user, db, down>>
     \/ /\ h = Nil
        /\ Goto(c, "evict")
        /\ UNCHANGED <<poolVars, lock, user, db, down>>

(* A full pool closes its least recently used connection.                  *)
DropOldest ==
  LET oldest == lruList[Len(lruList)].uid IN
  /\ open' = open \ {userDBs[oldest]}
  /\ userDBs' = [userDBs EXCEPT ![oldest] = Nil]
  /\ lruList' = SubSeq(lruList, 1, Len(lruList) - 1)

Evict(c) ==
  /\ pc[c] = "evict" /\ Goto(c, "connect")
  /\ IF Cardinality(Pooled) >= PoolSize /\ lruList # <<>>
     THEN DropOldest ELSE UNCHANGED poolVars
  /\ UNCHANGED <<lock, user, db, down>>

(* A handle nothing refers to.                                             *)
Fresh(h) ==
  /\ h \notin open /\ ~InList(h)
  /\ \A u \in Users : userDBs[u] # h
  /\ \A c \in Callers : db[c] # h

(* The handle sql.Open returns; names are interchangeable, so one will do. *)
NewHandle == CHOOSE h \in Handles : Fresh(h)

(* sql.Open and a ping, up to three times; an attempt that fails closes    *)
(* its handle again.                                                       *)
Connect(c) ==
  /\ pc[c] = "connect"
  /\ \/ /\ \E h \in Handles : Fresh(h)
        /\ open' = open \cup {NewHandle}
        /\ lruList' = <<ElementOf(user[c], NewHandle)>> \o lruList
        /\ userDBs' = [userDBs EXCEPT ![user[c]] = NewHandle]
        /\ Return(c, "returned", NewHandle)
     \/ /\ Return(c, "failed", Nil)
        /\ UNCHANGED poolVars

(* The caller has used what it was given, or has handled the error.        *)
Release(c) ==
  /\ pc[c] \in {"returned", "failed"}
  /\ Goto(c, "idle")
  /\ db' = [db EXCEPT ![c] = Nil]
  /\ user' = [user EXCEPT ![c] = Nil]
  /\ UNCHANGED <<poolVars, lock, down>>

(* closeAll, when main ends: the entries stay in the map, closed.          *)
CloseAll ==
  /\ ~down /\ lock = Nil /\ down' = TRUE
  /\ open' = open \ {userDBs[u] : u \in Users}
  /\ UNCHANGED <<userDBs, lruList, lock, pc, user, db>>

Get(c) == Ping(c) \/ Touch(c) \/ Lock(c) \/ Check(c) \/ Evict(c) \/ Connect(c)

UserDBNext ==
  \/ \E c \in Callers : Get(c) \/ Release(c) \/ \E u \in Users : Lookup(c, u)
  \/ CloseAll

UserDBSpec == UserDBInit /\ [][UserDBNext]_userDBVars

(* Every caller inside the function runs, and the RWMutex serves those who *)
(* wait for it in turn.                                                    *)
UserDBFairSpec ==
  /\ UserDBSpec
  /\ \A c \in Callers :
       /\ WF_userDBVars(Ping(c) \/ Check(c) \/ Evict(c) \/ Connect(c))
       /\ SF_userDBVars(Touch(c)) /\ SF_userDBVars(Lock(c))

-----------------------------------------------------------------------------
(***************************************************************************)
(* Properties.                                                             *)
(***************************************************************************)
(* Types.                                                                  *)
UserDBTypeOK ==
  /\ userDBs \in [Users -> Handles \cup {Nil}]
  /\ lruList \in Seq(Element)
  /\ open \subseteq Handles
  /\ lock \in Callers \cup {Nil}
  /\ pc \in [Callers -> Step]
  /\ user \in [Callers -> Users \cup {Nil}]
  /\ db \in [Callers -> Handles \cup {Nil}]
  /\ down \in BOOLEAN

(* The map and the list hold the same connections, one per user, and not   *)
(* more than PoolSize: a caller that moves the element of a connection     *)
(* evicted since its ping must not bring it back.                          *)
MapAndListAgree ==
  /\ Len(lruList) <= PoolSize
  /\ \A i \in 1..Len(lruList) : userDBs[lruList[i].uid] = lruList[i].handle
  /\ \A u \in Pooled : \E i \in 1..Len(lruList) : lruList[i].uid = u
  /\ \A i, j \in 1..Len(lruList) : lruList[i].uid = lruList[j].uid => i = j

(* No connection leaks: one that is open is in the map, where eviction and *)
(* closeAll find it, although two callers may connect the same user; and   *)
(* until closeAll every connection in the map is open.                     *)
OpenExactlyPooled ==
  /\ \A h \in open : \E u \in Users : userDBs[u] = h
  /\ ~down => \A u \in Pooled : userDBs[u] \in open

(* A call returns: no path keeps mgr.mu.                                   *)
CallReturns ==
  \A c \in Callers :
    (pc[c] \notin {"idle", "returned", "failed"}) ~> (pc[c] \in {"returned", "failed"})

(* "getOrCreateUserDB returns a healthy user *sql.DB from pool": the       *)
(* handle it returns is open at the moment it returns it (until closeAll). *)
ReturnsOpen ==
  [][\A c \in Callers :
       pc[c] # "returned" /\ pc'[c] = "returned" /\ ~down => db'[c] \in open']_userDBVars
=============================================================================

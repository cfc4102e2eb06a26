------------------------ MODULE LinkLifecycle_proofs ------------------------
(***************************************************************************)
(* The safety invariants of LinkLifecycle, for any number of workers,      *)
(* caches, codes, destinations and requests.                               *)
(***************************************************************************)
EXTENDS LinkLifecycle, TLAPS

\* What a request has in its hands at each point of its code.
HoldingPcs == FillingPcs \cup {"confirm", "discard", "reply", "answer",
"remove"}

ShapeOf(t) ==
    /\ t.pc \in HoldingPcs => t.link \in Link
    /\ t.pc \in CreatePcs => t.url \in Urls /\ t.scope \in Scopes
    /\ t.pc = "insert" => t.chosen \in Codes
    /\ t.pc \in RedirectPcs \cup {"dropCode", "unlist"} => t.code \in Codes
    /\ t.pc = "ownerDelete" => t.scope \in Owners

StoreTyped ==
    /\ links \in SUBSET Link
    /\ nextId \in 1..(MaxLinks + 1)
    /\ expired \in SUBSET Ids
    /\ closed \in SUBSET Owners
    /\ l1 \in [Caches -> SUBSET Link]
    /\ l2 \in [Caches -> SUBSET Link]
    /\ dedup \in [Caches -> SUBSET Link]
    /\ clicks \in SUBSET (Caches \X Codes)
    /\ started \in 0..MaxRequests
    /\ audits \in [Ids -> Nat]
    /\ dropped \in [Caches -> SUBSET Link]
    /\ overlapped \in [Caches -> SUBSET Link]

TaskTyped ==
    /\ task \in [Workers -> Task]
    /\ \A w \in Workers : ShapeOf(task[w])

Typed == StoreTyped /\ TaskTyped

LEMMA TypedTypeOK == Typed => TypeOK
BY DEF Typed, StoreTyped, TaskTyped, TypeOK

LEMMA IdleTyped == Idle \in Task /\ ShapeOf(Idle)
BY BoundsAssumption DEF Idle, Task, ShapeOf, Pcs, HoldingPcs, FillingPcs,
   CreatePcs, InsertingPcs, RedirectPcs, DeletePcs

LEMMA InitTyped == Init => Typed
BY IdleTyped, BoundsAssumption DEF Init, Typed, StoreTyped, TaskTyped, Ids

\* A worker that takes up a well-shaped task keeps the tasks well shaped.
LEMMA BecomeTyped ==
  ASSUME TaskTyped, NEW w \in Workers, NEW t \in Task, ShapeOf(t), Become(w, t)
  PROVE  TaskTyped'
BY DEF TaskTyped, Become

LEMMA FinishTyped ==
  ASSUME TaskTyped, NEW w \in Workers, Finish(w)
  PROVE  TaskTyped'
BY BecomeTyped, IdleTyped DEF Finish

\* Moving on to a point that needs nothing the request has not in hand.
LEMMA GotoTyped ==
  ASSUME TaskTyped, NEW w \in Workers, NEW p \in Pcs, Goto(w, p),
         ShapeOf([task[w] EXCEPT !.pc = p])
  PROVE  TaskTyped'
<1>1. [task[w] EXCEPT !.pc = p] \in Task
  BY DEF TaskTyped, Task
<1> QED BY <1>1, BecomeTyped DEF Goto

LEMMA GotoWithTyped ==
  ASSUME TaskTyped, NEW w \in Workers, NEW p \in Pcs,
            NEW l \in Link \cup {None},
         GotoWith(w, p, l),
         ShapeOf([task[w] EXCEPT !.pc = p, !.link = l])
  PROVE  TaskTyped'
<1>1. [task[w] EXCEPT !.pc = p, !.link = l] \in Task
  BY DEF TaskTyped, Task
<1> QED BY <1>1, BecomeTyped DEF GotoWith

LEMMA StartTyped ==
  ASSUME Typed, NEW w \in Workers, NEW t \in Task, ShapeOf(t), Start(w, t)
  PROVE  TaskTyped' /\ started' \in 0..MaxRequests
<1>1. TaskTyped'
  BY BecomeTyped DEF Start, Typed
<1>2. started' \in 0..MaxRequests
  BY BoundsAssumption DEF Start, Typed, StoreTyped
<1> QED BY <1>1, <1>2

\* The cache calls write links and nothing else.
LEMMA CacheTyped ==
  ASSUME StoreTyped, NEW k \in Caches, NEW l \in Link,
         \/ CacheSave(k, l) \/ CacheSaveRedirect(k, l) \/ CacheDelete(k, l)
         \/ UNCHANGED cacheVars
  PROVE  /\ l1' \in [Caches -> SUBSET Link]
         /\ l2' \in [Caches -> SUBSET Link]
         /\ dedup' \in [Caches -> SUBSET Link]
BY DEF StoreTyped, CacheSave, CacheSaveRedirect, CacheDelete, PutCode,
   DropCode, cacheVars

LEMMA CacheCodeTyped ==
  ASSUME StoreTyped, NEW k \in Caches, NEW c, CacheDeleteByCode(k, c)
  PROVE  /\ l1' \in [Caches -> SUBSET Link]
         /\ l2' \in [Caches -> SUBSET Link]
         /\ dedup' \in [Caches -> SUBSET Link]
BY DEF StoreTyped, CacheDeleteByCode, DropCode, cacheVars

\* Every action keeps the types.
LEMMA StepTyped == Typed /\ [Next]_vars => Typed'
<1> SUFFICES ASSUME Typed, [Next]_vars PROVE Typed'
  OBVIOUS
<1> USE CacheOfAssumption, BoundsAssumption, IdleTyped
<1> USE DEF Typed, dbVars, cacheVars, ghostVars, At
<1> DEFINE ShapeOK(w) == task[w] \in Task /\ ShapeOf(task[w])
<1>0. \A w \in Workers : ShapeOK(w) /\ CacheOf[w] \in Caches
  BY DEF TaskTyped
<1>1. ASSUME NEW w \in Workers, GetByHash(w) PROVE Typed'
  <2>1. StoreTyped'
    BY <1>1 DEF GetByHash, StoreTyped
  <2>2. TaskTyped'
    BY <1>0, <1>1, GotoWithTyped DEF GetByHash, Lookup, StoreTyped,
       ShapeOf, HoldingPcs, FillingPcs, CreatePcs, InsertingPcs, RedirectPcs,
       DeletePcs, Pcs
  <2> QED BY <2>1, <2>2
<1>2. ASSUME NEW w \in Workers, Confirm(w) PROVE Typed'
  <2>1. StoreTyped'
    BY <1>2 DEF Confirm, StoreTyped
  <2>2. CASE Goto(w, "discard")
    BY <1>0, <2>1, <2>2, <1>2, GotoTyped DEF Confirm,
       ShapeOf, HoldingPcs, FillingPcs, CreatePcs, InsertingPcs, RedirectPcs,
       DeletePcs, Pcs
  <2>3. ASSUME NEW l \in Confirming(task[w]), GotoWith(w, "reply", l)
        PROVE  TaskTyped'
    <3>1. l \in Link
      BY DEF Confirming, FindByCode, StoreTyped
    <3> QED
      BY <1>0, <2>3, <3>1, <1>2, GotoWithTyped DEF Confirm, TaskTyped, Task,
         ShapeOf, HoldingPcs, FillingPcs, CreatePcs, InsertingPcs,
         RedirectPcs, DeletePcs, Pcs
  <2> QED BY <2>1, <2>2, <2>3, <1>2 DEF Confirm
<1>3. ASSUME NEW w \in Workers, Discard(w) PROVE Typed'
  <2>1. task[w].link \in Link
    BY <1>0, <1>3 DEF Discard, ShapeOf, HoldingPcs, FillingPcs
  <2>2. StoreTyped'
    BY <1>0, <2>1, <1>3, CacheTyped DEF Discard, StoreTyped
  <2>3. TaskTyped'
    BY <1>0, <1>3, GotoWithTyped DEF Discard,
       ShapeOf, HoldingPcs, FillingPcs, CreatePcs, InsertingPcs, RedirectPcs,
       DeletePcs, Pcs
  <2> QED BY <2>2, <2>3
<1>4. ASSUME NEW w \in Workers, FindLive(w) PROVE Typed'
  <2>1. StoreTyped'
    BY SMTT(30), <1>4 DEF FindLive, StoreTyped
  <2>2. ASSUME NEW l \in LiveInScope(task[w].url, task[w].scope),
               GotoWith(w, "keep", l)
        PROVE  TaskTyped'
    <3>1. l \in Link
      BY DEF LiveInScope, StoreTyped
    <3>2. ShapeOf([task[w] EXCEPT !.pc = "keep", !.link = l])
      BY <1>0, <3>1, <1>4 DEF FindLive, Task,
         ShapeOf, HoldingPcs, FillingPcs, CreatePcs, InsertingPcs,
         RedirectPcs, DeletePcs, Pcs
    <3> QED
      BY <2>2, <3>1, <3>2, GotoWithTyped DEF Pcs, CreatePcs
  <2>3. ASSUME Become(w, [task[w] EXCEPT !.pc = "pick",
                                         !.before = 1..(nextId - 1)])
        PROVE  TaskTyped'
    <3> DEFINE t == [task[w] EXCEPT !.pc = "pick", !.before = 1..(nextId - 1)]
    <3>1. 1..(nextId - 1) \subseteq Ids
      BY DEF StoreTyped, Ids
    <3>2. t \in Task
      BY ZenonT(40), <1>0, <3>1 DEF Task, Pcs, CreatePcs, InsertingPcs
    <3>3. ShapeOf(t)
      BY <1>0, <1>4 DEF FindLive, Task,
         ShapeOf, HoldingPcs, FillingPcs, CreatePcs, InsertingPcs,
         RedirectPcs, DeletePcs, Pcs
    <3> QED BY <2>3, <3>2, <3>3, BecomeTyped
  <2> QED BY <2>1, <2>2, <2>3, <1>4 DEF FindLive, Oldest
<1>5. ASSUME NEW w \in Workers, KeepExisting(w) PROVE Typed'
  <2>1. task[w].link \in Link
    BY <1>0, <1>5 DEF KeepExisting, ShapeOf, HoldingPcs, FillingPcs
  <2>2. StoreTyped'
    BY <1>0, <2>1, <1>5, CacheTyped DEF KeepExisting, StoreTyped
  <2>3. TaskTyped'
    BY SMTT(30), <1>0, <1>5, GotoTyped DEF KeepExisting, TaskTyped,
       ShapeOf, HoldingPcs, FillingPcs, CreatePcs, InsertingPcs, RedirectPcs,
       DeletePcs, Pcs
  <2> QED BY <2>2, <2>3
<1>6. ASSUME NEW w \in Workers, PickCode(w) PROVE Typed'
  <2>1. StoreTyped'
    BY <1>6 DEF PickCode, StoreTyped
  <2>2. ASSUME NEW c \in Codes,
               Become(w, [task[w] EXCEPT !.pc = "insert", !.chosen = c])
        PROVE  TaskTyped'
    <3> DEFINE t == [task[w] EXCEPT !.pc = "insert", !.chosen = c]
    <3>1. t \in Task
      BY <1>0 DEF Task, Pcs, CreatePcs, InsertingPcs
    <3>2. ShapeOf(t)
      BY <1>0, <1>6 DEF PickCode, Task,
         ShapeOf, HoldingPcs, FillingPcs, CreatePcs, InsertingPcs,
         RedirectPcs, DeletePcs, Pcs
    <3> QED BY <2>2, <3>1, <3>2, BecomeTyped
  <2> QED BY ZenonT(40), <2>1, <2>2, <1>6, FinishTyped DEF PickCode
<1>7. ASSUME NEW w \in Workers, Insert(w) PROVE Typed'
  <2> DEFINE t == task[w]
             new == [id |-> nextId, code |-> t.chosen, url |-> t.url,
                     scope |-> t.scope]
             again == [t EXCEPT !.pc = "hash", !.chosen = None, !.before = {},
                                !.tries = t.tries + 1]
  <2>1. new \in Link
    BY <1>0, <1>7 DEF Insert, Link, Ids, StoreTyped, ShapeOf, CreatePcs,
       InsertingPcs
  <2>2. StoreTyped'
    BY SMTT(30), <2>1, <1>7 DEF Insert, StoreTyped
  <2>3. CASE GotoWith(w, "store", new)
    <3>1. ShapeOf([task[w] EXCEPT !.pc = "store", !.link = new])
      BY <1>0, <2>1, <1>7 DEF Insert, Task,
         ShapeOf, HoldingPcs, FillingPcs, CreatePcs, InsertingPcs,
         RedirectPcs, DeletePcs, Pcs
    <3> QED
      BY <2>1, <2>2, <2>3, <3>1, GotoWithTyped DEF Pcs, CreatePcs
  <2>4. CASE t.tries + 1 < MaxAttempts /\ Become(w, again)
    <3>b. t.tries + 1 \in 0..(MaxAttempts - 1)
      BY <1>0, <2>4, BoundsAssumption DEF Task
    <3>1. again \in Task
      BY ZenonT(40), <1>0, <3>b DEF Task, Pcs, CreatePcs, InsertingPcs
    <3>2. ShapeOf(again)
      BY <1>0, <1>7 DEF Insert, Task,
         ShapeOf, HoldingPcs, FillingPcs, CreatePcs, InsertingPcs,
         RedirectPcs, DeletePcs, Pcs
    <3> QED BY <2>2, <2>4, <3>1, <3>2, BecomeTyped
  <2> HIDE DEF new, again
  <2> QED BY <2>2, <2>3, <2>4, <1>7, FinishTyped DEF Insert, new, again
<1>8. ASSUME NEW w \in Workers, StoreNew(w) PROVE Typed'
  <2>1. task[w].link \in Link
    BY <1>0, <1>8 DEF StoreNew, ShapeOf, HoldingPcs, FillingPcs
  <2>2. StoreTyped'
    BY <1>0, <2>1, <1>8, CacheTyped DEF StoreNew, StoreTyped
  <2>3. TaskTyped'
    BY <1>0, <1>8, GotoTyped DEF StoreNew, TaskTyped,
       ShapeOf, HoldingPcs, FillingPcs, CreatePcs, InsertingPcs, RedirectPcs,
       DeletePcs, Pcs
  <2> QED BY <2>2, <2>3
<1>9. ASSUME NEW w \in Workers, Reply(w) PROVE Typed'
  <2>1. StoreTyped'
    BY <1>9 DEF Reply, StoreTyped
  <2>2. TaskTyped'
    BY <1>0, <1>9, FinishTyped DEF Reply
  <2> QED BY <2>1, <2>2
<1>10. ASSUME NEW w \in Workers, ReadL2(w) PROVE Typed'
  <2>1. StoreTyped'
    BY <1>10 DEF ReadL2, StoreTyped
  <2>2. CASE Goto(w, "db")
    BY SMTT(30), <1>0, <2>1, <2>2, <1>10, GotoTyped DEF ReadL2,
       ShapeOf, HoldingPcs, FillingPcs, CreatePcs, InsertingPcs, RedirectPcs,
       DeletePcs, Pcs
  <2>3. ASSUME NEW l \in l2[CacheOf[w]], GotoWith(w, "warm", l)
        PROVE  TaskTyped'
    <3>1. l \in Link
      BY <1>0 DEF StoreTyped
    <3> QED
      BY <1>0, <2>3, <3>1, <1>10, GotoWithTyped DEF ReadL2, TaskTyped, Task,
         ShapeOf, HoldingPcs, FillingPcs, CreatePcs, InsertingPcs,
         RedirectPcs, DeletePcs, Pcs
  <2> QED BY <2>1, <2>2, <2>3, <1>10, FinishTyped DEF ReadL2, Lookup
<1>11. ASSUME NEW w \in Workers, WarmL1(w) PROVE Typed'
  <2>1. task[w].link \in Link
    BY <1>0, <1>11 DEF WarmL1, ShapeOf, HoldingPcs, FillingPcs
  <2>2. StoreTyped'
    BY SMTT(30), <1>0, <2>1, <1>11, CacheTyped DEF WarmL1, StoreTyped
  <2>3. TaskTyped'
    BY <1>0, <1>11, GotoTyped DEF WarmL1, TaskTyped,
       ShapeOf, HoldingPcs, FillingPcs, CreatePcs, InsertingPcs, RedirectPcs,
       DeletePcs, Pcs
  <2> QED BY <2>2, <2>3
<1>12. ASSUME NEW w \in Workers, ReadDb(w) PROVE Typed'
  <2>1. StoreTyped'
    BY SMTT(30), <1>12 DEF ReadDb, StoreTyped
  <2>2. TaskTyped'
    BY <1>0, <1>12, GotoWithTyped, FinishTyped DEF ReadDb, FindByCode,
       StoreTyped,
       TaskTyped, ShapeOf, HoldingPcs, FillingPcs, CreatePcs, InsertingPcs,
       RedirectPcs, DeletePcs, Pcs
  <2> QED BY <2>1, <2>2
<1>13. ASSUME NEW w \in Workers, FillCaches(w) PROVE Typed'
  <2>1. task[w].link \in Link
    BY <1>0, <1>13 DEF FillCaches, ShapeOf, HoldingPcs, FillingPcs
  <2>2. StoreTyped'
    BY SMTT(30), <1>0, <2>1, <1>13, CacheTyped DEF FillCaches, StoreTyped
  <2>3. TaskTyped'
    BY <1>0, <1>13, GotoTyped DEF FillCaches, TaskTyped,
       ShapeOf, HoldingPcs, FillingPcs, CreatePcs, InsertingPcs, RedirectPcs,
       DeletePcs, Pcs
  <2> QED BY <2>2, <2>3
<1>14. ASSUME NEW w \in Workers, Answer(w) PROVE Typed'
  <2>1. StoreTyped'
    BY <1>0, <1>14 DEF Answer, StoreTyped, ShapeOf, RedirectPcs
  <2>2. TaskTyped'
    BY <1>0, <1>14, FinishTyped DEF Answer
  <2> QED BY <2>1, <2>2
<1>15. ASSUME NEW w \in Workers, DropUnknown(w) PROVE Typed'
  <2>1. StoreTyped'
    BY <1>0, <1>15, CacheCodeTyped DEF DropUnknown, StoreTyped
  <2>2. TaskTyped'
    BY <1>0, <1>15, FinishTyped DEF DropUnknown
  <2> QED BY <2>1, <2>2
<1>16. ASSUME NEW w \in Workers, RemoveRow(w) PROVE Typed'
  <2>1. StoreTyped'
    BY <1>16 DEF RemoveRow, StoreTyped
  <2> DEFINE t == [task[w] EXCEPT !.pc = "drop", !.victims = {task[w].link}]
  <2>2. t \in Task /\ ShapeOf(t)
    <3>1. task[w].link \in Link
      BY <1>0, <1>16 DEF RemoveRow, ShapeOf, HoldingPcs
    <3>2. t \in Task
      BY <1>0, <3>1 DEF Task, Pcs, DeletePcs
    <3>3. ShapeOf(t)
      BY <1>0 DEF Task, ShapeOf, HoldingPcs, FillingPcs, CreatePcs,
         InsertingPcs, RedirectPcs, DeletePcs, Pcs
    <3> QED BY <3>2, <3>3
  <2> HIDE DEF t
  <2> QED BY <2>1, <2>2, <1>16, FinishTyped, BecomeTyped DEF RemoveRow, t
<1>17. ASSUME NEW w \in Workers, DeleteOwner(w) PROVE Typed'
  <2>1. StoreTyped'
    BY <1>0, <1>17 DEF DeleteOwner, StoreTyped, ShapeOf
  <2>2. TaskTyped'
    BY <1>0, <1>17, FinishTyped, GotoTyped DEF DeleteOwner,
       ShapeOf, HoldingPcs, FillingPcs, CreatePcs, InsertingPcs, RedirectPcs,
       DeletePcs, Pcs
  <2> QED BY <2>1, <2>2
<1>18. ASSUME NEW w \in Workers, DropOne(w) PROVE Typed'
  <2>1. PICK l \in task[w].victims :
          /\ DropCached(CacheOf[w], l)
          /\ AuditDeletion(task[w], l)
          /\ \/ Finish(w)
             \/ Become(w, [task[w] EXCEPT !.victims = task[w].victims \ {l}])
    BY <1>18 DEF DropOne
  <2>2. l \in Link
    BY <1>0 DEF Task
  <2>3. /\ l1' \in [Caches -> SUBSET Link]
        /\ l2' \in [Caches -> SUBSET Link]
        /\ dedup' \in [Caches -> SUBSET Link]
        /\ dropped' \in [Caches -> SUBSET Link]
        /\ overlapped' \in [Caches -> SUBSET Link]
    BY <1>0, <2>1, <2>2 DEF DropCached, CacheDelete, DropCode, StoreTyped
  <2>4. StoreTyped'
    <3>1. audits' \in [Ids -> Nat]
      BY <2>1, <2>2 DEF AuditDeletion, StoreTyped, Link
    <3> QED BY <2>3, <3>1, <1>18 DEF DropOne, StoreTyped
  <2> DEFINE t == [task[w] EXCEPT !.victims = task[w].victims \ {l}]
  <2>5. t \in Task
    BY <1>0 DEF Task
  <2>6. ShapeOf(t)
    BY <1>0, <1>18 DEF DropOne, Task,
       ShapeOf, HoldingPcs, FillingPcs, CreatePcs, InsertingPcs, RedirectPcs,
       DeletePcs, Pcs
  <2> HIDE DEF t
  <2> QED BY <2>1, <2>4, <2>5, <2>6, FinishTyped, BecomeTyped DEF t
<1>19. ASSUME NEW w \in Workers, DropNone(w) PROVE Typed'
  <2>1. StoreTyped'
    BY <1>19 DEF DropNone, StoreTyped
  <2>2. TaskTyped'
    BY <1>0, <1>19, FinishTyped DEF DropNone
  <2> QED BY <2>1, <2>2
<1>20. ASSUME NEW w \in Workers, Unlist(w) PROVE Typed'
  <2>1. StoreTyped'
    BY <1>0, <1>20, CacheCodeTyped DEF Unlist, StoreTyped
  <2>2. TaskTyped'
    BY <1>0, <1>20, FinishTyped DEF Unlist
  <2> QED BY <2>1, <2>2
<1>21. ASSUME NEW w \in Workers, StartCreate(w) PROVE Typed'
  <2>1. PICK t \in Task : ShapeOf(t) /\ Start(w, t)
    <3>1. PICK url \in Urls, scope \in Scopes, code \in Codes \cup {None} :
            Start(w, [Idle EXCEPT !.pc = "hash", !.url = url, !.scope = scope,
                                  !.code = code])
      BY <1>21 DEF StartCreate
    <3> DEFINE t == [Idle EXCEPT !.pc = "hash", !.url = url, !.scope = scope,
                                 !.code = code]
    <3>2. t \in Task
      BY DEF Idle, Task, Pcs, CreatePcs, InsertingPcs
    <3>3. ShapeOf(t)
      BY DEF Idle, ShapeOf, HoldingPcs, FillingPcs, CreatePcs, InsertingPcs,
         RedirectPcs, DeletePcs, Pcs
    <3> QED BY SMTT(30), <3>1, <3>2, <3>3
  <2>2. TaskTyped' /\ started' \in 0..MaxRequests
    BY <2>1, StartTyped
  <2> QED BY <2>2, <1>21 DEF StartCreate, StoreTyped
<1>22. ASSUME NEW w \in Workers, StartRedirect(w) PROVE Typed'
  <2>1. PICK t \in Task : ShapeOf(t) /\ Start(w, t)
    <3>1. PICK c \in Codes, l \in l1[CacheOf[w]] \cup {None} :
            \/ Start(w, Idle)
            \/ Start(w, [Idle EXCEPT !.code = c, !.pc = "l2"])
            \/ l # None /\ Start(w, [Idle EXCEPT !.code = c, !.pc = "answer",
                                !.link = l])
      BY <1>22 DEF StartRedirect, Lookup
    <3> DEFINE miss == [Idle EXCEPT !.code = c, !.pc = "l2"]
               hit == [Idle EXCEPT !.code = c, !.pc = "answer", !.link = l]
    <3>2. miss \in Task /\ ShapeOf(miss)
      BY DEF Idle, Task, ShapeOf, HoldingPcs, FillingPcs, CreatePcs,
         InsertingPcs, RedirectPcs, DeletePcs, Pcs
    <3>3. l # None => hit \in Task /\ ShapeOf(hit)
      <4> SUFFICES ASSUME l # None PROVE hit \in Task /\ ShapeOf(hit)
        OBVIOUS
      <4>1. l \in Link
        BY SMTT(30), <1>0 DEF StoreTyped
      <4> QED BY <4>1 DEF Idle, Task, ShapeOf, HoldingPcs, FillingPcs,
         CreatePcs, InsertingPcs, RedirectPcs, DeletePcs, Pcs
    <3> HIDE DEF miss, hit
    <3> QED BY <3>1, <3>2, <3>3 DEF miss, hit
  <2>2. TaskTyped' /\ started' \in 0..MaxRequests
    BY <2>1, StartTyped
  <2> QED BY <2>2, <1>22 DEF StartRedirect, StoreTyped
<1>23. ASSUME NEW w \in Workers, StartDelete(w) PROVE Typed'
  <2>1. PICK t \in Task : ShapeOf(t) /\ Start(w, t)
    <3>1. PICK c \in Codes :
            \/ Start(w, Idle)
            \/ Start(w, [Idle EXCEPT !.code = c, !.pc = "dropCode"])
            \/ \E l \in links :
                  Start(w, [Idle EXCEPT !.code = c, !.pc = "remove",
                  !.link = l])
      BY <1>23 DEF StartDelete, FindByCode
    <3> DEFINE miss == [Idle EXCEPT !.code = c, !.pc = "dropCode"]
               hit(l) == [Idle EXCEPT !.code = c, !.pc = "remove", !.link = l]
    <3>2. miss \in Task /\ ShapeOf(miss)
      BY DEF Idle, Task, ShapeOf, HoldingPcs, FillingPcs, CreatePcs,
         InsertingPcs, RedirectPcs, DeletePcs, Pcs
    <3>3. ASSUME NEW l \in links PROVE hit(l) \in Task /\ ShapeOf(hit(l))
      <4>1. l \in Link
        BY DEF StoreTyped
      <4> QED BY <4>1 DEF Idle, Task, ShapeOf, HoldingPcs, FillingPcs,
         CreatePcs, InsertingPcs, RedirectPcs, DeletePcs, Pcs
    <3> HIDE DEF miss, hit
    <3> QED BY ZenonT(40), <3>1, <3>2, <3>3 DEF miss, hit
  <2>2. TaskTyped' /\ started' \in 0..MaxRequests
    BY <2>1, StartTyped
  <2> QED BY ZenonT(40), <2>2, <1>23 DEF StartDelete, StoreTyped
<1>24. ASSUME NEW w \in Workers, StartDeleteOwner(w) PROVE Typed'
  <2>1. PICK t \in Task : ShapeOf(t) /\ Start(w, t)
    <3>1. PICK o \in Owners :
            Start(w, [Idle EXCEPT !.pc = "ownerDelete", !.scope = o,
                                  !.victims = {l \in links : l.scope = o}])
      BY ZenonT(40), <1>24 DEF StartDeleteOwner
    <3> DEFINE t == [Idle EXCEPT !.pc = "ownerDelete", !.scope = o,
                                 !.victims = {l \in links : l.scope = o}]
    <3>2. t \in Task
      BY DEF Idle, Task, Pcs, DeletePcs, StoreTyped, Scopes
    <3>3. ShapeOf(t)
      BY DEF Idle, ShapeOf, HoldingPcs, FillingPcs, CreatePcs, InsertingPcs,
         RedirectPcs, DeletePcs, Pcs
    <3> QED BY SMTT(30), <3>1, <3>2, <3>3
  <2>2. TaskTyped' /\ started' \in 0..MaxRequests
    BY <2>1, StartTyped
  <2> QED BY <2>2, <1>24 DEF StartDeleteOwner, StoreTyped
<1>25. ASSUME NEW w \in Workers, StartSweep(w) PROVE Typed'
  <2>1. PICK t \in Task : ShapeOf(t) /\ Start(w, t)
    <3> DEFINE due == {l \in links : ~Live(l)}
               t == [Idle EXCEPT !.pc = "drop", !.victims = due]
    <3>1. Start(w, t)
      BY SMTT(30), <1>25 DEF StartSweep
    <3>2. t \in Task
      BY ZenonT(40) DEF Idle, Task, Pcs, DeletePcs, StoreTyped
    <3>3. ShapeOf(t)
      BY DEF Idle, ShapeOf, HoldingPcs, FillingPcs, CreatePcs, InsertingPcs,
         RedirectPcs, DeletePcs, Pcs
    <3> QED BY <3>1, <3>2, <3>3
  <2>2. TaskTyped' /\ started' \in 0..MaxRequests
    BY <2>1, StartTyped
  <2> QED BY <2>2, <1>25 DEF StartSweep, StoreTyped
<1>26. ASSUME NEW w \in Workers, StartClick(w) PROVE Typed'
  <2>1. StoreTyped'
    BY <1>26 DEF StartClick, StoreTyped
  <2>2. ASSUME NEW c \in Codes, Become(w, [Idle EXCEPT !.pc = "unlist",
            !.code = c])
        PROVE  TaskTyped'
    <3> DEFINE t == [Idle EXCEPT !.pc = "unlist", !.code = c]
    <3>1. t \in Task
      BY DEF Idle, Task, Pcs
    <3>2. ShapeOf(t)
      BY DEF Idle, ShapeOf, HoldingPcs, FillingPcs, CreatePcs, InsertingPcs,
         RedirectPcs, DeletePcs, Pcs
    <3> QED BY <2>2, <3>1, <3>2, BecomeTyped
  <2> QED BY <2>1, <2>2, <1>26 DEF StartClick, TaskTyped
<1>27. CASE Expire
  BY <1>27 DEF Expire, StoreTyped, TaskTyped, Link
<1>28. CASE Evict
  BY <1>28 DEF Evict, StoreTyped, TaskTyped
<1>29. CASE UNCHANGED vars
  BY <1>29 DEF vars, StoreTyped, TaskTyped
<1> QED
  BY <1>1, <1>2, <1>3, <1>4, <1>5, <1>6, <1>7, <1>8, <1>9, <1>10, <1>11,
     <1>12, <1>13, <1>14, <1>15, <1>16, <1>17, <1>18, <1>19, <1>20, <1>21,
        <1>22, <1>23, <1>24, <1>25, <1>26, <1>27, <1>28, <1>29 DEF Next,
           Begin, Step

-----------------------------------------------------------------------------
(* The inductive invariant.  Links are told apart by their ids, which only *)
(* grow, so what a request remembers of the table stays true of the rows   *)
(* that come later.                                                        *)

Fresh ==
    /\ \A l \in links : l.id < nextId
    /\ \A k \in Caches : \A l \in dropped[k] : l.id < nextId

\* What a request may rely on: the link it answers with is the one asked
\* for; a live duplicate is younger than its deduplication read; the links
\* it is going to invalidate have no row any more.
Sound(t) ==
    /\ t.pc \in {"keep", "store", "reply"} => SameKey(t.link, t.url, t.scope)
    /\ t.pc \in {"pick", "insert"} =>
          /\ \A i \in t.before : i < nextId
          /\ \A l \in links :
                SameKey(l, t.url, t.scope) /\ Live(l) => l.id \notin t.before
    /\ t.pc = "drop" => t.victims \cap links = {}
    /\ t.pc = "ownerDelete" => \A l \in t.victims : l.scope = t.scope
    /\ \A l \in t.victims : l.id < nextId

TasksSound == \A w \in Workers : Sound(task[w])

IInv ==
    /\ Typed
    /\ UniqueCodes
    /\ NoOrphans
    /\ Fresh
    /\ TasksSound
    /\ DroppedStaysDropped

LEMMA InitIInv == Init => IInv
<1> SUFFICES ASSUME Init PROVE IInv
  OBVIOUS
<1>1. Typed
  BY InitTyped
<1>2. UniqueCodes /\ NoOrphans /\ Fresh
  BY DEF Init, UniqueCodes, NoOrphans, Fresh
<1>3. TasksSound
  BY DEF Init, TasksSound, Sound, Idle
<1>4. DroppedStaysDropped
  BY DEF Init, DroppedStaysDropped
<1> QED BY <1>1, <1>2, <1>3, <1>4 DEF IInv

\* A step on the table only adds rows with the next id.
RowsGrow ==
    /\ nextId' \in Nat
    /\ nextId <= nextId'
    /\ expired \subseteq expired'
    /\ \A l \in links' \ links : l.id = nextId /\ nextId < nextId'

LEMMA SoundKept ==
  ASSUME Typed, RowsGrow, NEW t \in Task, Sound(t)
  PROVE  Sound(t)'
<1>1. nextId \in Nat
  BY BoundsAssumption DEF Typed, StoreTyped
<1>2. t.before \subseteq Nat /\ \A l \in t.victims : l.id \in Nat
  BY BoundsAssumption DEF Task, Ids, Link
<1>3. ASSUME t.pc \in {"pick", "insert"}
      PROVE  /\ \A i \in t.before : i < nextId'
             /\ \A l \in links' :
                   SameKey(l, t.url,
                   t.scope) /\ Live(l)' => l.id \notin t.before
  BY <1>1, <1>2, <1>3 DEF Sound, RowsGrow, Live
<1>4. \A l \in t.victims : l.id < nextId /\ l.id < nextId'
  BY <1>1, <1>2 DEF Sound, RowsGrow
<1>5. t.pc = "drop" => t.victims \cap links' = {}
  BY <1>1, <1>2, <1>4 DEF Sound, RowsGrow
<1> QED BY <1>3, <1>4, <1>5 DEF Sound, SameKey

LEMMA FreshKept ==
  ASSUME Typed, RowsGrow, Fresh, UNCHANGED dropped
  PROVE  Fresh'
<1>1. nextId \in Nat
  BY BoundsAssumption DEF Typed, StoreTyped
<1>2. \A l \in Link : l.id \in Nat
  BY BoundsAssumption DEF Link, Ids
<1>3. \A k \in Caches : dropped[k] \subseteq Link
  BY DEF Typed, StoreTyped
<1>4. links \subseteq Link
  BY DEF Typed, StoreTyped
<1>5. \A l \in links' : l.id < nextId'
  BY <1>1, <1>2, <1>4 DEF Fresh, RowsGrow
<1>6. \A k \in Caches : \A l \in dropped[k] : l.id < nextId'
  BY <1>1, <1>2, <1>3 DEF Fresh, RowsGrow
<1> QED BY <1>5, <1>6 DEF Fresh

\* What a step of worker w may put into its cache: the link it holds on its
\* way to one of the cache writes.
CachesGrow(w) ==
    \A k \in Caches :
        \A l \in l1'[k] \cup l2'[k] \cup dedup'[k] :
            \/ l \in l1[k] \cup l2[k] \cup dedup[k]
            \/ k = CacheOf[w] /\ task[w].pc \in FillingPcs /\ l = task[w].link

\* What worker w has in hand when it is next to write: a link read from its
\* cache or from the table, or one it has just inserted.
HandsFilled(w, t) ==
    t.pc \in FillingPcs => t.link \in l2[CacheOf[w]] \cup links \cup links'

LEMMA DroppedKept ==
  ASSUME Typed, RowsGrow, Fresh, DroppedStaysDropped,
         NEW w \in Workers, NEW t \in Task, Become(w, t),
         CachesGrow(w), HandsFilled(w, t), UNCHANGED <<dropped, overlapped>>
  PROVE  DroppedStaysDropped'
<1> SUFFICES ASSUME NEW k \in Caches, NEW l \in dropped[k] \ overlapped[k]
             PROVE  /\ l \notin l1'[k] \cup l2'[k] \cup dedup'[k] \cup links'
                    /\ Filling(k, l)' = {}
  BY DEF DroppedStaysDropped
<1>1. /\ l \notin l1[k] \cup l2[k] \cup dedup[k] \cup links
      /\ Filling(k, l) = {}
  BY DEF DroppedStaysDropped
<1>2. l \notin links'
  <2>1. l.id < nextId
    BY DEF Fresh
  <2>2. nextId \in Nat /\ l.id \in Nat
    BY BoundsAssumption DEF Typed, StoreTyped, Link, Ids
  <2> QED BY <1>1, <2>1, <2>2 DEF RowsGrow
<1>3. l \notin l1'[k] \cup l2'[k] \cup dedup'[k]
  BY <1>1 DEF CachesGrow, Filling
<1>4. \A v \in Workers : CacheOf[v] = k /\ task'[v].pc \in FillingPcs
                            => task'[v].link # l
  <2> SUFFICES ASSUME NEW v \in Workers, CacheOf[v] = k,
                      task'[v].pc \in FillingPcs, task'[v].link = l
               PROVE  FALSE
    OBVIOUS
  <2>1. CASE v = w
    <3>1. task'[v] = t
      BY <2>1 DEF Become, Typed, TaskTyped
    <3> QED BY <1>1, <1>2, <2>1, <3>1 DEF HandsFilled
  <2>2. CASE v # w
    <3>1. task'[v] = task[v]
      BY <2>2 DEF Become, Typed, TaskTyped
    <3> QED BY <1>1, <3>1 DEF Filling
  <2> QED BY <2>1, <2>2
<1> QED BY <1>2, <1>3, <1>4 DEF Filling

\* A worker's step that adds rows, cache entries and a task of these kinds
\* keeps the part of the invariant that spans several workers.
LEMMA WorkerStep ==
  ASSUME IInv, Typed', RowsGrow, NEW w \in Workers, NEW t \in Task, Become(w,
            t),
         Sound(t)', CachesGrow(w), HandsFilled(w, t),
         UNCHANGED <<dropped, overlapped>>
  PROVE  Fresh' /\ TasksSound' /\ DroppedStaysDropped'
<1>1. Fresh'
  BY FreshKept DEF IInv
<1>2. DroppedStaysDropped'
  BY DroppedKept DEF IInv
<1>3. TasksSound'
  <2> SUFFICES ASSUME NEW v \in Workers PROVE Sound(task[v])'
    BY DEF TasksSound
  <2>1. CASE v = w
    <3>1. task'[v] = t
      BY SMTT(30), <2>1 DEF Become, IInv, Typed, TaskTyped
    <3> QED BY <3>1 DEF Sound
  <2>2. CASE v # w
    <3>1. task'[v] = task[v] /\ task[v] \in Task /\ Sound(task[v])
      BY <2>2 DEF Become, IInv, Typed, TaskTyped, TasksSound
    <3>2. \A u \in Task : Sound(u) => Sound(u)'
      BY SoundKept DEF IInv
    <3> QED BY <3>1, <3>2 DEF Sound
  <2> QED BY <2>1, <2>2
<1> QED BY <1>1, <1>2, <1>3

LEMMA CachesKept == ASSUME NEW w \in Workers,
          UNCHANGED cacheVars PROVE CachesGrow(w)
BY DEF CachesGrow, cacheVars

LEMMA CachesSaved ==
  ASSUME Typed, NEW w \in Workers, task[w].pc \in FillingPcs,
         \/ CacheSave(CacheOf[w], task[w].link)
         \/ CacheSaveRedirect(CacheOf[w], task[w].link)
  PROVE  CachesGrow(w)
BY CacheOfAssumption DEF CachesGrow, CacheSave, CacheSaveRedirect, PutCode,
   DropCode, cacheVars, Typed, StoreTyped

LEMMA CachesDeleted ==
  ASSUME Typed, NEW w \in Workers, NEW k \in Caches, NEW l, NEW c,
         CacheDelete(k, l) \/ CacheDeleteByCode(k, c)
  PROVE  CachesGrow(w)
BY DEF CachesGrow, CacheDelete, CacheDeleteByCode, DropCode, cacheVars, Typed,
   StoreTyped

\* A worker's step that leaves the table and the history alone.
LEMMA QuietStep ==
  ASSUME IInv, Typed', UNCHANGED <<dbVars, dropped, overlapped>>,
         NEW w \in Workers, NEW t \in Task, Become(w, t), Sound(t),
         CachesGrow(w), HandsFilled(w, t)
  PROVE  IInv'
<1>1. RowsGrow
  BY BoundsAssumption DEF RowsGrow, dbVars, IInv, Typed, StoreTyped
<1>2. Sound(t)'
  BY <1>1, SoundKept DEF IInv
<1>3. UniqueCodes' /\ NoOrphans'
  BY DEF UniqueCodes, NoOrphans, IInv, dbVars
<1> QED BY <1>1, <1>2, <1>3, WorkerStep DEF IInv

\* The same for a request that ends.
LEMMA QuietEnd ==
  ASSUME IInv, Typed', UNCHANGED <<dbVars, dropped, overlapped>>,
         NEW w \in Workers, Finish(w), CachesGrow(w)
  PROVE  IInv'
<1>1. Sound(Idle) /\ HandsFilled(w, Idle)
  BY DEF Sound, Idle, HandsFilled, FillingPcs
<1> QED BY SMTT(30), <1>1, QuietStep, IdleTyped DEF Finish

\* Every action keeps the invariant.
LEMMA StepIInv == IInv /\ [Next]_vars => IInv'
<1> SUFFICES ASSUME IInv, [Next]_vars PROVE IInv'
  OBVIOUS
<1>0. Typed /\ Typed' /\ \A w \in Workers :
        task[w] \in Task /\ Sound(task[w]) /\ CacheOf[w] \in Caches
  BY SMTT(30), StepTyped, CacheOfAssumption DEF IInv, Typed, TaskTyped, TasksSound
<1> USE DEF ghostVars, At
<1>1. ASSUME NEW w \in Workers, GetByHash(w) PROVE IInv'
  <2>1. CachesGrow(w)
    BY <1>1, CachesKept DEF GetByHash
  <2>2. ASSUME NEW l \in dedup[CacheOf[w]] \cup {None}, NEW p \in {"dedup",
            "confirm"}, Become(w, [task[w] EXCEPT !.pc = p,
            !.link = l]) PROVE IInv'
    <3> DEFINE t == [task[w] EXCEPT !.pc = p, !.link = l]
    <3>1. t \in Task
      BY ZenonT(40), <1>0 DEF Task, Pcs, CreatePcs, InsertingPcs, RedirectPcs, DeletePcs,
         Typed, StoreTyped
    <3>2. Sound(t)
      BY <1>0, <1>1 DEF GetByHash, Sound, Task
    <3>3. HandsFilled(w, t)
      BY <1>0, <1>1 DEF GetByHash, HandsFilled, FillingPcs, Task
    <3> HIDE DEF t
    <3> QED BY <1>0, <2>1, <2>2, <3>1, <3>2, <3>3, <1>1,
       QuietStep DEF GetByHash, t
  <2> QED BY <1>0, <2>1, <2>2, <1>1 DEF GetByHash, Goto, GotoWith, Lookup
<1>2. ASSUME NEW w \in Workers, Confirm(w) PROVE IInv'
  <2>1. CachesGrow(w)
    BY <1>2, CachesKept DEF Confirm
  <2>2. ASSUME NEW l \in Confirming(task[w]), Become(w,
            [task[w] EXCEPT !.pc = "reply", !.link = l]) PROVE IInv'
    <3> DEFINE t == [task[w] EXCEPT !.pc = "reply", !.link = l]
    <3>1. t \in Task
      BY ZenonT(40), <1>0 DEF Task, Pcs, CreatePcs, InsertingPcs, RedirectPcs, DeletePcs,
         Typed, StoreTyped, Confirming, FindByCode
    <3>2. Sound(t)
      BY <1>0, <1>2 DEF Confirm, Sound, Task, Confirming
    <3>3. HandsFilled(w, t)
      BY <1>0, <1>2 DEF Confirm, HandsFilled, FillingPcs, Task
    <3> HIDE DEF t
    <3> QED BY <1>0, <2>1, <2>2, <3>1, <3>2, <3>3, <1>2,
       QuietStep DEF Confirm, t
  <2>3. ASSUME Become(w, [task[w] EXCEPT !.pc = "discard"]) PROVE IInv'
    <3> DEFINE t == [task[w] EXCEPT !.pc = "discard"]
    <3>1. t \in Task
      BY <1>0 DEF Task, Pcs, CreatePcs, InsertingPcs, RedirectPcs, DeletePcs
    <3>2. Sound(t)
      BY <1>0, <1>2 DEF Confirm, Sound, Task
    <3>3. HandsFilled(w, t)
      BY <1>0, <1>2 DEF Confirm, HandsFilled, FillingPcs, Task
    <3> HIDE DEF t
    <3> QED BY <1>0, <2>1, <2>3, <3>1, <3>2, <3>3, <1>2,
       QuietStep DEF Confirm, t
  <2> QED BY <1>0, <2>1, <2>2, <2>3, <1>2 DEF Confirm, Goto, GotoWith
<1>3. ASSUME NEW w \in Workers, Discard(w) PROVE IInv'
  <2>1. CachesGrow(w)
    BY <1>0, <1>3, CachesDeleted, CachesKept DEF Discard
  <2>2. ASSUME Become(w, [task[w] EXCEPT !.pc = "dedup",
            !.link = None]) PROVE IInv'
    <3> DEFINE t == [task[w] EXCEPT !.pc = "dedup", !.link = None]
    <3>1. t \in Task
      BY ZenonT(40), <1>0 DEF Task, Pcs, CreatePcs, InsertingPcs, RedirectPcs, DeletePcs
    <3>2. Sound(t)
      BY <1>0, <1>3 DEF Discard, Sound, Task
    <3>3. HandsFilled(w, t)
      BY <1>0, <1>3 DEF Discard, HandsFilled, FillingPcs, Task
    <3> HIDE DEF t
    <3> QED BY <1>0, <2>1, <2>2, <3>1, <3>2, <3>3, <1>3,
       QuietStep DEF Discard, t
  <2> QED BY <1>0, <2>1, <2>2, <1>3 DEF Discard, Goto, GotoWith
<1>4. ASSUME NEW w \in Workers, FindLive(w) PROVE IInv'
  <2>1. CachesGrow(w)
    BY <1>4, CachesKept DEF FindLive
  <2>2. ASSUME NEW l \in LiveInScope(task[w].url, task[w].scope), Become(w,
            [task[w] EXCEPT !.pc = "keep", !.link = l]) PROVE IInv'
    <3> DEFINE t == [task[w] EXCEPT !.pc = "keep", !.link = l]
    <3>1. t \in Task
      BY ZenonT(40), <1>0 DEF Task, Pcs, CreatePcs, InsertingPcs, RedirectPcs, DeletePcs,
         Typed, StoreTyped, LiveInScope
    <3>2. Sound(t)
      BY <1>0, <1>4 DEF FindLive, Sound, Task, LiveInScope
    <3>3. HandsFilled(w, t)
      BY <1>0, <1>4 DEF FindLive, HandsFilled, FillingPcs, Task, LiveInScope
    <3> HIDE DEF t
    <3> QED BY <1>0, <2>1, <2>2, <3>1, <3>2, <3>3, <1>4,
       QuietStep DEF FindLive, t
  <2>3. ASSUME LiveInScope(task[w].url, task[w].scope) = {}, Become(w,
            [task[w] EXCEPT !.pc = "pick",
            !.before = 1..(nextId - 1)]) PROVE IInv'
    <3> DEFINE t == [task[w] EXCEPT !.pc = "pick", !.before = 1..(nextId - 1)]
    <3>b. 1..(nextId - 1) \subseteq Ids
      BY <1>0, BoundsAssumption DEF Ids, Typed, StoreTyped
    <3>1. t \in Task
      BY ZenonT(40), <1>0, <3>b DEF Task, Pcs, CreatePcs, InsertingPcs, RedirectPcs,
         DeletePcs
    <3>2. Sound(t)
      BY <1>0, <1>4, BoundsAssumption, <2>3 DEF FindLive, Sound, Task,
         LiveInScope, Typed, StoreTyped
    <3>3. HandsFilled(w, t)
      BY <1>0, <1>4 DEF FindLive, HandsFilled, FillingPcs, Task
    <3> HIDE DEF t
    <3> QED BY <1>0, <2>1, <2>3, <3>1, <3>2, <3>3, <1>4,
       QuietStep DEF FindLive, t
  <2> QED BY <1>0, <2>1, <2>2, <2>3, <1>4 DEF FindLive, Goto, GotoWith, Oldest
<1>5. ASSUME NEW w \in Workers, KeepExisting(w) PROVE IInv'
  <2>1. CachesGrow(w)
    BY <1>0, <1>5, CachesSaved DEF KeepExisting, FillingPcs
  <2>2. ASSUME Become(w, [task[w] EXCEPT !.pc = "reply"]) PROVE IInv'
    <3> DEFINE t == [task[w] EXCEPT !.pc = "reply"]
    <3>1. t \in Task
      BY <1>0 DEF Task, Pcs, CreatePcs, InsertingPcs, RedirectPcs, DeletePcs
    <3>2. Sound(t)
      BY <1>0, <1>5 DEF KeepExisting, Sound, Task
    <3>3. HandsFilled(w, t)
      BY <1>0, <1>5 DEF KeepExisting, HandsFilled, FillingPcs, Task
    <3> HIDE DEF t
    <3> QED BY <1>0, <2>1, <2>2, <3>1, <3>2, <3>3, <1>5,
       QuietStep DEF KeepExisting, t
  <2> QED BY <1>0, <2>1, <2>2, <1>5 DEF KeepExisting, Goto, GotoWith
<1>6. ASSUME NEW w \in Workers, PickCode(w) PROVE IInv'
  <2>1. CachesGrow(w)
    BY ZenonT(40), <1>6, CachesKept DEF PickCode
  <2>2. ASSUME NEW c \in Codes, Become(w, [task[w] EXCEPT !.pc = "insert",
            !.chosen = c]) PROVE IInv'
    <3> DEFINE t == [task[w] EXCEPT !.pc = "insert", !.chosen = c]
    <3>1. t \in Task
      BY ZenonT(40), <1>0 DEF Task, Pcs, CreatePcs, InsertingPcs, RedirectPcs, DeletePcs
    <3>2. Sound(t)
      BY ZenonT(40), <1>0, <1>6 DEF PickCode, Sound, Task
    <3>3. HandsFilled(w, t)
      BY <1>0, <1>6 DEF PickCode, HandsFilled, FillingPcs, Task
    <3> HIDE DEF t
    <3> QED BY <1>0, <2>1, <2>2, <3>1, <3>2, <3>3, <1>6,
       QuietStep DEF PickCode, t
  <2> QED BY ZenonT(40), <1>0, <2>1, <2>2, <1>6, QuietEnd DEF PickCode, Goto, GotoWith
<1>7. ASSUME NEW w \in Workers, Insert(w) PROVE IInv'
  <2> DEFINE t == task[w]
             new == [id |-> nextId, code |-> t.chosen, url |-> t.url,
                     scope |-> t.scope]
             stored == [t EXCEPT !.pc = "store", !.link = new]
             again == [t EXCEPT !.pc = "hash", !.chosen = None, !.before = {},
                                !.tries = t.tries + 1]
  <2>1. CachesGrow(w)
    BY <1>7, CachesKept DEF Insert
  <2>2. CASE /\ FindByCode(new.code) = {} /\ new.scope \notin closed
             /\ links' = links \cup {new}
             /\ nextId' = nextId + 1
             /\ GotoWith(w, "store", new)
             /\ UNCHANGED <<expired, closed>>
    <3>1. new \in Link
      BY SMTT(30), <1>0, <1>7 DEF Insert, Link, Ids, Typed, StoreTyped, TaskTyped,
         ShapeOf,
         CreatePcs, InsertingPcs
    <3>2. RowsGrow
      BY <1>0, <2>2 DEF RowsGrow, Typed, StoreTyped
    <3>3. stored \in Task
      BY <1>0, <3>1 DEF Task, Pcs, CreatePcs
    <3>u. PICK u \in Task : u = stored
      BY <3>3
    <3>4. Sound(u)'
      <4>1. \A l \in t.victims : l.id \in Nat /\ l.id < nextId /\ nextId \in Nat
        BY <1>0, BoundsAssumption DEF Task, Link, Ids, Sound, Typed, StoreTyped
      <4>2. \A l \in t.victims : l.id < nextId'
        BY <2>2, <4>1
      <4>3. u.pc = "store" /\ u.victims = t.victims /\ SameKey(u.link, u.url,
         u.scope)
        BY <1>0, <3>u DEF SameKey, Task
      <4> QED BY <4>2, <4>3 DEF Sound
    <3>5. HandsFilled(w, u)
      BY <1>0, <2>2, <3>u DEF HandsFilled, Task
    <3>6. UniqueCodes'
      BY <2>2 DEF UniqueCodes, FindByCode, IInv
    <3>7. NoOrphans'
      BY <2>2 DEF NoOrphans, IInv
    <3> HIDE DEF stored
    <3> QED
      BY <1>0, <2>1, <2>2, <3>2, <3>u, <3>4, <3>5, <3>6, <3>7, <1>7, WorkerStep
      DEF Insert, GotoWith, IInv, stored
  <2>3. CASE t.tries + 1 < MaxAttempts /\ Become(w, again) /\ UNCHANGED dbVars
    <3>1. t.tries + 1 \in 0..(MaxAttempts - 1)
      BY <1>0, <2>3, BoundsAssumption DEF Task
    <3>2. again \in Task
      BY <1>0, <3>1 DEF Task, Pcs, CreatePcs, InsertingPcs
    <3>3. Sound(again)
      BY <1>0 DEF Sound, Task
    <3>4. HandsFilled(w, again)
      BY <1>0 DEF HandsFilled, FillingPcs, Task
    <3> HIDE DEF again
    <3> QED
      BY <1>0, <2>1, <2>3, <3>2, <3>3, <3>4, <1>7, QuietStep DEF Insert, again
  <2>4. CASE Finish(w) /\ UNCHANGED dbVars
    BY <1>0, <2>1, <2>4, <1>7, QuietEnd DEF Insert
  <2> HIDE DEF new, again
  <2> QED BY <2>2, <2>3, <2>4, <1>7 DEF Insert, new, again
<1>8. ASSUME NEW w \in Workers, StoreNew(w) PROVE IInv'
  <2>1. CachesGrow(w)
    BY <1>0, <1>8, CachesSaved DEF StoreNew, FillingPcs
  <2>2. ASSUME Become(w, [task[w] EXCEPT !.pc = "reply"]) PROVE IInv'
    <3> DEFINE t == [task[w] EXCEPT !.pc = "reply"]
    <3>1. t \in Task
      BY <1>0 DEF Task, Pcs, CreatePcs, InsertingPcs, RedirectPcs, DeletePcs
    <3>2. Sound(t)
      BY <1>0, <1>8 DEF StoreNew, Sound, Task
    <3>3. HandsFilled(w, t)
      BY <1>0, <1>8 DEF StoreNew, HandsFilled, FillingPcs, Task
    <3> HIDE DEF t
    <3> QED BY <1>0, <2>1, <2>2, <3>1, <3>2, <3>3, <1>8,
       QuietStep DEF StoreNew, t
  <2> QED BY <1>0, <2>1, <2>2, <1>8 DEF StoreNew, Goto, GotoWith
<1>9. ASSUME NEW w \in Workers, Reply(w) PROVE IInv'
  BY <1>0, <1>9, CachesKept, QuietEnd DEF Reply
<1>10. ASSUME NEW w \in Workers, ReadL2(w) PROVE IInv'
  <2>1. CachesGrow(w)
    BY <1>10, CachesKept DEF ReadL2
  <2>2. ASSUME Become(w, [task[w] EXCEPT !.pc = "db"]) PROVE IInv'
    <3> DEFINE t == [task[w] EXCEPT !.pc = "db"]
    <3>1. t \in Task
      BY <1>0 DEF Task, Pcs, CreatePcs, InsertingPcs, RedirectPcs, DeletePcs
    <3>2. Sound(t)
      BY <1>0, <1>10 DEF ReadL2, Sound, Task
    <3>3. HandsFilled(w, t)
      BY <1>0, <1>10 DEF ReadL2, HandsFilled, FillingPcs, Task
    <3> HIDE DEF t
    <3> QED BY <1>0, <2>1, <2>2, <3>1, <3>2, <3>3, <1>10,
       QuietStep DEF ReadL2, t
  <2>3. ASSUME NEW l \in l2[CacheOf[w]], Become(w,
            [task[w] EXCEPT !.pc = "warm", !.link = l]) PROVE IInv'
    <3> DEFINE t == [task[w] EXCEPT !.pc = "warm", !.link = l]
    <3>1. t \in Task
      BY ZenonT(40), <1>0 DEF Task, Pcs, CreatePcs, InsertingPcs, RedirectPcs, DeletePcs,
         Typed, StoreTyped
    <3>2. Sound(t)
      BY <1>0, <1>10 DEF ReadL2, Sound, Task
    <3>3. HandsFilled(w, t)
      BY <1>0, <1>10 DEF ReadL2, HandsFilled, FillingPcs, Task
    <3> HIDE DEF t
    <3> QED BY <1>0, <2>1, <2>3, <3>1, <3>2, <3>3, <1>10,
       QuietStep DEF ReadL2, t
  <2> QED BY <1>0, <2>1, <2>2, <2>3, <1>10, QuietEnd DEF ReadL2, Goto,
     GotoWith, Lookup
<1>11. ASSUME NEW w \in Workers, WarmL1(w) PROVE IInv'
  <2>1. CachesGrow(w)
    BY <1>0, <1>11, CachesSaved DEF WarmL1, FillingPcs
  <2>2. ASSUME Become(w, [task[w] EXCEPT !.pc = "answer"]) PROVE IInv'
    <3> DEFINE t == [task[w] EXCEPT !.pc = "answer"]
    <3>1. t \in Task
      BY <1>0 DEF Task, Pcs, CreatePcs, InsertingPcs, RedirectPcs, DeletePcs
    <3>2. Sound(t)
      BY <1>0, <1>11 DEF WarmL1, Sound, Task
    <3>3. HandsFilled(w, t)
      BY <1>0, <1>11 DEF WarmL1, HandsFilled, FillingPcs, Task
    <3> HIDE DEF t
    <3> QED BY <1>0, <2>1, <2>2, <3>1, <3>2, <3>3, <1>11,
       QuietStep DEF WarmL1, t
  <2> QED BY <1>0, <2>1, <2>2, <1>11 DEF WarmL1, Goto, GotoWith
<1>12. ASSUME NEW w \in Workers, ReadDb(w) PROVE IInv'
  <2>1. CachesGrow(w)
    BY <1>12, CachesKept DEF ReadDb
  <2>2. ASSUME NEW l \in FindByCode(task[w].code), Become(w,
            [task[w] EXCEPT !.pc = "fill", !.link = l]) PROVE IInv'
    <3> DEFINE t == [task[w] EXCEPT !.pc = "fill", !.link = l]
    <3>1. t \in Task
      BY ZenonT(40), <1>0 DEF Task, Pcs, CreatePcs, InsertingPcs, RedirectPcs, DeletePcs,
         Typed, StoreTyped, FindByCode
    <3>2. Sound(t)
      BY <1>0, <1>12 DEF ReadDb, Sound, Task
    <3>3. HandsFilled(w, t)
      BY <1>0, <1>12 DEF ReadDb, HandsFilled, FillingPcs, Task, FindByCode
    <3> HIDE DEF t
    <3> QED BY <1>0, <2>1, <2>2, <3>1, <3>2, <3>3, <1>12,
       QuietStep DEF ReadDb, t
  <2> QED BY <1>0, <2>1, <2>2, <1>12, QuietEnd DEF ReadDb, Goto, GotoWith
<1>13. ASSUME NEW w \in Workers, FillCaches(w) PROVE IInv'
  <2>1. CachesGrow(w)
    BY <1>0, <1>13, CachesSaved DEF FillCaches, FillingPcs
  <2>2. ASSUME Become(w, [task[w] EXCEPT !.pc = "answer"]) PROVE IInv'
    <3> DEFINE t == [task[w] EXCEPT !.pc = "answer"]
    <3>1. t \in Task
      BY <1>0 DEF Task, Pcs, CreatePcs, InsertingPcs, RedirectPcs, DeletePcs
    <3>2. Sound(t)
      BY <1>0, <1>13 DEF FillCaches, Sound, Task
    <3>3. HandsFilled(w, t)
      BY <1>0, <1>13 DEF FillCaches, HandsFilled, FillingPcs, Task
    <3> HIDE DEF t
    <3> QED BY <1>0, <2>1, <2>2, <3>1, <3>2, <3>3, <1>13,
       QuietStep DEF FillCaches, t
  <2> QED BY <1>0, <2>1, <2>2, <1>13 DEF FillCaches, Goto, GotoWith
<1>14. ASSUME NEW w \in Workers, Answer(w) PROVE IInv'
  BY <1>0, <1>14, CachesKept, QuietEnd DEF Answer
<1>15. ASSUME NEW w \in Workers, DropUnknown(w) PROVE IInv'
  <2>1. CachesGrow(w)
    BY SMTT(30), <1>0, <1>15, CachesDeleted DEF DropUnknown
  <2> QED BY <1>0, <2>1, <1>15, QuietEnd DEF DropUnknown
<1>16. ASSUME NEW w \in Workers, RemoveRow(w) PROVE IInv'
  <2> DEFINE l == task[w].link
             t == [task[w] EXCEPT !.pc = "drop", !.victims = {l}]
  <2>1. CachesGrow(w)
    BY <1>16, CachesKept DEF RemoveRow
  <2>2. CASE l \in links /\ links' = links \ {l} /\ Become(w, t)
    <3>1. RowsGrow
      BY <1>0, <2>2, <1>16, BoundsAssumption DEF RemoveRow, RowsGrow, Typed,
         StoreTyped
    <3>2. t \in Task
      BY ZenonT(40), <1>0, <2>2 DEF Task, Pcs, DeletePcs, Typed, StoreTyped
    <3>u. PICK u \in Task : u = t
      BY <3>2
    <3>3. Sound(u)'
      <4>1. u.pc = "drop" /\ u.victims = {l}
        BY <1>0, <3>u DEF Task
      <4>2. l \notin links' /\ l.id < nextId'
        BY <2>2, <1>16 DEF RemoveRow, Fresh, IInv
      <4> QED BY <4>1, <4>2 DEF Sound
    <3>4. HandsFilled(w, u)
      BY <1>0, <3>u DEF HandsFilled, FillingPcs, Task
    <3>5. UniqueCodes' /\ NoOrphans'
      BY <2>2, <1>16 DEF RemoveRow, UniqueCodes, NoOrphans, IInv
    <3> HIDE DEF t
    <3> QED
      BY <1>0, <2>1, <2>2, <3>1, <3>u, <3>3, <3>4, <3>5, <1>16, WorkerStep
      DEF RemoveRow, IInv
  <2>3. CASE links' = links /\ Finish(w)
    BY <1>0, <2>1, <2>3, <1>16, QuietEnd DEF RemoveRow, dbVars
  <2> QED BY <2>2, <2>3, <1>16 DEF RemoveRow
<1>17. ASSUME NEW w \in Workers, DeleteOwner(w) PROVE IInv'
  <2> DEFINE o == task[w].scope
             t == [task[w] EXCEPT !.pc = "drop"]
  <2>1. CachesGrow(w)
    BY SMTT(30), <1>17, CachesKept DEF DeleteOwner
  <2>2. CASE /\ links' = {l \in links : l.scope # o}
             /\ closed' = closed \cup {o}
             /\ Become(w, t)
    <3>1. RowsGrow
      BY <1>0, <2>2, <1>17, BoundsAssumption DEF DeleteOwner, RowsGrow, Typed,
         StoreTyped
    <3>2. t \in Task
      BY <1>0 DEF Task, Pcs, DeletePcs
    <3>u. PICK u \in Task : u = t
      BY <3>2
    <3>3. Sound(u)'
      <4>1. u.pc = "drop" /\ u.victims = task[w].victims
        BY <1>0, <3>u DEF Task
      <4>2. \A l \in u.victims : l \notin links' /\ l.id < nextId'
        BY <1>0, <2>2, <4>1, <1>17 DEF DeleteOwner, Sound
      <4> QED BY <4>1, <4>2 DEF Sound
    <3>4. HandsFilled(w, u)
      BY <1>0, <3>u DEF HandsFilled, FillingPcs, Task
    <3>5. UniqueCodes' /\ NoOrphans'
      BY SMTT(30), <2>2 DEF UniqueCodes, NoOrphans, IInv
    <3> HIDE DEF t
    <3> QED
      BY <1>0, <2>1, <2>2, <3>1, <3>u, <3>3, <3>4, <3>5, <1>17, WorkerStep
      DEF DeleteOwner, IInv
  <2>3. CASE Finish(w) /\ UNCHANGED <<links, closed>>
    BY <1>0, <2>1, <2>3, <1>17, QuietEnd DEF DeleteOwner, dbVars
  <2> QED BY <2>2, <2>3, <1>17 DEF DeleteOwner, Goto
<1>18. ASSUME NEW w \in Workers, DropOne(w) PROVE IInv'
  <2>a. PICK l \in task[w].victims :
          /\ DropCached(CacheOf[w], l)
          /\ \/ Finish(w)
             \/ Become(w, [task[w] EXCEPT !.victims = task[w].victims \ {l}])
    BY <1>18 DEF DropOne
  <2>1. PICK t \in {Idle, [task[w] EXCEPT !.victims = task[w].victims \ {l}]} :
          DropCached(CacheOf[w], l) /\ Become(w, t)
    BY <2>a DEF Finish
  <2> DEFINE k == CacheOf[w]
  <2>2. l \in Link /\ l.id < nextId /\ l \notin links
    BY <1>0, <1>18 DEF DropOne, Task, Sound
  <2>3. t \in Task /\ Sound(t) /\ t.pc \notin FillingPcs
    BY <1>0, <1>18, IdleTyped DEF DropOne, Task, Sound, Idle, FillingPcs
  <2>4. CachesGrow(w)
    <3>1. CASE CacheDelete(k, l)
      BY <1>0, <3>1, CachesDeleted
    <3>2. CASE /\ l1' \in {l1, [l1 EXCEPT ![k] = DropCode(l1[k], l.code)]}
               /\ UNCHANGED <<l2, dedup>>
      BY <1>0, <3>2 DEF CachesGrow, DropCode, Typed, StoreTyped
    <3> QED BY <2>1, <3>1, <3>2 DEF DropCached
  <2>5. UNCHANGED dbVars
    BY <1>18 DEF DropOne
  <2>6. CASE UNCHANGED <<dropped, overlapped>>
    BY <1>0, <2>1, <2>3, <2>4, <2>5, <2>6, QuietStep DEF HandsFilled
  <2>7. CASE /\ CacheDelete(k, l)
             /\ dropped' = [dropped EXCEPT ![k] = dropped[k] \cup {l}]
             /\ overlapped' = IF Filling(k, l) = {} THEN overlapped
                              ELSE [overlapped EXCEPT ![k] = overlapped[k] \cup {l}]
    <3>1. RowsGrow
      BY <1>0, <2>5, BoundsAssumption DEF RowsGrow, dbVars, Typed, StoreTyped
    <3>2. UniqueCodes' /\ NoOrphans'
      BY <2>5 DEF UniqueCodes, NoOrphans, IInv, dbVars
    <3>3. Fresh'
      <4>1. \A j \in Caches : dropped'[j] \subseteq dropped[j] \cup {l}
        BY <1>0, <2>7 DEF Typed, StoreTyped
      <4> QED BY <2>2, <2>5, <4>1 DEF Fresh, IInv, dbVars
    <3>4. TasksSound'
      <4> SUFFICES ASSUME NEW v \in Workers PROVE Sound(task'[v])
        BY <2>5 DEF TasksSound, Sound, dbVars, Live
      <4> QED BY <1>0, <2>1, <2>3 DEF Become, Typed, TaskTyped
    <3>5. DroppedStaysDropped'
      <4> SUFFICES ASSUME NEW j \in Caches,
                NEW m \in dropped'[j] \ overlapped'[j]
                   PROVE  /\ m \notin l1'[j] \cup l2'[j] \cup dedup'[j] \cup links'
                          /\ Filling(j, m)' = {}
        BY DEF DroppedStaysDropped
      <4>1. Filling(j, m)' \subseteq Filling(j, m)
        BY <1>0, <2>1, <2>3 DEF Filling, Become, Typed, TaskTyped
      <4>2. CASE m \in dropped[j] \ overlapped[j]
        <5>1. /\ m \notin l1[j] \cup l2[j] \cup dedup[j] \cup links
              /\ Filling(j, m) = {}
          BY <4>2 DEF IInv, DroppedStaysDropped
        <5> QED BY <2>4, <2>5, <4>1, <5>1 DEF CachesGrow, dbVars, Filling
      <4>3. CASE m = l /\ j = k /\ Filling(k, l) = {}
        <5>1. m \notin l1'[j] \cup l2'[j] \cup dedup'[j]
          BY <1>0, <2>7, <4>3 DEF CacheDelete, DropCode, SameKey, Typed,
             StoreTyped
        <5> QED BY <2>2, <2>5, <4>1, <4>3, <5>1 DEF dbVars
      <4>4. dropped'[j] = IF j = k THEN dropped[j] \cup {l} ELSE dropped[j]
        BY <1>0, <2>7 DEF Typed, StoreTyped
      <4>5. CASE Filling(k, l) = {}
        BY <2>7, <4>2, <4>3, <4>4, <4>5
      <4>6. CASE Filling(k, l) # {}
        <5>1. overlapped'[j] = IF j = k THEN overlapped[j] \cup {l}
                               ELSE overlapped[j]
          BY ZenonT(40), <1>0, <2>7, <4>6 DEF Typed, StoreTyped
        <5> QED BY <4>2, <4>4, <5>1
      <4> QED BY <4>5, <4>6
    <3> QED BY <1>0, <3>2, <3>3, <3>4, <3>5 DEF IInv
  <2> HIDE DEF k
  <2> QED BY <2>1, <2>6, <2>7 DEF DropCached, k
<1>19. ASSUME NEW w \in Workers, DropNone(w) PROVE IInv'
  BY <1>0, <1>19, CachesKept, QuietEnd DEF DropNone
<1>20. ASSUME NEW w \in Workers, Unlist(w) PROVE IInv'
  <2>1. CachesGrow(w)
    BY SMTT(30), <1>0, <1>20, CachesDeleted DEF Unlist
  <2> QED BY SMTT(30), <1>0, <2>1, <1>20, QuietEnd DEF Unlist
<1>21. ASSUME NEW w \in Workers, StartCreate(w) PROVE IInv'
  <2>1. CachesGrow(w)
    BY <1>21, CachesKept DEF StartCreate
  <2>2. ASSUME NEW url \in Urls, NEW scope \in Scopes,
            NEW code \in Codes \cup {None}, Become(w,
            [Idle EXCEPT !.pc = "hash", !.url = url, !.scope = scope,
            !.code = code]) PROVE IInv'
    <3> DEFINE t == [Idle EXCEPT !.pc = "hash", !.url = url, !.scope = scope,
              !.code = code]
    <3>1. t \in Task
      BY <1>0, IdleTyped DEF Idle, Task, Pcs, CreatePcs, InsertingPcs,
         RedirectPcs, DeletePcs
    <3>2. Sound(t)
      BY <1>0 DEF Sound, Idle
    <3>3. HandsFilled(w, t)
      BY DEF HandsFilled, FillingPcs, Idle
    <3> HIDE DEF t
    <3> QED BY <1>0, <2>1, <2>2, <3>1, <3>2, <3>3, <1>21,
       QuietStep DEF StartCreate, t
  <2> QED BY <1>0, <2>1, <2>2, <1>21, QuietEnd DEF StartCreate, Start, Finish
<1>22. ASSUME NEW w \in Workers, StartRedirect(w) PROVE IInv'
  <2>1. CachesGrow(w)
    BY <1>22, CachesKept DEF StartRedirect
  <2>2. ASSUME NEW c \in Codes, Become(w, [Idle EXCEPT !.code = c,
            !.pc = "l2"]) PROVE IInv'
    <3> DEFINE t == [Idle EXCEPT !.code = c, !.pc = "l2"]
    <3>1. t \in Task
      BY <1>0, IdleTyped DEF Idle, Task, Pcs, CreatePcs, InsertingPcs,
         RedirectPcs, DeletePcs
    <3>2. Sound(t)
      BY <1>0 DEF Sound, Idle
    <3>3. HandsFilled(w, t)
      BY DEF HandsFilled, FillingPcs, Idle
    <3> HIDE DEF t
    <3> QED BY <1>0, <2>1, <2>2, <3>1, <3>2, <3>3, <1>22,
       QuietStep DEF StartRedirect, t
  <2>3. ASSUME NEW c \in Codes, NEW l \in l1[CacheOf[w]], Become(w,
            [Idle EXCEPT !.code = c, !.pc = "answer", !.link = l]) PROVE IInv'
    <3> DEFINE t == [Idle EXCEPT !.code = c, !.pc = "answer", !.link = l]
    <3>1. t \in Task
      BY ZenonT(40), <1>0, IdleTyped DEF Idle, Task, Pcs, CreatePcs, InsertingPcs,
         RedirectPcs, DeletePcs, Typed, StoreTyped
    <3>2. Sound(t)
      BY <1>0 DEF Sound, Idle
    <3>3. HandsFilled(w, t)
      BY DEF HandsFilled, FillingPcs, Idle
    <3> HIDE DEF t
    <3> QED BY <1>0, <2>1, <2>3, <3>1, <3>2, <3>3, <1>22,
       QuietStep DEF StartRedirect, t
  <2> QED BY <1>0, <2>1, <2>2, <2>3, <1>22, QuietEnd DEF StartRedirect, Start,
     Finish, Lookup
<1>23. ASSUME NEW w \in Workers, StartDelete(w) PROVE IInv'
  <2>1. CachesGrow(w)
    BY ZenonT(40), <1>23, CachesKept DEF StartDelete
  <2>2. ASSUME NEW c \in Codes, Become(w, [Idle EXCEPT !.code = c,
            !.pc = "dropCode"]) PROVE IInv'
    <3> DEFINE t == [Idle EXCEPT !.code = c, !.pc = "dropCode"]
    <3>1. t \in Task
      BY <1>0, IdleTyped DEF Idle, Task, Pcs, CreatePcs, InsertingPcs,
         RedirectPcs, DeletePcs
    <3>2. Sound(t)
      BY <1>0 DEF Sound, Idle
    <3>3. HandsFilled(w, t)
      BY DEF HandsFilled, FillingPcs, Idle
    <3> HIDE DEF t
    <3> QED BY <1>0, <2>1, <2>2, <3>1, <3>2, <3>3, <1>23,
       QuietStep DEF StartDelete, t
  <2>3. ASSUME NEW c \in Codes, NEW l \in FindByCode(c), Become(w,
            [Idle EXCEPT !.code = c, !.pc = "remove", !.link = l]) PROVE IInv'
    <3> DEFINE t == [Idle EXCEPT !.code = c, !.pc = "remove", !.link = l]
    <3>1. t \in Task
      BY ZenonT(40), <1>0, IdleTyped DEF Idle, Task, Pcs, CreatePcs, InsertingPcs,
         RedirectPcs, DeletePcs, Typed, StoreTyped, FindByCode
    <3>2. Sound(t)
      BY <1>0 DEF Sound, Idle
    <3>3. HandsFilled(w, t)
      BY DEF HandsFilled, FillingPcs, Idle
    <3> HIDE DEF t
    <3> QED BY <1>0, <2>1, <2>3, <3>1, <3>2, <3>3, <1>23,
       QuietStep DEF StartDelete, t
  <2> QED BY ZenonT(40), <1>0, <2>1, <2>2, <2>3, <1>23, QuietEnd DEF StartDelete, Start,
     Finish
<1>24. ASSUME NEW w \in Workers, StartDeleteOwner(w) PROVE IInv'
  <2>1. CachesGrow(w)
    BY <1>24, CachesKept DEF StartDeleteOwner
  <2>2. ASSUME NEW o \in Owners, Become(w, [Idle EXCEPT !.pc = "ownerDelete",
            !.scope = o, !.victims = {l \in links : l.scope = o}]) PROVE IInv'
    <3> DEFINE t == [Idle EXCEPT !.pc = "ownerDelete", !.scope = o,
              !.victims = {l \in links : l.scope = o}]
    <3>1. t \in Task
      BY ZenonT(40), <1>0, IdleTyped DEF Idle, Task, Pcs, CreatePcs, InsertingPcs,
         RedirectPcs, DeletePcs, Typed, StoreTyped, Scopes
    <3>2. Sound(t)
      BY <1>0 DEF Sound, Idle, IInv, Fresh
    <3>3. HandsFilled(w, t)
      BY DEF HandsFilled, FillingPcs, Idle
    <3> HIDE DEF t
    <3> QED BY <1>0, <2>1, <2>2, <3>1, <3>2, <3>3, <1>24,
       QuietStep DEF StartDeleteOwner, t
  <2> QED BY <1>0, <2>1, <2>2, <1>24, QuietEnd DEF StartDeleteOwner, Start,
     Finish
<1>25. ASSUME NEW w \in Workers, StartSweep(w) PROVE IInv'
  <2> DEFINE due == {l \in links : ~Live(l)}
             t == [Idle EXCEPT !.pc = "drop", !.victims = due]
  <2>1. CachesGrow(w)
    BY <1>25, CachesKept DEF StartSweep
  <2>2. Become(w, t) /\ links' = links \ due
    BY <1>25 DEF StartSweep, Start
  <2>3. RowsGrow
    BY <1>0, <2>2, <1>25, BoundsAssumption DEF StartSweep, RowsGrow, Typed,
       StoreTyped
  <2>4. t \in Task
    BY ZenonT(40), <1>0, IdleTyped DEF Idle, Task, Pcs, DeletePcs, Typed, StoreTyped
  <2>u. PICK u \in Task : u = t
    BY ZenonT(40), <2>4
  <2>5. Sound(u)'
    <3>1. u.pc = "drop" /\ u.victims = due
      BY <2>u DEF Idle
    <3>2. \A l \in u.victims : l \notin links' /\ l.id < nextId'
      BY <2>2, <3>1, <1>25 DEF StartSweep, Fresh, IInv
    <3> QED BY <3>1, <3>2 DEF Sound
  <2>6. HandsFilled(w, u)
    BY <2>u DEF HandsFilled, FillingPcs, Idle
  <2>7. UniqueCodes' /\ NoOrphans'
    BY SMTT(30), <2>2, <1>25 DEF StartSweep, UniqueCodes, NoOrphans, IInv
  <2> HIDE DEF t, due
  <2> QED
    BY <1>0, <2>1, <2>2, <2>3, <2>5, <2>6, <2>7, <2>u, <1>25,
       WorkerStep DEF StartSweep, IInv
<1>26. ASSUME NEW w \in Workers, StartClick(w) PROVE IInv'
  <2>1. CachesGrow(w)
    BY <1>26, CachesKept DEF StartClick
  <2>2. ASSUME NEW c \in Codes, Become(w, [Idle EXCEPT !.pc = "unlist",
            !.code = c]) PROVE IInv'
    <3> DEFINE t == [Idle EXCEPT !.pc = "unlist", !.code = c]
    <3>1. t \in Task
      BY <1>0, IdleTyped DEF Idle, Task, Pcs, CreatePcs, InsertingPcs,
         RedirectPcs, DeletePcs
    <3>2. Sound(t)
      BY <1>0 DEF Sound, Idle
    <3>3. HandsFilled(w, t)
      BY DEF HandsFilled, FillingPcs, Idle
    <3> HIDE DEF t
    <3> QED BY <1>0, <2>1, <2>2, <3>1, <3>2, <3>3, <1>26,
       QuietStep DEF StartClick, t
  <2>3. CASE task' = task
    <3>1. Become(w, task[w])
      BY <1>0, <2>3 DEF Become, Typed, TaskTyped
    <3>2. HandsFilled(w, task[w])
      BY <1>26 DEF StartClick, HandsFilled, FillingPcs
    <3> QED BY <1>0, <2>1, <3>1, <3>2, <1>26, QuietStep DEF StartClick
  <2> QED BY <1>0, <2>1, <2>2, <2>3, <1>26, QuietEnd DEF StartClick, Start,
     Finish
<1>27. CASE Expire
  <2>1. RowsGrow
    BY <1>0, <1>27, BoundsAssumption DEF Expire, RowsGrow, Typed, StoreTyped
  <2>2. \A t \in Task : Sound(t) => Sound(t)'
    BY <1>0, <2>1, SoundKept
  <2>3. TasksSound'
    BY <1>0, <2>2, <1>27 DEF Expire, TasksSound, Sound
  <2>4. Fresh'
    BY SMTT(30), <1>0, <2>1, <1>27, FreshKept DEF Expire, IInv
  <2>5. UniqueCodes' /\ NoOrphans' /\ DroppedStaysDropped'
    BY <1>27 DEF Expire, IInv, UniqueCodes, NoOrphans, DroppedStaysDropped,
       Filling, cacheVars
  <2> QED BY <1>0, <2>3, <2>4, <2>5 DEF IInv
<1>28. CASE Evict
  <2>1. UNCHANGED <<dbVars, task, dropped, overlapped>>
    BY <1>28 DEF Evict
  <2>2. TasksSound' /\ Fresh' /\ UniqueCodes' /\ NoOrphans'
    BY SMTT(30), <2>1 DEF IInv, TasksSound, Sound, Live, Fresh, UniqueCodes, NoOrphans,
       dbVars
  <2>3. \A k \in Caches : /\ l1'[k] \subseteq l1[k]
                          /\ l2'[k] \subseteq l2[k]
                          /\ dedup'[k] \subseteq dedup[k]
    BY <1>0, <1>28 DEF Evict, Typed, StoreTyped
  <2>4. DroppedStaysDropped'
    BY SMTT(30), <2>1, <2>3 DEF IInv, DroppedStaysDropped, Filling, dbVars
  <2> QED BY <1>0, <2>2, <2>4 DEF IInv
<1>29. CASE UNCHANGED vars
  BY <1>0, <1>29 DEF vars, dbVars, cacheVars, IInv, TasksSound, Sound, Live,
     Fresh, UniqueCodes, NoOrphans, DroppedStaysDropped, Filling
<1> QED
  BY <1>1, <1>2, <1>3, <1>4, <1>5, <1>6, <1>7, <1>8, <1>9, <1>10, <1>11,
     <1>12, <1>13, <1>14, <1>15, <1>16, <1>17, <1>18, <1>19, <1>20, <1>21,
        <1>22, <1>23, <1>24, <1>25, <1>26, <1>27, <1>28, <1>29 DEF Next,
           Begin, Step

-----------------------------------------------------------------------------
(* The theorems.                                                           *)

\* Whatever requests run and however they interleave, the invariant holds.
THEOREM Invariance == Spec => []IInv
<1>1. Init => IInv
  BY InitIInv
<1>2. IInv /\ [Next]_vars => IInv'
  BY StepIInv
<1> QED BY <1>1, <1>2, PTL DEF Spec

\* Every variable keeps its type: no request reaches a cache or repository
\* call without the value it needs.
THEOREM TypeCorrect == Spec => []TypeOK
<1>1. IInv => TypeOK
  BY TypedTypeOK DEF IInv
<1> QED BY <1>1, Invariance, PTL

\* A code names at most one link.
THEOREM CodesUnique == Spec => []UniqueCodes
<1>1. IInv => UniqueCodes
  BY DEF IInv
<1> QED BY <1>1, Invariance, PTL

\* No link outlives the account that owns it.
THEOREM OrphanFree == Spec => []NoOrphans
<1>1. IInv => NoOrphans
  BY SMTT(30) DEF IInv
<1> QED BY <1>1, Invariance, PTL

\* A creation answers with the destination and scope it was asked for.
THEOREM AnswersMatch == Spec => []HandedOutMatchesRequest
<1>1. IInv => HandedOutMatchesRequest
  BY DEF IInv, TasksSound, Sound, HandedOutMatchesRequest
<1> QED BY <1>1, Invariance, PTL

\* Only creations that overlap leave two live links with one destination in
\* one scope.
THEOREM DuplicatesConcurrent == Spec => []DuplicatesAreConcurrent
<1>1. IInv => DuplicatesAreConcurrent
  BY DEF IInv, TasksSound, Sound, DuplicatesAreConcurrent
<1> QED BY <1>1, Invariance, PTL

\* A link dropped while nobody was writing it to the cache never comes back,
\* with any number of workers, caches and lost cache calls.
THEOREM NoResurrection == Spec => []DroppedStaysDropped
<1>1. IInv => DroppedStaysDropped
  BY DEF IInv
<1> QED BY <1>1, Invariance, PTL

LEMMA OnlyOwnTask ==
  ASSUME TaskTyped, NEW v \in Workers, Begin(v) \/ Step(v) \/ StartClick(v)
  PROVE  \A w \in Workers \ {v} : task'[w] = task[w]
<1> USE DEF TaskTyped, Become, Goto, GotoWith, Finish, Start
<1>1. CASE Begin(v)
  BY ZenonT(40), <1>1 DEF Begin, StartCreate, StartRedirect, StartDelete, StartDeleteOwner,
     StartSweep
<1>2. CASE StartClick(v)
  BY ZenonT(40), <1>2 DEF StartClick
<1>3. CASE GetByHash(v) \/ Confirm(v) \/ Discard(v) \/ FindLive(v)
           \/ KeepExisting(v)
  BY ZenonT(40), <1>3 DEF GetByHash, Confirm, Discard, FindLive, KeepExisting
<1>4. CASE PickCode(v) \/ Insert(v) \/ StoreNew(v) \/ Reply(v)
  BY ZenonT(40), <1>4 DEF PickCode, Insert, StoreNew, Reply
<1>5. CASE ReadL2(v) \/ WarmL1(v) \/ ReadDb(v) \/ FillCaches(v) \/ Answer(v)
  BY <1>5 DEF ReadL2, WarmL1, ReadDb, FillCaches, Answer
<1>6. CASE DropUnknown(v) \/ RemoveRow(v) \/ DeleteOwner(v)
           \/ DropNone(v) \/ Unlist(v)
  BY <1>6 DEF DropUnknown, RemoveRow, DeleteOwner, DropNone, Unlist
<1>7. CASE DropOne(v)
  BY <1>7 DEF DropOne
<1> QED BY SMTT(30), <1>1, <1>2, <1>3, <1>4, <1>5, <1>6, <1>7 DEF Step

LEMMA RemoveOnly ==
  ASSUME NEW w \in Workers, At(w, "remove"),
            Begin(w) \/ Step(w) \/ StartClick(w)
  PROVE  RemoveRow(w)
BY DEF At, Begin, Step, StartClick, Start, StartCreate, StartRedirect,
   StartDelete,
   StartDeleteOwner, StartSweep, GetByHash, Confirm, Discard, FindLive,
   KeepExisting, PickCode, Insert, StoreNew, Reply, ReadL2, WarmL1, ReadDb,
   FillCaches, Answer, DropUnknown, DeleteOwner, DropOne, DropNone, Unlist

\* A deletion request removes the row it judged and no other.
THEOREM JudgedDeletion == Spec => DeletesWhatItJudged
<1> DEFINE Judged == \A w \in Workers :
                       At(w, "remove") /\ task'[w] # task[w] =>
                          links \ links' \subseteq {task[w].link}
<1>1. IInv /\ [Next]_vars => [Judged]_vars
  <2> SUFFICES ASSUME IInv, [Next]_vars, NEW w \in Workers, At(w, "remove"),
                      task'[w] # task[w]
               PROVE  links \ links' \subseteq {task[w].link}
    OBVIOUS
  <2>1. PICK v \in Workers : Begin(v) \/ Step(v) \/ StartClick(v)
    BY SMTT(30) DEF Next, vars, Expire, Evict
  <2>2. v = w
    BY <2>1, OnlyOwnTask DEF IInv, Typed
  <2>3. RemoveRow(w)
    BY <2>1, <2>2, RemoveOnly
  <2> QED BY <2>3 DEF RemoveRow
<1> QED BY <1>1, Invariance, PTL DEF Spec, DeletesWhatItJudged

-----------------------------------------------------------------------------
(* The audit records.  A link is in the table, or in the hands of the one  *)
(* request that removed its row, or recorded; never in two of these.       *)

\* No account has been deleted, or is being deleted.  delete_by_owner reports
\* the rows it selected, so its requests may record a link somebody else
\* removed in between.
NoAccountDeleted == closed = {} /\ \A w \in Workers : ~At(w, "ownerDelete")

\* The removed links a request has yet to drop from the cache and record.
Doomed(t) == {l \in t.victims : t.pc = "drop"}

AuditsSound ==
    /\ OneAuditPerDeletion
    /\ \A l \in links : audits[l.id] = 0
    /\ \A i \in Ids : i >= nextId => audits[i] = 0
    /\ \A l, m \in links : l.id = m.id => l = m
    /\ \A w \in Workers : \A l \in Doomed(task[w]) :
          /\ audits[l.id] = 0
          /\ \A m \in links : m.id # l.id
          /\ \A v \in Workers : \A m \in Doomed(task[v]) :
                l.id = m.id => l = m /\ v = w

\* A step that records nothing, removes no row for a request to record, and
\* adds none.
LEMMA AuditsQuiet ==
  ASSUME AuditsSound, UNCHANGED <<audits, nextId>>, links' \subseteq links,
         \A v \in Workers : Doomed(task'[v]) \subseteq Doomed(task[v])
  PROVE  AuditsSound'
<1>1. /\ OneAuditPerDeletion'
      /\ \A l \in links' : audits'[l.id] = 0
      /\ \A i \in Ids : i >= nextId' => audits'[i] = 0
      /\ \A l, m \in links' : l.id = m.id => l = m
  BY DEF AuditsSound, OneAuditPerDeletion
<1>2. ASSUME NEW w \in Workers, NEW l \in Doomed(task'[w])
      PROVE  /\ audits'[l.id] = 0
             /\ \A m \in links' : m.id # l.id
             /\ \A v \in Workers : \A m \in Doomed(task'[v]) :
                   l.id = m.id => l = m /\ v = w
  BY <1>2 DEF AuditsSound
<1> QED BY <1>1, <1>2 DEF AuditsSound, Doomed

\* A new row has an id nobody has recorded or removed.
LEMMA AuditsInsert ==
  ASSUME IInv, AuditsSound, UNCHANGED audits, NEW n \in Link, n.id = nextId,
         links' = links \cup {n}, nextId' = nextId + 1,
         \A v \in Workers : Doomed(task'[v]) \subseteq Doomed(task[v])
  PROVE  AuditsSound'
<1>1. /\ nextId \in Nat /\ n.id \in Ids /\ Ids \subseteq Nat
      /\ \A l \in links : l.id \in Ids /\ l.id < nextId
  BY BoundsAssumption DEF IInv, Typed, StoreTyped, Link, Ids, Fresh
<1>2. \A w \in Workers : \A l \in Doomed(task[w]) : l.id \in Ids /\ l.id < nextId
  BY DEF IInv, Typed, TaskTyped, Task, Link, TasksSound, Sound, Doomed
<1> DEFINE Later == \A i \in Ids : i >= nextId' => audits'[i] = 0
<1>3. /\ OneAuditPerDeletion'
      /\ \A l \in links' : audits'[l.id] = 0
      /\ Later
  <2>1. OneAuditPerDeletion'
    BY DEF AuditsSound, OneAuditPerDeletion
  <2>2. Later
    BY <1>1 DEF AuditsSound
  <2>3. audits[n.id] = 0
    BY <1>1 DEF AuditsSound
  <2>4. \A l \in links' : audits'[l.id] = 0
    BY <2>3 DEF AuditsSound
  <2> QED BY <2>1, <2>2, <2>4
<1>4. \A l, m \in links' : l.id = m.id => l = m
  BY <1>1 DEF AuditsSound
<1>5. ASSUME NEW w \in Workers, NEW l \in Doomed(task'[w])
      PROVE  /\ audits'[l.id] = 0
             /\ \A m \in links' : m.id # l.id
             /\ \A v \in Workers : \A m \in Doomed(task'[v]) :
                   l.id = m.id => l = m /\ v = w
  BY <1>1, <1>2, <1>5 DEF AuditsSound
<1> QED BY <1>3, <1>4, <1>5 DEF AuditsSound, Doomed

\* A request removes rows, and has them to record.
LEMMA AuditsRemove ==
  ASSUME IInv, AuditsSound, UNCHANGED <<audits, nextId>>,
         NEW w \in Workers, NEW D \in SUBSET links, links' = links \ D,
         Doomed(task'[w]) \subseteq D,
         \A v \in Workers \ {w} : task'[v] = task[v]
  PROVE  AuditsSound'
<1>1. /\ OneAuditPerDeletion'
      /\ \A l \in links' : audits'[l.id] = 0
      /\ \A i \in Ids : i >= nextId' => audits'[i] = 0
      /\ \A l, m \in links' : l.id = m.id => l = m
  BY DEF AuditsSound, OneAuditPerDeletion
<1>2. ASSUME NEW u \in Workers, NEW l \in Doomed(task'[u])
      PROVE  /\ audits'[l.id] = 0
             /\ \A m \in links' : m.id # l.id
             /\ \A v \in Workers : \A m \in Doomed(task'[v]) :
                   l.id = m.id => l = m /\ v = u
  <2>1. CASE u = w
    BY <1>2, <2>1 DEF AuditsSound
  <2>2. CASE u # w
    BY <1>2, <2>2 DEF AuditsSound
  <2> QED BY <2>1, <2>2
<1> QED BY <1>1, <1>2 DEF AuditsSound, Doomed

\* A removed link is recorded by the request that removed it.
LEMMA AuditsRecord ==
  ASSUME IInv, AuditsSound, UNCHANGED <<links, nextId>>,
         NEW w \in Workers, NEW l \in Doomed(task[w]),
         audits' = [audits EXCEPT ![l.id] = @ + 1] \/ audits' = audits,
         Doomed(task'[w]) \subseteq Doomed(task[w]) \ {l},
         \A v \in Workers \ {w} : task'[v] = task[v]
  PROVE  AuditsSound'
<1>1. /\ l.id \in Ids /\ l.id < nextId /\ audits[l.id] = 0
      /\ audits \in [Ids -> Nat] /\ nextId \in Nat /\ Ids \subseteq Nat
      /\ \A m \in links : m.id \in Ids /\ m.id # l.id
  BY BoundsAssumption DEF IInv, Typed, StoreTyped, TaskTyped, Task, Link, Ids,
     TasksSound, Sound, Doomed, AuditsSound
<1>2. \A i \in Ids : audits'[i] = audits[i] \/ (i = l.id /\ audits'[i] = 1)
  <2>1. CASE audits' = audits
    BY <2>1
  <2>2. CASE audits' = [audits EXCEPT ![l.id] = @ + 1]
    <3>1. \A i \in Ids \ {l.id} : audits'[i] = audits[i]
      BY <1>1, <2>2
    <3>2. audits'[l.id] = 0 + 1
      BY <1>1, <2>2, Zenon
    <3> QED BY <3>1, <3>2
  <2> QED BY <2>1, <2>2
<1>3. /\ OneAuditPerDeletion'
      /\ \A m \in links' : audits'[m.id] = 0
      /\ \A i \in Ids : i >= nextId' => audits'[i] = 0
      /\ \A k, m \in links' : k.id = m.id => k = m
  <2>1. OneAuditPerDeletion'
    BY <1>2 DEF AuditsSound, OneAuditPerDeletion
  <2>2. \A m \in links' : audits'[m.id] = audits[m.id]
    BY <1>1, <1>2
  <2>3. \A i \in Ids : i >= nextId' => audits'[i] = 0
    BY <1>1, <1>2 DEF AuditsSound
  <2> QED BY <2>1, <2>2, <2>3 DEF AuditsSound
<1>4. \A v \in Workers : \A m \in Doomed(task[v]) : m.id \in Ids
  BY DEF IInv, Typed, TaskTyped, Task, Link, Doomed
<1>5. ASSUME NEW v \in Workers, NEW m \in Doomed(task'[v])
      PROVE  m \in Doomed(task[v]) /\ m.id # l.id
  BY <1>5 DEF AuditsSound
<1>6. ASSUME NEW v \in Workers, NEW m \in Doomed(task'[v])
      PROVE  /\ audits'[m.id] = 0
             /\ \A k \in links' : k.id # m.id
             /\ \A u \in Workers : \A k \in Doomed(task'[u]) :
                   m.id = k.id => m = k /\ u = v
  <2>1. m \in Doomed(task[v]) /\ m.id # l.id /\ m.id \in Ids
    BY <1>4, <1>5, <1>6
  <2>2. audits'[m.id] = 0 /\ \A k \in links' : k.id # m.id
    BY <1>2, <2>1 DEF AuditsSound
  <2>3. \A u \in Workers : \A k \in Doomed(task'[u]) : m.id = k.id => m = k /\ u = v
    BY <1>5, <2>1 DEF AuditsSound
  <2> QED BY <2>2, <2>3
<1> QED BY <1>3, <1>6 DEF AuditsSound, Doomed

\* The steps of a request that touch no row, and leave their worker with
\* nothing to record.
LEMMA Untouched ==
  ASSUME TaskTyped, NEW v \in Workers,
         \/ StartCreate(v) \/ StartRedirect(v) \/ StartDelete(v)
         \/ StartDeleteOwner(v) \/ StartClick(v)
         \/ GetByHash(v) \/ Confirm(v) \/ Discard(v) \/ FindLive(v)
         \/ KeepExisting(v) \/ PickCode(v) \/ StoreNew(v) \/ Reply(v)
         \/ ReadL2(v) \/ WarmL1(v) \/ ReadDb(v) \/ FillCaches(v) \/ Answer(v)
         \/ DropUnknown(v) \/ DropNone(v) \/ Unlist(v)
  PROVE  /\ UNCHANGED <<audits, nextId, links>>
         /\ Doomed(task'[v]) \subseteq Doomed(task[v])
<1> DEFINE Spared == task'[v].pc # "drop" \/ task'[v] = task[v]
<1>1. UNCHANGED <<dbVars, ghostVars>>
  BY Zenon DEF StartCreate, StartRedirect, StartDelete, StartDeleteOwner, StartClick,
     GetByHash, Confirm, Discard, FindLive, KeepExisting, PickCode, StoreNew,
     Reply, ReadL2, WarmL1, ReadDb, FillCaches, Answer, DropUnknown, DropNone,
     Unlist
<1>2. task \in [Workers -> Task] /\ task[v] \in Task
  BY DEF TaskTyped
<1>3. ASSUME NEW t, Become(v, t), t.pc # "drop" PROVE Spared
  BY <1>2, <1>3 DEF Become
<1> HIDE DEF Spared
<1>4. Finish(v) \/ Start(v, Idle) => Spared
  <2>1. Idle.pc # "drop"
    BY DEF Idle
  <2> QED BY <1>3, <2>1, Zenon DEF Finish, Start
<1>5. ASSUME NEW p, p # "drop", Goto(v, p) PROVE Spared
  <2>1. [task[v] EXCEPT !.pc = p].pc # "drop"
    BY <1>2, <1>5 DEF Task
  <2> QED BY <1>3, <1>5, <2>1, Zenon DEF Goto
<1>6. ASSUME NEW p, NEW l, p # "drop", GotoWith(v, p, l) PROVE Spared
  <2>1. [task[v] EXCEPT !.pc = p, !.link = l].pc # "drop"
    BY <1>2, <1>6 DEF Task
  <2> QED BY <1>3, <1>6, <2>1, Zenon DEF GotoWith
<1>7. ASSUME StartCreate(v) PROVE Spared
  <2>1. \A url, scope, code :
          [Idle EXCEPT !.pc = "hash", !.url = url, !.scope = scope, !.code = code].pc # "drop"
    BY DEF Idle
  <2> QED BY <1>3, <1>7, <2>1, Zenon DEF StartCreate, Start
<1>8. ASSUME StartRedirect(v) PROVE Spared
  <2>1. \A c : [[Idle EXCEPT !.code = c] EXCEPT !.pc = "l2"].pc # "drop"
    BY DEF Idle
  <2>2. \A c, l : [[Idle EXCEPT !.code = c] EXCEPT !.pc = "answer", !.link = l].pc # "drop"
    BY DEF Idle
  <2> QED BY <1>3, <1>4, <1>8, <2>1, <2>2, Zenon DEF StartRedirect, Start
<1>9. ASSUME StartDelete(v) \/ StartDeleteOwner(v) \/ StartClick(v) PROVE Spared
  <2>1. \A c : /\ [[Idle EXCEPT !.code = c] EXCEPT !.pc = "dropCode"].pc # "drop"
               /\ [Idle EXCEPT !.pc = "unlist", !.code = c].pc # "drop"
    BY DEF Idle
  <2>2. \A c, l : [[Idle EXCEPT !.code = c] EXCEPT !.pc = "remove", !.link = l].pc # "drop"
    BY DEF Idle
  <2>3. \A o, D : [Idle EXCEPT !.pc = "ownerDelete", !.scope = o, !.victims = D].pc # "drop"
    BY DEF Idle
  <2>4. task' = task => Spared
    BY DEF Spared
  <2>5. CASE StartDelete(v)
    BY <1>3, <1>4, <2>5, <2>1, <2>2, Zenon DEF StartDelete, Start
  <2>6. CASE StartDeleteOwner(v)
    BY <1>3, <2>6, <2>3, Zenon DEF StartDeleteOwner, Start
  <2>7. CASE StartClick(v)
    BY <1>3, <2>7, <2>1, <2>4, Zenon DEF StartClick
  <2> QED BY <1>9, <2>5, <2>6, <2>7
<1>10. ASSUME FindLive(v) \/ PickCode(v) PROVE Spared
  <2>1. \A x : /\ [task[v] EXCEPT !.pc = "pick", !.before = x].pc # "drop"
               /\ [task[v] EXCEPT !.pc = "insert", !.chosen = x].pc # "drop"
    BY <1>2 DEF Task
  <2>2. CASE FindLive(v)
    BY <1>3, <1>6, <2>1, <2>2, Zenon DEF FindLive
  <2>3. CASE PickCode(v)
    BY <1>3, <1>4, <2>1, <2>3, Zenon DEF PickCode
  <2> QED BY <1>10, <2>2, <2>3
<1>11. ASSUME \/ GetByHash(v) \/ Confirm(v) \/ Discard(v) \/ KeepExisting(v)
              \/ StoreNew(v) \/ Reply(v)
       PROVE  Spared
  <2>1. \A l : (IF l = None THEN "dedup" ELSE "confirm") # "drop"
    OBVIOUS
  <2>2. CASE GetByHash(v)
    BY <1>6, <2>1, <2>2, Zenon DEF GetByHash
  <2>3. CASE Confirm(v)
    BY <1>5, <1>6, <2>3, Zenon DEF Confirm
  <2>4. CASE Discard(v)
    BY <1>6, <2>4, Zenon DEF Discard
  <2>5. CASE KeepExisting(v) \/ StoreNew(v) \/ Reply(v)
    BY <1>4, <1>5, <2>5, Zenon DEF KeepExisting, StoreNew, Reply
  <2> QED BY <1>11, <2>2, <2>3, <2>4, <2>5
<1>12. ASSUME \/ ReadL2(v) \/ WarmL1(v) \/ ReadDb(v) \/ FillCaches(v)
              \/ Answer(v) \/ DropUnknown(v) \/ DropNone(v) \/ Unlist(v)
       PROVE  Spared
  <2>1. CASE ReadL2(v) \/ ReadDb(v)
    BY <1>4, <1>5, <1>6, <2>1, Zenon DEF ReadL2, ReadDb
  <2>2. CASE WarmL1(v) \/ FillCaches(v)
    BY <1>5, <2>2, Zenon DEF WarmL1, FillCaches
  <2>3. CASE Answer(v) \/ DropUnknown(v) \/ DropNone(v) \/ Unlist(v)
    BY <1>4, <2>3, Zenon DEF Answer, DropUnknown, DropNone, Unlist
  <2> QED BY <1>12, <2>1, <2>2, <2>3
<1>13. Spared
  BY <1>7, <1>8, <1>9, <1>10, <1>11, <1>12
<1> QED BY <1>1, <1>13 DEF Spared, Doomed, dbVars, ghostVars

LEMMA OwnerDeleteOnly ==
  ASSUME NEW w \in Workers, At(w, "ownerDelete"),
            Begin(w) \/ Step(w) \/ StartClick(w)
  PROVE  DeleteOwner(w)
BY DEF At, Begin, Step, StartClick, Start, StartCreate, StartRedirect,
   StartDelete,
   StartDeleteOwner, StartSweep, GetByHash, Confirm, Discard, FindLive,
   KeepExisting, PickCode, Insert, StoreNew, Reply, ReadL2, WarmL1, ReadDb,
   FillCaches, Answer, DropUnknown, RemoveRow, DropOne, DropNone, Unlist

\* An account that is closed stays closed, whatever the step.
LEMMA ClosedGrows == ASSUME [Next]_vars PROVE closed \subseteq closed'
<1>1. ASSUME NEW w \in Workers, Begin(w) \/ StartClick(w) PROVE closed' = closed
  BY <1>1, Zenon DEF Begin, StartClick, StartCreate, StartRedirect, StartDelete,
     StartDeleteOwner, StartSweep, dbVars
<1>2. ASSUME NEW w \in Workers, Step(w), ~DeleteOwner(w) PROVE closed' = closed
  BY <1>2, Zenon DEF Step, GetByHash, Confirm, Discard, FindLive, KeepExisting,
     PickCode, Insert, StoreNew, Reply, ReadL2, WarmL1, ReadDb, FillCaches,
     Answer, DropUnknown, RemoveRow, DropOne, DropNone, Unlist, dbVars
<1>3. ASSUME NEW w \in Workers, DeleteOwner(w) PROVE closed \subseteq closed'
  BY <1>3 DEF DeleteOwner
<1>4. CASE Expire \/ Evict \/ UNCHANGED vars
  BY <1>4 DEF Expire, Evict, vars, dbVars
<1> QED BY <1>1, <1>2, <1>3, <1>4 DEF Next

\* Once an account is being deleted, the history stays one with a deletion.
LEMMA DeletionStays ==
  ASSUME IInv, [Next]_vars, NoAccountDeleted' PROVE NoAccountDeleted
<1>1. closed = {} /\ closed' = {}
  BY ClosedGrows DEF NoAccountDeleted
<1>2. ASSUME NEW w \in Workers, At(w, "ownerDelete") PROVE FALSE
  <2>1. task'[w] # task[w]
    BY <1>2 DEF NoAccountDeleted, At
  <2>2. PICK v \in Workers : Begin(v) \/ Step(v) \/ StartClick(v)
    BY <2>1, SMTT(30) DEF Next, vars, Expire, Evict
  <2>3. v = w
    BY <2>1, <2>2, OnlyOwnTask DEF IInv, Typed
  <2>4. DeleteOwner(w)
    BY <1>2, <2>2, <2>3, OwnerDeleteOnly
  <2> QED BY <1>1, <2>4 DEF DeleteOwner
<1> QED BY <1>1, <1>2 DEF NoAccountDeleted

\* Every step keeps the records sound as long as no account is deleted.
LEMMA StepAudits ==
  ASSUME IInv, AuditsSound, NoAccountDeleted, [Next]_vars PROVE AuditsSound'
<1>0. TaskTyped /\ \A w \in Workers : task[w] \in Task
  BY DEF IInv, Typed, TaskTyped
<1> DEFINE Others(w) == \A v \in Workers \ {w} : task'[v] = task[v]
           Fewer == \A v \in Workers : Doomed(task'[v]) \subseteq Doomed(task[v])
<1>1. ASSUME NEW w \in Workers, Begin(w) \/ Step(w) \/ StartClick(w)
      PROVE  Others(w)
  BY <1>0, <1>1, OnlyOwnTask
<1>2. ASSUME NEW w \in Workers, Others(w),
             Doomed(task'[w]) \subseteq Doomed(task[w])
      PROVE  Fewer
  BY <1>2
<1>3. ASSUME NEW w \in Workers, NEW t, Become(w, t) PROVE task'[w] = t
  BY <1>0, <1>3 DEF Become, TaskTyped
<1>4. ASSUME NEW w \in Workers, Finish(w) PROVE Doomed(task'[w]) = {}
  <2>1. task'[w] = Idle
    BY <1>3, <1>4, Zenon DEF Finish
  <2> QED BY <2>1 DEF Doomed, Idle
<1> HIDE DEF Others, Fewer
<1>5. ASSUME NEW w \in Workers,
             \/ StartCreate(w) \/ StartRedirect(w) \/ StartDelete(w)
             \/ StartDeleteOwner(w) \/ StartClick(w)
             \/ GetByHash(w) \/ Confirm(w) \/ Discard(w) \/ FindLive(w)
             \/ KeepExisting(w) \/ PickCode(w) \/ StoreNew(w) \/ Reply(w)
             \/ ReadL2(w) \/ WarmL1(w) \/ ReadDb(w) \/ FillCaches(w) \/ Answer(w)
             \/ DropUnknown(w) \/ DropNone(w) \/ Unlist(w)
      PROVE  AuditsSound'
  <2>1. /\ UNCHANGED <<audits, nextId, links>>
        /\ Doomed(task'[w]) \subseteq Doomed(task[w])
    BY <1>0, <1>5, Untouched, Zenon
  <2>2. Fewer
    BY <1>1, <1>2, <1>5, <2>1 DEF Begin, Step
  <2> QED BY <2>1, <2>2, AuditsQuiet DEF Fewer
<1>6. ASSUME NEW w \in Workers, Insert(w) PROVE AuditsSound'
  <2> DEFINE t == task[w]
             new == [id |-> nextId, code |-> t.chosen, url |-> t.url,
                     scope |-> t.scope]
             again == [t EXCEPT !.pc = "hash", !.chosen = None, !.before = {},
                                !.tries = @ + 1]
  <2>1. [t EXCEPT !.pc = "store", !.link = new].pc = "store" /\ again.pc = "hash"
    BY <1>0 DEF Task
  <2>2. UNCHANGED audits
    BY <1>6, Zenon DEF Insert, ghostVars
  <2>3. ASSUME Doomed(task'[w]) = {} PROVE Fewer
    BY <1>1, <1>2, <1>6, <2>3 DEF Step
  <2>4. ASSUME links' = links \cup {new}, nextId' = nextId + 1,
               GotoWith(w, "store", new)
        PROVE  AuditsSound'
    <3>1. task'[w].pc = "store"
      BY <1>3, <2>1, <2>4, Zenon DEF GotoWith
    <3>2. Fewer
      BY <2>3, <3>1 DEF Doomed
    <3>3. new \in Link /\ new.id = nextId
      BY <1>0, <1>6 DEF Insert, At, Link, Ids, IInv, Typed, StoreTyped, TaskTyped,
         ShapeOf, CreatePcs, InsertingPcs
    <3> QED BY <2>2, <2>4, <3>2, <3>3, AuditsInsert DEF Fewer
  <2>5. ASSUME UNCHANGED dbVars, Become(w, again) \/ Finish(w)
        PROVE  AuditsSound'
    <3>1. ASSUME Become(w, again) PROVE task'[w].pc = "hash"
      BY <1>3, <2>1, <3>1, Zenon
    <3>2. Fewer
      BY <1>4, <2>3, <2>5, <3>1 DEF Doomed
    <3> QED BY <2>2, <2>5, <3>2, AuditsQuiet DEF Fewer, dbVars
  <2> HIDE DEF new, again
  <2> QED BY <1>6, <2>4, <2>5, Zenon DEF Insert, new, again
<1>7. ASSUME NEW w \in Workers, RemoveRow(w) PROVE AuditsSound'
  <2> DEFINE l == task[w].link
             t == [task[w] EXCEPT !.pc = "drop", !.victims = {l}]
  <2>1. UNCHANGED <<audits, nextId>>
    BY <1>7 DEF RemoveRow, ghostVars
  <2>2. CASE l \in links /\ links' = links \ {l} /\ Become(w, t)
    <3>1. t.victims = {l}
      BY <1>0 DEF Task
    <3>2. task'[w] = t
      BY <1>3, <2>2, Zenon
    <3>3. Doomed(task'[w]) \subseteq {l}
      BY <3>1, <3>2 DEF Doomed
    <3>4. Others(w)
      BY <1>1, <1>7 DEF Step
    <3>5. {l} \in SUBSET links /\ links' = links \ {l}
      BY <2>2
    <3> HIDE DEF l, t
    <3> QED BY <2>1, <3>3, <3>4, <3>5, AuditsRemove, Zenon DEF Others
  <2>3. CASE links' = links /\ Finish(w)
    <3>1. Fewer
      BY <1>1, <1>2, <1>4, <1>7, <2>3 DEF Step
    <3> QED BY <2>1, <2>3, <3>1, AuditsQuiet DEF Fewer
  <2> QED BY <1>7, <2>2, <2>3 DEF RemoveRow
<1>8. ASSUME NEW w \in Workers, StartSweep(w) PROVE AuditsSound'
  <2> DEFINE due == {l \in links : ~Live(l)}
             t == [Idle EXCEPT !.pc = "drop", !.victims = due]
  <2>1. Become(w, t) /\ links' = links \ due /\ UNCHANGED <<audits, nextId>>
    BY <1>8 DEF StartSweep, Start, ghostVars
  <2>2. t.victims = due
    BY DEF Idle
  <2>3. task'[w] = t
    BY <1>3, <2>1, Zenon
  <2>4. Doomed(task'[w]) \subseteq due /\ due \subseteq links
    BY <2>2, <2>3 DEF Doomed
  <2> HIDE DEF t, due
  <2> QED BY <1>1, <1>8, <2>1, <2>4, AuditsRemove DEF Others, Begin
<1>9. ASSUME NEW w \in Workers, DropOne(w) PROVE AuditsSound'
  <2>1. PICK l \in task[w].victims :
          /\ AuditDeletion(task[w], l)
          /\ \/ task[w].victims = {l} /\ Finish(w)
             \/ Become(w, [task[w] EXCEPT !.victims = task[w].victims \ {l}])
    BY <1>9 DEF DropOne
  <2> DEFINE t == [task[w] EXCEPT !.victims = task[w].victims \ {l}]
  <2>2. l \in Doomed(task[w])
    BY <1>9 DEF DropOne, At, Doomed
  <2>3. audits' = [audits EXCEPT ![l.id] = @ + 1] \/ audits' = audits
    BY <2>1 DEF AuditDeletion
  <2>4. t.victims = task[w].victims \ {l} /\ t.pc = task[w].pc
    BY <1>0 DEF Task
  <2>5. ASSUME Become(w, t) PROVE task'[w] = t
    BY <1>3, <2>5, Zenon
  <2>6. Doomed(task'[w]) \subseteq Doomed(task[w]) \ {l}
    <3>1. CASE Finish(w)
      BY <1>4, <3>1
    <3>2. CASE Become(w, t)
      <4>1. task'[w].victims = task[w].victims \ {l} /\ task'[w].pc = task[w].pc
        BY <2>4, <2>5, <3>2, Zenon
      <4> QED BY <4>1 DEF Doomed
    <3> QED BY <2>1, <3>1, <3>2
  <2>7. UNCHANGED <<links, nextId>>
    BY <1>9 DEF DropOne, dbVars
  <2> QED BY <1>1, <1>9, <2>2, <2>3, <2>6, <2>7, AuditsRecord DEF Others, Step
<1>10. ASSUME NEW w \in Workers, DeleteOwner(w) PROVE FALSE
  BY <1>10 DEF DeleteOwner, NoAccountDeleted
<1>11. CASE Expire \/ Evict \/ UNCHANGED vars
  <2>1. UNCHANGED <<audits, nextId, links, task>>
    BY <1>11 DEF Expire, Evict, vars, dbVars, ghostVars
  <2> QED BY <2>1, AuditsQuiet
<1> QED BY <1>5, <1>6, <1>7, <1>8, <1>9, <1>10, <1>11 DEF Next, Begin, Step

\* AuditDeletion: of the requests that delete one link only the one whose
\* statement removed the row records the deletion, and records it once, for
\* any number of requests and sweeps, until an account is deleted.
THEOREM OneRecordEach == Spec => [](NoAccountDeleted => OneAuditPerDeletion)
<1> DEFINE Sole == IInv /\ (NoAccountDeleted => AuditsSound)
<1>1. Init => Sole
  <2>1. ASSUME Init PROVE AuditsSound
    BY <2>1 DEF Init, AuditsSound, OneAuditPerDeletion, Doomed, Idle
  <2> QED BY <2>1, InitIInv
<1>2. Sole /\ [Next]_vars => Sole'
  BY StepIInv, DeletionStays, StepAudits
<1>3. Sole => (NoAccountDeleted => OneAuditPerDeletion)
  BY DEF AuditsSound
<1> QED BY <1>1, <1>2, <1>3, PTL DEF Spec

=============================================================================

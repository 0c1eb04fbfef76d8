--------------------------- MODULE SyncEngineProofs ---------------------------
(***************************************************************************)
(* Proofs about SyncEngine, for any number of items and engine instances   *)
(* and any values of the bounds.                                           *)
(***************************************************************************)
EXTENDS SyncEngine, TLAPS

USE ItemsAssumption, PageLimitAssumption, SeqCapAssumption, ActiveAssumption,
    EnginesAssumption, OwnAssumption, SeedAssumption, WarmAssumption, FaultsAssumption

-----------------------------------------------------------------------------
(***************************************************************************)
(* The operators of the model.                                             *)
(***************************************************************************)

\* Learn stays within the views.
LEMMA LearnType ==
    ASSUME NEW view \in [Items -> View], NEW new, NEW dead
    PROVE  Learn(view, new, dead) \in [Items -> View]
BY DEF Learn, View

\* Learn forgets nothing: a shown item stays known, a tombstone is permanent.
LEMMA LearnGrows ==
    ASSUME NEW view \in [Items -> View], NEW new, NEW dead, NEW x \in Items
    PROVE  LET after == Learn(view, new, dead) IN
           /\ view[x] = "gone" => after[x] = "gone"
           /\ view[x] # "unknown" => after[x] # "unknown"
           /\ x \in dead => after[x] = "gone"
           /\ x \in new => after[x] # "unknown"
           /\ after[x] = "gone" => view[x] = "gone" \/ x \in dead
           /\ after[x] = "shown" => view[x] = "shown" \/ (x \in new /\ view[x] = "unknown")
BY DEF Learn, View

\* Hear keeps the types of the cache and the feed.
LEMMA HearType ==
    ASSUME TypeOK, NEW e \in Engines, NEW new, NEW dead, NEW hidden, Hear(e, new, dead, hidden)
    PROVE  /\ cache' \in [Engines -> [Items -> View]]
           /\ feed' \in [Items -> View]
<1>1. Learn(cache[e], new, dead) \in [Items -> View]
  BY LearnType DEF TypeOK
<1> QED
  BY <1>1, LearnType DEF TypeOK, Hear

\* The number given to a change.
LEMMA NewNumber ==
    ASSUME rows \in [Items -> Row], NEW s, IsNextSeq(s)
    PROVE  s \in Nat /\ s > 0
BY DEF IsNextSeq, Row

LEMMA RowsType ==
    ASSUME rows \in [Items -> Row], NEW x \in Items,
           Insert(x) \/ SoftDelete(x) \/ \E s \in 1 .. SeqCap : PruneUpTo(s)
    PROVE  rows' \in [Items -> Row]
<1>1. CASE Insert(x)
  BY <1>1, NewNumber DEF Insert, Row
<1>2. CASE SoftDelete(x)
  BY <1>2, NewNumber DEF SoftDelete, Row
<1>3. CASE \E s \in 1 .. SeqCap : PruneUpTo(s)
  BY <1>3 DEF PruneUpTo, Row, NoRow
<1> QED
  BY <1>1, <1>2, <1>3

\* A broadcast keeps the channels sets of events.
LEMMA BroadcastType ==
    ASSUME TypeOK, NEW ev \in Event, Broadcast(ev)
    PROVE  chan' \in [Engines -> SUBSET Event]
BY DEF TypeOK, Broadcast

LEMMA EventType ==
    ASSUME NEW x \in Items
    PROVE  New(x) \in Event /\ Del(x) \in Event
BY DEF New, Del, Event

LEMMA PullType ==
    /\ Idle \in Pull
    /\ \A c \in Nat : Request(c) \in
                Pull
BY DEF Pull, Idle, Request, EmptyPage

-----------------------------------------------------------------------------
(***************************************************************************)
(* Types.                                                                  *)
(***************************************************************************)

LEMMA TypeInit == Init => TypeOK
<1> SUFFICES ASSUME Init PROVE TypeOK
  OBVIOUS
<1>1. rows \in [Items -> Row]
  BY DEF Init, Row, NoRow
<1>2. pull \in [Engines -> Pull]
  BY PullType DEF Init
<1>3. cache \in [Engines -> [Items -> View]] /\ feed \in [Items -> View] /\ saved \in Nat
  BY DEF Init, NothingKnown, View
<1> QED
  BY <1>1, <1>2, <1>3 DEF Init, TypeOK

\* The steps of the server.
LEMMA TypeServer ==
    ASSUME TypeOK, NEW x \in Items,
           \/ OtherCreates(x) \/ OtherDeletes(x) \/ OwnPost(x) \/ OwnDelete(x)
           \/ \E s \in 1 .. SeqCap : Prune(s)
           \/ Revoke
    PROVE  TypeOK'
<1>1. CASE OtherCreates(x)
  <2>1. rows' \in [Items -> Row] /\ chan' \in [Engines -> SUBSET Event]
    BY <1>1, RowsType, BroadcastType, EventType DEF OtherCreates, TypeOK
  <2> QED
    BY <1>1, <2>1 DEF OtherCreates, localVars, TypeOK
<1>2. CASE OtherDeletes(x)
  <2>1. rows' \in [Items -> Row] /\ chan' \in [Engines -> SUBSET Event]
    BY <1>2, RowsType, BroadcastType, EventType DEF OtherDeletes, TypeOK
  <2> QED
    BY <1>2, <2>1 DEF OtherDeletes, localVars, TypeOK
<1>3. CASE OwnPost(x)
  <2>1. rows' \in [Items -> Row] /\ chan' \in [Engines -> SUBSET Event]
    BY <1>3, RowsType, BroadcastType, EventType DEF OwnPost, TypeOK
  <2> QED
    BY <1>3, <2>1 DEF OwnPost, localVars, TypeOK
<1>4. CASE OwnDelete(x)
  <2>1. rows' \in [Items -> Row] /\ chan' \in [Engines -> SUBSET Event]
    BY <1>4, RowsType, BroadcastType, EventType DEF OwnDelete, TypeOK
  <2> QED
    BY <1>4, <2>1 DEF OwnDelete, localVars, TypeOK
<1>5. CASE \E s \in 1 .. SeqCap : Prune(s)
  <2>1. rows' \in [Items -> Row]
    BY <1>5, RowsType DEF Prune, TypeOK
  <2> QED
    BY <1>5, <2>1 DEF Prune, localVars, TypeOK
<1>6. CASE Revoke
  <2>1. sock' \in [Engines -> {"none", "down", "accepted", "open", "dead"}]
    BY <1>6 DEF Revoke, TypeOK
  <2>2. authorized' \in BOOLEAN
    BY <1>6, Zenon DEF Revoke
  <2>3. faults' \in Nat
    BY <1>6 DEF Revoke, TypeOK
  <2> QED
    BY <1>6, <2>1, <2>2, <2>3, Zenon DEF Revoke, TypeOK
<1> QED
  BY <1>1, <1>2, <1>3, <1>4, <1>5, <1>6

\* The steps of the controller, and the faults.
LEMMA TypeController ==
    ASSUME TypeOK,
           \/ \E e \in Engines : Wake(e) \/ Drop(e) \/ PullFails(e)
           \/ Sleep
           \/ \E r \in replies : Reply(r) \/ ReplyLost(r)
           \/ \E x \in Items : RemoveAsleep(x)
           \/ Crash
    PROVE  TypeOK'
<1>1. ASSUME NEW e \in Engines, Wake(e) PROVE TypeOK'
  BY <1>1 DEF Wake, TypeOK, NothingKnown, View
<1>2. ASSUME NEW e \in Engines, Drop(e) PROVE TypeOK'
  BY <1>2 DEF Drop, TypeOK
<1>3. ASSUME NEW e \in Engines, PullFails(e) PROVE TypeOK'
  <2>1. retry' \in [Engines -> BOOLEAN]
    BY <1>3, Zenon DEF PullFails, TypeOK
  <2>2. pull' \in [Engines -> Pull]
    BY <1>3, PullType DEF PullFails, TypeOK
  <2> QED
    BY <1>3, <2>1, <2>2 DEF PullFails, TypeOK
<1>4. CASE Sleep
  BY <1>4 DEF Sleep, Stop, TypeOK
<1>5. ASSUME NEW r \in replies, Reply(r) PROVE TypeOK'
  <2>1. \A new, dead : Learn(feed, new, dead) \in [Items -> View]
    BY LearnType DEF TypeOK
  <2>2. feed' \in [Items -> View] /\ unsent' \in SUBSET Items
    BY <1>5, <2>1 DEF Reply, TypeOK
  <2> QED
    BY <1>5, <2>2 DEF Reply, engineVars, TypeOK
<1>6. ASSUME NEW r \in replies, ReplyLost(r) PROVE TypeOK'
  BY <1>6 DEF ReplyLost, engineVars, TypeOK
<1>7. CASE Crash
  <2>1. NothingKnown \in [Items -> View]
    BY DEF NothingKnown, View
  <2>2. cache' \in [Engines -> [Items -> View]] /\ pull' \in [Engines -> Pull]
    BY <1>7, <2>1, PullType DEF Crash
  <2> QED
    BY <1>7, <2>2 DEF Crash, TypeOK
<1>8. ASSUME NEW x \in Items, RemoveAsleep(x) PROVE TypeOK'
  <2>1. feed' \in [Items -> View] /\ unasked' \in SUBSET Items
    BY <1>8, LearnType DEF RemoveAsleep, TypeOK
  <2> QED
    BY <1>8, <2>1 DEF RemoveAsleep, engineVars, TypeOK
<1> QED
  BY <1>1, <1>2, <1>3, <1>4, <1>5, <1>6, <1>7, <1>8

\* The steps of an engine.
LEMMA TypeEngine ==
    ASSUME TypeOK, NEW e \in Engines, EngineStep(e)
    PROVE  TypeOK'
<1>1. CASE Started(e)
  BY <1>1 DEF Started, TypeOK
<1>2. CASE Accept(e)
  BY <1>2 DEF Accept, TypeOK
<1>3. CASE Open(e) \/ RetryTimer(e)
  <2>1. cursor[e] \in Nat
    BY DEF TypeOK
  <2>2. pull' \in [Engines -> Pull]
    BY <1>3, <2>1, PullType DEF Open, RetryTimer, Resync, TypeOK
  <2>3. Resync(e) /\ sock' \in [Engines -> {"none", "down", "accepted", "open", "dead"}]
    BY <1>3 DEF Open, RetryTimer, TypeOK
  <2>4. /\ retry' \in [Engines -> BOOLEAN] /\ queued' \in [Engines -> BOOLEAN]
        /\ buffer' \in [Engines -> SUBSET Event]
    BY <2>3 DEF Resync, TypeOK
  <2>5. UNCHANGED <<rows, saved, feed, current, replies, loading, stopped, cursor, cache,
                    chan, unsent, unasked, authorized, faults>>
    BY <1>3 DEF Open, RetryTimer
  <2> QED
    BY <2>2, <2>3, <2>4, <2>5 DEF TypeOK
<1>4. CASE Close(e)
  BY <1>4 DEF Close, TypeOK
<1>5. ASSUME NEW ev \in Event, Message(e, ev) PROVE TypeOK'
  <2>1. cache' \in [Engines -> [Items -> View]] /\ feed' \in [Items -> View]
    BY <1>5, HearType DEF Message, TypeOK
  <2>2. buffer' \in [Engines -> SUBSET Event]
    BY <1>5 DEF Message, TypeOK
  <2>3. chan' \in [Engines -> SUBSET Event]
    BY <1>5 DEF Message, TypeOK
  <2> QED
    BY <1>5, <2>1, <2>2, <2>3 DEF Message, TypeOK
<1>6. CASE ServeList(e)
  <2>1. \A n \in {rows[x].seq : x \in Listed(pull[e].from)} :
            n \in Nat /\ Page(pull[e].from, n) \in [Items -> {"none", "live", "tomb"}]
    BY DEF TypeOK, Row, Page, Listed
  <2>2. pull' \in [Engines -> Pull]
    <3>1. PICK p \in Pull : pull' = [pull EXCEPT ![e] = p]
      BY <1>6, <2>1 DEF ServeList, TypeOK, EmptyPage, Pull
    <3> QED
      BY <3>1 DEF TypeOK
  <2> QED
    BY <1>6, <2>2 DEF ServeList, TypeOK
<1>7. CASE ReadPage(e)
  <2>1. cache' \in [Engines -> [Items -> View]] /\ feed' \in [Items -> View]
    BY <1>7, HearType DEF ReadPage
  <2>2. Request(pull[e].next) \in Pull
    BY PullType DEF TypeOK, Pull
  <2> QED
    BY <1>7, <2>1, <2>2 DEF ReadPage, TypeOK
<1>8. CASE ReadLastPage(e)
  <2>1. pull' \in [Engines -> Pull]
    <3>1. [pull[e] EXCEPT !.at = "saving"] \in Pull
      <4>1. \A p \in Pull : [p EXCEPT !.at = "saving"] \in Pull
        BY DEF Pull
      <4> QED
        BY <4>1 DEF TypeOK
    <3>2. pull' = [pull EXCEPT ![e] = [pull[e] EXCEPT !.at = "saving"]]
      BY <1>8 DEF ReadLastPage
    <3> QED
      BY <3>1, <3>2 DEF TypeOK
  <2>2. cursor' \in [Engines -> Nat]
    BY <1>8 DEF ReadLastPage, TypeOK, Pull
  <2> QED
    BY <1>8, <2>1, <2>2 DEF ReadLastPage, TypeOK
<1>9. CASE NothingNew(e) \/ CursorSaved(e)
  <2>1. Finish(e)
    BY <1>9 DEF NothingNew, CursorSaved
  <2>2. cache' \in [Engines -> [Items -> View]] /\ feed' \in [Items -> View]
    BY <2>1, HearType DEF Finish, TypeOK
  <2>3. pull' \in [Engines -> Pull]
    <3>1. Request(cursor[e]) \in Pull /\ Idle \in Pull
      BY PullType DEF TypeOK
    <3> QED
      BY <2>1, <3>1 DEF Finish, TypeOK
  <2>4. buffer' \in [Engines -> SUBSET Event]
    BY <2>1 DEF Finish, TypeOK
  <2>5. queued' \in [Engines -> BOOLEAN]
    BY <2>1, Zenon DEF Finish, TypeOK
  <2>6. saved' \in Nat
    BY <1>9 DEF NothingNew, CursorSaved, TypeOK
  <2> QED
    BY <1>9, <2>2, <2>3, <2>4, <2>5, <2>6 DEF NothingNew, CursorSaved, TypeOK
<1>10. CASE PullUnauthorized(e)
  BY <1>10, PullType DEF PullUnauthorized, Stop, TypeOK
<1> QED
  BY <1>1, <1>2, <1>3, <1>4, <1>5, <1>6, <1>7, <1>8, <1>9, <1>10 DEF EngineStep

LEMMA TypeStep == TypeOK /\ [Next]_vars => TypeOK'
<1> SUFFICES ASSUME TypeOK, [Next]_vars PROVE TypeOK'
  OBVIOUS
<1>1. CASE UNCHANGED vars
  BY <1>1 DEF vars, engineVars, TypeOK
<1>2. CASE Next
  BY <1>2, TypeServer, TypeController, TypeEngine DEF Next
<1> QED
  BY <1>1, <1>2

\* Every variable keeps its type, whatever the interleaving of engines, server
\* and faults.
THEOREM TypeCorrect == Spec => []TypeOK
BY TypeInit, TypeStep, PTL DEF Spec

-----------------------------------------------------------------------------
(***************************************************************************)
(* Cursors and pages stay sound when the rows move ahead and the feed      *)
(* grows, which is all that a step does to them.                           *)
(***************************************************************************)

\* A row that changes is dropped or numbered past all rows, and the newest number
\* does not go back.
RowsAdvance ==
    /\ \A x \in Items : \/ rows'[x] = rows[x]
                        \/ rows'[x] = NoRow
                        \/ \A y \in Items : rows[y].seq < rows'[x].seq
    /\ \A y \in Items : \E z \in Items : rows[y].seq <= rows'[z].seq

\* What is known stays known and what is gone stays gone.
FeedGrows ==
    \A x \in Items : /\ feed[x] = "gone" => feed'[x] = "gone"
                     /\ feed[x] # "unknown" => feed'[x] # "unknown"

LEMMA SoundKept ==
    ASSUME TypeOK, TypeOK', RowsAdvance, FeedGrows, NEW v \in Nat, Sound(v)
    PROVE  Bounded(v)' /\ Covers(v)'
<1>1. PICK y \in Items : v <= rows[y].seq
  BY DEF Sound, Bounded
<1>2. PICK z \in Items : rows[y].seq <= rows'[z].seq
  BY DEF RowsAdvance
<1>3. \A x \in Items : rows[x].seq \in Nat /\ rows'[x].seq \in Nat
  BY DEF TypeOK, Row
<1>4. Bounded(v)'
  BY <1>1, <1>2, <1>3 DEF Bounded
<1>5. ASSUME NEW x \in Items, rows'[x].seq <= v
      PROVE  /\ rows'[x].st = "live" => feed'[x] # "unknown"
             /\ rows'[x].st = "tomb" /\ Warm => feed'[x] = "gone"
  <2>1. ~ (rows[y].seq < rows'[x].seq)
    BY <1>1, <1>3, <1>5
  <2>2. rows'[x] = rows[x] \/ rows'[x] = NoRow
    BY <2>1 DEF RowsAdvance
  <2>3. CASE rows'[x] = NoRow
    BY <2>3 DEF NoRow
  <2>4. CASE rows'[x] = rows[x]
    BY <1>5, <2>4 DEF Sound, Covers, FeedGrows
  <2> QED
    BY <2>2, <2>3, <2>4
<1> QED
  BY <1>4, <1>5 DEF Covers

LEMMA PageSoundKept ==
    ASSUME TypeOK, TypeOK', RowsAdvance, NEW p \in Pull, PageSound(p)
    PROVE  PageSound(p)'
<1>1. PICK y \in Items : p.next <= rows[y].seq
  BY DEF PageSound, Bounded
<1>2. PICK z \in Items : rows[y].seq <= rows'[z].seq
  BY DEF RowsAdvance
<1>3. /\ \A x \in Items : rows[x].seq \in Nat /\ rows'[x].seq \in Nat
      /\ p.from \in Nat /\ p.next \in Nat
  BY DEF TypeOK, Row, Pull
<1>4. Bounded(p.next)'
  BY <1>1, <1>2, <1>3 DEF Bounded
<1>5. ASSUME NEW x \in Items, p.from < rows'[x].seq, rows'[x].seq <= p.next
      PROVE  p.page[x] = rows'[x].st \/ (rows'[x].st = "tomb" /\ ~Warm)
  <2>1. ~ (rows[y].seq < rows'[x].seq)
    BY <1>1, <1>3, <1>5
  <2>2. rows'[x] # NoRow
    BY <1>3, <1>5 DEF NoRow
  <2>3. rows'[x] = rows[x]
    BY <2>1, <2>2 DEF RowsAdvance
  <2> QED
    BY <1>5, <2>3 DEF PageSound
<1> QED
  BY <1>4, <1>5 DEF PageSound

LEMMA InsertAdvances ==
    ASSUME TypeOK, NEW x \in Items, Insert(x)
    PROVE  RowsAdvance
<1>1. PICK s : IsNextSeq(s) /\ rows' = [rows EXCEPT ![x] = [st |-> "live", seq |-> s]]
  BY DEF Insert
<1>2. \A y \in Items : rows[y].seq < s
  BY <1>1 DEF IsNextSeq
<1>3. s \in Nat /\ \A y \in Items : rows[y].seq \in Nat
  BY <1>1, NewNumber DEF TypeOK, Row
<1>4. /\ rows'[x] = [st |-> "live", seq |-> s]
      /\ \A y \in Items \ {x} : rows'[y] = rows[y]
  BY <1>1 DEF TypeOK
<1> QED
  BY <1>2, <1>3, <1>4 DEF RowsAdvance

LEMMA SoftDeleteAdvances ==
    ASSUME TypeOK, NEW x \in Items, SoftDelete(x)
    PROVE  RowsAdvance /\ rows'[x].st = "tomb" /\ \A y \in Items \ {x} : rows'[y] = rows[y]
<1>1. CASE rows[x].st = "tomb" /\ UNCHANGED rows
  BY <1>1 DEF RowsAdvance, TypeOK, Row
<1>2. ASSUME NEW s, IsNextSeq(s), rows' = [rows EXCEPT ![x] = [st |-> "tomb", seq |-> s]]
      PROVE  RowsAdvance /\ rows'[x].st = "tomb" /\ \A y \in Items \ {x} : rows'[y] = rows[y]
  <2>1. \A y \in Items : rows[y].seq < s
    BY <1>2 DEF IsNextSeq
  <2>2. s \in Nat /\ \A y \in Items : rows[y].seq \in Nat
    BY <1>2, NewNumber DEF TypeOK, Row
  <2>3. /\ rows'[x] = [st |-> "tomb", seq |-> s]
        /\ \A y \in Items \ {x} : rows'[y] = rows[y]
    BY <1>2 DEF TypeOK
  <2> QED
    BY <2>1, <2>2, <2>3 DEF RowsAdvance
<1> QED
  BY <1>1, <1>2 DEF SoftDelete

\* Here the account must be active: otherwise the newest number goes back.
LEMMA PruneAdvances ==
    ASSUME TypeOK, ActiveAccount, NEW s \in Nat, PruneUpTo(s)
    PROVE  RowsAdvance
<1>1. \A y \in Items : rows[y].seq \in Nat
  BY DEF TypeOK, Row
<1>2. \A y \in Items : rows'[y] = IF y \in Expired(s) THEN NoRow ELSE rows[y]
  BY DEF PruneUpTo
<1>3. PICK z \in Items : rows[z].seq > s
  BY DEF PruneUpTo
<1>4. rows'[z] = rows[z]
  BY <1>1, <1>2, <1>3 DEF Expired
<1>5. ASSUME NEW y \in Items PROVE \E u \in Items : rows[y].seq <= rows'[u].seq
  <2>1. CASE y \in Expired(s)
    BY <1>1, <1>3, <1>4, <2>1 DEF Expired
  <2>2. CASE y \notin Expired(s)
    BY <1>1, <1>2, <2>2
  <2> QED
    BY <2>1, <2>2
<1> QED
  BY <1>2, <1>5 DEF RowsAdvance

-----------------------------------------------------------------------------
(***************************************************************************)
(* The inductive invariant.                                                *)
(***************************************************************************)

LEMMA IndInit == Init => IndInv
<1> SUFFICES ASSUME Init PROVE IndInv
  OBVIOUS
<1>1. TypeOK
  BY TypeInit
<1>2. \A x \in Items : rows[x] = NoRow \/ (x = Seed /\ rows[x] = [st |-> "live", seq |-> 1])
  BY DEF Init
<1>3. RowsNumbered
  BY <1>2 DEF RowsNumbered, NoRow
<1>4. DeletionsHold /\ Lifecycle
  BY DEF Init, DeletionsHold, Lifecycle, Syncing, Idle
<1>5. CachePassedOn
  BY DEF Init, CachePassedOn, NothingKnown
<1>6. WarmCursors
  BY DEF Init, WarmCursors, Syncing, Idle
<1>7. Sound(0)
  BY <1>2 DEF Sound, Bounded, Covers, NoRow
<1>8. Sound(saved)
  <2>1. CASE Warm
    <3>1. saved = 1 /\ rows[Seed] = [st |-> "live", seq |-> 1] /\ feed[Seed] = "shown"
      BY <2>1 DEF Init
    <3> QED
      BY <1>2, <3>1 DEF Sound, Bounded, Covers, NoRow
  <2>2. CASE ~Warm
    BY <1>7, <2>2 DEF Init
  <2> QED
    BY <2>1, <2>2
<1>9. CursorsSound
  BY <1>7, <1>8 DEF Init, CursorsSound, Idle
<1>10. PagesSound
  BY <1>2, <1>7 DEF Init, PagesSound, PageSound, Sound, Idle, NoRow
<1> QED
  BY <1>1, <1>3, <1>4, <1>5, <1>6, <1>9, <1>10 DEF IndInv

\* A step of the server: the rows advance, and of the device only channels and
\* requests change.
LEMMA ServerKeeps ==
    ASSUME IndInv, TypeOK', RowsAdvance, UNCHANGED localVars,
           RowsNumbered', DeletionsHold', CachePassedOn'
    PROVE  IndInv'
<1>1. FeedGrows
  BY DEF localVars, FeedGrows
<1>2. TypeOK
  BY DEF IndInv
<1>3. Lifecycle' /\ WarmCursors'
  BY DEF IndInv, Lifecycle, WarmCursors, Syncing, localVars
<1>4. CursorsSound'
  <2>1. saved' = saved /\ cursor' = cursor /\ pull' = pull
    BY DEF localVars
  <2>2. /\ saved \in Nat
        /\ \A e \in Engines : cursor[e] \in Nat /\ pull[e].from \in Nat
    BY <1>2 DEF TypeOK, Pull
  <2>3. \A v \in Nat : Sound(v) => Bounded(v)' /\ Covers(v)'
    BY <1>1, <1>2, SoundKept
  <2> QED
    BY <2>1, <2>2, <2>3 DEF IndInv, CursorsSound, Sound, Bounded, Covers
<1>5. PagesSound'
  <2>1. \A p \in Pull : PageSound(p) => PageSound(p)'
    BY <1>2, PageSoundKept
  <2>2. pull' = pull /\ \A e \in Engines : pull[e] \in Pull
    BY <1>2 DEF localVars, TypeOK
  <2> QED
    BY <2>1, <2>2 DEF IndInv, PagesSound, PageSound, Bounded
<1> QED
  BY <1>3, <1>4, <1>5 DEF IndInv

LEMMA InsertKeeps ==
    ASSUME IndInv, TypeOK', NEW x \in Items, Insert(x), Broadcast(New(x)),
           UNCHANGED localVars
    PROVE  IndInv'
<1>1. TypeOK
  BY DEF IndInv
<1>2. RowsAdvance
  BY <1>1, InsertAdvances
<1>3. /\ rows[x].st = "none"
      /\ rows'[x].seq > 0
      /\ \A y \in Items \ {x} : rows'[y] = rows[y]
  BY <1>1, NewNumber DEF Insert, TypeOK
<1>4. RowsNumbered'
  BY <1>3 DEF IndInv, RowsNumbered
<1>5. DeletionsHold'
  <2>1. \A e \in Engines, y \in Items :
            Del(y) \in chan'[e] \cup buffer'[e] => Del(y) \in chan[e] \cup buffer[e]
    BY <1>1 DEF Broadcast, localVars, Del, New, TypeOK
  <2> QED
    BY <1>3, <2>1 DEF IndInv, DeletionsHold
<1>6. CachePassedOn'
  BY <1>3 DEF IndInv, CachePassedOn, localVars
<1> QED
  BY <1>2, <1>4, <1>5, <1>6, ServerKeeps

LEMMA SoftDeleteKeeps ==
    ASSUME IndInv, TypeOK', NEW x \in Items, SoftDelete(x), Broadcast(Del(x)),
           UNCHANGED localVars
    PROVE  IndInv'
<1>1. TypeOK
  BY DEF IndInv
<1>2. RowsAdvance /\ rows'[x].st = "tomb" /\ \A y \in Items \ {x} : rows'[y] = rows[y]
  BY <1>1, SoftDeleteAdvances
<1>3. rows'[x].seq > 0
  <2>1. CASE UNCHANGED rows
    BY <1>2, <2>1 DEF IndInv, RowsNumbered
  <2>2. CASE ~ UNCHANGED rows
    BY <1>1, <2>2, NewNumber DEF SoftDelete, TypeOK
  <2> QED
    BY <2>1, <2>2
<1>4. RowsNumbered'
  BY <1>2, <1>3 DEF IndInv, RowsNumbered
<1>5. DeletionsHold'
  <2>1. \A e \in Engines, y \in Items \ {x} :
            Del(y) \in chan'[e] \cup buffer'[e] => Del(y) \in chan[e] \cup buffer[e]
    BY <1>1 DEF Broadcast, localVars, Del, TypeOK
  <2> QED
    BY <1>2, <2>1 DEF IndInv, DeletionsHold
<1>6. CachePassedOn'
  BY <1>2 DEF IndInv, CachePassedOn, localVars
<1> QED
  BY <1>2, <1>4, <1>5, <1>6, ServerKeeps

\* Nothing that would make it matter is under way for an item that is pruned.
LEMMA PruneKeeps ==
    ASSUME IndInv, TypeOK', ActiveAccount, NEW s \in Nat, Prune(s)
    PROVE  IndInv'
<1>1. TypeOK
  BY DEF IndInv
<1>2. RowsAdvance /\ UNCHANGED localVars /\ UNCHANGED chan
  BY <1>1, PruneAdvances DEF Prune
<1>3. \A y \in Items : rows'[y] = IF y \in Expired(s) THEN NoRow ELSE rows[y]
  BY DEF Prune, PruneUpTo
<1>4. RowsNumbered'
  BY <1>3 DEF IndInv, RowsNumbered, NoRow
<1>5. DeletionsHold'
  <2>1. \A e \in Engines, y \in Items :
            Del(y) \in chan[e] \cup buffer[e] => rows[y].st = "tomb" /\ InFlight(y)
    BY DEF IndInv, DeletionsHold, InFlight
  <2>2. \A y \in Items : InFlight(y) => rows'[y] = rows[y]
    BY <1>3 DEF Prune
  <2>3. chan' = chan /\ buffer' = buffer
    BY <1>2 DEF localVars
  <2> QED
    BY <2>1, <2>2, <2>3 DEF DeletionsHold
<1>6. CachePassedOn'
  <2>1. \A e \in Engines, y \in Items :
            cache[e][y] = "shown" /\ feed[y] = "unknown" => InFlight(y)
    BY DEF InFlight
  <2>2. \A y \in Items : InFlight(y) => rows'[y] = rows[y]
    BY <1>3 DEF Prune
  <2>3. cache' = cache /\ feed' = feed
    BY <1>2 DEF localVars
  <2> QED
    BY <2>1, <2>2, <2>3 DEF IndInv, CachePassedOn
<1> QED
  BY <1>2, <1>4, <1>5, <1>6, ServerKeeps

-----------------------------------------------------------------------------
(***************************************************************************)
(* Steps that leave the rows alone.                                        *)
(***************************************************************************)

LEMMA RowsStay ==
    ASSUME TypeOK, UNCHANGED rows
    PROVE  RowsAdvance
BY DEF RowsAdvance, TypeOK, Row

\* v covers its changes after a step that leaves the rows alone.
SoundNext(v) == Bounded(v) /\ \A x \in Items :
    rows[x].seq <= v => /\ rows[x].st = "live" => feed'[x] # "unknown"
                        /\ rows[x].st = "tomb" /\ Warm => feed'[x] = "gone"

\* What is left to show when the rows stay and the feed grows: that the cursors
\* and pages after the step were sound before it, or are made so by it.
LEMMA LocalKeeps ==
    ASSUME IndInv, TypeOK', UNCHANGED rows, FeedGrows,
           DeletionsHold', CachePassedOn', Lifecycle', WarmCursors',
           Sound(saved'),
           \A e \in Engines : /\ Sound(cursor'[e])
                              /\ Sound(pull'[e].from) \/ SoundNext(pull'[e].from)
                              /\ PageSound(pull'[e])
    PROVE  IndInv'
<1>1. TypeOK /\ RowsAdvance
  BY RowsStay DEF IndInv
<1>2. RowsNumbered'
  BY DEF IndInv, RowsNumbered
<1>3. saved' \in Nat /\ \A e \in Engines : cursor'[e] \in Nat /\ pull'[e].from \in Nat
  BY DEF TypeOK, Pull
<1>4. \A v \in Nat : Sound(v) => SoundNext(v)
  BY DEF FeedGrows, Sound, SoundNext, Covers
<1>5. SoundNext(saved') /\ \A e \in Engines : SoundNext(cursor'[e]) /\ SoundNext(pull'[e].from)
  BY <1>3, <1>4
<1>6. CursorsSound'
  BY <1>5 DEF CursorsSound, Sound, SoundNext, Bounded, Covers
<1>7. PagesSound'
  BY DEF PagesSound, PageSound, Bounded
<1> QED
  BY <1>2, <1>6, <1>7 DEF IndInv

\* A cursor of 0, an idle instance and a request are sound.
LEMMA NewPullSound ==
    ASSUME IndInv
    PROVE  /\ Sound(0)
           /\ PageSound(Idle) /\ Sound(Idle.from)
           /\ \A c \in Nat : PageSound(Request(c)) /\ Request(c).from = c
<1>1. \A x \in Items : rows[x].seq \in Nat
  BY DEF IndInv, TypeOK, Row
<1>2. Sound(0)
  BY <1>1 DEF IndInv, RowsNumbered, Sound, Bounded, Covers, TypeOK, Row
<1>3. \A p : p.next = 0 /\ p.from \in Nat => PageSound(p)
  BY <1>1 DEF PageSound, Bounded
<1>4. \A c \in Nat : PageSound(Request(c)) /\ Request(c).from = c
  BY <1>3 DEF Request
<1> QED
  BY <1>2, <1>3, <1>4 DEF Idle

\* What a step that passes items through the cache of an instance does.
LEMMA HearKeeps ==
    ASSUME IndInv, UNCHANGED rows, NEW e \in Engines, NEW new, NEW dead, NEW hidden,
           Hear(e, new, dead, hidden),
           \A x \in hidden : x \in Items => rows[x].st = "tomb"
    PROVE  /\ FeedGrows /\ CachePassedOn'
           /\ \A x \in Items : /\ x \in dead => feed'[x] = "gone"
                               /\ x \in new => feed'[x] # "unknown" \/ rows[x].st = "tomb"
<1>1. TypeOK
  BY DEF IndInv
<1> DEFINE toFeed == {x \in new \ hidden : cache[e][x] = "unknown"}
           deadToFeed == {x \in dead : cache[e][x] # "gone"}
<1>2. /\ feed' = Learn(feed, toFeed, deadToFeed)
      /\ cache' = [cache EXCEPT ![e] = Learn(cache[e], new, dead)]
  BY DEF Hear
<1>3. \A x \in Items :
          /\ feed[x] = "gone" => feed'[x] = "gone"
          /\ feed[x] # "unknown" => feed'[x] # "unknown"
          /\ x \in deadToFeed => feed'[x] = "gone"
          /\ x \in toFeed => feed'[x] # "unknown"
  <2>1. feed \in [Items -> View]
    BY <1>1 DEF TypeOK
  <2> HIDE DEF toFeed, deadToFeed
  <2> QED
    BY <1>2, <2>1, LearnGrows
<1>4. FeedGrows
  BY <1>3 DEF FeedGrows
<1>5. \A x \in Items :
          /\ cache'[e][x] = "gone" => cache[e][x] = "gone" \/ x \in dead
          /\ cache'[e][x] = "shown" =>
                 cache[e][x] = "shown" \/ (x \in new /\ cache[e][x] = "unknown")
  <2>1. cache[e] \in [Items -> View] /\ cache'[e] = Learn(cache[e], new, dead)
    BY <1>1, <1>2 DEF TypeOK
  <2> QED
    BY <2>1, LearnGrows
<1>6. \A x \in Items : x \in dead => feed'[x] = "gone"
  BY <1>3 DEF IndInv, CachePassedOn
<1>7. \A x \in Items : x \in new => feed'[x] # "unknown" \/ rows[x].st = "tomb"
  <2>1. \A x \in Items : cache[e][x] \in View
    BY <1>1 DEF TypeOK
  <2> QED
    BY <1>3, <2>1 DEF IndInv, CachePassedOn, View
<1>8. CachePassedOn'
  <2>1. ASSUME NEW f \in Engines, NEW x \in Items
        PROVE  /\ cache'[f][x] = "gone" => feed'[x] = "gone"
               /\ cache'[f][x] = "shown" /\ feed'[x] = "unknown" => rows'[x].st = "tomb"
    <3>1. CASE f = e
      BY <1>3, <1>5, <1>6, <1>7, <3>1 DEF IndInv, CachePassedOn
    <3>2. CASE f # e
      <4>1. cache'[f] = cache[f]
        BY <1>1, <1>2, <3>2 DEF TypeOK
      <4> QED
        BY <1>3, <4>1 DEF IndInv, CachePassedOn
    <3> QED
      BY <3>1, <3>2
  <2> QED
    BY <2>1 DEF CachePassedOn
<1> QED
  BY <1>4, <1>6, <1>7, <1>8

\* Steps that disturb neither cursors and pulls nor cache and feed.
LEMMA SocketKeeps ==
    ASSUME IndInv, TypeOK', UNCHANGED <<rows, saved, feed, cursor, cache, pull>>,
           DeletionsHold', Lifecycle', WarmCursors'
    PROVE  IndInv'
<1>1. FeedGrows /\ CachePassedOn'
  BY DEF IndInv, CachePassedOn, FeedGrows
<1>2. /\ Sound(saved')
      /\ \A e \in Engines : Sound(cursor'[e]) /\ Sound(pull'[e].from) /\ PageSound(pull'[e])
  BY DEF IndInv, CursorsSound, PagesSound
<1> QED
  BY <1>1, <1>2, LocalKeeps

LEMMA EnvironmentKeeps ==
    ASSUME IndInv, TypeOK',
           \/ Revoke
           \/ \E e \in Engines : Drop(e)
           \/ \E r \in replies : ReplyLost(r)
           \/ \E x \in Items : OwnPost(x) /\ UNCHANGED <<rows, chan>>
    PROVE  IndInv'
<1>1. UNCHANGED <<rows, saved, feed, cursor, cache, pull, loading, stopped, buffer, retry, chan>>
  BY DEF Revoke, Drop, ReplyLost, OwnPost, engineVars, localVars
<1>2. DeletionsHold'
  BY <1>1 DEF IndInv, DeletionsHold
<1>3. \A e \in Engines : sock'[e] = sock[e] \/ (sock[e] # "none" /\ sock'[e] = "dead")
  <2>1. CASE Revoke
    BY <2>1 DEF Revoke, Registered
  <2>2. CASE \E e \in Engines : Drop(e)
    BY <2>2 DEF Drop, Registered, IndInv, TypeOK
  <2>3. CASE sock' = sock
    BY <2>3
  <2> QED
    BY <2>1, <2>2, <2>3 DEF ReplyLost, OwnPost, engineVars, localVars
<1>4. Lifecycle' /\ WarmCursors'
  BY <1>1, <1>3 DEF IndInv, Lifecycle, WarmCursors, Syncing
<1> QED
  BY <1>1, <1>2, <1>4, SocketKeeps

LEMMA WakeKeeps ==
    ASSUME IndInv, TypeOK', NEW e \in Engines, Wake(e)
    PROVE  IndInv'
<1>1. TypeOK /\ UNCHANGED <<rows, saved, feed, pull, sock, chan, retry>>
  BY DEF IndInv, Wake
<1>2. /\ cache' = [cache EXCEPT ![e] = NothingKnown] /\ cursor' = [cursor EXCEPT ![e] = 0]
      /\ loading' = [loading EXCEPT ![e] = TRUE] /\ stopped' = [stopped EXCEPT ![e] = FALSE]
      /\ buffer' = [buffer EXCEPT ![e] = {}]
      /\ stopped[e] /\ ~ Syncing(e) /\ sock[e] = "none"
  BY DEF Wake, Inert
<1>3. DeletionsHold' /\ FeedGrows
  BY <1>1, <1>2 DEF IndInv, DeletionsHold, FeedGrows, TypeOK
<1>4. CachePassedOn'
  BY <1>1, <1>2 DEF IndInv, CachePassedOn, NothingKnown, TypeOK
<1>5. ~ retry[e]
  BY <1>2 DEF IndInv, Lifecycle
<1>6. Lifecycle'
  BY <1>1, <1>2, <1>5 DEF IndInv, Lifecycle, Syncing, TypeOK
<1>7. WarmCursors'
  BY <1>1, <1>2, <1>5 DEF IndInv, WarmCursors, Syncing, TypeOK
<1>8. /\ Sound(saved')
      /\ \A f \in Engines : Sound(cursor'[f]) /\ Sound(pull'[f].from) /\ PageSound(pull'[f])
  BY <1>1, <1>2, NewPullSound DEF IndInv, CursorsSound, PagesSound, TypeOK
<1> QED
  BY <1>1, <1>3, <1>4, <1>6, <1>7, <1>8, LocalKeeps

LEMMA SleepKeeps ==
    ASSUME IndInv, TypeOK', Sleep
    PROVE  IndInv'
<1>1. /\ TypeOK /\ current \in Engines
      /\ UNCHANGED <<rows, saved, feed, cursor, cache, pull, loading, buffer>>
  BY DEF IndInv, Sleep, TypeOK
<1>2. /\ stopped' = [stopped EXCEPT ![current] = TRUE]
      /\ retry' = [retry EXCEPT ![current] = FALSE]
      /\ sock' = [sock EXCEPT ![current] = "none"]
      /\ chan' = [chan EXCEPT ![current] = {}]
  BY DEF Sleep, Stop
<1>3. DeletionsHold'
  BY <1>1, <1>2 DEF IndInv, DeletionsHold, TypeOK
<1>4. Lifecycle' /\ WarmCursors'
  BY <1>1, <1>2 DEF IndInv, Lifecycle, WarmCursors, Syncing, TypeOK
<1> QED
  BY <1>1, <1>3, <1>4, SocketKeeps

LEMMA ReplyKeeps ==
    ASSUME IndInv, TypeOK',
           (\E r \in replies : Reply(r)) \/ (\E x \in Items : RemoveAsleep(x))
    PROVE  IndInv'
<1>1. TypeOK /\ UNCHANGED <<rows, saved, engineVars>>
  BY DEF IndInv, Reply, RemoveAsleep
<1>2. FeedGrows
  <2>1. PICK new, dead : feed' = Learn(feed, new, dead)
    BY DEF Reply, RemoveAsleep
  <2>2. feed \in [Items -> View]
    BY <1>1 DEF TypeOK
  <2> QED
    BY <2>1, <2>2, LearnGrows DEF FeedGrows
<1>3. DeletionsHold' /\ Lifecycle' /\ WarmCursors'
  BY <1>1 DEF IndInv, DeletionsHold, Lifecycle, WarmCursors, Syncing, engineVars
<1>4. CachePassedOn'
  BY <1>1, <1>2 DEF IndInv, CachePassedOn, FeedGrows, engineVars
<1>5. /\ Sound(saved')
      /\ \A e \in Engines : Sound(cursor'[e]) /\ Sound(pull'[e].from) /\ PageSound(pull'[e])
  BY <1>1 DEF IndInv, CursorsSound, PagesSound, engineVars
<1> QED
  BY <1>1, <1>2, <1>3, <1>4, <1>5, LocalKeeps

LEMMA CrashKeeps ==
    ASSUME IndInv, TypeOK', Crash
    PROVE  IndInv'
<1>1. UNCHANGED <<rows, saved, feed>>
  BY DEF Crash
<1>2. \A e \in Engines : /\ ~loading'[e] /\ stopped'[e] /\ ~retry'[e]
                         /\ cursor'[e] = 0 /\ pull'[e] = Idle /\ sock'[e] = "none"
                         /\ chan'[e] = {} /\ buffer'[e] = {} /\ cache'[e] = NothingKnown
  BY DEF Crash
<1>3. DeletionsHold' /\ FeedGrows
  BY <1>1, <1>2 DEF DeletionsHold, FeedGrows
<1>4. CachePassedOn'
  BY <1>2 DEF CachePassedOn, NothingKnown
<1>5. Lifecycle' /\ WarmCursors'
  BY <1>1, <1>2 DEF IndInv, Lifecycle, WarmCursors, Syncing, Idle
<1>6. /\ Sound(saved')
      /\ \A e \in Engines : Sound(cursor'[e]) /\ Sound(pull'[e].from) /\ PageSound(pull'[e])
  BY <1>1, <1>2, NewPullSound DEF IndInv, CursorsSound
<1> QED
  BY <1>1, <1>3, <1>4, <1>5, <1>6, LocalKeeps

LEMMA StartedKeeps ==
    ASSUME IndInv, TypeOK', NEW e \in Engines, Started(e)
    PROVE  IndInv'
<1>1. TypeOK /\ UNCHANGED <<rows, saved, feed, stopped, cache, buffer, retry, pull, chan>>
  BY DEF IndInv, Started
<1>2. /\ loading[e] /\ loading' = [loading EXCEPT ![e] = FALSE]
      /\ cursor' = [cursor EXCEPT ![e] = saved] /\ sock' = [sock EXCEPT ![e] = "down"]
  BY DEF Started
<1>3. DeletionsHold' /\ CachePassedOn' /\ FeedGrows
  BY <1>1 DEF IndInv, DeletionsHold, CachePassedOn, FeedGrows
<1>4. Lifecycle' /\ WarmCursors'
  BY <1>1, <1>2 DEF IndInv, Lifecycle, WarmCursors, Syncing, TypeOK
<1>5. /\ Sound(saved')
      /\ \A f \in Engines : Sound(cursor'[f]) /\ Sound(pull'[f].from) /\ PageSound(pull'[f])
  BY <1>1, <1>2 DEF IndInv, CursorsSound, PagesSound, TypeOK
<1> QED
  BY <1>1, <1>3, <1>4, <1>5, LocalKeeps

LEMMA ConnectionKeeps ==
    ASSUME IndInv, TypeOK', NEW e \in Engines, Accept(e) \/ Close(e)
    PROVE  IndInv'
<1>1. TypeOK /\ UNCHANGED <<rows, saved, feed, cursor, cache, pull, loading, stopped, retry, buffer>>
  BY DEF IndInv, Accept, Close
<1>2. \A f \in Engines : /\ chan'[f] \subseteq chan[f]
                         /\ sock'[f] # "none" => sock[f] # "none"
                         /\ sock[f] = "none" => sock'[f] = "none"
  BY <1>1 DEF Accept, Close, TypeOK
<1>3. DeletionsHold'
  BY <1>1, <1>2 DEF IndInv, DeletionsHold
<1>4. Lifecycle' /\ WarmCursors'
  BY <1>1, <1>2 DEF IndInv, Lifecycle, WarmCursors, Syncing
<1> QED
  BY <1>1, <1>3, <1>4, SocketKeeps

LEMMA MessageKeeps ==
    ASSUME IndInv, TypeOK', NEW e \in Engines, NEW ev \in Event, Message(e, ev)
    PROVE  IndInv'
<1>1. /\ TypeOK /\ ev \in chan[e]
      /\ UNCHANGED <<rows, saved, loading, stopped, cursor, retry, pull, sock>>
      /\ chan' = [chan EXCEPT ![e] = @ \ {ev}]
  BY DEF IndInv, Message
<1>2. DeletionsHold'
  <2>1. \A f \in Engines : chan'[f] \cup buffer'[f] \subseteq chan[f] \cup buffer[f]
    BY <1>1 DEF Message, TypeOK
  <2> QED
    BY <1>1, <2>1 DEF IndInv, DeletionsHold
<1>3. FeedGrows /\ CachePassedOn'
  <2>1. CASE Syncing(e)
    BY <1>1, <2>1 DEF Message, IndInv, CachePassedOn, FeedGrows
  <2>2. CASE ~ Syncing(e)
    BY <1>1, <2>2, HearKeeps DEF Message
  <2> QED
    BY <2>1, <2>2
<1>4. Lifecycle' /\ WarmCursors'
  BY <1>1 DEF IndInv, Lifecycle, WarmCursors, Syncing
<1>5. /\ Sound(saved')
      /\ \A f \in Engines : Sound(cursor'[f]) /\ Sound(pull'[f].from) /\ PageSound(pull'[f])
  BY <1>1 DEF IndInv, CursorsSound, PagesSound
<1> QED
  BY <1>1, <1>2, <1>3, <1>4, <1>5, LocalKeeps

\* A pull starts at the cursor of the instance.
LEMMA ResyncKeeps ==
    ASSUME IndInv, TypeOK', NEW e \in Engines, Open(e) \/ RetryTimer(e)
    PROVE  IndInv'
<1>1. /\ TypeOK /\ Resync(e)
      /\ UNCHANGED <<rows, saved, feed, loading, stopped, cursor, cache, chan>>
      /\ sock[e] # "none" \/ retry[e]
  BY DEF IndInv, Open, RetryTimer
<1>2. \A f \in Engines : sock'[f] # "none" <=> sock[f] # "none"
  BY <1>1 DEF Open, RetryTimer, TypeOK
<1>3. retry' = [retry EXCEPT ![e] = FALSE]
  BY <1>1 DEF Resync
<1>4. \A f \in Engines : \/ pull'[f] = pull[f] /\ buffer'[f] = buffer[f]
                         \/ f = e /\ pull'[f] = Request(cursor[f]) /\ buffer'[f] = {}
  BY <1>1 DEF Resync, TypeOK
<1>5. DeletionsHold'
  BY <1>1, <1>4 DEF IndInv, DeletionsHold
<1>6. FeedGrows /\ CachePassedOn'
  BY <1>1 DEF IndInv, CachePassedOn, FeedGrows
<1>7. ~ loading[e]
  BY <1>1 DEF IndInv, Lifecycle
<1>8. Lifecycle'
  BY <1>1, <1>2, <1>3, <1>4, <1>7 DEF IndInv, Lifecycle, Syncing, TypeOK
<1>9. WarmCursors'
  <2>1. Warm => cursor[e] > 0
    BY <1>1 DEF IndInv, WarmCursors
  <2>2. \A f \in Engines : /\ pull'[f].at # "idle" => pull[f].at # "idle" \/ f = e
                           /\ pull'[f].from = pull[f].from \/ (f = e /\ pull'[f].from = cursor[f])
                           /\ retry'[f] => retry[f]
    BY <1>1, <1>3, <1>4 DEF Request, TypeOK
  <2> QED
    <3> SUFFICES ASSUME Warm, NEW f \in Engines
                 PROVE  /\ sock'[f] # "none" \/ retry'[f] \/ pull'[f].at # "idle" => cursor[f] > 0
                        /\ pull'[f].at # "idle" => pull'[f].from > 0
      BY <1>1 DEF IndInv, WarmCursors, Syncing
    <3>1. CASE f = e
      <4>1. CASE pull'[e] = pull[e]
        BY <2>1, <3>1, <4>1 DEF IndInv, WarmCursors, Syncing
      <4>2. CASE pull'[e] = Request(cursor[e])
        BY <2>1, <3>1, <4>2 DEF Request
      <4> QED
        BY <1>4, <4>1, <4>2
    <3>2. CASE f # e
      BY <1>2, <1>4, <2>2, <3>2 DEF IndInv, WarmCursors, Syncing
    <3> QED
      BY <3>1, <3>2
<1>10. /\ Sound(saved')
       /\ \A f \in Engines : Sound(cursor'[f]) /\ Sound(pull'[f].from) /\ PageSound(pull'[f])
  <2>1. \A f \in Engines : cursor[f] \in Nat
    BY <1>1 DEF TypeOK
  <2> QED
    BY <1>1, <1>4, <2>1, NewPullSound DEF IndInv, CursorsSound, PagesSound
<1> QED
  BY <1>1, <1>5, <1>6, <1>8, <1>9, <1>10, LocalKeeps

\* The server's answer to a pull.
LEMMA ServeListKeeps ==
    ASSUME IndInv, TypeOK', NEW e \in Engines, ServeList(e)
    PROVE  IndInv'
<1>1. /\ TypeOK /\ Syncing(e) /\ pull[e].from \in Nat
      /\ UNCHANGED <<rows, saved, feed, loading, stopped, cursor, cache, buffer, retry, sock, chan>>
  BY DEF IndInv, ServeList, Syncing, TypeOK, Pull
<1> DEFINE p == pull'[e]
<1>2. /\ pull' = [pull EXCEPT ![e] = p]
      /\ p.at = "answered" /\ p.from = pull[e].from
      /\ \/ p.next = 0
         \/ /\ \E x \in Listed(p.from) : rows[x].seq = p.next
            /\ p.page = Page(p.from, p.next)
  <2>1. CASE \E n \in {rows[x].seq : x \in Listed(pull[e].from)} :
               /\ IsPageEnd(pull[e].from, n)
               /\ pull' = [pull EXCEPT ![e] = [at |-> "answered", from |-> pull[e].from,
                                               page |-> Page(pull[e].from, n), next |-> n]]
    BY <1>1, <2>1 DEF TypeOK
  <2>2. CASE pull' = [pull EXCEPT ![e] = [at |-> "answered", from |-> pull[e].from,
                                          page |-> EmptyPage, next |-> 0]]
    BY <1>1, <2>2 DEF TypeOK
  <2> QED
    BY <2>1, <2>2 DEF ServeList
<1> HIDE DEF p
<1>3. \A f \in Engines : pull'[f] = pull[f] \/ (f = e /\ pull'[f] = p)
  BY <1>1, <1>2 DEF TypeOK, p
<1>4. DeletionsHold' /\ FeedGrows /\ CachePassedOn'
  BY <1>1 DEF IndInv, DeletionsHold, CachePassedOn, FeedGrows
<1>5. Lifecycle' /\ WarmCursors'
  BY <1>1, <1>2, <1>3 DEF IndInv, Lifecycle, WarmCursors, Syncing
<1>6. PageSound(p)
  <2>1. \A x \in Items : rows[x].seq \in Nat
    BY <1>1 DEF TypeOK, Row
  <2>2. CASE p.next = 0
    BY <1>1, <1>2, <2>1, <2>2 DEF PageSound, Bounded
  <2>3. CASE /\ \E x \in Listed(p.from) : rows[x].seq = p.next
             /\ p.page = Page(p.from, p.next)
    <3>1. Bounded(p.next)
      BY <2>1, <2>3 DEF Bounded, Listed
    <3>2. ASSUME NEW x \in Items, p.from < rows[x].seq, rows[x].seq <= p.next
          PROVE  p.page[x] = rows[x].st \/ (rows[x].st = "tomb" /\ ~Warm)
      <4>1. Warm => p.from # 0
        BY <1>1, <1>2 DEF IndInv, WarmCursors
      <4>2. CASE x \in Listed(p.from)
        BY <2>3, <3>2, <4>2 DEF Page
      <4>3. CASE x \notin Listed(p.from)
        BY <1>1, <1>2, <2>1, <2>3, <3>2, <4>1, <4>3 DEF Listed, Page, TypeOK, Row
      <4> QED
        BY <4>2, <4>3
    <3> QED
      BY <3>1, <3>2 DEF PageSound
  <2> QED
    BY <1>2, <2>2, <2>3
<1>7. /\ Sound(saved')
      /\ \A f \in Engines : Sound(cursor'[f]) /\ Sound(pull'[f].from) /\ PageSound(pull'[f])
  BY <1>1, <1>2, <1>3, <1>6 DEF IndInv, CursorsSound, PagesSound
<1> QED
  BY <1>1, <1>4, <1>5, <1>7, LocalKeeps

\* A page has been read: the next request's cursor covers what the page said, as
\* deletions in the buffer are of tombstones.
LEMMA ReadPageKeeps ==
    ASSUME IndInv, TypeOK', NEW e \in Engines, ReadPage(e)
    PROVE  IndInv'
<1> DEFINE new == {x \in Items : pull[e].page[x] = "live"}
           dead == {x \in Items : pull[e].page[x] = "tomb"}
           p == Request(pull[e].next)
<1>1. /\ TypeOK /\ Syncing(e) /\ pull[e] \in Pull /\ pull[e].next # 0
      /\ UNCHANGED <<rows, saved, loading, stopped, cursor, buffer, retry, sock, chan>>
      /\ Hear(e, new, dead, Hidden(e))
      /\ pull' = [pull EXCEPT ![e] = p]
  BY DEF IndInv, ReadPage, Syncing, TypeOK
<1>2. \A x \in Hidden(e) : x \in Items => rows[x].st = "tomb"
  BY DEF Hidden, Deleted, IndInv, DeletionsHold
<1>3. /\ FeedGrows /\ CachePassedOn'
      /\ \A x \in Items : /\ x \in dead => feed'[x] = "gone"
                          /\ x \in new => feed'[x] # "unknown" \/ rows[x].st = "tomb"
  <2> HIDE DEF new, dead
  <2> QED
    BY <1>1, <1>2, HearKeeps
<1>4. DeletionsHold'
  BY <1>1 DEF IndInv, DeletionsHold
<1>5. \A f \in Engines : pull'[f] = pull[f] \/ (f = e /\ pull'[f] = p)
  BY <1>1 DEF TypeOK
<1>6. pull[e].next \in Nat /\ pull[e].next > 0 /\ p.from = pull[e].next /\ p.next = 0
  BY <1>1 DEF Pull, Request
<1>7. Lifecycle'
  BY <1>1, <1>5 DEF IndInv, Lifecycle, Syncing
<1>8. WarmCursors'
  BY <1>1, <1>5, <1>6 DEF IndInv, WarmCursors, Syncing
<1>9. SoundNext(p.from)
  <2>1. Bounded(p.from)
    BY <1>6 DEF IndInv, PagesSound, PageSound
  <2>2. ASSUME NEW x \in Items, rows[x].seq <= p.from
        PROVE  /\ rows[x].st = "live" => feed'[x] # "unknown"
               /\ rows[x].st = "tomb" /\ Warm => feed'[x] = "gone"
    <3>1. rows[x].seq \in Nat /\ pull[e].from \in Nat
      BY <1>1 DEF TypeOK, Row, Pull
    <3>2. CASE rows[x].seq <= pull[e].from
      <4>1. Covers(pull[e].from)
        BY DEF IndInv, CursorsSound, Sound
      <4> QED
        BY <1>3, <3>2, <4>1 DEF Covers, FeedGrows
    <3>3. CASE pull[e].from < rows[x].seq
      <4>1. pull[e].page[x] = rows[x].st \/ (rows[x].st = "tomb" /\ ~Warm)
        BY <1>6, <2>2, <3>3 DEF IndInv, PagesSound, PageSound
      <4> QED
        BY <1>3, <4>1
    <3> QED
      BY <3>1, <3>2, <3>3
  <2> QED
    BY <2>1, <2>2 DEF SoundNext
<1>10. PageSound(p)
  BY <1>6, NewPullSound
<1>11. /\ Sound(saved')
       /\ \A f \in Engines : /\ Sound(cursor'[f])
                             /\ Sound(pull'[f].from) \/ SoundNext(pull'[f].from)
                             /\ PageSound(pull'[f])
  BY <1>1, <1>5, <1>9, <1>10 DEF IndInv, CursorsSound, PagesSound
<1> QED
  BY <1>1, <1>3, <1>4, <1>7, <1>8, <1>11, LocalKeeps

LEMMA ReadLastPageKeeps ==
    ASSUME IndInv, TypeOK', NEW e \in Engines, ReadLastPage(e)
    PROVE  IndInv'
<1>1. /\ TypeOK /\ Syncing(e) /\ pull[e].next = 0
      /\ UNCHANGED <<rows, saved, feed, loading, stopped, cache, buffer, retry, sock, chan>>
      /\ cursor' = [cursor EXCEPT ![e] = pull[e].from]
      /\ pull' = [pull EXCEPT ![e].at = "saving"]
  BY DEF IndInv, ReadLastPage, Syncing
<1>2. /\ pull'[e].from = pull[e].from /\ pull'[e].next = 0 /\ pull'[e].at = "saving"
      /\ \A f \in Engines : f # e => pull'[f] = pull[f] /\ cursor'[f] = cursor[f]
      /\ cursor'[e] = pull[e].from
      /\ pull[e].from \in Nat
  BY <1>1 DEF TypeOK, Pull
<1>3. DeletionsHold' /\ FeedGrows /\ CachePassedOn'
  BY <1>1 DEF IndInv, DeletionsHold, CachePassedOn, FeedGrows
<1>4. Lifecycle'
  BY <1>1, <1>2 DEF IndInv, Lifecycle, Syncing
<1>5. WarmCursors'
  BY <1>1, <1>2 DEF IndInv, WarmCursors, Syncing
<1>6. PageSound(pull'[e])
  <2>1. \A x \in Items : rows[x].seq \in Nat
    BY <1>1 DEF TypeOK, Row
  <2> QED
    BY <1>2, <2>1 DEF PageSound, Bounded
<1>7. /\ Sound(saved')
      /\ \A f \in Engines : Sound(cursor'[f]) /\ Sound(pull'[f].from) /\ PageSound(pull'[f])
  BY <1>1, <1>2, <1>6 DEF IndInv, CursorsSound, PagesSound
<1> QED
  BY <1>1, <1>3, <1>4, <1>5, <1>7, LocalKeeps

\* The pull ends: its instance is idle, or asks again from its cursor.
LEMMA FinishKeeps ==
    ASSUME IndInv, TypeOK', NEW e \in Engines, NothingNew(e) \/ CursorSaved(e)
    PROVE  IndInv'
<1>1. /\ TypeOK /\ Syncing(e) /\ Finish(e)
      /\ UNCHANGED <<rows, loading, stopped, cursor, retry, sock, chan>>
      /\ saved' = saved \/ saved' = cursor[e]
      /\ \A f \in Engines : cursor[f] \in Nat
  BY DEF IndInv, NothingNew, CursorSaved, Syncing, TypeOK
<1>2. FeedGrows /\ CachePassedOn'
  <2>1. CASE stopped[e]
    BY <1>1, <2>1 DEF Finish, IndInv, CachePassedOn, FeedGrows
  <2>2. CASE ~ stopped[e]
    BY <1>1, <2>2, HearKeeps DEF Finish
  <2> QED
    BY <2>1, <2>2
<1>3. DeletionsHold'
  <2>1. \A f \in Engines : buffer'[f] \subseteq buffer[f]
    BY <1>1 DEF Finish, TypeOK
  <2> QED
    BY <1>1, <2>1 DEF IndInv, DeletionsHold
<1>4. /\ \A f \in Engines : f # e => pull'[f] = pull[f]
      /\ pull'[e] = Idle \/ pull'[e] = Request(cursor[e])
  BY <1>1 DEF Finish, TypeOK
<1>5. ~ loading[e] /\ (Warm => cursor[e] > 0)
  BY <1>1 DEF IndInv, Lifecycle, WarmCursors
<1>6. Lifecycle'
  BY <1>1, <1>4, <1>5 DEF IndInv, Lifecycle, Syncing
<1>7. WarmCursors'
  <2>1. pull'[e].at # "idle" => pull'[e].from = cursor[e]
    BY <1>4 DEF Idle, Request
  <2>2. Warm => saved' > 0
    BY <1>1, <1>5 DEF IndInv, WarmCursors
  <2>3. ASSUME Warm, NEW f \in Engines
        PROVE  /\ sock'[f] # "none" \/ retry'[f] \/ pull'[f].at # "idle" => cursor'[f] > 0
               /\ pull'[f].at # "idle" => pull'[f].from > 0
    <3>1. CASE f = e
      BY <1>1, <1>5, <2>1, <2>3, <3>1
    <3>2. CASE f # e
      BY <1>1, <1>4, <2>3, <3>2 DEF IndInv, WarmCursors, Syncing
    <3> QED
      BY <3>1, <3>2
  <2> QED
    BY <2>2, <2>3 DEF WarmCursors, Syncing
<1>8. /\ Sound(saved')
      /\ \A f \in Engines : Sound(cursor'[f]) /\ Sound(pull'[f].from) /\ PageSound(pull'[f])
  BY <1>1, <1>4, NewPullSound DEF IndInv, CursorsSound, PagesSound
<1> QED
  BY <1>1, <1>2, <1>3, <1>6, <1>7, <1>8, LocalKeeps

\* The pull fails: its instance is idle.
LEMMA PullFailureKeeps ==
    ASSUME IndInv, TypeOK', NEW e \in Engines, PullFails(e) \/ PullUnauthorized(e)
    PROVE  IndInv'
<1>1. /\ TypeOK /\ Syncing(e)
      /\ UNCHANGED <<rows, saved, feed, loading, cursor, cache, buffer>>
      /\ pull' = [pull EXCEPT ![e] = Idle]
  BY DEF IndInv, PullFails, PullUnauthorized, Syncing
<1>2. /\ \A f \in Engines : f # e => pull'[f] = pull[f]
      /\ pull'[e] = Idle
  BY <1>1 DEF TypeOK
<1>3. FeedGrows /\ CachePassedOn'
  BY <1>1 DEF IndInv, CachePassedOn, FeedGrows
<1>4. DeletionsHold'
  <2>1. \A f \in Engines : chan'[f] \subseteq chan[f]
    BY <1>1 DEF PullFails, PullUnauthorized, Stop, TypeOK
  <2> QED
    BY <1>1, <2>1 DEF IndInv, DeletionsHold
<1>5. ~ loading[e] /\ (Warm => cursor[e] > 0)
  BY <1>1 DEF IndInv, Lifecycle, WarmCursors
<1>6. \A f \in Engines :
          /\ sock'[f] = sock[f] \/ sock'[f] = "none"
          /\ f # e => retry'[f] = retry[f] /\ stopped'[f] = stopped[f]
          /\ stopped'[f] => ~ retry'[f]
  <2>1. CASE PullFails(e)
    BY <1>1, <2>1 DEF PullFails, IndInv, Lifecycle, TypeOK
  <2>2. CASE PullUnauthorized(e)
    BY <1>1, <2>2 DEF PullUnauthorized, Stop, IndInv, Lifecycle, TypeOK
  <2> QED
    BY <2>1, <2>2
<1>7. Lifecycle'
  BY <1>1, <1>2, <1>5, <1>6 DEF IndInv, Lifecycle, Syncing
<1>8. WarmCursors'
  BY <1>1, <1>2, <1>5, <1>6 DEF IndInv, WarmCursors, Syncing, Idle
<1>9. /\ Sound(saved')
      /\ \A f \in Engines : Sound(cursor'[f]) /\ Sound(pull'[f].from) /\ PageSound(pull'[f])
  BY <1>1, <1>2, NewPullSound DEF IndInv, CursorsSound, PagesSound
<1> QED
  BY <1>1, <1>3, <1>4, <1>7, <1>8, <1>9, LocalKeeps

LEMMA IndStep == ASSUME ActiveAccount PROVE IndInv /\ [Next]_vars => IndInv'
<1> SUFFICES ASSUME IndInv, [Next]_vars PROVE IndInv'
  OBVIOUS
<1>0. TypeOK'
  BY TypeStep DEF IndInv
<1>1. CASE UNCHANGED vars
  BY <1>0, <1>1, SocketKeeps DEF vars, engineVars, IndInv, DeletionsHold, Lifecycle,
                                WarmCursors, Syncing
<1>2. ASSUME NEW x \in Items,
             OtherCreates(x) \/ OtherDeletes(x) \/ OwnPost(x) \/ OwnDelete(x)
      PROVE  IndInv'
  <2>1. CASE Insert(x) /\ Broadcast(New(x)) /\ UNCHANGED localVars
    BY <1>0, <2>1, InsertKeeps
  <2>2. CASE SoftDelete(x) /\ Broadcast(Del(x)) /\ UNCHANGED localVars
    BY <1>0, <2>2, SoftDeleteKeeps
  <2>3. CASE OwnPost(x) /\ UNCHANGED <<rows, chan>>
    BY <1>0, <2>3, EnvironmentKeeps
  <2> QED
    BY <1>2, <2>1, <2>2, <2>3 DEF OtherCreates, OtherDeletes, OwnPost, OwnDelete
<1>3. ASSUME NEW s \in 1 .. SeqCap, Prune(s) PROVE IndInv'
  BY <1>0, <1>3, PruneKeeps
<1>4. CASE Revoke
  BY <1>0, <1>4, EnvironmentKeeps
<1>5. ASSUME NEW e \in Engines, Wake(e) PROVE IndInv'
  BY <1>0, <1>5, WakeKeeps
<1>6. CASE Sleep
  BY <1>0, <1>6, SleepKeeps
<1>7. ASSUME NEW r \in replies, Reply(r) \/ ReplyLost(r) PROVE IndInv'
  BY <1>0, <1>7, ReplyKeeps, EnvironmentKeeps
<1>8. ASSUME NEW e \in Engines, EngineStep(e) \/ Drop(e) \/ PullFails(e) PROVE IndInv'
  <2>1. CASE Started(e)
    BY <1>0, <2>1, StartedKeeps
  <2>2. CASE Accept(e) \/ Close(e)
    BY <1>0, <2>2, ConnectionKeeps
  <2>3. CASE Open(e) \/ RetryTimer(e)
    BY <1>0, <2>3, ResyncKeeps
  <2>4. CASE \E ev \in Event : Message(e, ev)
    BY <1>0, <2>4, MessageKeeps
  <2>5. CASE ServeList(e)
    BY <1>0, <2>5, ServeListKeeps
  <2>6. CASE ReadPage(e)
    BY <1>0, <2>6, ReadPageKeeps
  <2>7. CASE ReadLastPage(e)
    BY <1>0, <2>7, ReadLastPageKeeps
  <2>8. CASE NothingNew(e) \/ CursorSaved(e)
    BY <1>0, <2>8, FinishKeeps
  <2>9. CASE PullFails(e) \/ PullUnauthorized(e)
    BY <1>0, <2>9, PullFailureKeeps
  <2>10. CASE Drop(e)
    BY <1>0, <2>10, EnvironmentKeeps
  <2> QED
    BY <1>8, <2>1, <2>2, <2>3, <2>4, <2>5, <2>6, <2>7, <2>8, <2>9, <2>10 DEF EngineStep
<1>9. CASE Crash
  BY <1>0, <1>9, CrashKeeps
<1>10. ASSUME NEW x \in Items, RemoveAsleep(x) PROVE IndInv'
  BY <1>0, <1>10, ReplyKeeps
<1> QED
  BY <1>1, <1>2, <1>3, <1>4, <1>5, <1>6, <1>7, <1>8, <1>9, <1>10 DEF Next

-----------------------------------------------------------------------------
(***************************************************************************)
(* The theorems.                                                           *)
(***************************************************************************)

\* The strengthening is an invariant of every active account.
THEOREM Inductive == ASSUME ActiveAccount PROVE Spec => []IndInv
BY IndInit, IndStep, PTL DEF Spec

\* No cursor, stored or in the memory of an instance, is ever past a change the
\* feed has not got.
THEOREM CursorNeverSkips == ASSUME ActiveAccount PROVE Spec => []CursorCovers
<1>1. IndInv => CursorCovers
  BY DEF IndInv, CursorsSound, Sound, CursorCovers
<1> QED
  BY <1>1, Inductive, PTL

\* The next change is numbered past every cursor.
THEOREM NextChangeAhead == ASSUME ActiveAccount PROVE Spec => []ChangesMoveAhead
<1>1. IndInv => ChangesMoveAhead
  <2> SUFFICES ASSUME IndInv, NEW s, IsNextSeq(s)
               PROVE  s > saved /\ \A e \in Engines : s > cursor[e]
    BY DEF ChangesMoveAhead
  <2>1. s \in Nat /\ \A y \in Items : rows[y].seq \in Nat /\ rows[y].seq < s
    BY NewNumber DEF IndInv, TypeOK, Row, IsNextSeq
  <2>2. saved \in Nat /\ \A e \in Engines : cursor[e] \in Nat
    BY DEF IndInv, TypeOK
  <2> QED
    BY <2>1, <2>2 DEF IndInv, CursorsSound, Sound, Bounded
<1> QED
  BY <1>1, Inductive, PTL

\* No page of a pull puts an item on the screen whose deletion the pulling
\* instance has buffered.
THEOREM TombstoneWins == Spec => NoFlash
<1> DEFINE Hides == \A e \in Engines, x \in Items :
                        (pull'[e] # pull[e] /\ Del(x) \in buffer[e] /\ feed[x] = "unknown")
                            => feed'[x] # "shown"
<1>1. ASSUME TypeOK, Next PROVE Hides
  <2> SUFFICES ASSUME NEW e \in Engines, NEW x \in Items, pull'[e] # pull[e],
                      Del(x) \in buffer[e], feed[x] = "unknown", feed' # feed
               PROVE  feed'[x] # "shown"
    BY DEF View
  <2>1. ASSUME NEW new, NEW dead, NEW hidden, Hear(e, new, dead, hidden),
               x \in hidden \cup dead
        PROVE  feed'[x] # "shown"
    <3>1. feed' = Learn(feed, {y \in new \ hidden : cache[e][y] = "unknown"},
                              {y \in dead : cache[e][y] # "gone"})
      BY <2>1 DEF Hear
    <3>2. feed'[x] = "shown" =>
              /\ x \in {y \in new \ hidden : cache[e][y] = "unknown"}
              /\ x \notin {y \in dead : cache[e][y] # "gone"}
      BY <3>1 DEF Learn
    <3> QED
      BY <2>1, <3>2
  <2>2. x \in Deleted(buffer[e])
    BY DEF Deleted
  <2>3. CASE ReadPage(e)
    BY <2>1, <2>2, <2>3 DEF ReadPage, Hidden
  <2>4. CASE NothingNew(e) \/ CursorSaved(e)
    BY <2>1, <2>2, <2>4 DEF NothingNew, CursorSaved, Finish
  <2>5. ASSUME NEW f \in Engines, ReadPage(f) \/ NothingNew(f) \/ CursorSaved(f)
        PROVE  f = e
    <3>1. CASE ReadPage(f)
      BY <3>1 DEF ReadPage, TypeOK
    <3>2. CASE Finish(f)
      <4>1. PICK p : pull' = [pull EXCEPT ![f] = p]
        BY <3>2 DEF Finish
      <4> QED
        BY <4>1 DEF TypeOK
    <3> QED
      BY <2>5, <3>1, <3>2 DEF NothingNew, CursorSaved
  <2>6. \E f \in Engines : ReadPage(f) \/ NothingNew(f) \/ CursorSaved(f)
    <3>1. ASSUME NEW y \in Items,
                 OtherCreates(y) \/ OtherDeletes(y) \/ OwnPost(y) \/ OwnDelete(y)
          PROVE  FALSE
      BY <3>1 DEF OtherCreates, OtherDeletes, OwnPost, OwnDelete, localVars
    <3>2. \A s : ~ Prune(s)
      BY DEF Prune, localVars
    <3>3. ~ Revoke /\ ~ Sleep /\ ~ Crash
      BY DEF Revoke, Sleep, Crash
    <3>4. \A r \in replies : ~ Reply(r) /\ ~ ReplyLost(r)
      BY DEF Reply, ReplyLost, engineVars
    <3>7. \A y \in Items : ~ RemoveAsleep(y)
      BY DEF RemoveAsleep, engineVars
    <3>5. \A f \in Engines : ~ Wake(f) /\ ~ Drop(f) /\ ~ PullFails(f)
      BY DEF Wake, Drop, PullFails
    <3>6. ASSUME NEW f \in Engines, EngineStep(f)
          PROVE  ReadPage(f) \/ NothingNew(f) \/ CursorSaved(f)
      BY <3>6 DEF EngineStep, Started, Accept, Open, RetryTimer, Close, Message,
                  ServeList, ReadLastPage, PullUnauthorized
    <3> QED
      BY <1>1, <3>1, <3>2, <3>3, <3>4, <3>5, <3>6, <3>7 DEF Next
  <2> QED
    BY <2>3, <2>4, <2>5, <2>6
<1>2. TypeOK /\ [Next]_vars => [Hides]_vars
  BY <1>1
<1> QED
  BY <1>2, TypeCorrect, PTL DEF Spec, NoFlash

=============================================================================

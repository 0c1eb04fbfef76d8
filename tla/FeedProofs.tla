------------------------------ MODULE FeedProofs ------------------------------
(***************************************************************************)
(* SyncEngine implements DeviceFeed, for any number of items and engine    *)
(* instances and any values of the bounds: whatever is pulled, buffered,   *)
(* lost, replayed or pruned, the device shows only what was sent and hides *)
(* only what was deleted or its user dismissed while it had no connection. *)
(* And a device that keeps up loses nothing else.                          *)
(***************************************************************************)
EXTENDS SyncEngineProofs

\* What the account has made of an item, and does not take back.
Sent(x) == Status(x) # "none"
Gone(x) == Status(x) = "deleted"

\* What the server has a row for now.
HasRow == {x \in Items : rows[x].st # "none"}
Tombs == {x \in Items : rows[x].st = "tomb"}

-----------------------------------------------------------------------------
\* The inductive invariant: the feed speaks the truth, and so does whatever is on
\* its way to it, which the server has a row for: a prune waits.

FeedTrue ==
    \A x \in Items : /\ feed[x] = "shown" => Sent(x)
                     /\ feed[x] = "gone" => Gone(x) \/ x \in unasked
                     /\ x \in unasked => feed[x] = "gone"

EventsTrue ==
    \A e \in Engines, x \in Items :
        /\ New(x) \in chan[e] \cup buffer[e] => x \in HasRow
        /\ Del(x) \in chan[e] \cup buffer[e] => x \in Tombs

AnswersTrue ==
    \A e \in Engines, x \in Items :
        /\ pull[e].page[x] = "live" => x \in HasRow
        /\ pull[e].page[x] = "tomb" => x \in Tombs

RepliesTrue ==
    \A x \in Items : /\ <<"post", x>> \in replies => x \in HasRow
                     /\ <<"delete", x>> \in replies => x \in Tombs

FeedInv == TypeOK /\ FeedTrue /\ EventsTrue /\ AnswersTrue /\ RepliesTrue

LEMMA FeedInit == Init => FeedInv /\ Feed!Init
<1> SUFFICES ASSUME Init PROVE FeedInv /\ Feed!Init
  OBVIOUS
<1>1. \A x \in Items : Status(x) \in {"none", "live"} /\ (feed[x] = "shown" => Status(x) = "live")
  BY DEF Init, Status, NoRow
<1>2. feed \in [Items -> {"unknown", "shown"}]
  BY DEF Init
<1>3. Feed!Init
  BY <1>1, <1>2 DEF Feed!Init, Init
<1>4. FeedTrue
  BY <1>1, <1>2 DEF FeedTrue, Sent, Init
<1>5. EventsTrue /\ AnswersTrue /\ RepliesTrue
  BY DEF Init, EventsTrue, AnswersTrue, RepliesTrue, Idle, EmptyPage
<1> QED
  BY <1>3, <1>4, <1>5, TypeInit DEF FeedInv

-----------------------------------------------------------------------------
(***************************************************************************)
(* The server's steps: one item is sent or deleted, or nothing happens to  *)
(* the account's history.                                                  *)
(***************************************************************************)

\* A step of the account: one item at a time, forwards.
AccountStep(x) ==
    /\ feed' = feed /\ unasked' = unasked
    /\ \A y \in Items : y # x => rows'[y] = rows[y]
    /\ rows'[x].st # "none" /\ (rows[x].st = "tomb" => rows'[x].st = "tomb")
    /\ \A y \in Items : y # x => Status(y)' = Status(y)
    /\ \/ Status(x)' = Status(x)
       \/ Status(x) = "none" /\ Status(x)' = "live"
       \/ Status(x) = "live" /\ Status(x)' = "deleted"

LEMMA AccountImplements ==
    ASSUME NEW i \in Items, AccountStep(i)
    PROVE  [Feed!Next]_(Feed!vars)
<1> DEFINE history == [y \in Items |-> Status(y)]
<1>1. CASE Status(i)' = Status(i)
  <2>1. history' = history
    BY <1>1 DEF AccountStep
  <2> QED
    BY <2>1 DEF AccountStep, Feed!vars
<1>2. CASE Status(i) = "none" /\ Status(i)' = "live"
  <2>1. history' = [history EXCEPT ![i] = "live"]
    BY <1>2 DEF AccountStep
  <2>2. Feed!Send(i)
    BY <1>2, <2>1 DEF AccountStep, Feed!Send
  <2> QED
    BY <2>2 DEF Feed!Next
<1>3. CASE Status(i) = "live" /\ Status(i)' = "deleted"
  <2>1. history' = [history EXCEPT ![i] = "deleted"]
    BY <1>3 DEF AccountStep
  <2>2. Feed!Delete(i)
    BY <1>3, <2>1 DEF AccountStep, Feed!Delete
  <2> QED
    BY <2>2 DEF Feed!Next
<1> QED
  BY <1>1, <1>2, <1>3 DEF AccountStep

\* What was sent or deleted stays so, and nothing but the event of x, which is
\* true, is new on its way to the device.
LEMMA AccountKeeps ==
    ASSUME FeedInv, TypeOK', NEW x \in Items, AccountStep(x),
           UNCHANGED <<buffer, pull>>,
           NEW ev \in {New(x), Del(x)},
           ev = Del(x) => x \in Tombs',
           \A e \in Engines : chan'[e] \subseteq chan[e] \cup {ev},
           RepliesTrue'
    PROVE  FeedInv'
<1>1. \A y \in Items : (Sent(y) => Sent(y)') /\ (Gone(y) => Gone(y)')
  BY DEF AccountStep, Sent, Gone
<1>2. /\ x \in HasRow'
      /\ \A y \in Items : (y \in HasRow => y \in HasRow') /\ (y \in Tombs => y \in Tombs')
  BY DEF AccountStep, HasRow, Tombs
<1>3. FeedTrue'
  BY <1>1 DEF FeedInv, FeedTrue, AccountStep
<1>4. EventsTrue'
  <2> SUFFICES ASSUME NEW e \in Engines, NEW y \in Items
               PROVE  /\ New(y) \in chan'[e] \cup buffer'[e] => y \in HasRow'
                      /\ Del(y) \in chan'[e] \cup buffer'[e] => y \in Tombs'
    BY DEF EventsTrue, New, Del
  <2>1. CASE ev \notin {New(y), Del(y)}
    BY <1>2, <2>1 DEF FeedInv, EventsTrue
  <2>2. CASE ev \in {New(y), Del(y)}
    BY <1>2, <2>2 DEF FeedInv, EventsTrue, New, Del
  <2> QED
    BY <2>1, <2>2
<1>5. AnswersTrue'
  BY <1>2 DEF FeedInv, AnswersTrue
<1> QED
  BY <1>3, <1>4, <1>5 DEF FeedInv

LEMMA OtherStep ==
    ASSUME FeedInv, NEW x \in Items, OtherCreates(x) \/ OtherDeletes(x)
    PROVE  AccountStep(x) /\ FeedInv'
<1>0. TypeOK'
  BY TypeServer DEF FeedInv
<1>1. CASE OtherCreates(x)
  <2>1. /\ \A y \in Items : y # x => rows'[y] = rows[y] /\ (y \in unsent' <=> y \in unsent)
        /\ rows[x].st = "none" /\ rows'[x].st = "live" /\ x \in unsent
    BY <1>1 DEF FeedInv, TypeOK, OtherCreates, Insert
  <2>2. /\ Status(x) = "none" /\ Status(x)' = "live"
        /\ \A y \in Items : y # x => Status(y)' = Status(y)
    BY <2>1 DEF Status
  <2>3. AccountStep(x)
    BY <1>1, <2>1, <2>2 DEF AccountStep, OtherCreates, localVars
  <2>4. RepliesTrue'
    BY <1>1, <2>1, <2>2 DEF FeedInv, RepliesTrue, HasRow, Tombs, OtherCreates
  <2>5. /\ UNCHANGED <<buffer, pull>>
        /\ \A e \in Engines : chan'[e] \subseteq chan[e] \cup {New(x)}
    BY <1>1 DEF OtherCreates, localVars, Broadcast
  <2> QED
    BY <1>0, <2>1, <2>3, <2>4, <2>5, AccountKeeps DEF New, Del, Tombs
<1>2. CASE OtherDeletes(x)
  <2>1. /\ \A y \in Items : y # x => rows'[y] = rows[y]
        /\ rows[x].st \in {"live", "tomb"} /\ rows'[x].st = "tomb" /\ unsent' = unsent
    BY <1>2 DEF FeedInv, TypeOK, OtherDeletes, SoftDelete
  <2>2. /\ Status(x)' = "deleted" /\ Status(x) \in {"live", "deleted"}
        /\ \A y \in Items : y # x => Status(y)' = Status(y)
    BY <2>1 DEF Status
  <2>3. AccountStep(x)
    BY <1>2, <2>1, <2>2 DEF AccountStep, OtherDeletes, localVars
  <2>4. RepliesTrue'
    BY <1>2, <2>1, <2>2 DEF FeedInv, RepliesTrue, HasRow, Tombs, OtherDeletes
  <2>5. /\ UNCHANGED <<buffer, pull>>
        /\ \A e \in Engines : chan'[e] \subseteq chan[e] \cup {Del(x)}
    BY <1>2 DEF OtherDeletes, localVars, Broadcast
  <2> QED
    BY <1>0, <2>1, <2>3, <2>4, <2>5, AccountKeeps DEF New, Del, Tombs
<1> QED
  BY <1>1, <1>2

LEMMA OwnStep ==
    ASSUME FeedInv, NEW x \in Items, OwnPost(x) \/ OwnDelete(x)
    PROVE  AccountStep(x) /\ FeedInv'
<1>0. TypeOK'
  BY TypeServer DEF FeedInv
<1>1. CASE OwnPost(x)
  <2>1. /\ \A y \in Items : y # x => rows'[y] = rows[y]
        /\ \/ rows[x].st = "none" /\ rows'[x].st = "live"
           \/ rows[x].st # "none" /\ rows'[x] = rows[x]
        /\ x \in unsent /\ unsent' = unsent
    BY <1>1 DEF FeedInv, TypeOK, OwnPost, Insert
  <2>2. /\ Status(x)' = Status(x) \/ (Status(x) = "none" /\ Status(x)' = "live")
        /\ \A y \in Items : y # x => Status(y)' = Status(y)
    BY <2>1 DEF Status
  <2>3. AccountStep(x)
    BY <1>1, <2>1, <2>2 DEF AccountStep, OwnPost, localVars
  <2>4. RepliesTrue'
    BY <1>1, <2>1, <2>2 DEF FeedInv, RepliesTrue, HasRow, Tombs, OwnPost
  <2>5. /\ UNCHANGED <<buffer, pull>>
        /\ \A e \in Engines : chan'[e] \subseteq chan[e] \cup {New(x)}
    BY <1>1 DEF OwnPost, localVars, Broadcast
  <2> QED
    BY <1>0, <2>1, <2>3, <2>4, <2>5, AccountKeeps DEF New, Del, Tombs
<1>2. CASE OwnDelete(x)
  <2>1. /\ \A y \in Items : y # x => rows'[y] = rows[y]
        /\ rows[x].st \in {"live", "tomb"} /\ rows'[x].st = "tomb" /\ unsent' = unsent
    BY <1>2 DEF FeedInv, TypeOK, OwnDelete, SoftDelete
  <2>2. /\ Status(x)' = "deleted" /\ Status(x) \in {"live", "deleted"}
        /\ \A y \in Items : y # x => Status(y)' = Status(y)
    BY <2>1 DEF Status
  <2>3. AccountStep(x)
    BY <1>2, <2>1, <2>2 DEF AccountStep, OwnDelete, localVars
  <2>4. RepliesTrue'
    BY <1>2, <2>1, <2>2 DEF FeedInv, RepliesTrue, HasRow, Tombs, OwnDelete
  <2>5. /\ UNCHANGED <<buffer, pull>>
        /\ \A e \in Engines : chan'[e] \subseteq chan[e] \cup {Del(x)}
    BY <1>2 DEF OwnDelete, localVars, Broadcast
  <2> QED
    BY <1>0, <2>1, <2>3, <2>4, <2>5, AccountKeeps DEF New, Del, Tombs
<1> QED
  BY <1>1, <1>2

-----------------------------------------------------------------------------
(***************************************************************************)
(* All other steps leave the account's history as it is, and what they let *)
(* the feed learn was on its way to it.                                    *)
(***************************************************************************)

DeviceStep ==
    /\ rows' = rows /\ unasked' = unasked
    /\ \A x \in Items : Status(x)' = Status(x)
    /\ \A e \in Engines : /\ chan'[e] \subseteq chan[e]
                          /\ buffer'[e] \subseteq chan[e] \cup buffer[e]
    /\ \A e \in Engines, x \in Items : pull'[e].page[x] \in {"none", pull[e].page[x], rows[x].st}
    /\ replies' \subseteq replies
    /\ \E new \in SUBSET HasRow, dead \in SUBSET Tombs :
          feed' = Learn(feed, new, dead)

LEMMA LearnNothing ==
    ASSUME NEW view \in [Items -> View]
    PROVE  Learn(view, {}, {}) = view
BY DEF Learn

\* A feed that stays as it is learns nothing.
LEMMA FeedStays ==
    ASSUME TypeOK, feed' = feed
    PROVE  \E new \in SUBSET HasRow, dead \in SUBSET Tombs :
              feed' = Learn(feed, new, dead)
<1>1. feed' = Learn(feed, {}, {})
  BY LearnNothing DEF TypeOK
<1> QED
  BY <1>1

LEMMA DeviceKeeps ==
    ASSUME FeedInv, TypeOK', DeviceStep
    PROVE  FeedInv' /\ [Feed!Next]_(Feed!vars)
<1>1. \A x \in Items : Sent(x)' = Sent(x) /\ Gone(x)' = Gone(x)
  BY DEF DeviceStep, Sent, Gone
<1>2. PICK new \in SUBSET HasRow, dead \in SUBSET Tombs :
         feed' = Learn(feed, new, dead)
  BY DEF DeviceStep
<1>3. \A x \in Items :
         \/ feed'[x] = feed[x]
         \/ feed[x] = "unknown" /\ feed'[x] = "shown" /\ Sent(x)
         \/ feed[x] # "gone" /\ feed'[x] = "gone" /\ Gone(x)
  <2>1. (\A x \in new : Sent(x)) /\ (\A x \in dead : Gone(x))
    BY DEF HasRow, Tombs, Sent, Gone, Status
  <2> QED
    BY <1>2, <2>1 DEF Learn, FeedInv, TypeOK, View
<1>4. FeedTrue'
  BY <1>1, <1>3 DEF FeedInv, FeedTrue, DeviceStep
<1>5. HasRow' = HasRow /\ Tombs' = Tombs
  BY DEF DeviceStep, HasRow, Tombs
<1>6. EventsTrue'
  BY <1>5 DEF FeedInv, EventsTrue, DeviceStep, New, Del
<1>7. AnswersTrue'
  <2>1. \A x \in Items : /\ rows[x].st = "live" => x \in HasRow
                         /\ rows[x].st = "tomb" => x \in Tombs
    BY DEF HasRow, Tombs
  <2> QED
    BY <1>5, <2>1 DEF FeedInv, AnswersTrue, DeviceStep
<1>8. RepliesTrue'
  BY <1>5 DEF FeedInv, RepliesTrue, DeviceStep
<1>9. Feed!Update
  <2>1. feed' \in [Items -> {"unknown", "shown", "gone"}]
    BY DEF TypeOK, View
  <2>2. \A x \in Items : Feed!Show(x) \/ Feed!Hide(x) \/ feed'[x] = feed[x]
    BY <1>3 DEF Feed!Show, Feed!Hide, Sent, Gone
  <2>3. UNCHANGED <<[y \in Items |-> Status(y)], unasked>>
    BY DEF DeviceStep
  <2> QED
    BY <2>1, <2>2, <2>3 DEF Feed!Update
<1> QED
  BY <1>4, <1>6, <1>7, <1>8, <1>9 DEF FeedInv, Feed!Next

\* The pruned tombstones have nothing under way, so they stay deleted.
LEMMA PruneFeed ==
    ASSUME FeedInv, TypeOK', NEW s \in 1 .. SeqCap, Prune(s)
    PROVE  FeedInv' /\ [Feed!Next]_(Feed!vars)
<1>1. /\ \A x \in Items :
            \/ rows'[x] = rows[x]
            \/ rows[x].st = "tomb" /\ ~InFlight(x) /\ rows'[x].st = "none"
      /\ UNCHANGED <<unsent, unasked, feed, chan, buffer, pull, replies>>
  BY DEF Prune, PruneUpTo, Expired, NoRow, localVars
<1>2. \A x \in Items : Status(x)' = Status(x)
  BY <1>1 DEF Status, InFlight
<1>3. FeedTrue'
  BY <1>1, <1>2 DEF FeedInv, FeedTrue, Sent, Gone
<1>4. \A x \in Items :
         InFlight(x) => (x \in HasRow' <=> x \in HasRow) /\ (x \in Tombs' <=> x \in Tombs)
  BY <1>1 DEF HasRow, Tombs
<1>5. EventsTrue' /\ AnswersTrue' /\ RepliesTrue'
  BY <1>1, <1>4 DEF FeedInv, EventsTrue, AnswersTrue, RepliesTrue, InFlight, New, Del
<1>6. UNCHANGED Feed!vars
  BY <1>1, <1>2 DEF Feed!vars
<1> QED
  BY <1>3, <1>4, <1>5, <1>6 DEF FeedInv

\* The rows, the outboxes and the feed stay; nothing new is on its way.
Still ==
    /\ UNCHANGED <<rows, unsent, unasked, feed>>
    /\ replies' \subseteq replies
    /\ \A e \in Engines : chan'[e] \subseteq chan[e] /\ buffer'[e] \subseteq buffer[e]
    /\ \A e \in Engines, x \in Items : pull'[e].page[x] \in {"none", pull[e].page[x], rows[x].st}

LEMMA StillDevice ==
    ASSUME FeedInv, Still
    PROVE  DeviceStep
<1>1. \A x \in Items : Status(x)' = Status(x)
  BY DEF Still, Status
<1>2. \E new \in SUBSET HasRow, dead \in SUBSET Tombs :
         feed' = Learn(feed, new, dead)
  BY FeedStays DEF Still, FeedInv
<1> QED
  BY <1>1, <1>2 DEF DeviceStep, Still

LEMMA NoPage == \A x \in Items, c \in Nat : Idle.page[x] = "none" /\ Request(c).page[x] = "none"
BY DEF Idle, Request, EmptyPage

\* A pull that ends or asks for its next page leaves no page behind.
LEMMA PullEmptied ==
    ASSUME TypeOK, NEW e \in Engines, cursor[e] \in Nat,
           pull' \in {pull, [pull EXCEPT ![e] = Idle], [pull EXCEPT ![e] = Request(cursor[e])]}
    PROVE  \A f \in Engines, x \in Items : pull'[f].page[x] \in {"none", pull[f].page[x]}
<1>1. \A f \in Engines : pull'[f] \in {pull[f], Idle, Request(cursor[e])}
  BY DEF TypeOK
<1> QED
  BY <1>1, NoPage

\* The controller's steps and the faults.
LEMMA ControllerStill ==
    ASSUME TypeOK,
           \/ Revoke \/ Sleep \/ Crash
           \/ \E e \in Engines : Wake(e) \/ Drop(e) \/ PullFails(e)
           \/ \E r \in replies : ReplyLost(r)
    PROVE  Still
<1>1. CASE Revoke
  BY <1>1 DEF TypeOK, Revoke, Still
<1>2. CASE Sleep
  BY <1>2 DEF TypeOK, Sleep, Stop, Still
<1>3. CASE Crash
  BY <1>3, NoPage DEF TypeOK, Crash, Still
<1>4. ASSUME NEW e \in Engines, Wake(e) PROVE Still
  BY <1>4 DEF TypeOK, Wake, Still
<1>5. ASSUME NEW e \in Engines, Drop(e) PROVE Still
  BY <1>5 DEF TypeOK, Drop, Still
<1>6. ASSUME NEW e \in Engines, PullFails(e) PROVE Still
  BY <1>6, NoPage DEF TypeOK, PullFails, Still
<1>7. ASSUME NEW r \in replies, ReplyLost(r) PROVE Still
  BY <1>7 DEF TypeOK, ReplyLost, engineVars, Still
<1> QED
  BY <1>1, <1>2, <1>3, <1>4, <1>5, <1>6, <1>7

\* The engine's steps that pass nothing on to the feed.
LEMMA EngineStill ==
    ASSUME TypeOK, NEW e \in Engines,
           \/ Started(e) \/ Accept(e) \/ Open(e) \/ RetryTimer(e) \/ Close(e)
           \/ ServeList(e) \/ ReadLastPage(e) \/ PullUnauthorized(e)
    PROVE  Still
<1>1. CASE Started(e) \/ Accept(e) \/ Close(e)
  BY <1>1 DEF TypeOK, Started, Accept, Close, Still
<1>2. CASE Open(e) \/ RetryTimer(e)
  <2>1. Resync(e) /\ UNCHANGED <<rows, unsent, unasked, feed, replies, chan>>
    BY <1>2 DEF Open, RetryTimer
  <2>2. cursor[e] \in Nat
    BY DEF TypeOK
  <2>3. \A f \in Engines, x \in Items : pull'[f].page[x] \in {"none", pull[f].page[x]}
    BY <2>1, <2>2, PullEmptied DEF Resync
  <2>4. \A f \in Engines : buffer'[f] \subseteq buffer[f]
    BY <2>1 DEF TypeOK, Resync
  <2> QED
    BY <2>1, <2>3, <2>4 DEF Still
<1>3. CASE ServeList(e)
  <2>1. \A f \in Engines : f # e => pull'[f] = pull[f]
    BY <1>3 DEF TypeOK, ServeList
  <2>2. \A x \in Items : pull'[e].page[x] \in {"none", rows[x].st}
    <3>1. CASE pull'[e].page = EmptyPage
      BY <3>1 DEF EmptyPage
    <3>2. ASSUME NEW n, pull'[e].page = Page(pull[e].from, n)
          PROVE  \A x \in Items : pull'[e].page[x] \in {"none", rows[x].st}
      BY <3>2 DEF Page
    <3>3. pull'[e].page = EmptyPage \/ \E n : pull'[e].page = Page(pull[e].from, n)
      BY <1>3 DEF TypeOK, ServeList
    <3> QED
      BY <3>1, <3>2, <3>3
  <2> QED
    BY <1>3, <2>1, <2>2 DEF ServeList, Still
<1>4. CASE ReadLastPage(e)
  BY <1>4 DEF TypeOK, Pull, ReadLastPage, Still
<1>5. CASE PullUnauthorized(e)
  BY <1>5, NoPage DEF TypeOK, PullUnauthorized, Stop, Still
<1> QED
  BY <1>1, <1>2, <1>3, <1>4, <1>5

\* The answer to a POST finds its row, so the item has been sent.
LEMMA ReplyDevice ==
    ASSUME FeedInv, NEW r \in replies, Reply(r)
    PROVE  DeviceStep
<1>1. PICK x \in Items : r \in {<<"post", x>>, <<"delete", x>>}
  BY DEF FeedInv, TypeOK
<1>2. UNCHANGED <<rows, unasked, chan, buffer, pull>> /\ replies' \subseteq replies
  BY DEF Reply, engineVars
<1>3. CASE r = <<"post", x>>
  <2>1. x \in HasRow /\ unsent' = unsent \ {x} /\ feed' = Learn(feed, {x}, {})
    BY <1>3 DEF FeedInv, RepliesTrue, Reply
  <2>2. \A y \in Items : Status(y)' = Status(y)
    BY <1>2, <2>1 DEF Status, HasRow
  <2> QED
    BY <1>2, <2>1, <2>2 DEF DeviceStep
<1>4. CASE r = <<"delete", x>>
  <2>1. x \in Tombs /\ unsent' = unsent /\ feed' = Learn(feed, {}, {x})
    BY <1>4 DEF FeedInv, RepliesTrue, Reply
  <2>2. \A y \in Items : Status(y)' = Status(y)
    BY <1>2, <2>1 DEF Status
  <2> QED
    BY <1>2, <2>1, <2>2 DEF DeviceStep
<1> QED
  BY <1>1, <1>3, <1>4

\* What an engine passes on of what was sent and deleted.
LEMMA HearTrue ==
    ASSUME NEW e \in Engines, NEW hidden,
           NEW new \in SUBSET HasRow,
           NEW dead \in SUBSET Tombs,
           Hear(e, new, dead, hidden)
    PROVE  \E n \in SUBSET HasRow, d \in SUBSET Tombs :
              feed' = Learn(feed, n, d)
BY DEF Hear

\* Events that are true tell of items sent and of items deleted.
LEMMA EventsTell ==
    ASSUME EventsTrue, NEW e \in Engines, NEW events \in SUBSET (chan[e] \cup buffer[e])
    PROVE  /\ Created(events) \in SUBSET HasRow
           /\ Deleted(events) \in SUBSET Tombs
BY DEF EventsTrue, Created, Deleted, Tombs, HasRow

LEMMA MessageDevice ==
    ASSUME FeedInv, NEW e \in Engines, NEW ev \in Event, Message(e, ev)
    PROVE  DeviceStep
<1>1. /\ UNCHANGED <<rows, unsent, unasked, replies, pull>>
      /\ \A f \in Engines : /\ chan'[f] \subseteq chan[f]
                            /\ buffer'[f] \subseteq chan[f] \cup buffer[f]
  BY DEF FeedInv, TypeOK, Message
<1>2. \A x \in Items : Status(x)' = Status(x)
  BY <1>1 DEF Status
<1>3. \E new \in SUBSET HasRow, dead \in SUBSET Tombs :
         feed' = Learn(feed, new, dead)
  <2>1. CASE Syncing(e)
    BY <2>1, FeedStays DEF Message, FeedInv
  <2>2. CASE ~Syncing(e)
    BY <2>2, HearTrue, EventsTell DEF Message, FeedInv
  <2> QED
    BY <2>1, <2>2
<1> QED
  BY <1>1, <1>2, <1>3 DEF DeviceStep

LEMMA ReadPageDevice ==
    ASSUME FeedInv, NEW e \in Engines, ReadPage(e)
    PROVE  DeviceStep
<1>1. UNCHANGED <<rows, unsent, unasked, replies, chan, buffer>>
  BY DEF ReadPage
<1>2. \A x \in Items : Status(x)' = Status(x)
  BY <1>1 DEF Status
<1>3. \A f \in Engines, x \in Items : pull'[f].page[x] \in {"none", pull[f].page[x]}
  <2>1. pull[e].next \in Nat
    BY DEF FeedInv, TypeOK, Pull
  <2> QED
    BY <2>1, NoPage DEF ReadPage, FeedInv, TypeOK
<1>4. \E new \in SUBSET HasRow, dead \in SUBSET Tombs :
         feed' = Learn(feed, new, dead)
  <2>1. /\ {x \in Items : pull[e].page[x] = "live"} \in SUBSET HasRow
        /\ {x \in Items : pull[e].page[x] = "tomb"} \in SUBSET Tombs
    BY DEF FeedInv, AnswersTrue
  <2> QED
    BY <2>1, HearTrue DEF ReadPage
<1> QED
  BY <1>1, <1>2, <1>3, <1>4 DEF DeviceStep

LEMMA FinishDevice ==
    ASSUME FeedInv, NEW e \in Engines, NothingNew(e) \/ CursorSaved(e)
    PROVE  DeviceStep
<1>1. Finish(e) /\ UNCHANGED <<rows, unsent, unasked, replies, chan>>
  BY DEF NothingNew, CursorSaved
<1>2. \A x \in Items : Status(x)' = Status(x)
  BY <1>1 DEF Status
<1>3. \A f \in Engines, x \in Items : pull'[f].page[x] \in {"none", pull[f].page[x]}
  <2>1. cursor[e] \in Nat
    BY DEF FeedInv, TypeOK
  <2> QED
    BY <1>1, <2>1, PullEmptied DEF Finish, FeedInv
<1>4. \A f \in Engines : buffer'[f] \subseteq buffer[f]
  BY <1>1 DEF Finish, FeedInv, TypeOK
<1>5. \E new \in SUBSET HasRow, dead \in SUBSET Tombs :
         feed' = Learn(feed, new, dead)
  <2>1. CASE stopped[e]
    BY <1>1, <2>1, FeedStays DEF Finish, FeedInv
  <2>2. CASE ~stopped[e]
    BY <1>1, <2>2, HearTrue, EventsTell DEF Finish, FeedInv
  <2> QED
    BY <2>1, <2>2
<1> QED
  BY <1>1, <1>2, <1>3, <1>4, <1>5 DEF DeviceStep

-----------------------------------------------------------------------------
ServerStep ==
    \E x \in Items : OtherCreates(x) \/ OtherDeletes(x) \/ OwnPost(x) \/ OwnDelete(x)
PruneStep == \E s \in 1 .. SeqCap : Prune(s)
DismissStep == \E x \in Items : RemoveAsleep(x)

\* What the user dismisses is hidden and stays so; nothing else changes.
LEMMA DismissFeed ==
    ASSUME FeedInv, TypeOK', NEW x \in Items, RemoveAsleep(x)
    PROVE  FeedInv' /\ Feed!Dismiss(x)
<1>1. /\ feed[x] = "shown" /\ feed' = Learn(feed, {}, {x})
      /\ unasked' = unasked \cup {x}
      /\ UNCHANGED <<rows, unsent, replies, chan, buffer, pull>>
  BY DEF RemoveAsleep, engineVars
<1>2. feed' = [feed EXCEPT ![x] = "gone"]
  BY <1>1 DEF Learn, FeedInv, TypeOK
<1>3. \A y \in Items : Status(y)' = Status(y)
  BY <1>1 DEF Status
<1>4. FeedTrue'
  BY <1>1, <1>2, <1>3 DEF FeedInv, TypeOK, FeedTrue, Sent, Gone
<1>5. EventsTrue' /\ AnswersTrue' /\ RepliesTrue'
  BY <1>1 DEF FeedInv, EventsTrue, AnswersTrue, RepliesTrue, HasRow, Tombs
<1>6. UNCHANGED [y \in Items |-> Status(y)]
  BY <1>3
<1> QED
  BY <1>1, <1>2, <1>4, <1>5, <1>6 DEF FeedInv, Feed!Dismiss

LEMMA OtherwiseDevice ==
    ASSUME FeedInv, [Next]_vars, ~ServerStep, ~PruneStep, ~DismissStep
    PROVE  DeviceStep
<1>1. ASSUME UNCHANGED vars PROVE DeviceStep
  <2>1. Still
    BY <1>1 DEF vars, engineVars, Still
  <2> QED
    BY <2>1, StillDevice
<1>2. ASSUME \/ Revoke \/ Sleep \/ Crash
             \/ \E e \in Engines : Wake(e) \/ Drop(e) \/ PullFails(e)
             \/ \E r \in replies : ReplyLost(r)
      PROVE  DeviceStep
  BY <1>2, ControllerStill, StillDevice DEF FeedInv
<1>3. ASSUME NEW r \in replies, Reply(r) PROVE DeviceStep
  BY <1>3, ReplyDevice
<1>4. ASSUME NEW e \in Engines, EngineStep(e) PROVE DeviceStep
  <2>1. TypeOK
    BY DEF FeedInv
  <2> QED
    BY <1>4, <2>1, EngineStill, StillDevice, MessageDevice, ReadPageDevice, FinishDevice
       DEF EngineStep
<1> QED
  BY <1>1, <1>2, <1>3, <1>4 DEF Next, ServerStep, PruneStep, DismissStep

LEMMA FeedStep ==
    ASSUME FeedInv, [Next]_vars
    PROVE  FeedInv' /\ [Feed!Next]_(Feed!vars)
<1>1. TypeOK'
  BY TypeStep DEF FeedInv
<1>2. CASE ServerStep
  BY <1>2, OtherStep, OwnStep, AccountImplements DEF ServerStep
<1>3. CASE PruneStep
  BY <1>1, <1>3, PruneFeed DEF PruneStep
<1>4. CASE ~ServerStep /\ ~PruneStep /\ ~DismissStep
  BY <1>1, <1>4, OtherwiseDevice, DeviceKeeps
<1>5. CASE DismissStep
  BY <1>1, <1>5, DismissFeed DEF DismissStep, Feed!Next
<1> QED
  BY <1>2, <1>3, <1>4, <1>5

\* ImplementsFeed of SyncEngine: with any number of items and of engines at once,
\* retention as short as it may be, and no matter what is lost or crashes, the
\* device's feed is one that DeviceFeed allows.
THEOREM FeedImplemented == Spec => ImplementsFeed
<1>1. Init => FeedInv /\ Feed!Init
  BY FeedInit
<1>2. FeedInv /\ [Next]_vars => FeedInv' /\ [Feed!Next]_(Feed!vars)
  BY FeedStep
<1> QED
  BY <1>1, <1>2, PTL DEF Spec, ImplementsFeed, Feed!Spec

\* A device never shows what was not sent, and never hides what was neither deleted
\* nor dismissed by its user while it had no connection; and that stays hidden.
THEOREM FeedSpeaksTruth == Spec => []FeedTrue
<1>1. Init => FeedInv
  BY FeedInit
<1>2. FeedInv /\ [Next]_vars => FeedInv'
  BY FeedStep
<1>3. FeedInv => FeedTrue
  BY DEF FeedInv
<1> QED
  BY <1>1, <1>2, <1>3, PTL DEF Spec

-----------------------------------------------------------------------------
(***************************************************************************)
(* Nothing is lost: what the feed has not got of the rows is on its way to *)
(* every live engine with an open socket.  An event waits in the channel   *)
(* or in the buffer, or the pull under way, or the next one, brings it.    *)
(***************************************************************************)

\* The feed has not got what has become of x.
Owed(x) == \/ rows[x].st = "live" /\ feed[x] = "unknown"
           \/ rows[x].st = "tomb" /\ feed[x] # "gone"

\* The event that tells of it.
Tells(x) == IF rows[x].st = "live" THEN New(x) ELSE Del(x)

\* The pull brings x with the page in flight or with a later one.
ToCome(p, x) ==
    /\ p.at = "request" \/ (p.at = "answered" /\ p.next # 0)
    /\ rows[x].seq > p.from

Attentive(e) == sock[e] = "open" /\ ~stopped[e] /\ ~retry[e]

OnWay(e) ==
    \A x \in Items : Attentive(e) /\ Owed(x) =>
        \/ Tells(x) \in chan[e]
        \/ Syncing(e) /\ (Tells(x) \in buffer[e] \/ queued[e] \/ ToCome(pull[e], x))

\* An item without a row is not shown: it was not sent, or its tombstone was pruned.
Unshown == \A x \in Items : rows[x].st = "none" => feed[x] # "shown"

QuietInv == IndInv /\ FeedInv /\ Unshown /\ \A e \in Engines : OnWay(e)

\* What is owed is numbered past every cursor.
LEMMA OwedPastCursors ==
    ASSUME TypeOK, Warm, NEW v \in Nat, Covers(v), NEW x \in Items, Owed(x)
    PROVE  rows[x].seq > v
BY DEF TypeOK, Row, Covers, Owed

\* A step of the device leaves nothing more owed.
LEMMA OwedShrinks ==
    ASSUME TypeOK, DeviceStep, NEW x \in Items
    PROVE  (Owed(x)' => Owed(x)) /\ Tells(x)' = Tells(x)
<1>1. PICK new \in SUBSET HasRow, dead \in SUBSET Tombs : feed' = Learn(feed, new, dead)
  BY DEF DeviceStep
<1>2. (feed[x] = "gone" => feed'[x] = "gone") /\ (feed'[x] = "unknown" => feed[x] = "unknown")
  BY <1>1, LearnGrows DEF TypeOK
<1> QED
  BY <1>2 DEF DeviceStep, Owed, Tells

LEMMA UnshownKept ==
    ASSUME TypeOK, Unshown, DeviceStep
    PROVE  Unshown'
<1>1. PICK new \in SUBSET HasRow, dead \in SUBSET Tombs : feed' = Learn(feed, new, dead)
  BY DEF DeviceStep
<1>2. \A x \in Items : feed'[x] = "shown" => feed[x] = "shown" \/ x \in HasRow
  BY <1>1, LearnGrows DEF TypeOK
<1> QED
  BY <1>2 DEF DeviceStep, Unshown, HasRow

\* Of an engine: nothing about it changes.
Same(f) ==
    /\ chan'[f] = chan[f] /\ buffer'[f] = buffer[f] /\ pull'[f] = pull[f]
    /\ queued'[f] = queued[f] /\ sock'[f] = sock[f] /\ stopped'[f] = stopped[f]
    /\ retry'[f] = retry[f]

LEMMA SameOnWay ==
    ASSUME TypeOK, DeviceStep, NEW f \in Engines, OnWay(f), Same(f)
    PROVE  OnWay(f)'
<1> SUFFICES ASSUME NEW x \in Items, Attentive(f)', Owed(x)'
             PROVE  \/ Tells(x)' \in chan'[f]
                    \/ /\ Syncing(f)'
                       /\ Tells(x)' \in buffer'[f] \/ queued'[f] \/ ToCome(pull[f], x)'
  BY DEF OnWay
<1>1. Owed(x) /\ Tells(x)' = Tells(x) /\ rows' = rows
  BY OwedShrinks DEF DeviceStep
<1>2. Attentive(f)
  BY DEF Attentive, Same
<1>3. \/ Tells(x) \in chan[f]
      \/ Syncing(f) /\ (Tells(x) \in buffer[f] \/ queued[f] \/ ToCome(pull[f], x))
  BY <1>1, <1>2 DEF OnWay
<1>4. (Syncing(f)' <=> Syncing(f)) /\ (ToCome(pull[f], x)' <=> ToCome(pull[f], x))
  BY <1>1 DEF Same, Syncing, ToCome
<1> QED
  BY <1>1, <1>3, <1>4 DEF Same

LEMMA OthersSame ==
    ASSUME TypeOK, NEW e \in Engines, NEW f \in Engines, f # e,
           EngineStep(e) \/ Wake(e) \/ Drop(e) \/ PullFails(e)
    PROVE  Same(f)
<1>1. CASE Started(e) \/ Accept(e) \/ Close(e) \/ Wake(e) \/ Drop(e) \/ PullFails(e)
  BY <1>1 DEF TypeOK, Started, Accept, Close, Wake, Drop, PullFails, Same
<1>2. CASE Open(e) \/ RetryTimer(e)
  BY <1>2 DEF TypeOK, Open, RetryTimer, Resync, Same
<1>3. ASSUME NEW ev \in Event, Message(e, ev) PROVE Same(f)
  BY <1>3 DEF TypeOK, Message, Same
<1>4. CASE ServeList(e)
  BY <1>4 DEF TypeOK, ServeList, Same
<1>5. CASE ReadPage(e) \/ ReadLastPage(e)
  BY <1>5 DEF TypeOK, ReadPage, ReadLastPage, Same
<1>6. CASE NothingNew(e) \/ CursorSaved(e)
  BY <1>6 DEF TypeOK, NothingNew, CursorSaved, Finish, Same
<1>7. CASE PullUnauthorized(e)
  BY <1>7 DEF TypeOK, PullUnauthorized, Stop, Same
<1> QED
  BY <1>1, <1>2, <1>3, <1>4, <1>5, <1>6, <1>7 DEF EngineStep

\* What an engine hears of an item the feed comes to know, whatever was cached.
LEMMA HeardKnown ==
    ASSUME IndInv, NEW e \in Engines, NEW new, NEW dead, NEW hidden,
           Hear(e, new, dead, hidden), NEW x \in Items
    PROVE  /\ x \in dead => feed'[x] = "gone"
           /\ x \in new \ hidden /\ rows[x].st = "live" => feed'[x] # "unknown"
<1> DEFINE n == {y \in new \ hidden : cache[e][y] = "unknown"}
           d == {y \in dead : cache[e][y] # "gone"}
<1>1. feed' = Learn(feed, n, d) /\ feed \in [Items -> View] /\ cache[e][x] \in View
  BY DEF Hear, IndInv, TypeOK
<1>2. /\ cache[e][x] = "gone" => feed[x] = "gone"
      /\ cache[e][x] = "shown" /\ feed[x] = "unknown" => rows[x].st = "tomb"
  BY DEF IndInv, CachePassedOn
<1>3. /\ feed[x] = "gone" => feed'[x] = "gone"
      /\ feed[x] # "unknown" => feed'[x] # "unknown"
      /\ x \in d => feed'[x] = "gone"
      /\ x \in n => feed'[x] # "unknown"
  <2> HIDE DEF n, d
  <2> QED
    BY <1>1, LearnGrows
<1> QED
  BY <1>1, <1>2, <1>3 DEF View

\* A resync asks for everything past the cursor, or notes that it will.
LEMMA ResyncOnWay ==
    ASSUME IndInv, FeedInv, Warm, NEW e \in Engines, Open(e) \/ RetryTimer(e)
    PROVE  OnWay(e)'
<1>1. Resync(e) /\ UNCHANGED <<rows, feed>>
  BY DEF Open, RetryTimer
<1>2. CASE Syncing(e)
  <2>1. Syncing(e)' /\ queued'[e]
    BY <1>1, <1>2 DEF IndInv, TypeOK, Resync, Syncing
  <2> QED
    BY <2>1 DEF OnWay
<1>3. CASE ~Syncing(e)
  <2>1. pull'[e] = Request(cursor[e])
    BY <1>1, <1>3 DEF IndInv, TypeOK, Resync
  <2>2. cursor[e] \in Nat /\ Covers(cursor[e])
    BY DEF IndInv, TypeOK, CursorsSound, Sound
  <2>3. \A x \in Items : Owed(x)' => rows[x].seq > cursor[e]
    BY <1>1, <2>2, OwedPastCursors DEF IndInv, Owed
  <2>4. Syncing(e)' /\ \A x \in Items : Owed(x)' => ToCome(pull[e], x)'
    BY <1>1, <2>1, <2>3 DEF Syncing, ToCome, Request
  <2> QED
    BY <2>4 DEF OnWay
<1> QED
  BY <1>2, <1>3

LEMMA MessageOnWay ==
    ASSUME IndInv, FeedInv, NEW e \in Engines, OnWay(e), NEW ev \in Event, Message(e, ev)
    PROVE  OnWay(e)'
<1> SUFFICES ASSUME NEW x \in Items, Attentive(e)', Owed(x)'
             PROVE  \/ Tells(x)' \in chan'[e]
                    \/ /\ Syncing(e)'
                       /\ Tells(x)' \in buffer'[e] \/ queued'[e] \/ ToCome(pull[e], x)'
  BY DEF OnWay
<1>1. Owed(x) /\ Tells(x)' = Tells(x) /\ Attentive(e)
  BY MessageDevice, OwedShrinks DEF FeedInv, Message, Attentive
<1>2. /\ chan'[e] = chan[e] \ {ev} /\ UNCHANGED <<rows, pull, queued>>
      /\ (Syncing(e)' <=> Syncing(e)) /\ (ToCome(pull[e], x)' <=> ToCome(pull[e], x))
  BY DEF IndInv, TypeOK, Message, Syncing, ToCome
<1>3. CASE Syncing(e)
  <2>1. buffer'[e] = buffer[e] \cup {ev}
    BY <1>3 DEF IndInv, TypeOK, Message
  <2> QED
    BY <1>1, <1>2, <1>3, <2>1 DEF OnWay
<1>4. CASE ~Syncing(e)
  <2>1. Tells(x) \in chan[e]
    BY <1>1, <1>4 DEF OnWay
  <2>2. Tells(x) # ev
    <3>1. Hear(e, Created({ev}), Deleted({ev}), {})
      BY <1>4 DEF Message
    <3>2. /\ Del(x) = ev => feed'[x] = "gone"
          /\ New(x) = ev /\ rows[x].st = "live" => feed'[x] # "unknown"
      BY <3>1, HeardKnown DEF Created, Deleted
    <3> QED
      BY <1>2, <3>2 DEF Owed, Tells
  <2> QED
    BY <1>1, <1>2, <2>1, <2>2
<1> QED
  BY <1>3, <1>4

\* The server answers with the next page of what is past the request's cursor; the
\* page is empty only when nothing is.
LEMMA ServeOnWay ==
    ASSUME IndInv, FeedInv, Warm, NEW e \in Engines, OnWay(e), ServeList(e)
    PROVE  OnWay(e)'
<1> SUFFICES ASSUME NEW x \in Items, Attentive(e)', Owed(x)'
             PROVE  \/ Tells(x)' \in chan'[e]
                    \/ /\ Syncing(e)'
                       /\ Tells(x)' \in buffer'[e] \/ queued'[e] \/ ToCome(pull[e], x)'
  BY DEF OnWay
<1>1. /\ Owed(x) /\ Tells(x)' = Tells(x) /\ Attentive(e)
      /\ UNCHANGED <<rows, chan, buffer, queued>>
  BY DEF ServeList, Owed, Tells, Attentive
<1>2. pull[e].from \in Nat /\ pull[e].from > 0 /\ Syncing(e)
  BY DEF IndInv, TypeOK, Pull, WarmCursors, ServeList, Syncing
<1>3. pull'[e].at = "answered" /\ pull'[e].from = pull[e].from
  BY DEF IndInv, TypeOK, ServeList
<1>4. rows[x].seq > pull[e].from => pull'[e].next # 0
  <2>1. CASE Listed(pull[e].from) = {}
    <3>1. ~(rows[x].seq > pull[e].from)
      BY <1>1, <1>2, <2>1 DEF Listed, Owed
    <3> QED
      BY <3>1
  <2>2. CASE \E n \in {rows[y].seq : y \in Listed(pull[e].from)} : pull'[e].next = n
    BY <1>2, <2>2 DEF Listed, IndInv, TypeOK, Row
  <2>3. \/ Listed(pull[e].from) = {}
        \/ \E n \in {rows[y].seq : y \in Listed(pull[e].from)} : pull'[e].next = n
    BY DEF IndInv, TypeOK, ServeList
  <2> QED
    BY <2>1, <2>2, <2>3
<1>5. Syncing(e)' /\ (ToCome(pull[e], x) => ToCome(pull[e], x)')
  BY <1>1, <1>3, <1>4 DEF Syncing, ToCome
<1> QED
  BY <1>1, <1>5 DEF OnWay

\* A page brings what it stands for, and the next request asks for what is past it.
LEMMA ReadPageOnWay ==
    ASSUME IndInv, FeedInv, Warm, NEW e \in Engines, OnWay(e), ReadPage(e)
    PROVE  OnWay(e)'
<1> SUFFICES ASSUME NEW x \in Items, Attentive(e)', Owed(x)'
             PROVE  \/ Tells(x)' \in chan'[e]
                    \/ /\ Syncing(e)'
                       /\ Tells(x)' \in buffer'[e] \/ queued'[e] \/ ToCome(pull[e], x)'
  BY DEF OnWay
<1>1. /\ Owed(x) /\ Tells(x)' = Tells(x) /\ Attentive(e)
      /\ UNCHANGED <<rows, chan, buffer, queued>>
  BY ReadPageDevice, OwedShrinks DEF FeedInv, ReadPage, Attentive
<1>2. /\ pull'[e] = Request(pull[e].next)
      /\ pull[e].next \in Nat /\ pull[e].from \in Nat /\ rows[x].seq \in Nat
  BY DEF IndInv, TypeOK, Pull, Row, ReadPage
<1>3. Syncing(e)' /\ (rows[x].seq > pull[e].next => ToCome(pull[e], x)')
  BY <1>1, <1>2 DEF Syncing, ToCome, Request
<1>4. ~(pull[e].from < rows[x].seq /\ rows[x].seq <= pull[e].next)
  <2> SUFFICES ASSUME pull[e].from < rows[x].seq, rows[x].seq <= pull[e].next
               PROVE  FALSE
    OBVIOUS
  <2>1. pull[e].page[x] = rows[x].st
    BY DEF IndInv, PagesSound, PageSound
  <2>2. rows[x].st = "live" => x \notin Hidden(e)
    BY DEF IndInv, DeletionsHold, Hidden, Deleted
  <2>3. /\ rows[x].st = "tomb" => feed'[x] = "gone"
        /\ rows[x].st = "live" => feed'[x] # "unknown"
    BY <2>1, <2>2, HeardKnown DEF ReadPage
  <2> QED
    BY <1>1, <2>3 DEF Owed
<1>5. ToCome(pull[e], x) => ToCome(pull[e], x)'
  BY <1>2, <1>3, <1>4 DEF ToCome
<1> QED
  BY <1>1, <1>3, <1>5 DEF OnWay

\* A pull ends with the buffered events, or with the next pull.
LEMMA FinishOnWay ==
    ASSUME IndInv, FeedInv, Warm, NEW e \in Engines, OnWay(e), NothingNew(e) \/ CursorSaved(e)
    PROVE  OnWay(e)'
<1> SUFFICES ASSUME NEW x \in Items, Attentive(e)', Owed(x)'
             PROVE  \/ Tells(x)' \in chan'[e]
                    \/ /\ Syncing(e)'
                       /\ Tells(x)' \in buffer'[e] \/ queued'[e] \/ ToCome(pull[e], x)'
  BY DEF OnWay
<1>1. Finish(e) /\ UNCHANGED <<rows, chan, cursor, sock, stopped, retry>>
  BY DEF NothingNew, CursorSaved
<1>2. Owed(x) /\ Tells(x)' = Tells(x) /\ Attentive(e)
  BY <1>1, FinishDevice, OwedShrinks DEF FeedInv, Attentive
<1>3. Hear(e, Created(buffer[e]), Deleted(buffer[e]), {})
  BY <1>1, <1>2 DEF Finish, Attentive
<1>4. CASE queued[e]
  <2>1. pull'[e] = Request(cursor[e])
    BY <1>1, <1>2, <1>4 DEF IndInv, TypeOK, Finish, Attentive
  <2>2. cursor[e] \in Nat /\ Covers(cursor[e])
    BY DEF IndInv, TypeOK, CursorsSound, Sound
  <2>3. rows[x].seq > cursor[e]
    BY <1>2, <2>2, OwedPastCursors DEF IndInv
  <2> QED
    BY <1>1, <2>1, <2>3 DEF Syncing, ToCome, Request
<1>5. CASE ~queued[e]
  <2>1. ~ToCome(pull[e], x)
    BY DEF NothingNew, CursorSaved, ToCome
  <2>2. Tells(x) \notin buffer[e]
    <3>1. /\ Del(x) \in buffer[e] => feed'[x] = "gone"
          /\ New(x) \in buffer[e] /\ rows[x].st = "live" => feed'[x] # "unknown"
      BY <1>3, HeardKnown DEF Created, Deleted
    <3> QED
      BY <1>1, <3>1 DEF Owed, Tells
  <2> QED
    BY <1>1, <1>2, <1>5, <2>1, <2>2 DEF OnWay
<1> QED
  BY <1>4, <1>5

LEMMA ReadLastOnWay ==
    ASSUME IndInv, FeedInv, NEW e \in Engines, OnWay(e), ReadLastPage(e)
    PROVE  OnWay(e)'
<1>1. pull'[e].at = "saving" /\ UNCHANGED <<rows, feed, chan, buffer, queued, sock, stopped, retry>>
  BY DEF IndInv, TypeOK, Pull, ReadLastPage
<1>2. Syncing(e)' /\ \A x \in Items : ~ToCome(pull[e], x)
  BY <1>1 DEF Syncing, ToCome, ReadLastPage
<1> QED
  BY <1>1, <1>2 DEF OnWay, Owed, Tells, Attentive

\* Of an engine: it is not listening any more, or not yet again.
LEMMA NotAttentive ==
    ASSUME TypeOK, NEW e \in Engines,
           Started(e) \/ Accept(e) \/ Close(e) \/ Wake(e) \/ Drop(e) \/ PullFails(e)
              \/ PullUnauthorized(e),
           Lifecycle
    PROVE  ~Attentive(e)'
<1>1. CASE Started(e) \/ Accept(e) \/ Close(e) \/ Drop(e)
  BY <1>1 DEF TypeOK, Started, Accept, Close, Drop, Attentive
<1>2. CASE Wake(e)
  BY <1>2 DEF TypeOK, Wake, Inert, Attentive
<1>3. CASE PullFails(e)
  BY <1>3 DEF TypeOK, PullFails, Attentive
<1>4. CASE PullUnauthorized(e)
  BY <1>4 DEF TypeOK, PullUnauthorized, Stop, Attentive
<1> QED
  BY <1>1, <1>2, <1>3, <1>4

LEMMA InstanceOnWay ==
    ASSUME QuietInv, Warm, DeviceStep, NEW e \in Engines,
           EngineStep(e) \/ Wake(e) \/ Drop(e) \/ PullFails(e)
    PROVE  \A f \in Engines : OnWay(f)'
<1>0. IndInv /\ FeedInv /\ TypeOK /\ Lifecycle /\ \A f \in Engines : OnWay(f)
  BY DEF QuietInv, IndInv
<1>1. ASSUME NEW f \in Engines, f # e PROVE OnWay(f)'
  BY <1>0, <1>1, OthersSame, SameOnWay
<1>2. ASSUME ~Attentive(e)' PROVE OnWay(e)'
  BY <1>2 DEF OnWay
<1>3. OnWay(e)'
  <2>1. ASSUME \/ Started(e) \/ Accept(e) \/ Close(e) \/ Wake(e) \/ Drop(e) \/ PullFails(e)
               \/ PullUnauthorized(e)
        PROVE  OnWay(e)'
    BY <2>1, <1>0, <1>2, NotAttentive
  <2>2. ASSUME Open(e) \/ RetryTimer(e) PROVE OnWay(e)'
    BY <2>2, <1>0, ResyncOnWay
  <2>3. ASSUME NEW ev \in Event, Message(e, ev) PROVE OnWay(e)'
    BY <2>3, <1>0, MessageOnWay
  <2>4. ASSUME ServeList(e) PROVE OnWay(e)'
    BY <2>4, <1>0, ServeOnWay
  <2>5. ASSUME ReadPage(e) PROVE OnWay(e)'
    BY <2>5, <1>0, ReadPageOnWay
  <2>6. ASSUME NothingNew(e) \/ CursorSaved(e) PROVE OnWay(e)'
    BY <2>6, <1>0, FinishOnWay
  <2>7. ASSUME ReadLastPage(e) PROVE OnWay(e)'
    BY <2>7, <1>0, ReadLastOnWay
  <2> QED
    BY <2>1, <2>2, <2>3, <2>4, <2>5, <2>6, <2>7 DEF EngineStep
<1> QED
  BY <1>1, <1>3

\* What the user dismisses is owed no more.
LEMMA DismissOnWay ==
    ASSUME QuietInv, NEW x \in Items, RemoveAsleep(x)
    PROVE  Unshown' /\ \A f \in Engines : OnWay(f)'
<1>1. UNCHANGED <<rows, chan, buffer, pull, queued, sock, stopped, retry>>
  BY DEF RemoveAsleep, engineVars
<1>2. \A y \in Items : /\ feed[y] = "gone" => feed'[y] = "gone"
                       /\ feed[y] # "unknown" => feed'[y] # "unknown"
                       /\ feed'[y] = "shown" => feed[y] = "shown"
  BY LearnGrows DEF RemoveAsleep, QuietInv, IndInv, TypeOK
<1>3. Unshown'
  BY <1>1, <1>2 DEF QuietInv, Unshown
<1>4. ASSUME NEW f \in Engines, NEW y \in Items, Attentive(f)', Owed(y)'
      PROVE  \/ Tells(y)' \in chan'[f]
             \/ Syncing(f)' /\ (Tells(y)' \in buffer'[f] \/ queued'[f] \/ ToCome(pull[f], y)')
  <2>1. Owed(y) /\ Tells(y)' = Tells(y) /\ Attentive(f)
    BY <1>1, <1>2, <1>4 DEF Owed, Tells, Attentive
  <2>2. (Syncing(f)' <=> Syncing(f)) /\ (ToCome(pull[f], y)' <=> ToCome(pull[f], y))
    BY <1>1 DEF Syncing, ToCome
  <2> QED
    BY <1>1, <2>1, <2>2 DEF QuietInv, OnWay
<1> QED
  BY <1>3, <1>4 DEF OnWay

\* The controller's steps, a crash and a revocation close sockets, or touch none.
LEMMA ControllerOnWay ==
    ASSUME QuietInv, DeviceStep,
           \/ Revoke \/ Sleep \/ Crash \/ UNCHANGED vars
           \/ \E r \in replies : Reply(r) \/ ReplyLost(r)
    PROVE  \A f \in Engines : OnWay(f)'
<1> SUFFICES ASSUME NEW f \in Engines PROVE OnWay(f)'
  OBVIOUS
<1>0. FeedInv /\ TypeOK /\ OnWay(f)
  BY DEF QuietInv, IndInv
<1>1. Same(f) \/ ~Attentive(f)'
  <2>1. CASE Revoke
    BY <2>1, <1>0 DEF TypeOK, Revoke, Registered, Attentive
  <2>2. CASE Sleep
    BY <2>2, <1>0 DEF TypeOK, Sleep, Stop, Same, Attentive
  <2>3. CASE Crash
    BY <2>3 DEF Crash, Attentive
  <2>4. ASSUME UNCHANGED vars \/ \E r \in replies : Reply(r) \/ ReplyLost(r)
        PROVE  Same(f)
    BY <2>4 DEF vars, Reply, ReplyLost, engineVars, Same
  <2> QED
    BY <2>1, <2>2, <2>3, <2>4
<1> QED
  BY <1>0, <1>1, SameOnWay DEF OnWay

\* A change of the account is told to every registered socket.
LEMMA AccountOnWay ==
    ASSUME QuietInv, NEW x \in Items, AccountStep(x),
           UNCHANGED <<buffer, pull, queued, sock, stopped, retry>>,
           \A e \in Engines : chan[e] \subseteq chan'[e],
           \/ rows' = rows
           \/ \A e \in Engines : Registered(e) => Tells(x)' \in chan'[e]
    PROVE  Unshown' /\ \A e \in Engines : OnWay(e)'
<1>1. Unshown'
  BY DEF AccountStep, Unshown, QuietInv
<1>2. ASSUME NEW e \in Engines, NEW y \in Items, Attentive(e)', Owed(y)'
      PROVE  \/ Tells(y)' \in chan'[e]
             \/ Syncing(e)' /\ (Tells(y)' \in buffer'[e] \/ queued'[e] \/ ToCome(pull[e], y)')
  <2>1. Attentive(e) /\ Registered(e)
    BY <1>2 DEF Attentive, Registered
  <2>2. CASE y = x /\ rows' # rows
    BY <2>1, <2>2
  <2>3. CASE y # x \/ rows' = rows
    <3>1. rows'[y] = rows[y] /\ feed' = feed
      BY <2>3 DEF AccountStep
    <3>2. Owed(y) /\ Tells(y)' = Tells(y)
      BY <1>2, <3>1 DEF Owed, Tells
    <3>3. (Syncing(e)' <=> Syncing(e)) /\ (ToCome(pull[e], y)' <=> ToCome(pull[e], y))
      BY <3>1 DEF Syncing, ToCome
    <3> QED
      BY <2>1, <3>2, <3>3 DEF QuietInv, OnWay
  <2> QED
    BY <2>2, <2>3
<1> QED
  BY <1>1, <1>2 DEF OnWay

LEMMA ServerOnWay ==
    ASSUME QuietInv, NEW x \in Items,
           OtherCreates(x) \/ OtherDeletes(x) \/ OwnPost(x) \/ OwnDelete(x)
    PROVE  Unshown' /\ \A e \in Engines : OnWay(e)'
<1>0. FeedInv /\ TypeOK
  BY DEF QuietInv, IndInv
<1>1. AccountStep(x)
  BY <1>0, OtherStep, OwnStep
<1>2. UNCHANGED <<buffer, pull, queued, sock, stopped, retry>>
  BY DEF OtherCreates, OtherDeletes, OwnPost, OwnDelete, localVars
<1>3. /\ \A e \in Engines : chan[e] \subseteq chan'[e]
      /\ \/ rows' = rows
         \/ \A e \in Engines : Registered(e) => Tells(x)' \in chan'[e]
  <2>1. CASE Broadcast(New(x)) /\ rows'[x].st = "live"
    BY <2>1 DEF Broadcast, Tells
  <2>2. CASE Broadcast(Del(x)) /\ rows'[x].st = "tomb"
    BY <2>2 DEF Broadcast, Tells
  <2>3. CASE UNCHANGED <<rows, chan>>
    BY <2>3
  <2>4. Insert(x) => rows'[x].st = "live"
    BY <1>0 DEF TypeOK, Insert
  <2>5. SoftDelete(x) => rows'[x].st = "tomb"
    BY <1>0 DEF TypeOK, SoftDelete
  <2> QED
    BY <2>1, <2>2, <2>3, <2>4, <2>5 DEF OtherCreates, OtherDeletes, OwnPost, OwnDelete
<1> QED
  BY <1>1, <1>2, <1>3, AccountOnWay

\* Of a pruned tombstone nothing is owed, and a device that returned in time
\* does not show the item.
LEMMA PruneOnWay ==
    ASSUME QuietInv, DeviceReturns, NEW s \in 1 .. SeqCap, Prune(s)
    PROVE  Unshown' /\ \A e \in Engines : OnWay(e)'
<1>1. /\ \A x \in Items : rows'[x] = rows[x] \/ (rows'[x].st = "none" /\ feed[x] # "shown")
      /\ UNCHANGED <<feed, chan, buffer, pull, queued, sock, stopped, retry>>
  BY DEF Prune, PruneUpTo, NoRow, localVars
<1>2. Unshown'
  BY <1>1 DEF QuietInv, Unshown
<1>3. ASSUME NEW e \in Engines, NEW x \in Items, Attentive(e)', Owed(x)'
      PROVE  \/ Tells(x)' \in chan'[e]
             \/ Syncing(e)' /\ (Tells(x)' \in buffer'[e] \/ queued'[e] \/ ToCome(pull[e], x)')
  <2>1. rows'[x] = rows[x] /\ Owed(x) /\ Tells(x)' = Tells(x) /\ Attentive(e)
    BY <1>1, <1>3 DEF Owed, Tells, Attentive
  <2>2. (Syncing(e)' <=> Syncing(e)) /\ (ToCome(pull[e], x)' <=> ToCome(pull[e], x))
    BY <1>1, <2>1 DEF Syncing, ToCome
  <2> QED
    BY <1>1, <2>1, <2>2 DEF QuietInv, OnWay
<1> QED
  BY <1>2, <1>3 DEF OnWay

LEMMA QuietInit == Init => QuietInv
<1> SUFFICES ASSUME Init PROVE Unshown /\ \A e \in Engines : OnWay(e)
  BY IndInit, FeedInit DEF QuietInv
<1>1. Unshown
  BY DEF Init, Unshown
<1>2. \A e \in Engines : ~Attentive(e)
  BY DEF Init, Attentive
<1> QED
  BY <1>1, <1>2 DEF OnWay

LEMMA QuietStep ==
    ASSUME ActiveAccount, Warm, DeviceReturns, QuietInv, [Next]_vars
    PROVE  QuietInv'
<1>1. IndInv' /\ FeedInv'
  BY IndStep, FeedStep DEF QuietInv
<1>2. CASE ServerStep
  BY <1>1, <1>2, ServerOnWay DEF ServerStep, QuietInv
<1>3. CASE PruneStep
  BY <1>1, <1>3, PruneOnWay DEF PruneStep, QuietInv
<1>5. CASE DismissStep
  BY <1>1, <1>5, DismissOnWay DEF DismissStep, QuietInv
<1>4. CASE ~ServerStep /\ ~PruneStep /\ ~DismissStep
  <2>1. DeviceStep
    BY <1>4, OtherwiseDevice DEF QuietInv
  <2>2. Unshown'
    BY <2>1, UnshownKept DEF QuietInv, IndInv
  <2>3. \/ \E e \in Engines : EngineStep(e) \/ Wake(e) \/ Drop(e) \/ PullFails(e)
        \/ Revoke \/ Sleep \/ Crash \/ UNCHANGED vars
        \/ \E r \in replies : Reply(r) \/ ReplyLost(r)
    BY <1>4 DEF Next, ServerStep, PruneStep, DismissStep
  <2>4. \A f \in Engines : OnWay(f)'
    BY <2>1, <2>3, InstanceOnWay, ControllerOnWay
  <2> QED
    BY <1>1, <2>2, <2>4 DEF QuietInv
<1> QED
  BY <1>2, <1>3, <1>4, <1>5

\* QuietMatches of SyncEngine: an engine that is attached and has nothing left to do
\* shows exactly the account's items not dismissed by its user, whatever was lost, restarted or interleaved
\* before, on a device that has a cursor and comes back within every retention
\* window of an account that stays in use.
THEOREM QuietTrue ==
    ASSUME ActiveAccount, Warm, DeviceReturns
    PROVE  Spec => []QuietMatches
<1>1. Init => QuietInv
  BY QuietInit
<1>2. QuietInv /\ [Next]_vars => QuietInv'
  BY QuietStep
<1>3. QuietInv => QuietMatches
  <2> SUFFICES ASSUME QuietInv, NEW e \in Engines, Quiet(e), NEW x \in Items
               PROVE  feed[x] = "shown" <=> rows[x].st = "live" /\ x \notin unasked
    BY DEF QuietMatches, Matches
  <2>1. ~Owed(x)
    BY DEF QuietInv, OnWay, Quiet, Attentive
  <2>2. /\ feed[x] = "gone" => rows[x].st # "live" \/ x \in unasked
        /\ x \in unasked => feed[x] = "gone"
    BY DEF QuietInv, FeedInv, FeedTrue, Gone, Status
  <2>3. rows[x].st = "none" => feed[x] # "shown"
    BY DEF QuietInv, Unshown
  <2>4. rows[x].st \in {"none", "live", "tomb"} /\ feed[x] \in View
    BY DEF QuietInv, IndInv, TypeOK, Row
  <2> QED
    BY <2>1, <2>2, <2>3, <2>4 DEF Owed, View
<1> QED
  BY <1>1, <1>2, <1>3, PTL DEF Spec
===============================================================================

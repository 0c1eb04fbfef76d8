------------------------------ MODULE SyncEngine ------------------------------
(***************************************************************************)
(* One device's view of the feed: packages/core's SyncEngine, ItemCache    *)
(* and ReconnectingSocket, the client's persisted FeedStore, and the       *)
(* server they talk to.  Other devices are the environment: they reach     *)
(* this one only through the rows of the server and the events its hub     *)
(* sends.                                                                  *)
(*                                                                         *)
(* A client makes a new SyncEngine each time it wakes up, and stop() does  *)
(* not cancel the pull the old one is awaiting, so several instances may   *)
(* be at work on the same storage.  "Engines" names those that exist at    *)
(* the same time.                                                          *)
(*                                                                         *)
(* One action is the code between two awaits.  A storage write of the feed *)
(* is taken to be durable when it is issued; the write of the cursor is a  *)
(* step of its own.                                                        *)
(***************************************************************************)
EXTENDS ItemStore

CONSTANTS
    Engines,        \* the SyncEngine instances that exist at a time
    NoEngine,       \* the controller holds no engine
    OwnRequests,    \* the POSTs and DELETEs this device may make, <<"post", x>>
                    \* and <<"delete", x>>, and the items its user may delete
                    \* while it has no connection, <<"asleep", x>>
    Seed,           \* an item that is in the account at the start
    Warm,           \* TRUE: the device has synchronised before (it has a cursor)
    DeviceReturns,  \* TRUE: assume the device synchronises at least once in
                    \* every tombstone retention window
    MaxFaults       \* bound on lost connections, failed calls, crashes and
                    \* revocation

ASSUME EnginesAssumption == NoEngine \notin Engines
ASSUME OwnAssumption     == OwnRequests \subseteq {"post", "delete", "asleep"} \X Items
ASSUME SeedAssumption    == Seed \in Items
ASSUME WarmAssumption    == Warm \in BOOLEAN
ASSUME ReturnsAssumption == DeviceReturns \in BOOLEAN
ASSUME FaultsAssumption  == MaxFaults \in Nat

VARIABLES
    \* persisted by the client, shared by its engine instances
    saved,      \* storage["cc.cursor"], 0 when absent
    feed,       \* FeedStore: what the user sees of each item
    \* the controller
    current,    \* the engine it holds
    replies,    \* its POSTs and DELETEs the server has done, response on its way
    \* per engine instance
    loading,    \* it is in start(), awaiting the stored cursor
    stopped,    \* this.stopped
    cursor,     \* this.cursor
    cache,      \* this.cache: items and tombstones of this instance
    buffer,     \* this.buffer: the events received during a pull
    queued,     \* this.resyncQueued
    retry,      \* the pull retry timer is armed
    pull,       \* the pull the instance is awaiting
    sock,       \* its WebSocket
    chan,       \* events the hub has sent to it that have not arrived
    \* the environment
    unsent,     \* items that wait in an outbox, this device's or another's
    authorized, \* the device's token is valid
    faults,     \* faults so far
    \* history
    unasked     \* the items the device hid without asking the server

engineVars == <<loading, stopped, cursor, cache, buffer, queued, retry, pull, sock, chan>>
vars == <<rows, saved, feed, current, replies, engineVars, unsent, authorized, faults, unasked>>

-----------------------------------------------------------------------------
\* What a device knows of an item: never heard of it, it is listed, or its
\* tombstone is recorded.  ItemCache and FeedStore both keep this.
View == {"unknown", "shown", "gone"}

\* Mutant of Learn: upsert forgets to look at the tombstones.
LearnForgetful(view, new, dead) ==
    [x \in Items |-> IF x \in dead THEN "gone"
                     ELSE IF x \in new THEN "shown" ELSE view[x]]

\* upsert of each item of "new" and remove of each item of "dead": a tombstone
\* is permanent, and an item that is known already stays as it is.
Learn(view, new, dead) ==
    [x \in Items |-> IF x \in dead THEN "gone"
                     ELSE IF x \in new /\ view[x] = "unknown" THEN "shown"
                     ELSE view[x]]

NothingKnown == [x \in Items |-> "unknown"]

\* Server events: item_new and item_deleted of an item.
Event == {"new", "del"} \X Items
New(x) == <<"new", x>>
Del(x) == <<"del", x>>
Created(events) == {x \in Items : New(x) \in events}
Deleted(events) == {x \in Items : Del(x) \in events}

\* A pull: the phase it is in, the cursor of its request, and of the answer what
\* the page says of each item and next_cursor, 0 when the page is empty.
Pull == [at : {"idle", "request", "answered", "saving"}, from : Nat, next : Nat,
         page : [Items -> {"none", "live", "tomb"}]]
Idle == [at |-> "idle", from |-> 0, page |-> EmptyPage, next |-> 0]
Request(c) == [at |-> "request", from |-> c, page |-> EmptyPage, next |-> 0]
Syncing(e) == pull[e].at # "idle"

Registered(e) == sock[e] \in {"accepted", "open"}

TypeOK ==
    /\ rows \in [Items -> Row]
    /\ saved \in Nat
    /\ feed \in [Items -> View]
    /\ current \in Engines \cup {NoEngine}
    /\ replies \in SUBSET ({"post", "delete"} \X Items)
    /\ loading \in [Engines -> BOOLEAN]
    /\ stopped \in [Engines -> BOOLEAN]
    /\ cursor \in [Engines -> Nat]
    /\ cache \in [Engines -> [Items -> View]]
    /\ buffer \in [Engines -> SUBSET Event]
    /\ queued \in [Engines -> BOOLEAN]
    /\ retry \in [Engines -> BOOLEAN]
    /\ pull \in [Engines -> Pull]
    /\ sock \in [Engines -> {"none", "down", "accepted", "open", "dead"}]
    /\ chan \in [Engines -> SUBSET Event]
    /\ unsent \in SUBSET Items
    /\ authorized \in BOOLEAN
    /\ faults \in Nat
    /\ unasked \in SUBSET Items

\* The account is empty, or holds Seed.  A device that has synchronised before
\* has listed Seed and saved its sequence number as the cursor.
Init ==
    /\ \/ /\ rows = [x \in Items |-> IF x = Seed THEN [st |-> "live", seq |-> 1] ELSE NoRow]
          /\ unsent = Items \ {Seed}
       \/ /\ ~Warm
          /\ rows = [x \in Items |-> NoRow]
          /\ unsent = Items
    /\ saved = IF Warm THEN 1 ELSE 0
    /\ feed = [x \in Items |-> IF Warm /\ x = Seed THEN "shown" ELSE "unknown"]
    /\ current = NoEngine
    /\ replies = {}
    /\ loading = [e \in Engines |-> FALSE]
    /\ stopped = [e \in Engines |-> TRUE]
    /\ cursor = [e \in Engines |-> 0]
    /\ cache = [e \in Engines |-> NothingKnown]
    /\ buffer = [e \in Engines |-> {}]
    /\ queued = [e \in Engines |-> FALSE]
    /\ retry = [e \in Engines |-> FALSE]
    /\ pull = [e \in Engines |-> Idle]
    /\ sock = [e \in Engines |-> "none"]
    /\ chan = [e \in Engines |-> {}]
    /\ authorized = TRUE
    /\ faults = 0
    /\ unasked = {}

-----------------------------------------------------------------------------
(***************************************************************************)
(* The server: what other devices, and this one's own requests, make it do.*)
(***************************************************************************)

\* Hub.broadcast: the event goes to every registered socket of the user.
\* Concurrent broadcasts may overtake each other, so a channel is a set.
Broadcast(ev) ==
    chan' = [e \in Engines |-> IF Registered(e) THEN chan[e] \cup {ev} ELSE chan[e]]

localVars == <<saved, feed, current, loading, stopped, cursor, cache, buffer,
               queued, retry, pull, sock>>

\* Another device posts an item.
OtherCreates(x) ==
    /\ x \in unsent
    /\ <<"post", x>> \notin OwnRequests
    /\ Insert(x)
    /\ Broadcast(New(x))
    /\ unsent' = unsent \ {x}
    /\ UNCHANGED <<localVars, replies, unasked, authorized, faults>>

\* Another device deletes an item; the event is sent also when the item is
\* a tombstone already.
OtherDeletes(x) ==
    /\ SoftDelete(x)
    /\ Broadcast(Del(x))
    /\ UNCHANGED <<localVars, replies, unsent, unasked, authorized, faults>>

\* The server handles a POST of this device's outbox, which repeats it until it
\* has an answer.  A replay of an id the server knows, even of a tombstone,
\* changes nothing and sends no event.
OwnPost(x) ==
    /\ x \in unsent
    /\ <<"post", x>> \in OwnRequests
    /\ authorized
    /\ \/ Insert(x) /\ Broadcast(New(x))
       \/ rows[x].st # "none" /\ UNCHANGED <<rows, chan>>
    /\ replies' = replies \cup {<<"post", x>>}
    /\ UNCHANGED <<localVars, unsent, unasked, authorized, faults>>

\* The server handles this device's DELETE.
OwnDelete(x) ==
    /\ <<"delete", x>> \in OwnRequests
    /\ authorized
    /\ SoftDelete(x)
    /\ Broadcast(Del(x))
    /\ replies' = replies \cup {<<"delete", x>>}
    /\ UNCHANGED <<localVars, unsent, unasked, authorized, faults>>

\* Something about x has been sent and not yet been acted on.
InFlight(x) ==
    \/ x \in unsent
    \/ <<"post", x>> \in replies \/ <<"delete", x>> \in replies
    \/ \E e \in Engines :
          \/ {New(x), Del(x)} \cap (chan[e] \cup buffer[e]) # {}
          \/ pull[e].page[x] # "none"
          \/ cache[e][x] = "shown" /\ feed[x] = "unknown"

\* The nightly prune.  The retention window (30 days) is taken to be longer
\* than anything about the item stays in flight.
Prune(s) ==
    /\ \A x \in Expired(s) : ~InFlight(x)
    /\ DeviceReturns => \A x \in Expired(s) : feed[x] # "shown"
    /\ PruneUpTo(s)
    /\ UNCHANGED <<localVars, chan, replies, unsent, unasked, authorized, faults>>

\* The device is revoked: its token is deleted and its sockets are closed.
Revoke ==
    /\ authorized
    /\ faults < MaxFaults
    /\ faults' = faults + 1
    /\ authorized' = FALSE
    /\ sock' = [e \in Engines |-> IF Registered(e) THEN "dead" ELSE sock[e]]
    /\ UNCHANGED <<rows, saved, feed, current, replies, loading, stopped, cursor, cache,
                   buffer, queued, retry, pull, chan, unsent, unasked>>

-----------------------------------------------------------------------------
(***************************************************************************)
(* The controller: wake, sleep, and the answers to its own requests.       *)
(***************************************************************************)

\* The instance was stopped and awaits nothing more: it is garbage, and its name
\* may stand for a new one.
Inert(e) == stopped[e] /\ ~loading[e] /\ ~Syncing(e) /\ sock[e] = "none"

\* doWake: a new engine is made and start() called, which runs up to the await
\* of the stored cursor.
Wake(e) ==
    /\ current = NoEngine
    /\ Inert(e)
    /\ current' = e
    /\ loading' = [loading EXCEPT ![e] = TRUE]
    /\ stopped' = [stopped EXCEPT ![e] = FALSE]
    /\ cursor' = [cursor EXCEPT ![e] = 0]
    /\ cache' = [cache EXCEPT ![e] = NothingKnown]
    /\ buffer' = [buffer EXCEPT ![e] = {}]
    /\ queued' = [queued EXCEPT ![e] = FALSE]
    /\ UNCHANGED <<rows, saved, feed, replies, retry, pull, sock, chan, unsent, unasked,
                   authorized, faults>>

\* SyncEngine.stop: the socket is closed and the timers are cleared.  A pull in
\* progress goes on.
Stop(e) ==
    /\ stopped' = [stopped EXCEPT ![e] = TRUE]
    /\ retry' = [retry EXCEPT ![e] = FALSE]
    /\ sock' = [sock EXCEPT ![e] = "none"]
    /\ chan' = [chan EXCEPT ![e] = {}]

\* sleep: the controller stops its engine and forgets it.
Sleep ==
    /\ current # NoEngine
    /\ Stop(current)
    /\ current' = NoEngine
    /\ UNCHANGED <<rows, saved, feed, replies, loading, cursor, cache, buffer, queued,
                   pull, unsent, unasked, authorized, faults>>

\* The server's answer to a POST arrives: "delivered" puts the item in the feed,
\* whatever the answer says of it.  The answer to a DELETE records the tombstone.
Reply(r) ==
    /\ r \in replies
    /\ replies' = replies \ {r}
    /\ IF r[1] = "post"
       THEN feed' = Learn(feed, {r[2]}, {}) /\ unsent' = unsent \ {r[2]}
       ELSE feed' = Learn(feed, {}, {r[2]}) /\ UNCHANGED unsent
    /\ UNCHANGED <<rows, saved, current, engineVars, unasked, authorized, faults>>

\* SyncController.remove of the phone while it sleeps: there is no client to send
\* the DELETE with, and the tombstone is recorded all the same.
RemoveAsleep(x) ==
    /\ <<"asleep", x>> \in OwnRequests
    /\ current = NoEngine
    /\ feed[x] = "shown"
    /\ feed' = Learn(feed, {}, {x})
    /\ unasked' = unasked \cup {x}
    /\ UNCHANGED <<rows, saved, current, replies, engineVars, unsent, authorized, faults>>

-----------------------------------------------------------------------------
(***************************************************************************)
(* SyncEngine.                                                             *)
(***************************************************************************)

\* The instance e learns of items in its cache, and passes on to the feed what
\* its cache did not know.  Items of "hidden" are cached and not passed on.
Hear(e, new, dead, hidden) ==
    /\ cache' = [cache EXCEPT ![e] = Learn(@, new, dead)]
    /\ feed' = Learn(feed,
                     {x \in new \ hidden : cache[e][x] = "unknown"},
                     {x \in dead : cache[e][x] # "gone"})

\* start() goes on with the stored cursor: it makes the socket and connects,
\* without looking whether stop() was called meanwhile.
Started(e) ==
    /\ loading[e]
    /\ loading' = [loading EXCEPT ![e] = FALSE]
    /\ cursor' = [cursor EXCEPT ![e] = saved]
    /\ sock' = [sock EXCEPT ![e] = "down"]
    /\ UNCHANGED <<rows, saved, feed, current, replies, stopped, cache, buffer, queued,
                   retry, pull, chan, unsent, unasked, authorized, faults>>

\* The server accepts the connection and registers the socket.
Accept(e) ==
    /\ sock[e] = "down"
    /\ authorized
    /\ sock' = [sock EXCEPT ![e] = "accepted"]
    /\ UNCHANGED <<rows, saved, feed, current, replies, loading, stopped, cursor, cache,
                   buffer, queued, retry, pull, chan, unsent, unasked, authorized, faults>>

\* Mutant of Resync: a reconnect during a pull asks for nothing more.
ResyncNoFollowUp(e) ==
    /\ retry' = [retry EXCEPT ![e] = FALSE]
    /\ queued' = [queued EXCEPT ![e] = FALSE]
    /\ IF Syncing(e)
       THEN UNCHANGED <<pull, buffer>>
       ELSE /\ buffer' = [buffer EXCEPT ![e] = {}]
            /\ pull' = [pull EXCEPT ![e] = Request(cursor[e])]

\* resync(): start a pull, or note that one more is wanted.
Resync(e) ==
    /\ retry' = [retry EXCEPT ![e] = FALSE]
    /\ IF Syncing(e)
       THEN /\ queued' = [queued EXCEPT ![e] = TRUE]
            /\ UNCHANGED <<pull, buffer>>
       ELSE /\ queued' = [queued EXCEPT ![e] = FALSE]
            /\ buffer' = [buffer EXCEPT ![e] = {}]
            /\ pull' = [pull EXCEPT ![e] = Request(cursor[e])]

\* onopen.
Open(e) ==
    /\ sock[e] = "accepted"
    /\ sock' = [sock EXCEPT ![e] = "open"]
    /\ Resync(e)
    /\ UNCHANGED <<rows, saved, feed, current, replies, loading, stopped, cursor, cache,
                   chan, unsent, unasked, authorized, faults>>

\* The pull retry timer fires.
RetryTimer(e) ==
    /\ retry[e]
    /\ Resync(e)
    /\ UNCHANGED <<rows, saved, feed, current, replies, loading, stopped, cursor, cache,
                   sock, chan, unsent, unasked, authorized, faults>>

\* The connection breaks: the server has forgotten the socket, the client has
\* not noticed.
Drop(e) ==
    /\ Registered(e)
    /\ faults < MaxFaults
    /\ faults' = faults + 1
    /\ sock' = [sock EXCEPT ![e] = "dead"]
    /\ UNCHANGED <<rows, saved, feed, current, replies, loading, stopped, cursor, cache,
                   buffer, queued, retry, pull, chan, unsent, unasked, authorized>>

\* onclose: what has not arrived is lost, and a reconnect is scheduled.
Close(e) ==
    /\ sock[e] = "dead"
    /\ sock' = [sock EXCEPT ![e] = "down"]
    /\ chan' = [chan EXCEPT ![e] = {}]
    /\ UNCHANGED <<rows, saved, feed, current, replies, loading, stopped, cursor, cache,
                   buffer, queued, retry, pull, unsent, unasked, authorized, faults>>

\* handleMessage: buffered during a pull, applied otherwise.
Message(e, ev) ==
    /\ ev \in chan[e]
    /\ sock[e] \in {"open", "dead"}
    /\ chan' = [chan EXCEPT ![e] = @ \ {ev}]
    /\ IF Syncing(e)
       THEN /\ buffer' = [buffer EXCEPT ![e] = @ \cup {ev}]
            /\ UNCHANGED <<cache, feed>>
       ELSE /\ Hear(e, Created({ev}), Deleted({ev}), {})
            /\ UNCHANGED buffer
    /\ UNCHANGED <<rows, saved, current, replies, loading, stopped, cursor, queued, retry,
                   pull, sock, unsent, unasked, authorized, faults>>

\* The server handles GET /items.
ServeList(e) ==
    /\ pull[e].at = "request"
    /\ authorized
    /\ LET from == pull[e].from IN
       \/ /\ Listed(from) = {}
          /\ pull' = [pull EXCEPT ![e] = [at |-> "answered", from |-> from,
                                          page |-> EmptyPage, next |-> 0]]
       \/ \E n \in {rows[x].seq : x \in Listed(from)} :
             /\ IsPageEnd(from, n)
             /\ pull' = [pull EXCEPT ![e] = [at |-> "answered", from |-> from,
                                             page |-> Page(from, n), next |-> n]]
    /\ UNCHANGED <<rows, saved, feed, current, replies, loading, stopped, cursor, cache,
                   buffer, queued, retry, sock, chan, unsent, unasked, authorized, faults>>

\* Mutant of Finish: what was buffered during the pull is dropped.
FinishUndrained(e) ==
    /\ buffer' = [buffer EXCEPT ![e] = {}]
    /\ pull' = [pull EXCEPT ![e] = IF queued[e] /\ ~stopped[e]
                                    THEN Request(cursor[e]) ELSE Idle]
    /\ queued' = [queued EXCEPT ![e] = queued[e] /\ stopped[e]]
    /\ UNCHANGED <<cache, feed>>

\* The pull has ended well: the buffered events are applied and a queued resync
\* is run, unless the engine was stopped meanwhile.
Finish(e) ==
    /\ buffer' = [buffer EXCEPT ![e] = {}]
    /\ IF stopped[e]
       THEN /\ pull' = [pull EXCEPT ![e] = Idle]
            /\ UNCHANGED <<cache, feed, queued>>
       ELSE /\ Hear(e, Created(buffer[e]), Deleted(buffer[e]), {})
            /\ pull' = [pull EXCEPT ![e] = IF queued[e] THEN Request(cursor[e]) ELSE Idle]
            /\ queued' = [queued EXCEPT ![e] = FALSE]

\* Mutant of Hidden: pages are shown whatever the buffer holds.
HideNothing(e) == {}

\* bufferHasTombstone, of every item: those whose deletion waits in the buffer.
Hidden(e) == Deleted(buffer[e])

\* A page with rows arrives; the next one is asked for.  A live item whose
\* deletion waits in the buffer is cached and not shown.
ReadPage(e) ==
    /\ pull[e].at = "answered"
    /\ pull[e].next # 0
    /\ LET page == pull[e].page IN
       Hear(e, {x \in Items : page[x] = "live"}, {x \in Items : page[x] = "tomb"},
            Hidden(e))
    /\ pull' = [pull EXCEPT ![e] = Request(pull[e].next)]
    /\ UNCHANGED <<rows, saved, current, replies, loading, stopped, cursor, buffer, queued,
                   retry, sock, chan, unsent, unasked, authorized, faults>>

\* The empty page arrives and the cursor has moved: it is written to storage.
ReadLastPage(e) ==
    /\ pull[e].at = "answered"
    /\ pull[e].next = 0
    /\ pull[e].from # cursor[e]
    /\ cursor' = [cursor EXCEPT ![e] = pull[e].from]
    /\ pull' = [pull EXCEPT ![e].at = "saving"]
    /\ UNCHANGED <<rows, saved, feed, current, replies, loading, stopped, cache, buffer,
                   queued, retry, sock, chan, unsent, unasked, authorized, faults>>

\* The empty page arrives and nothing was new.
NothingNew(e) ==
    /\ pull[e].at = "answered"
    /\ pull[e].next = 0
    /\ pull[e].from = cursor[e]
    /\ Finish(e)
    /\ UNCHANGED <<rows, saved, current, replies, loading, stopped, cursor, retry, sock,
                   chan, unsent, unasked, authorized, faults>>

\* The cursor has been written.
CursorSaved(e) ==
    /\ pull[e].at = "saving"
    /\ saved' = cursor[e]
    /\ Finish(e)
    /\ UNCHANGED <<rows, current, replies, loading, stopped, cursor, retry, sock, chan,
                   unsent, unasked, authorized, faults>>

\* The request, its answer or the write of the cursor fails: a retry is
\* scheduled.  The buffer is left; the next resync() empties it.
PullFails(e) ==
    /\ Syncing(e)
    /\ faults < MaxFaults
    /\ faults' = faults + 1
    /\ pull' = [pull EXCEPT ![e] = Idle]
    /\ retry' = [retry EXCEPT ![e] = ~stopped[e]]
    /\ UNCHANGED <<rows, saved, feed, current, replies, loading, stopped, cursor, cache,
                   buffer, queued, sock, chan, unsent, unasked, authorized>>

\* The request is answered 401: the engine stops itself.
PullUnauthorized(e) ==
    /\ pull[e].at = "request"
    /\ ~authorized
    /\ pull' = [pull EXCEPT ![e] = Idle]
    /\ IF stopped[e] THEN UNCHANGED <<stopped, retry, sock, chan>> ELSE Stop(e)
    /\ UNCHANGED <<rows, saved, feed, current, replies, loading, cursor, cache, buffer,
                   queued, unsent, unasked, authorized, faults>>

-----------------------------------------------------------------------------
(***************************************************************************)
(* More faults.                                                            *)
(***************************************************************************)

\* The answer to a POST or DELETE is lost.
ReplyLost(r) ==
    /\ r \in replies
    /\ faults < MaxFaults
    /\ faults' = faults + 1
    /\ replies' = replies \ {r}
    /\ UNCHANGED <<rows, saved, feed, current, engineVars, unsent, unasked, authorized>>

\* The client's process ends (worker killed, app killed, device off): every
\* instance is gone; the feed and the saved cursor stay.
Crash ==
    /\ \E e \in Engines : ~Inert(e)
    /\ faults < MaxFaults
    /\ faults' = faults + 1
    /\ current' = NoEngine
    /\ replies' = {}
    /\ loading' = [e \in Engines |-> FALSE]
    /\ stopped' = [e \in Engines |-> TRUE]
    /\ cache' = [e \in Engines |-> NothingKnown]
    /\ buffer' = [e \in Engines |-> {}]
    /\ queued' = [e \in Engines |-> FALSE]
    /\ retry' = [e \in Engines |-> FALSE]
    /\ pull' = [e \in Engines |-> Idle]
    /\ sock' = [e \in Engines |-> "none"]
    /\ chan' = [e \in Engines |-> {}]
    /\ cursor' = [e \in Engines |-> 0]
    /\ UNCHANGED <<rows, saved, feed, unsent, unasked, authorized>>

-----------------------------------------------------------------------------
EngineStep(e) ==
    \/ Started(e) \/ Accept(e) \/ Open(e) \/ RetryTimer(e) \/ Close(e)
    \/ \E ev \in Event : Message(e, ev)
    \/ ServeList(e) \/ ReadPage(e) \/ ReadLastPage(e) \/ NothingNew(e)
    \/ CursorSaved(e) \/ PullUnauthorized(e)

Next ==
    \/ \E x \in Items : OtherCreates(x) \/ OtherDeletes(x) \/ OwnPost(x) \/ OwnDelete(x)
    \/ \E s \in 1 .. SeqCap : Prune(s)
    \/ Revoke
    \/ \E e \in Engines : Wake(e)
    \/ Sleep
    \/ \E r \in replies : Reply(r) \/ ReplyLost(r)
    \/ \E x \in Items : RemoveAsleep(x)
    \/ \E e \in Engines : EngineStep(e) \/ Drop(e) \/ PullFails(e)
    \/ Crash

Spec == Init /\ [][Next]_vars

\* What the runtime and the network do in the end: answers, events and timers
\* arrive, storage answers, a lost connection is noticed.  Nothing is assumed of
\* the users, and faults need not happen.
FairSpec ==
    /\ Spec
    /\ \A e \in Engines :
          /\ WF_vars(Started(e)) /\ WF_vars(Accept(e)) /\ WF_vars(Open(e))
          /\ WF_vars(RetryTimer(e)) /\ WF_vars(Close(e))
          /\ \A ev \in Event : WF_vars(Message(e, ev))
          /\ WF_vars(ServeList(e)) /\ WF_vars(ReadPage(e)) /\ WF_vars(ReadLastPage(e))
          /\ WF_vars(NothingNew(e)) /\ WF_vars(CursorSaved(e)) /\ WF_vars(PullUnauthorized(e))
    /\ \A r \in {"post", "delete"} \X Items : WF_vars(r \in replies /\ Reply(r))

-----------------------------------------------------------------------------
(***************************************************************************)
(* Properties.                                                             *)
(***************************************************************************)

\* Every change numbered up to v has reached the feed: a live item is known,
\* a deleted one recorded as deleted.
Covers(v) ==
    \A x \in Items :
        rows[x].seq <= v =>
            /\ rows[x].st = "live" => feed[x] # "unknown"
            /\ rows[x].st = "tomb" /\ Warm => feed[x] = "gone"

\* A cursor never moves past a change the feed has not got, whatever the stopped
\* engines, lost answers, buffered events and pages in flight: what follows it
\* is all a restart needs to pull (engine.ts, pull and "cursor rules").
CursorCovers ==
    /\ Covers(saved)
    /\ \A e \in Engines : Covers(cursor[e])

\* Every change still to come is numbered past every cursor (db/models.py: the
\* sequence is assigned "so tombstones always move ahead of any existing client
\* cursor").
ChangesMoveAhead ==
    \A s \in {rows[y].seq + 1 : y \in Items} :
        IsNextSeq(s) => /\ s > saved
                        /\ \A e \in Engines : s > cursor[e]

\* The engine is live on an open socket and has nothing left to do.
Quiet(e) ==
    /\ ~loading[e] /\ ~stopped[e]
    /\ sock[e] = "open" /\ ~Syncing(e) /\ ~retry[e]
    /\ chan[e] = {} /\ replies = {}

\* A live engine with nothing left to do shows no item that is deleted (design
\* doc: "a catch-up pull always delivers tombstones for items deleted behind the
\* client's cursor").
NoMissedDeletion ==
    \A e \in Engines : Quiet(e) => \A x \in Items : rows[x].st = "tomb" => feed[x] # "shown"

\* The feed lists exactly the live items of the account, less those its user
\* deleted while the device had no connection.
Matches ==
    \A x \in Items : feed[x] = "shown" <=> rows[x].st = "live" /\ x \notin unasked

\* A live engine with nothing left to do shows exactly the account's items, but for
\* what the phone hid while it slept: no interleaving of pull, buffered events,
\* reconnects and restarts loses an item or a deletion (design doc, "Sync model:
\* pull-based with live nudges").
QuietMatches == \A e \in Engines : Quiet(e) => Matches

\* An item whose deletion waits in the buffer of the pulling engine is not shown
\* by that pull's pages (engine.ts, "Tombstone wins").
NoFlash ==
    [][\A e \in Engines, x \in Items :
          (pull'[e] # pull[e] /\ Del(x) \in buffer[e] /\ feed[x] = "unknown")
              => feed'[x] # "shown"]_vars

\* What the account's history has made of an item.
Status(x) ==
    IF rows[x].st = "live" THEN "live"
    ELSE IF rows[x].st = "none" /\ x \in unsent THEN "none" ELSE "deleted"

\* The device implements the abstract feed: it shows what was sent, hides only
\* what was deleted, by the account or by its own user without a connection, and
\* never shows again what it has hidden.
Feed == INSTANCE DeviceFeed WITH status <- [x \in Items |-> Status(x)], view <- feed,
                                 dismissed <- unasked
ImplementsFeed == Feed!Spec

\* Once an engine is attached for good, the feed comes to show the account and
\* stays so (design doc: "no state-machine edge where a missed WS event loses
\* data").
Attached(e) == current = e /\ ~stopped[e] /\ authorized
Converges == \A e \in Engines : <>[]Attached(e) => <>[]Matches

\* A device whose token was revoked is told so: the running engine stops with
\* auth_failed (design doc, section 8: "401: one re-auth prompt; never a retry
\* loop").
RevocationNoticed == \A e \in Engines : ~authorized ~> stopped[e]

-----------------------------------------------------------------------------
(***************************************************************************)
(* The inductive strengthening of CursorCovers and ChangesMoveAhead.       *)
(***************************************************************************)

\* v is not past the newest change.
Bounded(v) == \E y \in Items : v <= rows[y].seq

\* Rows are numbered from 1.
RowsNumbered == \A x \in Items : rows[x].st # "none" => rows[x].seq > 0

\* A deletion that was announced is still recorded.
DeletionsHold ==
    \A e \in Engines, x \in Items : Del(x) \in chan[e] \cup buffer[e] => rows[x].st = "tomb"

\* What an instance caches the feed has got, hidden items excepted.
CachePassedOn ==
    \A e \in Engines, x \in Items :
        /\ cache[e][x] = "gone" => feed[x] = "gone"
        /\ cache[e][x] = "shown" /\ feed[x] = "unknown" => rows[x].st = "tomb"

\* A starting instance does nothing else, and a stopped one has no timer.
Lifecycle ==
    \A e \in Engines :
        /\ loading[e] => sock[e] = "none" /\ ~Syncing(e) /\ ~retry[e]
        /\ stopped[e] => ~retry[e]

\* A device that has synchronised before pulls with a cursor.
WarmCursors ==
    Warm => /\ saved > 0
            /\ \A e \in Engines :
                  /\ sock[e] # "none" \/ retry[e] \/ Syncing(e) => cursor[e] > 0
                  /\ Syncing(e) => pull[e].from > 0

\* Cursors, stored, in memory or in a request, are not past the newest change
\* and cover theirs.
Sound(v) == Bounded(v) /\ Covers(v)
CursorsSound ==
    /\ Sound(saved)
    /\ \A e \in Engines : Sound(cursor[e]) /\ Sound(pull[e].from)

\* A page in flight still says what the rows it stands for say: a row that has
\* changed meanwhile is numbered past the page.
PageSound(p) ==
    /\ Bounded(p.next)
    /\ \A x \in Items :
          p.from < rows[x].seq /\ rows[x].seq <= p.next =>
              p.page[x] = rows[x].st \/ (rows[x].st = "tomb" /\ ~Warm)
PagesSound == \A e \in Engines : PageSound(pull[e])

IndInv ==
    /\ TypeOK /\ RowsNumbered /\ DeletionsHold /\ CachePassedOn /\ Lifecycle
    /\ WarmCursors /\ CursorsSound /\ PagesSound

=============================================================================

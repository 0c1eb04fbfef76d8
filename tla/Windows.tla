-------------------------------- MODULE Windows --------------------------------
(***************************************************************************)
(* What a window of the extension or of the desktop shows: the popup, the  *)
(* flyout or the main window keeps no state of its own but what it is told *)
(* by the background controller, first a snapshot, then one event for each *)
(* change.  The controller changes its memory at once, waits for the       *)
(* storage, and only then tells the windows.                               *)
(*                                                                         *)
(* Assumed of the storage: requests are answered in the order they are     *)
(* made.  Messages between the two sides keep their order too.             *)
(***************************************************************************)
EXTENDS Naturals, Sequences

CONSTANTS
    Own,         \* the sends of this device: an item has the id of its entry
    Theirs,      \* the items of the other devices
    MaxJobs,     \* bound: storage requests under way
    MaxFetches,  \* bound: device lists asked for at a time
    LastVersion  \* bound: changes of the device list

ASSUME WindowsAssumption ==
    Own \cap Theirs = {} /\ MaxJobs \in Nat \ {0} /\ MaxFetches \in Nat /\ LastVersion \in Nat

Things == Own \cup Theirs
Shells == {"extension", "desktop"}

VARIABLES
    shell,       \* which of the two clients
    running,     \* doWake() is through: the outbox is loaded
    items,       \* FeedStore.items
    tombstones,  \* FeedStore.tombstones
    uploaded,    \* the items the server has or had
    entries,     \* Outbox.queue
    posting,     \* its entry whose POST is under way, in a set
    failures,    \* controller.failed
    toCancel,    \* pendingCancelIds
    drawn,       \* the ids this device has used
    listNow,     \* the server's device list, by its version
    listAsked,   \* the version at the time of each listDevices() under way
    listSaved,   \* the version under cc.devices
    jobs,        \* the storage requests under way, each with its continuation
    win,         \* the window: "closed", "opening", "late" (its request for the
                 \* first snapshot timed out), "ready"
    view,        \* what it shows
    \* history
    unheard      \* the list of sends changed, or was loaded, without an event

windowVars == <<shell, running, items, tombstones, uploaded, entries, posting, failures,
                toCancel, drawn, listNow, listAsked, listSaved, jobs, win, view, unheard>>
outboxVars == <<uploaded, entries, posting, failures, toCancel, drawn>>
deviceVars == <<listNow, listAsked>>

Blank == [items |-> {}, pending |-> {}, devices |-> 0]

Pending == IF running THEN entries \cup failures ELSE {}

Snap == [items |-> items, pending |-> Pending, devices |-> listSaved]

-----------------------------------------------------------------------------
\* A storage request: what comes after it, for which id or version, and how
\* many writes are left.  FeedStore.persist() makes two writes.
Job(then, arg, left) == [then |-> then, arg |-> arg, left |-> left]

Queue(job) == Len(jobs) < MaxJobs /\ jobs' = Append(jobs, job)

\* FeedStore.upsert() and remove(): FALSE, and no write, when nothing changes.
New(i) == i \notin tombstones \cup items

Upsert(i, then) ==
    /\ New(i)
    /\ items' = items \cup {i}
    /\ Queue(Job(then, i, 2))
    /\ UNCHANGED tombstones

Remove(i) ==
    /\ i \notin tombstones
    /\ tombstones' = tombstones \cup {i}
    /\ items' = items \ {i}
    /\ Queue(Job("item_deleted", i, 2))

\* reduce(): every window that listens takes an event, ready or not.
Told(change) == view' = IF win = "closed" THEN view ELSE change

BroadcastItem(i) == Told([view EXCEPT !.items = @ \cup {i}])

BroadcastOutbox == Told([view EXCEPT !.pending = Pending]) /\ unheard' = FALSE

BroadcastDevices(version) == Told([view EXCEPT !.devices = version])

-----------------------------------------------------------------------------
\* doWake() ends: the outbox is loaded.  Nobody is told.
Woken ==
    /\ ~running
    /\ running' = TRUE
    /\ unheard' = (entries # {})
    /\ UNCHANGED <<shell, items, tombstones, outboxVars, deviceVars, listSaved, jobs, win, view>>

\* onEngineEvent: an item, a tombstone.
EngineItem(i) ==
    /\ running /\ i \in uploaded
    /\ Upsert(i, "item")
    /\ UNCHANGED <<shell, running, outboxVars, deviceVars, listSaved, win, view, unheard>>

\* The tombstone may also be this device's own: delete_item, and undo_capture of
\* a delivered one, remove the item when the server has answered.
ItemDeleted(i) ==
    /\ running /\ i \in uploaded
    /\ Remove(i)
    /\ UNCHANGED <<shell, running, outboxVars, deviceVars, listSaved, win, view, unheard>>

OtherSends(i) ==
    /\ i \in Theirs \ uploaded
    /\ uploaded' = uploaded \cup {i}
    /\ UNCHANGED <<shell, running, items, tombstones, entries, posting, failures, toCancel, drawn,
                   deviceVars, listSaved, jobs, win, view, unheard>>

-----------------------------------------------------------------------------
\* Outbox.send() for a send request or a retry of failed ones, under a new id.
SendFrom(i, gone) ==
    /\ running /\ i \in Own \ drawn
    /\ drawn' = drawn \cup {i}
    /\ entries' = entries \cup {i}
    /\ failures' = failures \ gone
    /\ Queue(Job("outbox_changed", i, 1))
    /\ UNCHANGED <<shell, running, items, tombstones, uploaded, posting, toCancel, deviceVars,
                   listSaved, win, view, unheard>>

Send(i) == SendFrom(i, {})

Retry(i) == \E f \in failures : SendFrom(i, {f})

\* flush(): one entry at a time, until its removal is stored.
Busy == posting # {} \/ \E n \in DOMAIN jobs : jobs[n].then \in {"delivered", "rejected"}

Flush(i) ==
    /\ running /\ ~Busy /\ i \in entries
    /\ posting' = {i}
    /\ UNCHANGED <<shell, running, items, tombstones, uploaded, entries, failures, toCancel, drawn,
                   deviceVars, listSaved, jobs, win, view, unheard>>

Arrive ==
    /\ uploaded' = uploaded \cup posting
    /\ uploaded' # uploaded
    /\ UNCHANGED <<shell, running, items, tombstones, entries, posting, failures, toCancel, drawn,
                   deviceVars, listSaved, jobs, win, view, unheard>>

\* The answer: the entry is shifted and the queue written, before the event.
Accepted(i) ==
    /\ i \in posting \cap uploaded
    /\ posting' = {}
    /\ entries' = entries \ {i}
    /\ Queue(Job("delivered", i, 1))
    /\ UNCHANGED <<shell, running, items, tombstones, uploaded, failures, toCancel, drawn,
                   deviceVars, listSaved, win, view, unheard>>

RejectedByServer(i) ==
    /\ i \in posting \ uploaded
    /\ posting' = {}
    /\ entries' = entries \ {i}
    /\ Queue(Job("rejected", i, 1))
    /\ UNCHANGED <<shell, running, items, tombstones, uploaded, failures, toCancel, drawn,
                   deviceVars, listSaved, win, view, unheard>>

Unanswered ==
    /\ posting # {}
    /\ posting' = {}
    /\ UNCHANGED <<shell, running, items, tombstones, uploaded, entries, failures, toCancel, drawn,
                   deviceVars, listSaved, jobs, win, view, unheard>>

\* undo_capture of what is not delivered: taken out of the outbox, or marked when
\* that cannot be, because of a flush or of earlier attempts.
UndoQueued(i) ==
    /\ shell = "desktop" /\ running /\ i \in entries
    /\ \/ /\ ~Busy
          /\ entries' = entries \ {i}
          /\ Queue(Job("outbox_changed", i, 1))
          /\ UNCHANGED toCancel
       \/ /\ toCancel' = toCancel \cup {i}
          /\ UNCHANGED <<entries, jobs>>
    /\ UNCHANGED <<shell, running, items, tombstones, uploaded, posting, failures, drawn,
                   deviceVars, listSaved, win, view, unheard>>

-----------------------------------------------------------------------------
\* The first request of the queue is answered, and its caller goes on.
Rest == Tail(jobs)

\* Mutant: nothing to tell when the item came first by WebSocket.
DeliveredAlready(i) ==
    IF New(i)
    THEN /\ items' = items \cup {i}
         /\ jobs' = Append(Rest, Job("upserted", i, 2))
         /\ UNCHANGED <<toCancel, view, unheard>>
    ELSE jobs' = Rest /\ UNCHANGED <<items, toCancel, view, unheard>>

\* onOutboxEvent "delivered".  An undone one goes no further, and the windows are
\* not told that the outbox has changed.
Delivered(i) ==
    \/ /\ i \in toCancel
       /\ toCancel' = toCancel \ {i}
       /\ jobs' = Rest
       /\ unheard' = TRUE
       /\ UNCHANGED <<items, view>>
    \/ /\ i \notin toCancel /\ New(i)
       /\ items' = items \cup {i}
       /\ jobs' = Append(Rest, Job("upserted", i, 2))
       /\ UNCHANGED <<toCancel, view, unheard>>
    \/ /\ i \notin toCancel /\ ~New(i)
       /\ jobs' = Rest
       /\ BroadcastOutbox
       /\ UNCHANGED <<items, toCancel>>

EventOf(job) ==
    \/ /\ job.then = "item"
       /\ BroadcastItem(job.arg)
       /\ UNCHANGED unheard
    \/ /\ job.then = "upserted"
       /\ Told([view EXCEPT !.items = @ \cup {job.arg}, !.pending = Pending])
       /\ unheard' = FALSE
    \/ /\ job.then = "item_deleted"
       /\ Told([view EXCEPT !.items = @ \ {job.arg}])
       /\ UNCHANGED unheard
    \/ /\ job.then = "outbox_changed"
       /\ BroadcastOutbox
    \/ /\ job.then = "devices_cached"
       /\ BroadcastDevices(listSaved)
       /\ UNCHANGED unheard

Answered1(job) ==
    \/ /\ EventOf(job)
       /\ jobs' = Rest
       /\ UNCHANGED <<items, failures, toCancel, listSaved, win>>
    \/ /\ job.then = "rejected"
       /\ failures' = failures \cup {job.arg}
       /\ jobs' = Rest
       /\ view' = IF win = "closed" THEN view
                  ELSE [view EXCEPT !.pending = Pending \cup {job.arg}]
       /\ unheard' = FALSE
       /\ UNCHANGED <<items, toCancel, listSaved, win>>
    \/ /\ job.then = "delivered" /\ Delivered(job.arg)
       /\ UNCHANGED <<failures, listSaved, win>>
    \/ /\ job.then = "devices"
       /\ listSaved' = job.arg
       /\ jobs' = Rest
       /\ BroadcastDevices(job.arg)
       /\ UNCHANGED <<items, failures, toCancel, win, unheard>>
    \/ /\ job.then = "nobody"
       /\ jobs' = Rest
       /\ UNCHANGED <<items, failures, toCancel, listSaved, win, view, unheard>>
    \/ /\ job.then \in {"snapshot", "first"}
       /\ jobs' = Rest
       /\ IF win = "opening" \/ (job.then = "snapshot" /\ win # "closed")
          THEN view' = Snap /\ win' = "ready" /\ unheard' = FALSE
          ELSE UNCHANGED <<view, win, unheard>>
       /\ UNCHANGED <<items, failures, toCancel, listSaved>>

StorageAnswers ==
    /\ jobs # <<>>
    /\ LET job == Head(jobs) IN
       IF job.left > 1
       THEN /\ jobs' = Append(Rest, [job EXCEPT !.left = @ - 1])
            /\ UNCHANGED <<items, failures, toCancel, listSaved, win, view, unheard>>
       ELSE Answered1(job)
    /\ UNCHANGED <<shell, running, tombstones, uploaded, entries, posting, drawn, deviceVars>>

-----------------------------------------------------------------------------
\* The device list changes: devices_changed, or the answer of a rename or revoke
\* request from this device, and the list is fetched.
ListChanges ==
    /\ listNow < LastVersion
    /\ listNow' = listNow + 1
    /\ UNCHANGED <<shell, running, items, tombstones, outboxVars, listAsked, listSaved, jobs, win,
                   view, unheard>>

FetchDevices ==
    /\ running /\ Len(listAsked) < MaxFetches
    /\ listAsked' = Append(listAsked, listNow)
    /\ UNCHANGED <<shell, running, items, tombstones, outboxVars, listNow, listSaved, jobs, win,
                   view, unheard>>

\* The answer is of some time since the request; the later of two may come first.
DevicesFetched ==
    /\ \E n \in DOMAIN listAsked :
          /\ listAsked' = [k \in 1..Len(listAsked) - 1 |-> listAsked[IF k < n THEN k ELSE k + 1]]
          /\ \/ \E v \in listAsked[n]..listNow : Queue(Job("devices", v, 1))
             \/ Queue(Job("devices_cached", 0, 1))
    /\ UNCHANGED <<shell, running, items, tombstones, outboxVars, listNow, listSaved, win, view,
                   unheard>>

-----------------------------------------------------------------------------
\* The extension's port is answered at once, even while the worker still starts;
\* the desktop's request waits for wake(), and what the window hears until then the
\* snapshot replaces.  Storage requests may be under way, their events still to come.
Open ==
    /\ win = "closed"
    /\ shell = "desktop" => running
    /\ win' = "opening"
    /\ view' = Blank
    /\ Queue(Job("first", 0, 1))
    /\ UNCHANGED <<shell, running, items, tombstones, outboxVars, deviceVars, listSaved, unheard>>

\* requestBackground gives up after ten seconds.
GiveUp ==
    /\ shell = "desktop" /\ win = "opening"
    /\ win' = "late"
    /\ UNCHANGED <<shell, running, items, tombstones, outboxVars, deviceVars, listSaved, jobs,
                   view, unheard>>

\* A window may close before it is answered: the port is gone, or nobody knows the
\* reply's id.
Close ==
    /\ win # "closed"
    /\ win' = "closed"
    /\ view' = Blank
    /\ jobs' = [n \in DOMAIN jobs |-> IF jobs[n].then = "first" THEN Job("nobody", 0, 1) ELSE jobs[n]]
    /\ UNCHANGED <<shell, running, items, tombstones, outboxVars, deviceVars, listSaved, unheard>>

\* refresh: the list is fetched, and everybody gets a snapshot.
Refresh_Window ==
    /\ win # "closed" /\ running
    /\ Len(listAsked) < MaxFetches /\ listAsked' = Append(listAsked, listNow)
    /\ Queue(Job("snapshot", 0, 1))
    /\ UNCHANGED <<shell, running, items, tombstones, outboxVars, listNow, listSaved, win, view,
                   unheard>>

-----------------------------------------------------------------------------
\* The program starts with what earlier runs left: sends in the stored queue, a
\* feed, a device list.
WindowsInit ==
    /\ shell \in Shells
    /\ running = FALSE
    /\ drawn \in SUBSET Own /\ entries \in SUBSET drawn
    /\ items \in SUBSET Theirs /\ tombstones \in SUBSET (Theirs \ items)
    /\ uploaded = items \cup tombstones
    /\ listNow \in 0..LastVersion /\ listSaved \in 0..listNow
    /\ posting = {} /\ failures = {} /\ toCancel = {} /\ listAsked = <<>> /\ jobs = <<>>
    /\ win = "closed" /\ view = Blank /\ unheard = FALSE

WindowsNext ==
    \/ Woken \/ Arrive \/ Unanswered \/ StorageAnswers
    \/ ListChanges \/ FetchDevices \/ DevicesFetched
    \/ Open \/ GiveUp \/ Close \/ Refresh_Window
    \/ \E i \in Own : \/ Send(i) \/ Retry(i) \/ Flush(i) \/ Accepted(i)
                      \/ RejectedByServer(i) \/ UndoQueued(i)
    \/ \E i \in Things : EngineItem(i) \/ ItemDeleted(i) \/ OtherSends(i)

WindowsSpec == WindowsInit /\ [][WindowsNext]_windowVars

WindowsTypeOK ==
    /\ shell \in Shells /\ running \in BOOLEAN /\ unheard \in BOOLEAN
    /\ items \subseteq Things \ tombstones /\ tombstones \subseteq Things
    /\ uploaded \subseteq Things /\ failures \subseteq Own /\ drawn \subseteq Own
    /\ posting \subseteq entries /\ entries \subseteq drawn /\ toCancel \subseteq Own
    /\ listNow \in 0..LastVersion /\ listSaved \in 0..listNow
    /\ Len(jobs) <= MaxJobs /\ Len(listAsked) <= MaxFetches
    /\ win \in {"closed", "opening", "late", "ready"}

\* A window that has its snapshot shows what the controller has, whenever no
\* storage request is under way: the items, the sends that wait or failed, and
\* the device list.  Excused are the two changes of the sends that are announced
\* to nobody: the outbox loaded after the window was opened, and the delivery of
\* a capture undone on its way.
WindowTrue ==
    win = "ready" /\ jobs = <<>> =>
        /\ view.items = items
        /\ view.devices = listSaved
        /\ unheard \/ view.pending = Pending
===============================================================================

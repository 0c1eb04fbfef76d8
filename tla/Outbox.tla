-------------------------------- MODULE Outbox --------------------------------
(***************************************************************************)
(* packages/core's Outbox: a queue of items to POST, kept in memory and    *)
(* written to one storage key after every change, the controllers that     *)
(* make, feed and stop it, and the server that takes its POSTs.            *)
(*                                                                         *)
(* A controller makes a new Outbox at each wake-up and drops the old one   *)
(* when it goes to sleep; stop() does not cancel the POST that is in       *)
(* flight, so several instances may be at work on the same key.  "Boxes"   *)
(* names those that exist at a time.                                       *)
(*                                                                         *)
(* One action is the code between two awaits.  A storage write takes       *)
(* effect when it is issued, the await of it ends in a later step.  Bodies *)
(* and back-off delays are left out; of "attempts" only whether it is 0    *)
(* is kept.                                                                *)
(***************************************************************************)
EXTENDS Naturals, Sequences, FiniteSets, Functions

CONSTANTS
    Entries,     \* the client-generated ids that may be used
    Mirrored,    \* those used by the share extension, a process of its own
    Targeted,    \* those sent to a device that may be revoked
    Boxes,       \* the Outbox instances that exist at a time
    None,        \* no box, no entry, no stored value
    LateLoad,    \* TRUE: the user may send while the stored queue is loading
    LateShare,   \* TRUE: something may be shared while the mirror is drained
    FaultKinds,  \* what may go wrong, a subset of AllFaults
    MaxFaults    \* bound on faults

\* "net": the POST fails; "cut": its answer breaks off in the body; "crash";
\* "auth": the token is revoked; "target": the target device is revoked.
AllFaults == {"net", "cut", "crash", "auth", "target"}

\* The stored value of a queue: its ids, and those with attempts > 0.
Value == [ids : Seq(Entries), tried : SUBSET Entries]

ASSUME MirroredAssumption  == Mirrored \subseteq Entries
ASSUME TargetedAssumption  == Targeted \subseteq Entries
ASSUME NoneAssumption      == None \notin Entries \cup Boxes \cup Value
ASSUME LateLoadAssumption  == LateLoad \in BOOLEAN
ASSUME LateShareAssumption == LateShare \in BOOLEAN
ASSUME KindsAssumption     == FaultKinds \subseteq AllFaults
ASSUME FaultsAssumption    == MaxFaults \in Nat

VARIABLES
    \* persisted by the client
    stored,     \* storage["cc.outbox"]
    mirror,     \* ids in the App Group outbox of the share extension
    \* the controller
    holder,     \* this.outbox
    \* per instance
    phase,      \* where doWake is that made it
    read,       \* the value its load() was given, parsed when load() goes on
    todo,       \* entries of the mirror doWake has yet to enqueue
    entries,    \* this.entries
    tried,      \* those of its entries whose attempts > 0
    post,       \* the flush at work: where it is, and its entry
    calls,      \* flush() calls that follow a write still awaited
    timer,      \* this.retryTimer is armed
    stopped,    \* this.stopped
    \* server and network
    wire,       \* POSTs nobody waits for that may still arrive
    received,   \* ids the server has created
    targetGone, \* the target device is revoked
    signedIn,   \* the token is valid
    faults,     \* faults so far
    \* history
    sent,       \* ids ever put into the queue
    posted,     \* ids ever POSTed, here or by the share extension
    refused,    \* ids dropped with a "rejected" event
    cancelled,  \* ids whose cancel() returned true
    lost        \* <<x, how>>: the answer to a POST of x never arrived

boxVars == <<phase, read, todo, entries, tried, post, calls, timer, stopped>>
netVars == <<wire, received, targetGone, signedIn, faults>>
history == <<sent, posted, refused, cancelled, lost>>
vars == <<stored, mirror, holder, boxVars, netVars, history>>

-----------------------------------------------------------------------------
\* No id is in a queue twice.
Unique(s) == IsInjective(s)

\* load(): a missing key is an empty queue.
Parsed(raw) == IF raw = None THEN [ids |-> <<>>, tried |-> {}] ELSE raw

\* persist() of the queue s with the attempts of t.
Persist(s, t) == stored' = [ids |-> s, tried |-> t \cap Range(s)]

\* A flush: not at work; its POST on its way; an answer of the server on its way
\* back; awaiting the write that follows a shift or a failed attempt.
Working == {"posting", "accepted", "rejected", "denied", "shifted", "failed"}
Post == [at : Working, id : Entries] \cup [at : {"idle"}, id : {None}]
NoPost == [at |-> "idle", id |-> None]
Flushing(b) == post[b].at # "idle"

\* wake() returns the promise of the doWake that is under way.
Waking(b) == phase[b] \in {"made", "loading", "draining"}

Fault(kind) ==
    /\ kind \in FaultKinds
    /\ faults < MaxFaults
    /\ faults' = faults + 1

TypeOK ==
    /\ stored \in Value \cup {None}
    /\ mirror \subseteq Mirrored
    /\ holder \in Boxes \cup {None}
    /\ phase \in [Boxes -> {"off", "made", "loading", "draining", "awake"}]
    /\ read \in [Boxes -> Value \cup {None}]
    /\ todo \in [Boxes -> SUBSET Mirrored]
    /\ entries \in [Boxes -> Seq(Entries)]
    /\ Unique(Parsed(stored).ids)
    /\ \A b \in Boxes : Unique(entries[b]) /\ Unique(Parsed(read[b]).ids)
    /\ tried \in [Boxes -> SUBSET Entries]
    /\ post \in [Boxes -> Post]
    /\ calls \in [Boxes -> Nat]
    /\ timer \in [Boxes -> BOOLEAN]
    /\ stopped \in [Boxes -> BOOLEAN]
    /\ wire \subseteq Entries
    /\ received \subseteq Entries
    /\ targetGone \in BOOLEAN
    /\ signedIn \in BOOLEAN
    /\ faults \in 0..MaxFaults
    /\ sent \subseteq Entries
    /\ posted \subseteq Entries
    /\ refused \subseteq Entries
    /\ cancelled \subseteq Entries
    /\ lost \subseteq Entries \X {"net", "cut", "crash"}

\* A device that is signed in and has never sent anything.
Init ==
    /\ stored = None
    /\ mirror = {}
    /\ holder = None
    /\ phase = [b \in Boxes |-> "off"]
    /\ read = [b \in Boxes |-> None]
    /\ todo = [b \in Boxes |-> {}]
    /\ entries = [b \in Boxes |-> <<>>]
    /\ tried = [b \in Boxes |-> {}]
    /\ post = [b \in Boxes |-> NoPost]
    /\ calls = [b \in Boxes |-> 0]
    /\ timer = [b \in Boxes |-> FALSE]
    /\ stopped = [b \in Boxes |-> FALSE]
    /\ wire = {}
    /\ received = {}
    /\ targetGone = FALSE
    /\ signedIn = TRUE
    /\ faults = 0
    /\ sent = {}
    /\ posted = {}
    /\ refused = {}
    /\ cancelled = {}
    /\ lost = {}

-----------------------------------------------------------------------------
\* The controllers.

\* doWake makes an Outbox.
Create(b) ==
    /\ holder = None
    /\ \A c \in Boxes : ~Waking(c)
    /\ ~Flushing(b)
    /\ holder' = b
    /\ phase' = [phase EXCEPT ![b] = "made"]
    /\ entries' = [entries EXCEPT ![b] = <<>>]
    /\ tried' = [tried EXCEPT ![b] = {}]
    /\ calls' = [calls EXCEPT ![b] = 0]
    /\ stopped' = [stopped EXCEPT ![b] = FALSE]
    /\ UNCHANGED <<stored, mirror, read, todo, post, timer, netVars, history>>

\* load() asks for the stored queue; the desktop first awaits another key.
Load(b) ==
    /\ phase[b] = "made"
    /\ phase' = [phase EXCEPT ![b] = "loading"]
    /\ read' = [read EXCEPT ![b] = stored]
    /\ UNCHANGED <<stored, mirror, holder, todo, entries, tried, post, calls,
                   timer, stopped, netVars, history>>

\* Mutant of Peek: the mirror is read and cleared at once.
PeekAndClear(b) ==
    /\ todo' = [todo EXCEPT ![b] = mirror]
    /\ mirror' = {}

\* peekMainOutbox().
Peek(b) ==
    /\ todo' = [todo EXCEPT ![b] = mirror]
    /\ UNCHANGED mirror

\* load() goes on, then doWake reads the mirror.
Loaded(b) ==
    /\ phase[b] = "loading"
    /\ phase' = [phase EXCEPT ![b] = "draining"]
    /\ entries' = [entries EXCEPT ![b] = Parsed(read[b]).ids]
    /\ tried' = [tried EXCEPT ![b] = Parsed(read[b]).tried]
    /\ read' = [read EXCEPT ![b] = None]
    /\ Peek(b)
    /\ UNCHANGED <<stored, holder, post, calls, timer, stopped, netVars, history>>

\* Mutant of Push: the entry goes to the front.
PushFront(b, x) ==
    /\ entries' = [entries EXCEPT ![b] = <<x>> \o @]
    /\ Persist(entries'[b], tried[b])
    /\ sent' = sent \cup {x}
    /\ calls' = [calls EXCEPT ![b] = @ + 1]

\* A new entry is appended and persisted; flush() is called after that.
Push(b, x) ==
    /\ entries' = [entries EXCEPT ![b] = Append(@, x)]
    /\ Persist(entries'[b], tried[b])
    /\ sent' = sent \cup {x}
    /\ calls' = [calls EXCEPT ![b] = @ + 1]

\* send() of something new.
Send(b, x) ==
    /\ holder = b
    /\ phase[b] \in {"draining", "awake"} \/ LateLoad
    /\ x \notin sent \cup Mirrored
    /\ Push(b, x)
    /\ UNCHANGED <<mirror, holder, phase, read, todo, tried, post, timer, stopped,
                   netVars, posted, refused, cancelled, lost>>

\* enqueue()'s check for an entry that is queued already.
Queued(b, x) == x \in Range(entries[b])

\* doWake enqueues one entry of the mirror, a no-op when it is queued already.
Enqueue(b, x) ==
    /\ phase[b] = "draining"
    /\ holder = b
    /\ x \in todo[b]
    /\ todo' = [todo EXCEPT ![b] = @ \ {x}]
    /\ \/ Queued(b, x) /\ UNCHANGED <<stored, entries, sent, calls>>
       \/ ~Queued(b, x) /\ Push(b, x)
    /\ UNCHANGED <<mirror, holder, phase, read, tried, post, timer, stopped,
                   netVars, posted, refused, cancelled, lost>>

\* The end of doWake: the mirror is cleared, the entries that could not be
\* enqueued (there is no outbox any more) are pushed back, and flush() is called
\* unless doWake fails because there is no engine any more.
Drained(b) ==
    /\ phase[b] = "draining"
    /\ todo[b] = {} \/ holder # b
    /\ mirror' = todo[b]
    /\ todo' = [todo EXCEPT ![b] = {}]
    /\ phase' = [phase EXCEPT ![b] = "awake"]
    /\ \/ holder = b /\ calls' = [calls EXCEPT ![b] = @ + 1]
       \/ holder # b /\ UNCHANGED calls
    /\ UNCHANGED <<stored, holder, read, entries, tried, post, timer, stopped,
                   netVars, history>>

\* Mutant of Cancellable: an attempted head may be cancelled.
CancellableAnyway(b, i) == ~Flushing(b)

\* cancel() finds the entry at place i and does not have to refuse.
Cancellable(b, i) ==
    /\ ~Flushing(b)
    /\ ~(i = 1 /\ entries[b][i] \in tried[b])

\* cancel() of the entry at place i.  The desktop cancels, the mirror belongs to
\* the phone: no client cancels an entry of the mirror.
Cancel(b, i) ==
    /\ holder = b
    /\ phase[b] = "awake"
    /\ Cancellable(b, i)
    /\ entries[b][i] \notin Mirrored
    /\ entries' = [entries EXCEPT ![b] = SubSeq(@, 1, i - 1) \o SubSeq(@, i + 1, Len(@))]
    /\ tried' = [tried EXCEPT ![b] = @ \ {entries[b][i]}]
    /\ Persist(entries'[b], tried'[b])
    /\ cancelled' = cancelled \cup {entries[b][i]}
    /\ UNCHANGED <<mirror, holder, phase, read, todo, post, calls, timer, stopped,
                   netVars, sent, posted, refused, lost>>

\* stop(), when the controller lets go of its outbox, if it holds one.
LetGo ==
    /\ holder' = None
    /\ stopped' = [b \in Boxes |-> stopped[b] \/ b = holder]
    /\ timer' = [b \in Boxes |-> timer[b] /\ b # holder]

\* sleep().
Sleep ==
    /\ holder # None
    /\ LetGo
    /\ UNCHANGED <<stored, mirror, phase, read, todo, entries, tried, post, calls,
                   netVars, history>>

\* onSignedIn(): a new token is stored; the next wake-up uses it.
SignIn ==
    /\ ~signedIn
    /\ signedIn' = TRUE
    /\ LetGo
    /\ UNCHANGED <<stored, mirror, phase, read, todo, entries, tried, post, calls,
                   wire, received, targetGone, faults, history>>

-----------------------------------------------------------------------------
\* flush().

\* The head of the while loop, s being this.entries.
Loop(b, s) ==
    \/ /\ s # <<>>
       /\ ~stopped[b]
       /\ post' = [post EXCEPT ![b] = [at |-> "posting", id |-> Head(s)]]
       /\ posted' = posted \cup {Head(s)}
    \/ /\ s = <<>> \/ stopped[b]
       /\ post' = [post EXCEPT ![b] = NoPost]
       /\ UNCHANGED posted

\* A call of flush(): nothing happens when one is at work or after stop().
Flush(b) ==
    \/ /\ Flushing(b) \/ stopped[b]
       /\ UNCHANGED <<post, posted>>
    \/ /\ ~Flushing(b)
       /\ ~stopped[b]
       /\ Loop(b, entries[b])

\* The write of a send or an enqueue is done, or engine.start() is.
Called(b) ==
    /\ calls[b] > 0
    /\ calls' = [calls EXCEPT ![b] = @ - 1]
    /\ Flush(b)
    /\ UNCHANGED <<stored, mirror, holder, phase, read, todo, entries, tried, timer,
                   stopped, netVars, sent, refused, cancelled, lost>>

\* The retry timer fires.
TimerFires(b) ==
    /\ timer[b]
    /\ timer' = [timer EXCEPT ![b] = FALSE]
    /\ Flush(b)
    /\ UNCHANGED <<stored, mirror, holder, phase, read, todo, entries, tried, calls,
                   stopped, netVars, sent, refused, cancelled, lost>>

\* A wake-up of a client that is awake, or a refresh: flush() once more.
Nudge(b) ==
    /\ holder = b
    /\ phase[b] = "awake"
    /\ Flush(b)
    /\ UNCHANGED <<stored, mirror, holder, phase, read, todo, entries, tried, calls,
                   timer, stopped, netVars, sent, refused, cancelled, lost>>

\* The server's answer to a POST of x: 401, 422 for a target that is gone, even
\* when the item exists, or the item, created now or by an earlier POST.
Refuses(x) == x \in Targeted /\ targetGone

Answer(b) ==
    /\ post[b].at = "posting"
    /\ \/ /\ ~signedIn
          /\ post' = [post EXCEPT ![b].at = "denied"]
          /\ UNCHANGED received
       \/ /\ signedIn
          /\ Refuses(post[b].id)
          /\ post' = [post EXCEPT ![b].at = "rejected"]
          /\ UNCHANGED received
       \/ /\ signedIn
          /\ ~Refuses(post[b].id)
          /\ post' = [post EXCEPT ![b].at = "accepted"]
          /\ received' = received \cup {post[b].id}
    /\ UNCHANGED <<stored, mirror, holder, phase, read, todo, entries, tried, calls,
                   timer, stopped, wire, targetGone, signedIn, faults, history>>

\* The entry leaves the queue: shift() and persist().
Shift(b) ==
    /\ entries' = [entries EXCEPT ![b] = IF @ = <<>> THEN @ ELSE Tail(@)]
    /\ tried' = [tried EXCEPT ![b] = @ \cap Range(entries'[b])]
    /\ Persist(entries'[b], tried'[b])
    /\ post' = [post EXCEPT ![b].at = "shifted"]

\* 2xx.
Accepted(b) ==
    /\ post[b].at = "accepted"
    /\ Shift(b)
    /\ UNCHANGED <<mirror, holder, phase, read, todo, calls, timer, stopped, netVars,
                   history>>

\* 4xx other than 401: the entry is dropped with an event.
Rejected(b) ==
    /\ post[b].at = "rejected"
    /\ Shift(b)
    /\ refused' = refused \cup {post[b].id}
    /\ UNCHANGED <<mirror, holder, phase, read, todo, calls, timer, stopped, netVars,
                   sent, posted, cancelled, lost>>

\* The write is done: the delivered or rejected event, and the loop goes on.
Shifted(b) ==
    /\ post[b].at = "shifted"
    /\ Loop(b, entries[b])
    /\ UNCHANGED <<stored, mirror, holder, phase, read, todo, entries, tried, calls,
                   timer, stopped, netVars, sent, refused, cancelled, lost>>

\* 401: the flush halts with an event.
Denied(b) ==
    /\ post[b].at = "denied"
    /\ post' = [post EXCEPT ![b] = NoPost]
    /\ UNCHANGED <<stored, mirror, holder, phase, read, todo, entries, tried, calls,
                   timer, stopped, netVars, history>>

\* fetch() fails or the server answers 5xx, before or after it took the POST:
\* the attempt is counted and persisted.
PostFails(b) ==
    /\ Fault("net")
    /\ post[b].at \in {"posting", "accepted"}
    /\ tried' = [tried EXCEPT ![b] = @ \cup ({post[b].id} \cap Range(entries[b]))]
    /\ Persist(entries[b], tried'[b])
    /\ post' = [post EXCEPT ![b].at = "failed"]
    /\ wire' = IF post[b].at = "posting" THEN wire \cup {post[b].id} ELSE wire
    /\ lost' = lost \cup {<<post[b].id, "net">>}
    /\ UNCHANGED <<mirror, holder, phase, read, todo, entries, calls, timer, stopped,
                   received, targetGone, signedIn, sent, posted, refused, cancelled>>

\* Mutant of RetryLater: no timer is set.
RetryNever(b) == UNCHANGED timer

\* scheduleRetry().
RetryLater(b) == timer' = [timer EXCEPT ![b] = ~stopped[b]]

\* The write is done: a retry is scheduled and the flush ends.
Failed(b) ==
    /\ post[b].at = "failed"
    /\ post' = [post EXCEPT ![b] = NoPost]
    /\ RetryLater(b)
    /\ UNCHANGED <<stored, mirror, holder, phase, read, todo, entries, tried, calls,
                   stopped, netVars, history>>

\* The connection breaks while the body of a 2xx is read: res.json() throws what
\* is neither an ApiError nor a NetworkError, and flush() rejects with it.
AnswerCut(b) ==
    /\ Fault("cut")
    /\ post[b].at = "accepted"
    /\ post' = [post EXCEPT ![b] = NoPost]
    /\ lost' = lost \cup {<<post[b].id, "cut">>}
    /\ UNCHANGED <<stored, mirror, holder, phase, read, todo, entries, tried, calls,
                   timer, stopped, wire, received, targetGone, signedIn, sent, posted,
                   refused, cancelled>>

-----------------------------------------------------------------------------
\* The environment.

\* sendDirect() in the share extension: its own POST failed, which may still
\* reach the server, and the entry goes to the mirror.
Share(x) ==
    /\ x \in Mirrored \ posted
    /\ LateShare \/ \A b \in Boxes : phase[b] # "draining"
    /\ mirror' = mirror \cup {x}
    /\ posted' = posted \cup {x}
    /\ wire' = wire \cup {x}
    /\ lost' = lost \cup {<<x, "net">>}
    /\ UNCHANGED <<stored, holder, boxVars, received, targetGone, signedIn, faults,
                   sent, refused, cancelled>>

\* A POST nobody waits for arrives.
Late(x) ==
    /\ x \in wire
    /\ signedIn
    /\ ~Refuses(x)
    /\ wire' = wire \ {x}
    /\ received' = received \cup {x}
    /\ UNCHANGED <<stored, mirror, holder, boxVars, targetGone, signedIn, faults,
                   history>>

RevokeToken ==
    /\ Fault("auth")
    /\ signedIn
    /\ signedIn' = FALSE
    /\ UNCHANGED <<stored, mirror, holder, boxVars, wire, received, targetGone, history>>

RevokeTarget ==
    /\ Fault("target")
    /\ ~targetGone
    /\ targetGone' = TRUE
    /\ UNCHANGED <<stored, mirror, holder, boxVars, wire, received, signedIn, history>>

\* The client's process ends, all instances with it.
Crash ==
    /\ Fault("crash")
    /\ holder' = None
    /\ phase' = [b \in Boxes |-> "off"]
    /\ read' = [b \in Boxes |-> None]
    /\ todo' = [b \in Boxes |-> {}]
    /\ entries' = [b \in Boxes |-> <<>>]
    /\ tried' = [b \in Boxes |-> {}]
    /\ post' = [b \in Boxes |-> NoPost]
    /\ calls' = [b \in Boxes |-> 0]
    /\ timer' = [b \in Boxes |-> FALSE]
    /\ stopped' = [b \in Boxes |-> FALSE]
    /\ wire' = wire \cup {post[b].id : b \in {c \in Boxes : post[c].at = "posting"}}
    /\ lost' = lost \cup {<<post[b].id, "crash">> :
                            b \in {c \in Boxes : post[c].at \in {"posting", "accepted"}}}
    /\ UNCHANGED <<stored, mirror, received, targetGone, signedIn, sent, posted, refused,
                   cancelled>>

-----------------------------------------------------------------------------
\* What an instance does on its own.
Step(b) ==
    \/ Load(b) \/ Loaded(b) \/ Drained(b)
    \/ \E x \in Mirrored : Enqueue(b, x)
    \/ Called(b) \/ TimerFires(b)
    \/ Answer(b) \/ Accepted(b) \/ Rejected(b) \/ Shifted(b) \/ Denied(b) \/ Failed(b)

\* What the user, the system and the network do.
Environment ==
    \/ \E b \in Boxes :
          \/ Create(b) \/ Nudge(b) \/ PostFails(b) \/ AnswerCut(b)
          \/ \E x \in Entries : Send(b, x)
          \/ \E i \in DOMAIN entries[b] : Cancel(b, i)
    \/ \E x \in Entries : Share(x) \/ Late(x)
    \/ Sleep \/ SignIn \/ RevokeToken \/ RevokeTarget \/ Crash

Next == (\E b \in Boxes : Step(b)) \/ Environment

Spec == Init /\ [][Next]_vars

\* Awaits end, armed timers fire and a POST is answered unless it fails, which it
\* does MaxFaults times at most.  Nothing makes the user wake, sign in or refresh.
FairSpec == Spec /\ \A b \in Boxes : WF_vars(Step(b))

-----------------------------------------------------------------------------
\* Properties.

Done(x) == x \in received \cup refused \cup cancelled

\* An entry that was sent, or left in the mirror by the share extension, is on
\* disk until it has an outcome: at no moment would a crash lose it.
NothingLost ==
    \A x \in sent \cup posted : Done(x) \/ x \in mirror \cup Range(Parsed(stored).ids)

\* Weaker: while the process lives, an entry without an outcome is somewhere, on
\* disk, in the mirror or in the memory of an instance that is not stopped.
NothingForgotten ==
    \A x \in sent \cup posted :
        \/ Done(x)
        \/ x \in mirror \cup Range(Parsed(stored).ids)
        \/ \E b \in Boxes :
              ~stopped[b] /\ x \in {post[b].id} \cup todo[b] \cup Range(entries[b])
                                   \cup Range(Parsed(read[b]).ids)

\* What the user is told is true: an entry reported as cancelled or rejected is
\* not in the account, except when the answer to one of its POSTs got lost, and
\* for a cancelled one only in ways the outbox has no record of.
ToldTruth ==
    \A x \in received :
        /\ x \in cancelled => \E how \in {"cut", "crash"} : <<x, how>> \in lost
        /\ x \in refused => \E how \in {"net", "cut", "crash"} : <<x, how>> \in lost

\* outbox.ts: "Cancel a queued entry by id before it has been sent to the
\* server": what cancel() confirmed does not appear in the account.
UndoneStaysUndone == cancelled \cap received = {}

\* The outbox keeps the promise of DeliveryQueue: one durable queue, offered from
\* its head, left in order and with an outcome only.
Promise == INSTANCE DeliveryQueue
              WITH pending <- Parsed(stored).ids, account <- received
KeepsPromise == Promise!Spec

\* While the client stays awake and signed in, everything that was sent gets its
\* outcome; unless an answer broke off, after which nothing calls flush() again.
Drains ==
    \/ <>[](sent \subseteq received \cup refused \cup cancelled)
    \/ <>(\E x \in Entries : <<x, "cut">> \in lost)
    \/ []<>(\A b \in Boxes : holder # b)
    \/ []<>(~signedIn)
-----------------------------------------------------------------------------
\* The inductive strengthening of NothingLost and of the refinement, for one
\* instance at a time that is neither sent to while it loads nor shared past.

OneAtATime ==
    /\ \A b, c \in Boxes : b = c
    /\ ~LateLoad
    /\ ~LateShare

\* Memory and disk agree once the queue is loaded, and while it is read.
QueueOnDisk ==
    \A b \in Boxes :
        /\ phase[b] \in {"draining", "awake"} => entries[b] = Parsed(stored).ids
        /\ phase[b] = "loading" => read[b] = stored

\* An instance whose queue is not loaded is empty and does not flush.
Unborn ==
    \A b \in Boxes : phase[b] \in {"off", "made", "loading"} =>
        entries[b] = <<>> /\ post[b] = NoPost

\* The entry that is POSTed is still the head when it is shifted out.
HeadPosted ==
    \A b \in Boxes : post[b].at \in {"posting", "accepted", "rejected"} =>
        /\ entries[b] # <<>>
        /\ Head(entries[b]) = post[b].id
        /\ post[b].at = "accepted" => post[b].id \in received

\* What doWake is about to clear from the mirror is safe elsewhere.
HandedOver ==
    \A b \in Boxes : phase[b] = "draining" =>
        \A x \in mirror \ todo[b] : Done(x) \/ x \in Range(Parsed(stored).ids)

\* Every queue holds only what was sent, the wire and the
\* flushes only what was POSTed.
Known ==
    /\ Range(Parsed(stored).ids) \subseteq sent
    /\ \A b \in Boxes : /\ Range(entries[b]) \subseteq sent
                        /\ Range(Parsed(read[b]).ids) \subseteq sent
    /\ wire \subseteq posted
    /\ \A b \in Boxes : Flushing(b) => post[b].id \in posted

QueueInv ==
    /\ TypeOK
    /\ QueueOnDisk
    /\ Unborn
    /\ HeadPosted
    /\ HandedOver
    /\ Known
    /\ NothingLost
=============================================================================

------------------------------- MODULE Presence -------------------------------
(***************************************************************************)
(* The server's live side: the hub of WebSocket registrations, the /ws     *)
(* endpoint, and the requests that change the device list of one account   *)
(* (login, rename, revocation).  Every change of the list, presence        *)
(* included, is announced with a device_changed event to the account's     *)
(* sockets.                                                                *)
(*                                                                         *)
(* The server is one asyncio process.  A task is an endpoint, named by its *)
(* socket, or an HTTP request.  A task runs alone until it awaits: one in  *)
(* the middle of a broadcast with nothing left to send is not awaiting,    *)
(* and every other action waits for it (AllAwait).  The hub's sets are     *)
(* Python objects that broadcasts hold by reference, so a set keeps its    *)
(* identity here: it is named by the socket it was created for.            *)
(***************************************************************************)
EXTENDS Naturals, FiniteSets

CONSTANTS
    Devices,    \* the account's devices, those that may log in later included
    Sockets,    \* the WebSocket connections that may be made
    Of,         \* the device that makes a connection
    Requests,   \* the HTTP requests that may change the list
    None        \* no device, no set

ASSUME OfAssumption       == Of \in [Sockets -> Devices]
ASSUME TasksAssumption    == Sockets \cap Requests = {}
ASSUME NoneAssumption     == None \notin Devices \cup Sockets
ASSUME FiniteAssumption   == IsFiniteSet(Devices)

VARIABLES
    device,   \* the device's row and its token
    pc,       \* where a task is
    target,   \* the device a request revokes
    wire,     \* the connection as the server sees it: "gone" once sends fail
    slot,     \* hub._sockets[user]: the device's set, None when it has none
    set,      \* the sets, by name
    cast,     \* the broadcast a task is in
    closing,  \* the sockets a revocation has yet to close
    \* history
    stale,    \* sockets in the hub that were not sent an event since a change
    slipped   \* sockets between token check and registration at a revocation

vars == <<device, pc, target, wire, slot, set, cast, closing, stale, slipped>>

Tasks == Sockets \cup Requests

\* A broadcast: the sets to come, the sockets of the present set to come, those
\* that failed, the one left out, and the broadcasts that follow it.
Idle == [on |-> FALSE, todo |-> {}, cur |-> {}, dead |-> {}, but |-> {}, more |-> 0]

Broadcasts == [on : BOOLEAN, todo : SUBSET Sockets, cur : SUBSET Sockets,
               dead : SUBSET Sockets, but : SUBSET Sockets, more : Nat]

-----------------------------------------------------------------------------
(* The hub. *)

IsOnline(d) == slot[d] # None

\* The device's set, or nothing.
SocketsOf(d) == IF IsOnline(d) THEN set[slot[d]] ELSE {}

InHub(s) == s \in SocketsOf(Of[s])

\* Those a change of the list is announced to.
Registered == {s \in Sockets : InHub(s)}

\* Every task is at an await or done: one inside a broadcast has a send under
\* way, one that closes sockets a close.
AllAwait ==
    /\ \A t \in Tasks : cast[t].on => cast[t].cur # {}
    /\ \A r \in Requests : pc[r] = "closing" => closing[r] # {}

\* The account's sets at the start of a broadcast.
Held(slots) == {slots[d] : d \in Devices} \ {None}

\* broadcast() by a task, all of it up to its first look at a set.
Begin(t, slots, but, more) ==
    cast' = [cast EXCEPT ![t] = [on |-> TRUE, todo |-> Held(slots), cur |-> {},
                                 dead |-> {}, but |-> but, more |-> more]]

-----------------------------------------------------------------------------
(* HTTP requests. *)

\* authenticate_token: the token exists, has not expired, and its device is not
\* revoked.
\* Mutant: only the token's age is looked at.
AgeAlone(d) == device[d] \in {"active", "revoked"}
Authentic(d) == device[d] = "active"

Login(r, d) ==
    /\ AllAwait
    /\ pc[r] = "new"
    /\ device[d] = "none"
    /\ device' = [device EXCEPT ![d] = "active"]
    /\ pc' = [pc EXCEPT ![r] = "telling"]
    /\ stale' = Registered
    /\ Begin(r, slot, {}, 0)
    /\ UNCHANGED <<target, wire, slot, set, closing, slipped>>

Rename(r, caller, d) ==
    /\ AllAwait
    /\ pc[r] = "new"
    /\ Authentic(caller)
    /\ device[d] \in {"active", "expired"}
    /\ pc' = [pc EXCEPT ![r] = "telling"]
    /\ stale' = Registered
    /\ Begin(r, slot, {}, 0)
    /\ UNCHANGED <<device, target, wire, slot, set, closing, slipped>>

\* The revocation is committed, then close_device lists the device's sockets.
Revoke(r, caller, d) ==
    /\ AllAwait
    /\ pc[r] = "new"
    /\ Authentic(caller)
    /\ device[d] \in {"active", "expired"}
    /\ device' = [device EXCEPT ![d] = "revoked"]
    /\ pc' = [pc EXCEPT ![r] = "closing"]
    /\ target' = [target EXCEPT ![r] = d]
    /\ closing' = [closing EXCEPT ![r] = SocketsOf(d)]
    /\ slipped' = slipped \cup {s \in Sockets : pc[s] = "checked" /\ Of[s] = d}
    /\ stale' = Registered
    /\ UNCHANGED <<wire, slot, set, cast>>

\* One close(4401); its failure is swallowed.
CloseOne(r, s) ==
    /\ AllAwait
    /\ s \in closing[r]
    /\ closing' = [closing EXCEPT ![r] = @ \ {s}]
    /\ wire' = [wire EXCEPT ![s] = "gone"]
    /\ UNCHANGED <<device, pc, target, slot, set, cast, stale, slipped>>

\* After the last one the device's whole set is dropped and the rest are told.
Drop(r) ==
    /\ pc[r] = "closing"
    /\ closing[r] = {}
    /\ slot' = [slot EXCEPT ![target[r]] = None]
    /\ pc' = [pc EXCEPT ![r] = "telling"]
    /\ stale' = stale \ SocketsOf(target[r])
    /\ Begin(r, slot', {}, 0)
    /\ UNCHANGED <<device, target, wire, set, closing, slipped>>

-----------------------------------------------------------------------------
(* The endpoint. *)

\* The token is checked; accept is awaited next.  A socket that fails the check
\* is closed with 4401 and never becomes an endpoint.
Check(s) ==
    /\ AllAwait
    /\ pc[s] = "new"
    /\ Authentic(Of[s])
    /\ pc' = [pc EXCEPT ![s] = "checked"]
    /\ UNCHANGED <<device, target, wire, slot, set, cast, closing, stale, slipped>>

\* hub.add: the device's set, a new one when it has none.
Add(s) ==
    /\ set' = IF IsOnline(Of[s]) THEN [set EXCEPT ![slot[Of[s]]] = @ \cup {s}]
                                    ELSE [set EXCEPT ![s] = {s}]
    /\ slot' = IF IsOnline(Of[s]) THEN slot ELSE [slot EXCEPT ![Of[s]] = s]

\* accept has ended: register, and announce the device if it was offline.
Accept(s) ==
    /\ AllAwait
    /\ pc[s] = "checked"
    /\ wire' = [wire EXCEPT ![s] = "open"]
    /\ Add(s)
    /\ \/ /\ IsOnline(Of[s])
          /\ pc' = [pc EXCEPT ![s] = "receiving"]
          /\ UNCHANGED <<cast, stale>>
       \/ /\ ~IsOnline(Of[s])
          /\ pc' = [pc EXCEPT ![s] = "greeting"]
          /\ stale' = Registered
          /\ Begin(s, slot', {s}, 0)
    /\ UNCHANGED <<device, target, closing, slipped>>

\* accept raises: the client went away first, and the name is free again.
AcceptFails(s) ==
    /\ AllAwait
    /\ pc[s] = "checked"
    /\ pc' = [pc EXCEPT ![s] = "new"]
    /\ slipped' = slipped \ {s}
    /\ UNCHANGED <<device, target, wire, slot, set, cast, closing, stale>>

\* The connection ends: the client closes it, or is found to have vanished, or
\* sends a frame that is no JSON and is closed with 4400.
GoAway(s) ==
    /\ AllAwait
    /\ wire[s] = "open"
    /\ wire' = [wire EXCEPT ![s] = "gone"]
    /\ UNCHANGED <<device, pc, target, slot, set, cast, closing, stale, slipped>>

\* hub.remove of some sockets: what is left of each device's set, and the
\* devices it made offline.
Without(gone) == [n \in Sockets |-> IF n \in Held(slot) THEN set[n] \ gone ELSE set[n]]

Emptied(gone) == {d \in Devices : IsOnline(d) /\ set[slot[d]] \subseteq gone}

\* Mutant: remove forgets the whole device, as close_device does.
RemoveDevice(gone) ==
    /\ set' = set
    /\ slot' = [d \in Devices |->
                   IF \E s \in gone : Of[s] = d THEN None ELSE slot[d]]

Remove(gone) ==
    /\ set' = Without(gone)
    /\ slot' = [d \in Devices |-> IF d \in Emptied(gone) THEN None ELSE slot[d]]

\* The receive loop ends, however it does: the finally block unregisters, and
\* announces the device when that was its last socket.
Leave(s) ==
    /\ AllAwait
    /\ pc[s] = "receiving"
    /\ wire[s] # "open"
    /\ wire' = [wire EXCEPT ![s] = "gone"]
    /\ Remove({s})
    /\ \/ /\ Emptied({s}) = {}
          /\ pc' = [pc EXCEPT ![s] = "done"]
          /\ stale' = stale \ {s}
          /\ UNCHANGED cast
       \/ /\ Emptied({s}) # {}
          /\ pc' = [pc EXCEPT ![s] = "leaving"]
          /\ stale' = Registered \ {s}
          /\ Begin(s, slot', {}, 0)
    /\ UNCHANGED <<device, target, closing, slipped>>

-----------------------------------------------------------------------------
(* Hub.broadcast. *)

\* The next device's sockets are listed when its turn comes.
NextSet(t, n) ==
    /\ cast[t].on /\ cast[t].cur = {}
    /\ n \in cast[t].todo
    /\ cast' = [cast EXCEPT ![t].todo = @ \ {n}, ![t].cur = set[n] \ cast[t].but]
    /\ UNCHANGED <<device, pc, target, wire, slot, set, closing, stale, slipped>>

\* Mutant: the first socket that fails ends the delivery.
SendOrGiveUp(t, s) ==
    /\ AllAwait
    /\ s \in cast[t].cur
    /\ \/ /\ wire[s] = "open"
          /\ stale' = stale \ {s}
          /\ cast' = [cast EXCEPT ![t].cur = @ \ {s}]
       \/ /\ wire[s] = "gone"
          /\ cast' = [cast EXCEPT ![t].cur = {}, ![t].todo = {}, ![t].dead = @ \cup {s}]
          /\ UNCHANGED stale
    /\ UNCHANGED <<device, pc, target, wire, slot, set, closing, slipped>>

\* A send ends: one on an open connection works, one on a lost connection fails.
Send(t, s) ==
    /\ AllAwait
    /\ s \in cast[t].cur
    /\ \/ /\ wire[s] = "open"
          /\ stale' = stale \ {s}
          /\ cast' = [cast EXCEPT ![t].cur = @ \ {s}]
       \/ /\ wire[s] = "gone"
          /\ cast' = [cast EXCEPT ![t].cur = @ \ {s}, ![t].dead = @ \cup {s}]
          /\ UNCHANGED stale
    /\ UNCHANGED <<device, pc, target, wire, slot, set, closing, slipped>>

\* What a task does after its broadcast.
After(t) == IF pc[t] = "greeting" THEN "receiving" ELSE "done"

\* Mutant: pruning tells nobody.
FinishSilently(t) ==
    /\ cast[t].on /\ cast[t].cur = {} /\ cast[t].todo = {}
    /\ Remove(cast[t].dead)
    /\ stale' = (IF Emptied(cast[t].dead) = {} THEN stale ELSE Registered) \ cast[t].dead
    /\ cast' = [cast EXCEPT ![t] = Idle]
    /\ pc' = [pc EXCEPT ![t] = After(t)]
    /\ UNCHANGED <<device, target, wire, closing, slipped>>

\* The sockets that failed are pruned; each device that went offline by that is
\* announced by a broadcast of its own.
Finish(t) ==
    /\ cast[t].on /\ cast[t].cur = {} /\ cast[t].todo = {}
    /\ Remove(cast[t].dead)
    /\ LET gone == Emptied(cast[t].dead)
           more == cast[t].more + Cardinality(gone)
       IN /\ stale' = (IF gone = {} THEN stale ELSE Registered) \ cast[t].dead
          /\ IF more > 0
             THEN Begin(t, slot', {}, more - 1) /\ UNCHANGED pc
             ELSE /\ cast' = [cast EXCEPT ![t] = Idle]
                  /\ pc' = [pc EXCEPT ![t] = After(t)]
    /\ UNCHANGED <<device, target, wire, closing, slipped>>

-----------------------------------------------------------------------------
\* A token's age matters when it is presented only, so a token that expires is
\* one that has expired.
Init ==
    /\ device \in [Devices -> {"none", "active", "expired"}]
    /\ pc = [t \in Tasks |-> "new"]
    /\ target = [r \in Requests |-> None]
    /\ wire = [s \in Sockets |-> "none"]
    /\ slot = [d \in Devices |-> None]
    /\ set = [s \in Sockets |-> {}]
    /\ cast = [t \in Tasks |-> Idle]
    /\ closing = [r \in Requests |-> {}]
    /\ stale = {}
    /\ slipped = {}

Run(t) ==
    \/ \E n \in Sockets : NextSet(t, n)
    \/ \E s \in Sockets : Send(t, s)
    \/ Finish(t)

Next ==
    \/ \E r \in Requests, d \in Devices :
          \/ Login(r, d)
          \/ \E caller \in Devices : Rename(r, caller, d) \/ Revoke(r, caller, d)
    \/ \E r \in Requests : Drop(r) \/ \E s \in Sockets : CloseOne(r, s)
    \/ \E s \in Sockets :
          \/ Check(s) \/ Accept(s) \/ AcceptFails(s) \/ GoAway(s) \/ Leave(s)
    \/ \E t \in Tasks : Run(t)

Spec == Init /\ [][Next]_vars

\* Every task that is ready runs, and a send or close that is awaited ends.
FairSpec == Spec /\ \A t \in Tasks : WF_vars(Run(t))
                 /\ \A r \in Requests :
                       WF_vars(Drop(r) \/ \E s \in Sockets : CloseOne(r, s))

-----------------------------------------------------------------------------
(* Properties. *)

\* Shape of the state.
TypeOK ==
    /\ device \in [Devices -> {"none", "active", "expired", "revoked"}]
    /\ pc \in [Tasks -> {"new", "checked", "greeting", "receiving", "leaving",
                         "closing", "telling", "done"}]
    /\ target \in [Requests -> Devices \cup {None}]
    /\ wire \in [Sockets -> {"none", "open", "gone"}]
    /\ slot \in [Devices -> Sockets \cup {None}]
    /\ set \in [Sockets -> SUBSET Sockets]
    /\ cast \in [Tasks -> Broadcasts]
    /\ closing \in [Requests -> SUBSET Sockets]
    /\ stale \subseteq Registered
    /\ slipped \subseteq Sockets

Serving(s) == pc[s] \in {"greeting", "receiving"}

\* A broadcast of t, or one still to follow, will get to s.
Owes(t, s) ==
    \/ pc[t] = "closing"
    \/ cast[t].on /\ \/ cast[t].more > 0
                     \/ s \in cast[t].cur \cup cast[t].dead
                     \/ slot[Of[s]] \in cast[t].todo /\ s \notin cast[t].but

\* Nobody misses a change of the device list: once no broadcast is under way,
\* every socket in the hub has been sent an event since the last change that it
\* was there for, whatever sockets failed, joined and left meanwhile.
AllTold ==
    (\A t \in Tasks : ~cast[t].on /\ pc[t] # "closing") => stale = {}

\* Presence is the truth: an open connection of a device that is not revoked is
\* never dropped from the hub, and the hub holds no endpoint that has ended, so
\* a device is shown online as long as it is and no longer.
PresenceTrue ==
    \A s \in Sockets :
        /\ Serving(s) /\ wire[s] = "open" /\ device[Of[s]] # "revoked" => InHub(s)
        /\ InHub(s) => Serving(s)

\* A revocation closes what it should: an endpoint of a revoked device whose
\* connection is open is about to be closed, or was between its token check
\* and its registration when the revocation was committed.
RevokedGone ==
    \A s \in Sockets :
        Serving(s) /\ wire[s] = "open" /\ device[Of[s]] = "revoked"
        => s \in slipped \/ \E r \in Requests : s \in closing[r]

\* A socket that is owed an event is owed it by some task.
StaleOwed == \A s \in stale : \E t \in Tasks : Owes(t, s)

\* A device's set was made for it, and a set holds the sockets of one device.
SlotsOwn ==
    /\ \A d \in Devices : IsOnline(d) => Of[slot[d]] = d
    /\ \A n \in Sockets : \A s \in set[n] : Of[s] = Of[n]

\* Who is in a broadcast, and what it has found to be lost.
Casting ==
    \A t \in Tasks :
        /\ cast[t].on => pc[t] \in {"greeting", "leaving", "telling"}
        /\ \A s \in cast[t].dead : wire[s] = "gone"

\* A connection that is not registered yet has sent nothing, and was seen by a
\* revocation of its device.
Unaccepted ==
    \A s \in Sockets :
        /\ pc[s] \in {"new", "checked"} => wire[s] = "none"
        /\ pc[s] = "checked" /\ device[Of[s]] = "revoked" => s \in slipped

\* What a revocation closes is its own and was registered, and its device is
\* revoked.
Closing ==
    \A r \in Requests :
        /\ \A s \in closing[r] : pc[s] \notin {"new", "checked"}
        /\ closing[r] # {} => pc[r] = "closing"
        /\ pc[r] = "closing" => target[r] \in Devices /\ device[target[r]] = "revoked"

\* The three invariants hold from here on.
HubInv ==
    /\ TypeOK /\ PresenceTrue /\ RevokedGone
    /\ StaleOwed /\ SlotsOwn /\ Casting /\ Unaccepted /\ Closing

\* A socket that is owed an event gets it or leaves the hub.
EveryoneTold == \A s \in Sockets : s \in stale ~> s \notin stale
===============================================================================

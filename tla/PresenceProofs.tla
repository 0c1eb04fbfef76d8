---------------------------- MODULE PresenceProofs ----------------------------
(***************************************************************************)
(* Proofs about Presence, for any devices, connections and requests:       *)
(* nobody in the hub misses a change of the device list, presence is the   *)
(* truth, and a revocation closes what was registered.                     *)
(***************************************************************************)
EXTENDS Presence, FiniteSetTheorems, TLAPS

USE OfAssumption, TasksAssumption, NoneAssumption

-----------------------------------------------------------------------------
(***************************************************************************)
(* The hub's add and remove, and the start of a broadcast.                 *)
(***************************************************************************)

\* A broadcast that starts will get to every socket of a device that is online then,
\* but the one it leaves out.
LEMMA BeginFacts ==
    ASSUME TypeOK, slot' \in [Devices -> Sockets \cup {None}],
           NEW t \in Tasks, NEW but \in SUBSET Sockets, NEW more \in Nat,
           Begin(t, slot', but, more)
    PROVE  /\ cast' \in [Tasks -> Broadcasts]
           /\ \A u \in Tasks : u # t => cast'[u] = cast[u]
           /\ cast'[t].dead = {}
           /\ \A s \in Sockets : s \notin but /\ slot'[Of[s]] # None => Owes(t, s)'
<1>1. cast \in [Tasks -> Broadcasts] /\ Held(slot') \subseteq Sockets
  BY DEF TypeOK, Held
<1>2. [on |-> TRUE, todo |-> Held(slot'), cur |-> {}, dead |-> {},
       but |-> but, more |-> more] \in Broadcasts
  BY <1>1 DEF Broadcasts
<1>3. cast' = [cast EXCEPT ![t] = [on |-> TRUE, todo |-> Held(slot'), cur |-> {}, dead |-> {},
                                   but |-> but, more |-> more]]
  BY DEF Begin
<1>4. cast'[t] = [on |-> TRUE, todo |-> Held(slot'), cur |-> {}, dead |-> {},
                  but |-> but, more |-> more]
  BY <1>1, <1>3
<1>5. ASSUME NEW s \in Sockets, s \notin but, slot'[Of[s]] # None PROVE Owes(t, s)'
  <2>1. slot'[Of[s]] \in Held(slot')
    BY <1>5 DEF Held
  <2> QED
    BY <1>4, <1>5, <2>1 DEF Owes
<1> QED
  BY <1>1, <1>2, <1>3, <1>4, <1>5

\* A device's new socket is in the hub, beside those that were.
LEMMA AddFacts ==
    ASSUME TypeOK, SlotsOwn, NEW s \in Sockets, Add(s)
    PROVE  /\ set' \in [Sockets -> SUBSET Sockets]
           /\ slot' \in [Devices -> Sockets \cup {None}]
           /\ \A x \in Sockets : InHub(x)' <=> x = s \/ InHub(x)
           /\ \A d \in Devices : IsOnline(d) => slot'[d] = slot[d]
           /\ IsOnline(Of[s]) => slot' = slot
<1> USE DEF Add, InHub, SocketsOf, IsOnline
<1>1. /\ set' \in [Sockets -> SUBSET Sockets]
      /\ slot' \in [Devices -> Sockets \cup {None}]
  BY DEF TypeOK
<1>2. \A d \in Devices : IsOnline(d) => slot'[d] = slot[d]
  BY DEF TypeOK
<1>3. ASSUME NEW x \in Sockets PROVE InHub(x)' <=> x = s \/ InHub(x)
  <2>1. CASE IsOnline(Of[s])
    BY <2>1 DEF TypeOK, SlotsOwn
  <2>2. CASE ~IsOnline(Of[s])
    BY <2>2 DEF TypeOK, SlotsOwn
  <2> QED
    BY <2>1, <2>2
<1> QED
  BY <1>1, <1>2, <1>3

\* Removing sockets removes these, and a device with them only when it has no
\* other.
LEMMA RemoveFacts ==
    ASSUME TypeOK, NEW gone, Remove(gone)
    PROVE  /\ set' \in [Sockets -> SUBSET Sockets]
           /\ slot' \in [Devices -> Sockets \cup {None}]
           /\ \A x \in Sockets : InHub(x)' <=> InHub(x) /\ x \notin gone
           /\ \A x \in Sockets : InHub(x) /\ x \notin gone => slot'[Of[x]] = slot[Of[x]]
           /\ \A d \in Devices : slot'[d] \in {None, slot[d]}
           /\ \A n \in Sockets : set'[n] \subseteq set[n]
           /\ Emptied(gone) = {} => slot' = slot
<1> USE DEF Remove, InHub, SocketsOf, IsOnline
<1>1. /\ slot' \in [Devices -> Sockets \cup {None}]
      /\ \A d \in Devices : slot'[d] \in {None, slot[d]}
      /\ Emptied(gone) = {} => slot' = slot
  BY DEF TypeOK, Emptied
<1>2. /\ set' \in [Sockets -> SUBSET Sockets]
      /\ \A n \in Sockets : set'[n] \subseteq set[n]
      /\ \A d \in Devices : IsOnline(d) => set'[slot[d]] = set[slot[d]] \ gone
  BY DEF TypeOK, Without, Held
<1>3. ASSUME NEW x \in Sockets, InHub(x), x \notin gone PROVE slot'[Of[x]] = slot[Of[x]]
  BY <1>3 DEF TypeOK, Emptied
<1>4. ASSUME NEW x \in Sockets PROVE InHub(x)' <=> InHub(x) /\ x \notin gone
  <2>1. ASSUME InHub(x), x \notin gone PROVE InHub(x)'
    <3>1. Of[x] \in Devices /\ slot[Of[x]] # None /\ x \in set[slot[Of[x]]]
      BY <2>1
    <3>2. set'[slot[Of[x]]] = set[slot[Of[x]]] \ gone
      BY <1>2, <3>1
    <3> QED
      BY <1>3, <2>1, <3>1, <3>2
  <2>2. InHub(x)' => InHub(x) /\ x \notin gone
    BY <1>1, <1>2 DEF TypeOK
  <2> QED
    BY <2>1, <2>2
<1> QED
  BY <1>1, <1>2, <1>3, <1>4

\* A send or a listing changes one broadcast, in what is to come and what failed.
LEMMA SendFacts ==
    ASSUME TypeOK, NEW t \in Tasks, NEW s \in Sockets, Send(t, s)
    PROVE  /\ cast' \in [Tasks -> Broadcasts]
           /\ \A u \in Tasks : u # t => cast'[u] = cast[u]
           /\ cast'[t].cur = cast[t].cur \ {s}
           /\ cast'[t].dead = IF wire[s] = "open" THEN cast[t].dead ELSE cast[t].dead \cup {s}
           /\ cast'[t].on = cast[t].on /\ cast'[t].more = cast[t].more
           /\ cast'[t].todo = cast[t].todo /\ cast'[t].but = cast[t].but
<1>1. cast[t] \in Broadcasts /\ cast \in [Tasks -> Broadcasts]
  BY DEF TypeOK
<1>2. CASE wire[s] = "open"
  <2>1. cast' = [cast EXCEPT ![t] = [cast[t] EXCEPT !.cur = @ \ {s}]]
    BY <1>2 DEF Send
  <2>2. [cast[t] EXCEPT !.cur = @ \ {s}] \in Broadcasts
    BY <1>1 DEF Broadcasts
  <2> QED
    BY <1>1, <1>2, <2>1, <2>2 DEF Broadcasts
<1>3. CASE wire[s] = "gone"
  <2>1. cast' = [cast EXCEPT ![t] = [cast[t] EXCEPT !.cur = @ \ {s}, !.dead = @ \cup {s}]]
    BY <1>3 DEF Send
  <2>2. [cast[t] EXCEPT !.cur = @ \ {s}, !.dead = @ \cup {s}] \in Broadcasts
    BY <1>1 DEF Broadcasts
  <2> QED
    BY <1>1, <1>3, <2>1, <2>2 DEF Broadcasts
<1> QED
  BY <1>2, <1>3 DEF Send

LEMMA NextSetFacts ==
    ASSUME TypeOK, NEW t \in Tasks, NEW n \in Sockets, NextSet(t, n)
    PROVE  /\ cast' \in [Tasks -> Broadcasts]
           /\ \A u \in Tasks : u # t => cast'[u] = cast[u]
           /\ cast'[t].cur = set[n] \ cast[t].but
           /\ cast'[t].todo = cast[t].todo \ {n}
           /\ cast'[t].on = cast[t].on /\ cast'[t].more = cast[t].more
           /\ cast'[t].dead = cast[t].dead /\ cast'[t].but = cast[t].but
<1>1. cast[t] \in Broadcasts /\ cast \in [Tasks -> Broadcasts] /\ set[n] \subseteq Sockets
  BY DEF TypeOK
<1>2. cast' = [cast EXCEPT ![t] = [cast[t] EXCEPT !.todo = @ \ {n}, !.cur = set[n] \ cast[t].but]]
  BY DEF NextSet
<1>3. [cast[t] EXCEPT !.todo = @ \ {n}, !.cur = set[n] \ cast[t].but] \in Broadcasts
  BY <1>1 DEF Broadcasts
<1> QED
  BY <1>1, <1>2, <1>3 DEF Broadcasts
-----------------------------------------------------------------------------
(***************************************************************************)
(* Every action keeps the inductive invariant.                             *)
(***************************************************************************)

\* A login and a rename start a broadcast.
LEMMA LoginStep ==
    ASSUME HubInv, NEW r \in Requests, NEW d \in Devices, Login(r, d)
    PROVE  HubInv'
<1> USE DEF HubInv, Login
<1>a. r \in Tasks /\ slot' \in [Devices -> Sockets \cup {None}] /\ Begin(r, slot', {}, 0)
  BY DEF TypeOK, Tasks, Begin
<1>b. /\ cast' \in [Tasks -> Broadcasts]
      /\ \A u \in Tasks : u # r => cast'[u] = cast[u]
      /\ cast'[r].dead = {}
      /\ \A x \in Sockets : slot'[Of[x]] # None => Owes(r, x)'
  BY <1>a, BeginFacts
<1>1. TypeOK'
  BY <1>a, <1>b DEF TypeOK, Registered, InHub, SocketsOf, IsOnline, Tasks
<1>2. PresenceTrue'
  BY DEF TypeOK, PresenceTrue, Serving, InHub, SocketsOf, IsOnline, Tasks
<1>3. RevokedGone'
  BY DEF TypeOK, RevokedGone, PresenceTrue, Serving, InHub, SocketsOf, IsOnline, Tasks, Closing, Unaccepted
<1>4. StaleOwed'
  <2>1. \A x \in stale' : x \in Sockets /\ slot'[Of[x]] # None
    BY DEF Registered, InHub, SocketsOf, IsOnline
  <2> QED
    BY <1>a, <1>b, <2>1 DEF StaleOwed
<1>5. SlotsOwn'
  BY DEF TypeOK, SlotsOwn, IsOnline, Tasks
<1>6. Casting'
  BY <1>a, <1>b DEF TypeOK, Casting
<1>7. Unaccepted'
  BY DEF TypeOK, Unaccepted, Tasks, Casting, Closing
<1>8. Closing'
  BY DEF TypeOK, Closing, Tasks, Casting, Unaccepted
<1> QED
  BY <1>1, <1>2, <1>3, <1>4, <1>5, <1>6, <1>7, <1>8

LEMMA RenameStep ==
    ASSUME HubInv, NEW r \in Requests, NEW caller \in Devices, NEW d \in Devices, Rename(r, caller, d)
    PROVE  HubInv'
<1> USE DEF HubInv, Rename
<1>a. r \in Tasks /\ slot' \in [Devices -> Sockets \cup {None}] /\ Begin(r, slot', {}, 0)
  BY DEF TypeOK, Tasks, Begin
<1>b. /\ cast' \in [Tasks -> Broadcasts]
      /\ \A u \in Tasks : u # r => cast'[u] = cast[u]
      /\ cast'[r].dead = {}
      /\ \A x \in Sockets : slot'[Of[x]] # None => Owes(r, x)'
  BY <1>a, BeginFacts
<1>1. TypeOK'
  BY <1>a, <1>b DEF TypeOK, Registered, InHub, SocketsOf, IsOnline, Tasks
<1>2. PresenceTrue'
  BY DEF TypeOK, PresenceTrue, Serving, InHub, SocketsOf, IsOnline, Tasks
<1>3. RevokedGone'
  BY DEF TypeOK, RevokedGone, PresenceTrue, Serving, InHub, SocketsOf, IsOnline, Tasks, Closing, Unaccepted
<1>4. StaleOwed'
  <2>1. \A x \in stale' : x \in Sockets /\ slot'[Of[x]] # None
    BY DEF Registered, InHub, SocketsOf, IsOnline
  <2> QED
    BY <1>a, <1>b, <2>1 DEF StaleOwed
<1>5. SlotsOwn'
  BY DEF TypeOK, SlotsOwn, IsOnline, Tasks
<1>6. Casting'
  BY <1>a, <1>b DEF TypeOK, Casting
<1>7. Unaccepted'
  BY DEF TypeOK, Unaccepted, Tasks, Casting, Closing
<1>8. Closing'
  BY DEF TypeOK, Closing, Tasks, Casting, Unaccepted
<1> QED
  BY <1>1, <1>2, <1>3, <1>4, <1>5, <1>6, <1>7, <1>8

\* A revocation lists what was registered.
LEMMA RevokeStep ==
    ASSUME HubInv, NEW r \in Requests, NEW caller \in Devices, NEW d \in Devices, Revoke(r, caller, d)
    PROVE  HubInv'
<1> USE DEF HubInv, Revoke, Authentic
<1>1. TypeOK'
  BY DEF TypeOK, Broadcasts, Registered, InHub, SocketsOf, IsOnline, Tasks
<1>2. PresenceTrue'
  BY DEF TypeOK, PresenceTrue, Serving, InHub, SocketsOf, IsOnline, Tasks
<1>3. RevokedGone'
  BY DEF TypeOK, RevokedGone, PresenceTrue, Serving, InHub, SocketsOf, IsOnline, Tasks, Closing, Unaccepted
<1>4. StaleOwed'
  BY DEF TypeOK, StaleOwed, Owes, Registered, InHub, SocketsOf, IsOnline, Tasks
<1>5. SlotsOwn'
  BY DEF TypeOK, SlotsOwn, IsOnline, Tasks
<1>6. Casting'
  BY DEF TypeOK, Casting, Tasks, Unaccepted
<1>7. Unaccepted'
  BY DEF TypeOK, Unaccepted, Tasks, Casting, Closing
<1>8. Closing'
  <2>1. \A s \in SocketsOf(d) : s \in Sockets /\ InHub(s)
    BY DEF TypeOK, SlotsOwn, SocketsOf, InHub, IsOnline
  <2>2. \A s \in SocketsOf(d) : pc[s] \in {"greeting", "receiving"} /\ s # r
    BY <2>1 DEF PresenceTrue, Serving
  <2> QED
    BY <2>2 DEF TypeOK, Tasks, Closing
<1> QED
  BY <1>1, <1>2, <1>3, <1>4, <1>5, <1>6, <1>7, <1>8

\* What it closes and drops was its own.
LEMMA CloseOneStep ==
    ASSUME HubInv, NEW r \in Requests, NEW s \in Sockets, CloseOne(r, s)
    PROVE  HubInv'
<1> USE DEF HubInv, CloseOne
<1>1. TypeOK'
  BY DEF TypeOK, Broadcasts, Registered, InHub, SocketsOf, IsOnline, Tasks
<1>2. PresenceTrue'
  BY DEF TypeOK, PresenceTrue, Serving, InHub, SocketsOf, IsOnline, Tasks
<1>3. RevokedGone'
  BY DEF TypeOK, RevokedGone, PresenceTrue, Serving, InHub, SocketsOf, IsOnline, Tasks, Closing, Unaccepted
<1>4. StaleOwed'
  BY DEF TypeOK, StaleOwed, Owes, Registered, InHub, SocketsOf, IsOnline, Tasks
<1>5. SlotsOwn'
  BY DEF TypeOK, SlotsOwn, IsOnline, Tasks
<1>6. Casting'
  BY DEF TypeOK, Casting, Tasks, Unaccepted
<1>7. Unaccepted'
  BY DEF TypeOK, Unaccepted, Tasks, Casting, Closing
<1>8. Closing'
  BY DEF TypeOK, Closing, Tasks, Casting, Unaccepted
<1> QED
  BY <1>1, <1>2, <1>3, <1>4, <1>5, <1>6, <1>7, <1>8

LEMMA DropStep ==
    ASSUME HubInv, NEW r \in Requests, Drop(r)
    PROVE  HubInv'
<1> USE DEF HubInv, Drop
<1> DEFINE d == target[r]
<1>a. d \in Devices /\ device[d] = "revoked" /\ r \in Tasks /\ target' = target
  BY DEF TypeOK, Closing, Tasks
<1>b. slot' \in [Devices -> Sockets \cup {None}] /\ slot' = [slot EXCEPT ![d] = None]
  BY DEF TypeOK
<1>c. /\ cast' \in [Tasks -> Broadcasts]
      /\ \A u \in Tasks : u # r => cast'[u] = cast[u]
      /\ cast'[r].dead = {}
      /\ \A x \in Sockets : slot'[Of[x]] # None => Owes(r, x)'
  BY <1>a, <1>b, BeginFacts
<1>d. ASSUME NEW x \in Sockets
      PROVE  /\ Of[x] # d => (InHub(x)' <=> InHub(x)) /\ slot'[Of[x]] = slot[Of[x]]
             /\ Of[x] = d => ~InHub(x)' /\ (InHub(x) <=> x \in SocketsOf(d))
  BY <1>a, <1>b DEF TypeOK, InHub, SocketsOf, IsOnline
<1>e. \A x \in stale' : x \in Sockets /\ InHub(x) /\ Of[x] # d
  BY <1>d DEF TypeOK, Registered
<1> HIDE DEF d
<1>1. TypeOK'
  <2>1. \A x \in stale' : InHub(x)'
    BY <1>d, <1>e
  <2>2. stale' \subseteq Registered'
    BY <1>e, <2>1 DEF Registered
  <2> QED
    BY <1>a, <1>b, <1>c, <2>2 DEF TypeOK, Tasks
<1>2. PresenceTrue'
  <2> SUFFICES ASSUME NEW x \in Sockets
               PROVE  /\ Serving(x)' /\ wire'[x] = "open" /\ device'[Of[x]] # "revoked" => InHub(x)'
                      /\ InHub(x)' => Serving(x)'
    BY DEF PresenceTrue
  <2>1. Serving(x)' <=> Serving(x)
    BY <1>a DEF TypeOK, Serving
  <2> QED
    BY <1>a, <1>d, <2>1 DEF PresenceTrue
<1>3. RevokedGone'
  BY <1>a DEF TypeOK, RevokedGone, Serving
<1>4. StaleOwed'
  <2>1. \A x \in stale' : x \in Sockets /\ slot'[Of[x]] # None
    BY <1>d, <1>e DEF InHub, SocketsOf, IsOnline
  <2> QED
    BY <1>a, <1>c, <2>1 DEF StaleOwed
<1>5. SlotsOwn'
  BY <1>b DEF TypeOK, SlotsOwn, IsOnline
<1>6. Casting'
  BY <1>a, <1>c DEF TypeOK, Casting
<1>7. Unaccepted'
  BY <1>a DEF TypeOK, Unaccepted
<1>8. Closing'
  BY <1>a DEF TypeOK, Closing
<1> QED
  BY <1>1, <1>2, <1>3, <1>4, <1>5, <1>6, <1>7, <1>8

\* A connection that is checked, accepted, given up or lost.
LEMMA CheckStep ==
    ASSUME HubInv, NEW s \in Sockets, Check(s)
    PROVE  HubInv'
<1> USE DEF HubInv, Check, Authentic
<1>1. TypeOK'
  BY DEF TypeOK, Broadcasts, Registered, InHub, SocketsOf, IsOnline, Tasks
<1>2. PresenceTrue'
  BY DEF TypeOK, PresenceTrue, Serving, InHub, SocketsOf, IsOnline, Tasks
<1>3. RevokedGone'
  BY DEF TypeOK, RevokedGone, PresenceTrue, Serving, InHub, SocketsOf, IsOnline, Tasks, Closing, Unaccepted
<1>4. StaleOwed'
  BY DEF TypeOK, StaleOwed, Owes, Registered, InHub, SocketsOf, IsOnline, Tasks
<1>5. SlotsOwn'
  BY DEF TypeOK, SlotsOwn, IsOnline, Tasks
<1>6. Casting'
  BY DEF TypeOK, Casting, Tasks, Unaccepted
<1>7. Unaccepted'
  BY DEF TypeOK, Unaccepted, Tasks, Casting, Closing
<1>8. Closing'
  BY DEF TypeOK, Closing, Tasks, Casting, Unaccepted
<1> QED
  BY <1>1, <1>2, <1>3, <1>4, <1>5, <1>6, <1>7, <1>8

LEMMA AcceptStep ==
    ASSUME HubInv, NEW s \in Sockets, Accept(s)
    PROVE  HubInv'
<1> USE DEF HubInv, Accept
<1>a. /\ set' \in [Sockets -> SUBSET Sockets]
      /\ slot' \in [Devices -> Sockets \cup {None}]
      /\ \A x \in Sockets : InHub(x)' <=> x = s \/ InHub(x)
      /\ \A d \in Devices : IsOnline(d) => slot'[d] = slot[d]
      /\ IsOnline(Of[s]) => slot' = slot
  BY AddFacts
<1>b. s \in Tasks /\ Sockets \subseteq Tasks
  BY DEF Tasks
<1>c. ASSUME ~IsOnline(Of[s])
      PROVE
      /\ cast' \in [Tasks -> Broadcasts]
      /\ \A u \in Tasks : u # s => cast'[u] = cast[u]
      /\ cast'[s].dead = {}
      /\ \A x \in Sockets : x # s /\ slot'[Of[x]] # None => Owes(s, x)'
  <2>1. Begin(s, slot', {s}, 0) /\ {s} \in SUBSET Sockets /\ TypeOK
    BY <1>c
  <2>2. slot' \in [Devices -> Sockets \cup {None}] /\ s \in Tasks
    BY <1>a, <1>b
  <2> HIDE DEF Accept, HubInv
  <2> QED
    BY <2>1, <2>2, BeginFacts
<1>d. \A x \in Sockets : InHub(x) => IsOnline(Of[x])
  BY DEF InHub, SocketsOf
<1>1. TypeOK'
  <2>1. stale' \subseteq Registered'
    BY <1>a DEF TypeOK, Registered
  <2>2. cast' \in [Tasks -> Broadcasts]
    BY <1>c DEF TypeOK
  <2> QED
    BY <1>a, <1>b, <2>1, <2>2 DEF TypeOK, Tasks
<1>2. PresenceTrue'
  BY <1>a, <1>b DEF TypeOK, PresenceTrue, Serving
<1>3. RevokedGone'
  BY <1>a, <1>b DEF TypeOK, RevokedGone, Serving, Unaccepted
<1>4. StaleOwed'
  <2>1. CASE IsOnline(Of[s])
    BY <1>a, <1>b, <2>1 DEF TypeOK, StaleOwed, Owes
  <2>2. CASE ~IsOnline(Of[s])
    <3>1. \A x \in stale' : x \in Sockets /\ IsOnline(Of[x])
      BY <1>d, <2>2 DEF Registered
    <3>2. \A x \in stale' : x # s /\ slot'[Of[x]] # None
      BY <1>a, <2>2, <3>1 DEF IsOnline
    <3> QED
      BY <1>b, <1>c, <2>2, <3>1, <3>2 DEF StaleOwed
  <2> QED
    BY <2>1, <2>2
<1>5. SlotsOwn'
  BY DEF Add, TypeOK, SlotsOwn, IsOnline
<1>6. Casting'
  <2>1. \A x \in Sockets : wire[x] = "gone" => wire'[x] = "gone"
    BY DEF TypeOK, Unaccepted
  <2>2. \A u \in Tasks : cast'[u].dead \subseteq cast[u].dead
    BY <1>c DEF TypeOK
  <2>3. \A u \in Tasks : cast[u].dead \subseteq Sockets
    BY DEF TypeOK, Broadcasts
  <2>4. \A u \in Tasks : u # s => cast'[u].on = cast[u].on /\ pc'[u] = pc[u]
    BY <1>b, <1>c DEF TypeOK
  <2>5. cast'[s].on => pc'[s] \in {"greeting", "leaving", "telling"}
    BY <1>b DEF TypeOK, Casting
  <2> QED
    BY <2>1, <2>2, <2>3, <2>4, <2>5 DEF Casting
<1>7. Unaccepted'
  BY <1>a, <1>b DEF TypeOK, Unaccepted, Tasks, Casting, Closing
<1>8. Closing'
  <2>1. \A r \in Requests : r # s /\ r \in Tasks
    BY DEF Tasks
  <2> QED
    BY <1>b, <2>1 DEF TypeOK, Closing
<1> QED
  BY <1>1, <1>2, <1>3, <1>4, <1>5, <1>6, <1>7, <1>8

LEMMA AcceptFailsStep ==
    ASSUME HubInv, NEW s \in Sockets, AcceptFails(s)
    PROVE  HubInv'
<1> USE DEF HubInv, AcceptFails
<1>1. TypeOK'
  BY DEF TypeOK, Broadcasts, Registered, InHub, SocketsOf, IsOnline, Tasks
<1>2. PresenceTrue'
  BY DEF TypeOK, PresenceTrue, Serving, InHub, SocketsOf, IsOnline, Tasks
<1>3. RevokedGone'
  BY DEF TypeOK, RevokedGone, PresenceTrue, Serving, InHub, SocketsOf, IsOnline, Tasks, Closing, Unaccepted
<1>4. StaleOwed'
  BY DEF TypeOK, StaleOwed, Owes, Registered, InHub, SocketsOf, IsOnline, Tasks
<1>5. SlotsOwn'
  BY DEF TypeOK, SlotsOwn, IsOnline, Tasks
<1>6. Casting'
  BY DEF TypeOK, Casting, Tasks, Unaccepted
<1>7. Unaccepted'
  BY DEF TypeOK, Unaccepted, Tasks, Casting, Closing
<1>8. Closing'
  BY DEF TypeOK, Closing, Tasks, Casting, Unaccepted
<1> QED
  BY <1>1, <1>2, <1>3, <1>4, <1>5, <1>6, <1>7, <1>8

LEMMA GoAwayStep ==
    ASSUME HubInv, NEW s \in Sockets, GoAway(s)
    PROVE  HubInv'
<1> USE DEF HubInv, GoAway
<1>1. TypeOK'
  BY DEF TypeOK, Broadcasts, Registered, InHub, SocketsOf, IsOnline, Tasks
<1>2. PresenceTrue'
  BY DEF TypeOK, PresenceTrue, Serving, InHub, SocketsOf, IsOnline, Tasks
<1>3. RevokedGone'
  BY DEF TypeOK, RevokedGone, PresenceTrue, Serving, InHub, SocketsOf, IsOnline, Tasks, Closing, Unaccepted
<1>4. StaleOwed'
  BY DEF TypeOK, StaleOwed, Owes, Registered, InHub, SocketsOf, IsOnline, Tasks
<1>5. SlotsOwn'
  BY DEF TypeOK, SlotsOwn, IsOnline, Tasks
<1>6. Casting'
  BY DEF TypeOK, Casting, Tasks, Unaccepted
<1>7. Unaccepted'
  BY DEF TypeOK, Unaccepted, Tasks, Casting, Closing
<1>8. Closing'
  BY DEF TypeOK, Closing, Tasks, Casting, Unaccepted
<1> QED
  BY <1>1, <1>2, <1>3, <1>4, <1>5, <1>6, <1>7, <1>8

\* An endpoint that ends takes its device with it only if it was the last.
LEMMA LeaveStep ==
    ASSUME HubInv, NEW s \in Sockets, Leave(s)
    PROVE  HubInv'
<1> USE DEF HubInv, Leave
<1>a. /\ set' \in [Sockets -> SUBSET Sockets]
      /\ slot' \in [Devices -> Sockets \cup {None}]
      /\ \A x \in Sockets : InHub(x)' <=> InHub(x) /\ x \notin {s}
      /\ \A x \in Sockets : InHub(x) /\ x \notin {s} => slot'[Of[x]] = slot[Of[x]]
      /\ \A d \in Devices : slot'[d] \in {None, slot[d]}
      /\ \A n \in Sockets : set'[n] \subseteq set[n]
      /\ Emptied({s}) = {} => slot' = slot
  BY RemoveFacts
<1>b. s \in Tasks /\ Sockets \subseteq Tasks
  BY DEF Tasks
<1>c. ASSUME Emptied({s}) # {}
      PROVE
      /\ cast' \in [Tasks -> Broadcasts]
      /\ \A u \in Tasks : u # s => cast'[u] = cast[u]
      /\ cast'[s].dead = {}
      /\ \A x \in Sockets : slot'[Of[x]] # None => Owes(s, x)'
  <2>1. Begin(s, slot', {}, 0) /\ {} \in SUBSET Sockets /\ TypeOK
    BY <1>c
  <2>2. slot' \in [Devices -> Sockets \cup {None}] /\ s \in Tasks
    BY <1>a, <1>b
  <2> HIDE DEF Leave, HubInv
  <2> QED
    BY <2>1, <2>2, BeginFacts
<1>1. TypeOK'
  <2>1. stale' \subseteq Registered'
    BY <1>a DEF TypeOK, Registered
  <2>2. cast' \in [Tasks -> Broadcasts]
    BY <1>c DEF TypeOK
  <2>3. pc' \in [Tasks -> {"new", "checked", "greeting", "receiving", "leaving",
                           "closing", "telling", "done"}]
    BY <1>b DEF TypeOK
  <2> QED
    BY <1>a, <2>1, <2>2, <2>3 DEF TypeOK
<1>2. PresenceTrue'
  BY <1>a, <1>b DEF TypeOK, PresenceTrue, Serving
<1>3. RevokedGone'
  BY <1>a, <1>b DEF TypeOK, RevokedGone, PresenceTrue, Serving, InHub, SocketsOf, IsOnline, Tasks, Closing, Unaccepted
<1>4. StaleOwed'
  <2>1. CASE Emptied({s}) = {}
    <3> SUFFICES ASSUME NEW x \in stale' PROVE \E u \in Tasks : Owes(u, x)'
      BY DEF StaleOwed
    <3>1. PICK u \in Tasks : Owes(u, x)
      BY <2>1 DEF StaleOwed
    <3>2. slot' = slot /\ cast' = cast /\ (pc[u] = "closing" => pc'[u] = "closing")
      BY <1>a, <2>1 DEF TypeOK
    <3> QED
      BY <3>1, <3>2 DEF Owes
  <2>2. CASE Emptied({s}) # {}
    <3>1. \A x \in stale' : x \in Sockets /\ InHub(x) /\ x # s
      BY <2>2 DEF Registered
    <3>2. \A x \in stale' : slot'[Of[x]] # None
      BY <1>a, <3>1 DEF InHub, SocketsOf, IsOnline
    <3> QED
      BY <1>b, <1>c, <2>2, <3>1, <3>2 DEF StaleOwed
  <2> QED
    BY <2>1, <2>2
<1>5. SlotsOwn'
  BY <1>a DEF TypeOK, SlotsOwn, IsOnline
<1>6. Casting'
  <2>1. \A x \in Sockets : wire[x] = "gone" => wire'[x] = "gone"
    BY DEF TypeOK
  <2>2. \A u \in Tasks : cast'[u].dead \subseteq cast[u].dead
    BY <1>c DEF TypeOK
  <2>3. \A u \in Tasks : cast[u].dead \subseteq Sockets
    BY DEF TypeOK, Broadcasts
  <2>4. \A u \in Tasks : u # s => cast'[u].on = cast[u].on /\ pc'[u] = pc[u]
    BY <1>b, <1>c DEF TypeOK
  <2>5. cast'[s].on => pc'[s] \in {"greeting", "leaving", "telling"}
    BY <1>b DEF TypeOK, Casting
  <2> QED
    BY <2>1, <2>2, <2>3, <2>4, <2>5 DEF Casting
<1>7. Unaccepted'
  BY <1>a, <1>b DEF TypeOK, Unaccepted, Tasks, Casting, Closing
<1>8. Closing'
  BY <1>a, <1>b DEF TypeOK, Closing, Tasks, Casting, Unaccepted
<1> QED
  BY <1>1, <1>2, <1>3, <1>4, <1>5, <1>6, <1>7, <1>8

\* A broadcast gets to who it owes, and leaves what is lost for its end.
LEMMA NextSetStep ==
    ASSUME HubInv, NEW t \in Tasks, NEW n \in Sockets, NextSet(t, n)
    PROVE  HubInv'
<1> USE DEF HubInv, NextSet
<1>a. /\ cast' \in [Tasks -> Broadcasts]
      /\ \A u \in Tasks : u # t => cast'[u] = cast[u]
      /\ cast'[t].cur = set[n] \ cast[t].but
      /\ cast'[t].todo = cast[t].todo \ {n}
      /\ cast'[t].on = cast[t].on /\ cast'[t].more = cast[t].more
      /\ cast'[t].dead = cast[t].dead /\ cast'[t].but = cast[t].but
  BY NextSetFacts
<1>1. TypeOK'
  <2>1. stale' \subseteq Registered'
    BY DEF TypeOK, Registered, InHub, SocketsOf, IsOnline
  <2> QED
    BY <1>a, <2>1 DEF TypeOK
<1>2. PresenceTrue'
  BY DEF TypeOK, PresenceTrue, Serving, InHub, SocketsOf, IsOnline, Tasks
<1>3. RevokedGone'
  BY DEF TypeOK, RevokedGone, PresenceTrue, Serving, InHub, SocketsOf, IsOnline, Tasks, Closing, Unaccepted
<1>4. StaleOwed'
  <2> SUFFICES ASSUME NEW x \in stale, NEW u \in Tasks, Owes(u, x) PROVE Owes(u, x)'
    BY DEF StaleOwed
  <2>1. x \in Sockets /\ (slot[Of[x]] = n => x \in set[n])
    BY DEF TypeOK, Registered, InHub, SocketsOf, IsOnline
  <2>2. CASE u # t
    BY <1>a, <2>2 DEF Owes
  <2>3. CASE u = t
    BY <1>a, <2>1, <2>3 DEF Owes
  <2> QED
    BY <2>2, <2>3
<1>5. SlotsOwn'
  BY DEF TypeOK, SlotsOwn, IsOnline, Tasks
<1>6. Casting'
  BY <1>a DEF TypeOK, Casting
<1>7. Unaccepted'
  BY DEF TypeOK, Unaccepted, Tasks, Casting, Closing
<1>8. Closing'
  BY DEF TypeOK, Closing, Tasks, Casting, Unaccepted
<1> QED
  BY <1>1, <1>2, <1>3, <1>4, <1>5, <1>6, <1>7, <1>8

LEMMA SendStep ==
    ASSUME HubInv, NEW t \in Tasks, NEW s \in Sockets, Send(t, s)
    PROVE  HubInv'
<1> USE DEF HubInv, Send
<1>a. /\ cast' \in [Tasks -> Broadcasts]
      /\ \A u \in Tasks : u # t => cast'[u] = cast[u]
      /\ cast'[t].cur = cast[t].cur \ {s}
      /\ cast'[t].dead = IF wire[s] = "open" THEN cast[t].dead ELSE cast[t].dead \cup {s}
      /\ cast'[t].on = cast[t].on /\ cast'[t].more = cast[t].more
      /\ cast'[t].todo = cast[t].todo /\ cast'[t].but = cast[t].but
  BY SendFacts
<1>1. TypeOK'
  <2>1. stale' \subseteq Registered'
    BY DEF TypeOK, Registered, InHub, SocketsOf, IsOnline
  <2> QED
    BY <1>a, <2>1 DEF TypeOK
<1>2. PresenceTrue'
  BY DEF TypeOK, PresenceTrue, Serving, InHub, SocketsOf, IsOnline, Tasks
<1>3. RevokedGone'
  BY DEF TypeOK, RevokedGone, PresenceTrue, Serving, InHub, SocketsOf, IsOnline, Tasks, Closing, Unaccepted
<1>4. StaleOwed'
  <2> SUFFICES ASSUME NEW x \in stale', NEW u \in Tasks, Owes(u, x) PROVE Owes(u, x)'
    BY DEF TypeOK, StaleOwed
  <2>1. x = s => wire[s] # "open"
    OBVIOUS
  <2>2. CASE u # t
    BY <1>a, <2>2 DEF Owes
  <2>3. CASE u = t
    BY <1>a, <2>1, <2>3 DEF Owes
  <2> QED
    BY <2>2, <2>3
<1>5. SlotsOwn'
  BY DEF TypeOK, SlotsOwn, IsOnline, Tasks
<1>6. Casting'
  <2>1. \A u \in Tasks : cast'[u].on = cast[u].on
    BY <1>a
  <2>2. \A u \in Tasks : \A x \in cast'[u].dead :
            x \in cast[u].dead \/ (x = s /\ wire[s] = "gone")
    BY <1>a
  <2> QED
    BY <2>1, <2>2 DEF Casting
<1>7. Unaccepted'
  BY DEF TypeOK, Unaccepted, Tasks, Casting, Closing
<1>8. Closing'
  BY DEF TypeOK, Closing, Tasks, Casting, Unaccepted
<1> QED
  BY <1>1, <1>2, <1>3, <1>4, <1>5, <1>6, <1>7, <1>8

LEMMA FinishStep ==
    ASSUME HubInv, NEW t \in Tasks, Finish(t)
    PROVE  HubInv'
<1> USE DEF HubInv, Finish, After
<1> DEFINE dead == cast[t].dead
           more == cast[t].more + Cardinality(Emptied(dead))
<1>a. /\ set' \in [Sockets -> SUBSET Sockets]
      /\ slot' \in [Devices -> Sockets \cup {None}]
      /\ \A x \in Sockets : InHub(x)' <=> InHub(x) /\ x \notin dead
      /\ \A x \in Sockets : InHub(x) /\ x \notin dead => slot'[Of[x]] = slot[Of[x]]
      /\ \A d \in Devices : slot'[d] \in {None, slot[d]}
      /\ \A n \in Sockets : set'[n] \subseteq set[n]
      /\ Emptied(dead) = {} => slot' = slot
  BY RemoveFacts
<1>b. more \in Nat /\ (more = 0 => cast[t].more = 0 /\ Emptied(dead) = {})
  <2>1. IsFiniteSet(Emptied(dead))
    <3>1. Emptied(dead) \subseteq Devices
      BY DEF Emptied
    <3> QED
      BY <3>1, FS_Subset, FiniteAssumption
  <2>2. /\ Cardinality(Emptied(dead)) \in Nat
        /\ Cardinality(Emptied(dead)) = 0 <=> Emptied(dead) = {}
    BY <2>1, FS_CardinalityType, FS_EmptySet
  <2>3. cast[t].more \in Nat
    BY DEF TypeOK, Broadcasts
  <2> QED
    BY <2>2, <2>3
<1>c. \A s \in dead : s \in Sockets /\ wire[s] = "gone"
  BY DEF TypeOK, Broadcasts, Casting
<1>d. ASSUME more > 0
      PROVE
      /\ cast' \in [Tasks -> Broadcasts]
      /\ \A u \in Tasks : u # t => cast'[u] = cast[u]
      /\ cast'[t].dead = {}
      /\ \A x \in Sockets : slot'[Of[x]] # None => Owes(t, x)'
  <2>1. more - 1 \in Nat /\ Begin(t, slot', {}, more - 1)
    BY <1>b, <1>d
  <2> DEFINE left == more - 1
  <2>2. left \in Nat /\ Begin(t, slot', {}, left)
    BY <2>1
  <2>3. slot' \in [Devices -> Sockets \cup {None}] /\ TypeOK
    BY <1>a
  <2> HIDE DEF left, more, dead, TypeOK
  <2> QED
    BY <2>2, <2>3, BeginFacts
<1>e. ASSUME more = 0
      PROVE  /\ cast' \in [Tasks -> Broadcasts]
             /\ \A u \in Tasks : u # t => cast'[u] = cast[u]
             /\ ~cast'[t].on /\ cast'[t].dead = {}
             /\ slot' = slot /\ stale' = stale \ dead
  <2>1. Idle \in Broadcasts
    BY DEF Idle, Broadcasts
  <2>2. cast' = [cast EXCEPT ![t] = Idle]
    BY <1>e
  <2> QED
    BY <1>a, <1>b, <1>e, <2>1, <2>2 DEF TypeOK, Idle
<1>f. \/ more > 0 /\ pc' = pc
      \/ more = 0 /\ pc' = [pc EXCEPT ![t] = After(t)]
  BY <1>b
<1> HIDE DEF more
<1>1. TypeOK'
  <2>1. stale' \subseteq Registered'
    BY <1>a DEF TypeOK, Registered
  <2>2. cast' \in [Tasks -> Broadcasts]
    BY <1>d, <1>e, <1>f
  <2>3. pc' \in [Tasks -> {"new", "checked", "greeting", "receiving", "leaving",
                           "closing", "telling", "done"}]
    BY <1>f DEF TypeOK
  <2> QED
    BY <1>a, <2>1, <2>2, <2>3 DEF TypeOK
<1>2. PresenceTrue'
  <2>1. \A x \in Sockets : InHub(x) => Serving(x)
    BY DEF PresenceTrue
  <2>2. pc[t] \in {"greeting", "leaving", "telling"}
    BY DEF Casting
  <2>3. \A x \in Sockets : Serving(x)' <=> Serving(x)
    BY <1>f, <2>2 DEF TypeOK, Serving, Tasks
  <2> QED
    BY <1>a, <1>c, <2>1, <2>3 DEF PresenceTrue
<1>3. RevokedGone'
  <2>1. pc[t] \in {"greeting", "leaving", "telling"}
    BY DEF Casting
  <2>2. \A x \in Sockets : Serving(x)' <=> Serving(x)
    BY <1>f, <2>1 DEF TypeOK, Serving, Tasks
  <2> QED
    BY <2>2 DEF RevokedGone
<1>4. StaleOwed'
  <2>1. CASE more > 0
    <3>1. \A x \in stale' : x \in Sockets /\ InHub(x) /\ x \notin dead
      BY DEF TypeOK, Registered
    <3>2. \A x \in stale' : slot'[Of[x]] # None
      BY <1>a, <3>1 DEF InHub, SocketsOf, IsOnline
    <3> QED
      BY <1>d, <2>1, <3>1, <3>2 DEF StaleOwed
  <2>2. CASE more = 0
    <3> SUFFICES ASSUME NEW x \in stale' PROVE \E u \in Tasks : Owes(u, x)'
      BY DEF StaleOwed
    <3>1. x \in stale /\ x \notin dead
      BY <1>e, <2>2
    <3>2. PICK u \in Tasks : Owes(u, x)
      BY <3>1 DEF StaleOwed
    <3>3. pc[t] # "closing" /\ cast[t].more = 0
      BY <1>b, <2>2 DEF Casting
    <3>4. u # t
      BY <3>1, <3>2, <3>3 DEF Owes
    <3>5. slot' = slot /\ cast'[u] = cast[u] /\ pc'[u] = pc[u]
      BY <1>e, <1>f, <2>2, <3>4 DEF TypeOK
    <3> QED
      BY <3>2, <3>5 DEF Owes
  <2> QED
    BY <1>f, <2>1, <2>2
<1>5. SlotsOwn'
  BY <1>a DEF TypeOK, SlotsOwn, IsOnline
<1>6. Casting'
  <2> SUFFICES ASSUME NEW u \in Tasks
               PROVE  /\ cast'[u].on => pc'[u] \in {"greeting", "leaving", "telling"}
                      /\ \A s \in cast'[u].dead : wire[s] = "gone"
    BY DEF Casting
  <2>1. CASE u # t
    BY <1>d, <1>e, <1>f, <2>1 DEF TypeOK, Casting
  <2>2. CASE u = t
    BY <1>d, <1>e, <1>f, <2>2 DEF Casting
  <2> QED
    BY <2>1, <2>2
<1>7. Unaccepted'
  BY <1>f DEF TypeOK, Unaccepted, Casting, Tasks
<1>8. Closing'
  BY <1>f DEF TypeOK, Closing, Casting, Tasks
<1> QED
  BY <1>1, <1>2, <1>3, <1>4, <1>5, <1>6, <1>7, <1>8

\* Nothing changes.
LEMMA StutterStep ==
    ASSUME HubInv, UNCHANGED vars
    PROVE  HubInv'
BY DEF HubInv, vars, TypeOK, PresenceTrue, RevokedGone, StaleOwed, SlotsOwn, Casting,
       Unaccepted, Closing, Registered, InHub, SocketsOf, IsOnline, Serving, Owes

\* At the start nothing is online, owed or under way.
LEMMA IndInit == Init => HubInv
<1> SUFFICES ASSUME Init PROVE HubInv
  OBVIOUS
<1> USE DEF Init
<1>1. TypeOK
  BY DEF TypeOK, Idle, Broadcasts, Registered, InHub, SocketsOf, IsOnline, Tasks
<1>2. PresenceTrue /\ RevokedGone
  BY DEF PresenceTrue, RevokedGone, Serving, InHub, SocketsOf, IsOnline, Tasks
<1>3. StaleOwed /\ SlotsOwn
  BY DEF StaleOwed, SlotsOwn, IsOnline
<1>4. Casting /\ Unaccepted /\ Closing
  BY DEF Casting, Unaccepted, Closing, Idle, Tasks
<1> QED
  BY <1>1, <1>2, <1>3, <1>4 DEF HubInv

LEMMA IndNext == HubInv /\ [Next]_vars => HubInv'
<1> SUFFICES ASSUME HubInv, [Next]_vars PROVE HubInv'
  OBVIOUS
<1>1. ASSUME NEW r \in Requests, NEW d \in Devices,
             \/ Login(r, d)
             \/ \E caller \in Devices : Rename(r, caller, d) \/ Revoke(r, caller, d)
      PROVE  HubInv'
  BY <1>1, LoginStep, RenameStep, RevokeStep
<1>2. ASSUME NEW r \in Requests, Drop(r) \/ \E s \in Sockets : CloseOne(r, s)
      PROVE  HubInv'
  BY <1>2, DropStep, CloseOneStep
<1>3. ASSUME NEW s \in Sockets,
             Check(s) \/ Accept(s) \/ AcceptFails(s) \/ GoAway(s) \/ Leave(s)
      PROVE  HubInv'
  BY <1>3, CheckStep, AcceptStep, AcceptFailsStep, GoAwayStep, LeaveStep
<1>4. ASSUME NEW t \in Tasks, Run(t) PROVE HubInv'
  <2>1. ASSUME NEW s \in Sockets, Send(t, s) PROVE HubInv'
    <3>1. s \in Sockets
      OBVIOUS
    <3> QED
      BY <2>1, SendStep
  <2> QED
    BY <1>4, <2>1, NextSetStep, FinishStep DEF Run
<1>5. CASE UNCHANGED vars
  BY <1>5, StutterStep
<1> QED
  BY <1>1, <1>2, <1>3, <1>4, <1>5 DEF Next

-----------------------------------------------------------------------------
(***************************************************************************)
(* Theorems.                                                               *)
(***************************************************************************)

\* Once no broadcast is under way, no socket is owed an event.
LEMMA TellsAll == HubInv => AllTold
<1> SUFFICES ASSUME HubInv, \A t \in Tasks : ~cast[t].on /\ pc[t] # "closing" PROVE stale = {}
  BY DEF AllTold
<1>1. \A s \in stale, t \in Tasks : ~Owes(t, s)
  BY DEF Owes
<1> QED
  BY <1>1 DEF HubInv, StaleOwed

\* The inductive invariant of the hub and its endpoints, type correctness
\* included, whatever sockets fail, join and leave during broadcasts.
THEOREM PresenceInvariant == Spec => []HubInv
BY IndInit, IndNext, PTL DEF Spec

\* AllTold: no change of the device list is missed by a socket in the hub, for
\* any number of devices, connections and concurrent requests.
THEOREM EveryChangeTold == Spec => []AllTold
BY PresenceInvariant, TellsAll, PTL

\* PresenceTrue: open connections of devices that are not revoked are in the hub,
\* and the hub holds no endpoint that has ended.
THEOREM PresenceIsTrue == Spec => []PresenceTrue
<1>1. HubInv => PresenceTrue
  BY DEF HubInv
<1> QED
  BY <1>1, PresenceInvariant, PTL

\* RevokedGone: an open connection of a revoked device is about to be closed or
\* had slipped between its token check and its registration.
THEOREM RevokedAreClosed == Spec => []RevokedGone
<1>1. HubInv => RevokedGone
  BY DEF HubInv
<1> QED
  BY <1>1, PresenceInvariant, PTL
===============================================================================

-------------------------------- MODULE Accounts --------------------------------
(***************************************************************************)
(* Registration and login on the server: the sliding window that limits    *)
(* both per address, and the rule that a server without open registration  *)
(* takes one account.                                                      *)
(*                                                                         *)
(* A handler runs on the event loop without a pause, but its transaction   *)
(* is committed by another thread afterwards, and an INSERT waits, loop    *)
(* and all, for the transaction that has the database's write lock.        *)
(***************************************************************************)
EXTENDS Integers, Sequences, FiniteSets

CONSTANTS
    Addresses,   \* of clients
    Emails,
    Calls,       \* the requests
    MaxEvents,   \* RateLimiter(max_events, window_seconds)
    Window,
    LastTick,    \* bound: the clock stops there
    AllowRegistration

ASSUME LimitAssumption == MaxEvents \in Nat /\ Window \in Nat \ {0} /\ LastTick \in Nat
ASSUME OpenAssumption  == AllowRegistration \in BOOLEAN
ASSUME EmailAssumption == Emails # {}

Keys == {"register", "login"} \X Addresses

VARIABLES
    now,
    events,     \* RateLimiter._events
    call,       \* where a request is
    email,      \* what it registers
    accounts,   \* the requests whose rows are committed
    lock,       \* the request with an uncommitted row
    \* history
    passed,     \* the times requests of a key were let through
    overlapped  \* registrations that were checked while a row was uncommitted

accountVars == <<now, events, call, email, accounts, lock, passed, overlapped>>

Registered(e) == \E c \in accounts : email[c] = e

\* The loop is free: no INSERT is waiting.
LoopFree == \A c \in Calls : call[c] # "inserting"

\* popleft() as long as the first one is too old.
Popped(q) == CHOOSE n \in 0..Len(q) : /\ \A m \in 1..n : q[m] <= now - Window
                                      /\ n < Len(q) => q[n + 1] > now - Window

Recent(q) == SubSeq(q, Popped(q) + 1, Len(q))

\* Mutant: one too many.
AllowOneMore(key) == Len(Recent(events[key])) <= MaxEvents

\* allow(): the old events are forgotten, a request that passes is remembered.
Allow(key) == Len(Recent(events[key])) < MaxEvents

RateLimit(key) ==
    /\ events' = [events EXCEPT ![key] = IF Allow(key) THEN Append(Recent(@), now) ELSE Recent(@)]
    /\ passed' = [passed EXCEPT ![key] = IF Allow(key) THEN Append(@, now) ELSE @]

\* Mutant: the rule looks at the setting only when the address is new.
MayRegisterAnyone(e) == ~Registered(e)

\* The first account is free; its address must be.
MayRegister(e) == (accounts = {} \/ AllowRegistration) /\ ~Registered(e)

-----------------------------------------------------------------------------
\* register, up to its INSERT.
Register(c, a, e) ==
    /\ LoopFree
    /\ call[c] = "new"
    /\ RateLimit(<<"register", a>>)
    /\ IF Allow(<<"register", a>>) /\ MayRegister(e)
       THEN /\ call' = [call EXCEPT ![c] = "inserting"]
            /\ email' = [email EXCEPT ![c] = e]
            /\ overlapped' = IF lock = {} THEN overlapped ELSE overlapped \cup {c}
       ELSE call' = [call EXCEPT ![c] = "done"] /\ UNCHANGED <<email, overlapped>>
    /\ UNCHANGED <<now, accounts, lock>>

\* The INSERT gets the lock, or fails on the address that is unique.
Insert(c) ==
    /\ call[c] = "inserting" /\ lock = {}
    /\ IF Registered(email[c]) THEN call' = [call EXCEPT ![c] = "done"] /\ UNCHANGED lock
       ELSE call' = [call EXCEPT ![c] = "flushed"] /\ lock' = {c}
    /\ UNCHANGED <<now, events, email, accounts, passed, overlapped>>

\* It waits too long for the lock.
InsertTimesOut(c) ==
    /\ call[c] = "inserting" /\ lock # {}
    /\ call' = [call EXCEPT ![c] = "done"]
    /\ UNCHANGED <<now, events, email, accounts, lock, passed, overlapped>>

\* get_session commits; a server that ends first leaves nothing.
Commit(c) ==
    /\ c \in lock
    /\ lock' = {}
    /\ \/ accounts' = accounts \cup {c} \/ UNCHANGED accounts
    /\ call' = [call EXCEPT ![c] = "done"]
    /\ UNCHANGED <<now, events, email, passed, overlapped>>

\* login, as far as it matters here: the attempt counts whatever comes of it.
LoginAttempt(a) ==
    /\ LoopFree
    /\ RateLimit(<<"login", a>>)
    /\ UNCHANGED <<now, call, email, accounts, lock, overlapped>>

Tick_Clock ==
    /\ LoopFree
    /\ now < LastTick
    /\ now' = now + 1
    /\ UNCHANGED <<events, call, email, accounts, lock, passed, overlapped>>

-----------------------------------------------------------------------------
AccountsInit ==
    /\ now = 0
    /\ events = [k \in Keys |-> <<>>]
    /\ call = [c \in Calls |-> "new"]
    /\ email \in [Calls -> {CHOOSE e \in Emails : TRUE}]
    /\ accounts = {} /\ lock = {}
    /\ passed = [k \in Keys |-> <<>>]
    /\ overlapped = {}

AccountsNext ==
    \/ Tick_Clock
    \/ \E a \in Addresses : LoginAttempt(a)
    \/ \E c \in Calls : \/ \E a \in Addresses, e \in Emails : Register(c, a, e)
                        \/ Insert(c) \/ InsertTimesOut(c) \/ Commit(c)

AccountsSpec == AccountsInit /\ [][AccountsNext]_accountVars

AccountsTypeOK ==
    /\ now \in 0..LastTick
    /\ \A k \in Keys : Len(events[k]) <= MaxEvents
    /\ call \in [Calls -> {"new", "inserting", "flushed", "done"}]
    /\ email \in [Calls -> Emails]
    /\ accounts \subseteq Calls /\ lock \subseteq Calls /\ overlapped \subseteq Calls

\* In no window of time are more requests of one kind let through from one
\* address than allowed, wherever the window begins.
WithinLimit ==
    \A k \in Keys : \A i \in DOMAIN passed[k] :
        Cardinality({j \in DOMAIN passed[k] :
                        passed[k][j] > passed[k][i] - Window /\ j <= i}) <= MaxEvents

\* A server without open registration takes a second account only from a
\* registration that was checked while the first was not yet committed, and no
\* address is ever registered twice.
RegistrationCloses ==
    /\ ~AllowRegistration => Cardinality(accounts \ overlapped) <= 1
    /\ \A c, d \in accounts : email[c] = email[d] => c = d
===============================================================================

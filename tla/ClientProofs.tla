----------------------------- MODULE ClientProofs -----------------------------
(***************************************************************************)
(* Proofs about signing in and its limits on the server, the command line  *)
(* client and the settings, for any number of accounts, requests, servers, *)
(* processes and choices.                                                  *)
(***************************************************************************)
EXTENDS MCClients, ScreenProofs, DesktopProofs

-----------------------------------------------------------------------------
\* The limiter and the registration of the server.

\* The limiter remembers the last of them, and so many later there is a window between.
Spaced(q, ev) ==
    /\ q \in Seq(Nat) /\ ev \in Seq(Nat) /\ Len(ev) <= Len(q) /\ Len(ev) <= MaxEvents
    /\ \A i, j \in 1..Len(q) : i <= j => q[i] <= q[j]
    /\ \A j \in 1..Len(ev) : ev[j] = q[Len(q) - Len(ev) + j]
    /\ \A i \in 1..Len(q) : i > MaxEvents => q[i - MaxEvents] <= q[i] - Window

\* What it has forgotten is too old.
Forgotten(q, ev, t) ==
    /\ \A i \in 1..Len(q) : q[i] <= t
    /\ \A j \in 1..(Len(q) - Len(ev)) : q[j] <= t - Window

\* The times `q` at which requests of a key were let through, and those of them
\* that the limiter remembers at the time t.
Lim(q, ev, t) == Spaced(q, ev) /\ Forgotten(q, ev, t)

\* Every key is within the limit.
LimitInv ==
    /\ now \in Nat
    /\ events \in [Keys -> Seq(Nat)] /\ passed \in [Keys -> Seq(Nat)]
    /\ \A k \in Keys : Lim(passed[k], events[k], now)

\* A registration that was checked while nothing was uncommitted found no account, and
\* nothing comes between it and its commit.
CloseInv ==
    /\ call \in [Calls -> {"new", "inserting", "flushed", "done"}]
    /\ email = [c \in Calls |-> email[c]]
    /\ accounts \subseteq Calls /\ lock \subseteq Calls /\ overlapped \subseteq Calls
    /\ \A c \in Calls : call[c] = "flushed" <=> lock = {c}
    /\ lock # {} => \E c \in Calls : lock = {c}
    /\ \A c, d \in Calls : call[c] = "inserting" /\ call[d] = "inserting" => c = d
    /\ \A c \in accounts \cup overlapped : call[c] # "new"
    /\ \A c \in accounts : call[c] = "done"
    /\ \A c \in lock : ~Registered(email[c])
    /\ \A c, d \in accounts : email[c] = email[d] => c = d
    /\ ~AllowRegistration =>
          /\ \A c, d \in accounts \ overlapped : c = d
          /\ \A c \in Calls \ overlapped : call[c] \in {"inserting", "flushed"} => accounts = {}
          /\ \A c \in Calls \ overlapped : call[c] = "inserting" => lock = {}

\* What popleft() leaves is the end of the queue, from its first event that counts.
LEMMA RecentIsSuffix ==
    ASSUME NEW q \in Seq(Nat), now \in Nat
    PROVE  \E n \in 0..Len(q) : /\ \A m \in 1..n : q[m] <= now - Window
                                /\ n < Len(q) => q[n + 1] > now - Window
                                /\ Recent(q) \in Seq(Nat) /\ Len(Recent(q)) = Len(q) - n
                                /\ \A j \in 1..(Len(q) - n) : Recent(q)[j] = q[n + j]
<1> DEFINE S == {n \in 0..Len(q) : n = Len(q) \/ q[n + 1] > now - Window}
           gap == Popped(q)
<1>0. Len(q) \in Nat /\ Window \in Nat /\ \A m \in 1..Len(q) : q[m] \in Nat
  BY LimitAssumption
<1>1. S \in SUBSET Nat /\ Len(q) \in S
  BY <1>0
<1>2. PICK n \in S : \A m \in S : n <= m
  BY <1>1, Least
<1>3. n \in 0..Len(q) /\ (n < Len(q) => q[n + 1] > now - Window)
  BY <1>0, <1>2
<1>4. ASSUME NEW m \in 1..n PROVE q[m] <= now - Window
  <2>0. m - 1 \in 0..Len(q) /\ m \in 1..Len(q) /\ m \in Nat /\ n \in Nat /\ m <= n
    BY <1>0, <1>3
  <2>1. m - 1 \notin S
    <3> SUFFICES ASSUME m - 1 \in S PROVE FALSE
      OBVIOUS
    <3>1. n <= m - 1
      BY <1>2
    <3> QED
      BY <2>0, <3>1
  <2> QED
    BY <1>0, <2>0, <2>1, LimitAssumption
<1>5. \E k \in 0..Len(q) : /\ \A m \in 1..k : q[m] <= now - Window
                            /\ k < Len(q) => q[k + 1] > now - Window
  BY <1>3, <1>4
<1>6. /\ gap \in 0..Len(q) /\ \A m \in 1..gap : q[m] <= now - Window
      /\ gap < Len(q) => q[gap + 1] > now - Window
  <2> DEFINE Old(k) == /\ \A m \in 1..k : q[m] <= now - Window
                       /\ k < Len(q) => q[k + 1] > now - Window
  <2>1. gap = CHOOSE k \in 0..Len(q) : Old(k)
    BY DEF Popped
  <2>2. \E k \in 0..Len(q) : Old(k)
    BY <1>3, <1>4
  <2> HIDE DEF Old, gap
  <2>3. gap \in 0..Len(q) /\ Old(gap)
    BY <2>1, <2>2
  <2> QED
    BY <2>3 DEF Old
<1>7. Recent(q) = SubSeq(q, gap + 1, Len(q))
  BY DEF Recent
<1> HIDE DEF gap
<1>8. /\ SubSeq(q, gap + 1, Len(q)) \in Seq(Nat)
      /\ Len(SubSeq(q, gap + 1, Len(q))) = Len(q) - gap
      /\ \A j \in 1..(Len(q) - gap) : SubSeq(q, gap + 1, Len(q))[j] = q[gap + j]
  BY <1>0, <1>6
<1> QED
  BY <1>6, <1>7, <1>8

\* A request of the key: what is too old is dropped, and if fewer than the limit are
\* left the request is let through and remembered.
LEMMA LimStep ==
    ASSUME NEW q \in Seq(Nat), NEW ev \in Seq(Nat), now \in Nat, Lim(q, ev, now)
    PROVE  /\ Lim(q, Recent(ev), now) /\ Recent(ev) \in Seq(Nat)
           /\ Len(Recent(ev)) < MaxEvents => Lim(Append(q, now), Append(Recent(ev), now), now)
<1>1. PICK n \in 0..Len(ev) :
            /\ \A m \in 1..n : ev[m] <= now - Window
            /\ Recent(ev) \in Seq(Nat) /\ Len(Recent(ev)) = Len(ev) - n
            /\ \A j \in 1..(Len(ev) - n) : Recent(ev)[j] = ev[n + j]
  BY RecentIsSuffix
<1> DEFINE r == Recent(ev)
<1>2. /\ r \in Seq(Nat) /\ Len(r) = Len(ev) - n /\ Len(r) \in Nat /\ Len(ev) \in Nat /\ Len(q) \in Nat
      /\ Window \in Nat /\ MaxEvents \in Nat /\ Window > 0
      /\ \A m \in 1..Len(q) : q[m] \in Nat
  <2>1. \A m \in 1..Len(q) : q[m] \in Nat
    OBVIOUS
  <2> QED
    BY <1>1, <2>1, LimitAssumption
<1>5a. /\ Len(r) = Len(ev) - n /\ Len(r) \in Nat /\ Len(ev) \in Nat /\ Len(q) \in Nat
      /\ MaxEvents \in Nat /\ n \in 0..Len(ev) /\ Len(ev) <= Len(q)
  BY <1>1, <1>2 DEF Lim, Spaced, Forgotten
<1>3. \A j \in 1..Len(r) : r[j] = q[Len(q) - Len(r) + j]
  <2> SUFFICES ASSUME NEW j \in 1..Len(r) PROVE r[j] = q[Len(q) - Len(r) + j]
    OBVIOUS
  <2>1. r[j] = ev[n + j] /\ n + j \in 1..Len(ev)
    BY <1>1, <1>2
  <2>2. ev[n + j] = q[Len(q) - Len(ev) + (n + j)]
    BY <2>1 DEF Lim, Spaced, Forgotten
  <2> QED
    BY <1>2, <2>1, <2>2
<1>4. \A j \in 1..(Len(q) - Len(r)) : q[j] <= now - Window
  <2> SUFFICES ASSUME NEW j \in 1..(Len(q) - Len(r)) PROVE q[j] <= now - Window
    OBVIOUS
  <2>1. CASE j \in 1..(Len(q) - Len(ev))
    BY <2>1 DEF Lim, Spaced, Forgotten
  <2>2. CASE j > Len(q) - Len(ev)
    <3> DEFINE m == j - (Len(q) - Len(ev))
    <3>1. m \in 1..n /\ m \in 1..Len(ev) /\ Len(q) - Len(ev) + m = j
      BY SMTT(30), <1>5a, <2>2
    <3>2. ev[m] = q[j]
      BY <3>1 DEF Lim, Spaced, Forgotten
    <3> QED
      BY <1>1, <3>1, <3>2
  <2> QED
    BY <1>2, <2>1, <2>2
<1> HIDE DEF r
<1>5. Lim(q, r, now)
  BY <1>2, <1>3, <1>4 DEF Lim, Spaced, Forgotten
<1>6. ASSUME Len(r) < MaxEvents PROVE Lim(Append(q, now), Append(r, now), now)
  <2> DEFINE q1 == Append(q, now)
             r1 == Append(r, now)
  <2>1. /\ q1 \in Seq(Nat) /\ Len(q1) = Len(q) + 1 /\ q1[Len(q) + 1] = now
        /\ \A i \in 1..Len(q) : q1[i] = q[i]
        /\ r1 \in Seq(Nat) /\ Len(r1) = Len(r) + 1 /\ r1[Len(r) + 1] = now
        /\ \A i \in 1..Len(r) : r1[i] = r[i]
    BY <1>2
  <2> HIDE DEF q1, r1
  <2>0. /\ Len(r) <= Len(q)
        /\ \A i \in 1..Len(q) : q[i] <= now
        /\ \A i, j \in 1..Len(q) : i <= j => q[i] <= q[j]
        /\ \A i \in 1..Len(q) : i > MaxEvents => q[i - MaxEvents] <= q[i] - Window
    BY <1>5 DEF Lim, Spaced, Forgotten
  <2>1a. Len(q1) = Len(q) + 1 /\ Len(r1) = Len(r) + 1 /\ Len(r) <= Len(q)
    BY <2>0, <2>1
  <2>2. \A i \in 1..Len(q1) : i \in 1..Len(q) \/ i = Len(q) + 1
    BY <1>2, <2>1
  <2>3. ASSUME NEW i \in 1..Len(q1) PROVE q1[i] <= now
    <3>1. CASE i = Len(q) + 1
      BY <2>1, <3>1
    <3>2. CASE i \in 1..Len(q)
      BY <2>0, <2>1, <3>2
    <3> QED
      BY <2>2, <2>3, <3>1, <3>2
  <2>4. ASSUME NEW i \in 1..Len(q1), NEW j \in 1..Len(q1), i <= j PROVE q1[i] <= q1[j]
    <3>1. CASE j = Len(q) + 1
      BY <2>1, <2>3, <3>1
    <3>2. CASE j \in 1..Len(q)
      <4>1. i \in 1..Len(q)
        BY <1>2, <2>1, <2>4, <3>2
      <4> QED
        BY <2>0, <2>1, <2>4, <3>2, <4>1
    <3> QED
      BY <2>2, <3>1, <3>2
  <2>5. ASSUME NEW j \in 1..Len(r1) PROVE r1[j] = q1[Len(q1) - Len(r1) + j]
    <3>0. Len(q1) - Len(r1) = Len(q) - Len(r)
      BY <1>2, <2>1
    <3>1. CASE j = Len(r) + 1
      <4>1. Len(q1) - Len(r1) + j = Len(q) + 1
        BY <1>5a, <2>1a, <2>5, <3>0, <3>1
      <4> QED
        BY <2>1, <3>1, <4>1
    <3>2. CASE j \in 1..Len(r)
      <4>1. Len(q) - Len(r) + j \in 1..Len(q)
        BY SMTT(30), <1>5a, <2>1a, <2>5, <3>2
      <4>2. r[j] = q[Len(q) - Len(r) + j]
        BY <1>3, <3>2
      <4> QED
        BY <2>1, <3>0, <3>2, <4>1, <4>2
    <3> QED
      BY <1>5a, <2>1a, <2>5, <3>1, <3>2
  <2>6. ASSUME NEW j \in 1..(Len(q1) - Len(r1)) PROVE q1[j] <= now - Window
    <3>1. j \in 1..(Len(q) - Len(r)) /\ j \in 1..Len(q)
      BY <1>5a, <2>1a, <2>6
    <3> QED
      BY <1>4, <2>1, <3>1
  <2>7. ASSUME NEW i \in 1..Len(q1), i > MaxEvents
        PROVE  q1[i - MaxEvents] <= q1[i] - Window
    <3>1. CASE i \in 1..Len(q)
      <4>1. i - MaxEvents \in 1..Len(q)
        BY <1>2, <2>7, <3>1
      <4>2. q[i - MaxEvents] <= q[i] - Window
        BY <2>0, <2>7, <3>1
      <4> QED
        BY <2>1, <3>1, <4>1, <4>2
    <3>2. CASE i = Len(q) + 1
      <4>1. i - MaxEvents \in 1..(Len(q) - Len(r)) /\ i - MaxEvents \in 1..Len(q)
        BY <1>2, <1>6, <2>7, <3>2
      <4> QED
        BY <1>4, <2>1, <3>2, <4>1
    <3> QED
      BY <2>2, <3>1, <3>2
  <2>8. Len(r1) <= Len(q1) /\ Len(r1) <= MaxEvents
    <3>1. Len(r) < MaxEvents
      BY <1>6
    <3> QED
      BY <1>5a, <2>1a, <3>1
  <2>9. Lim(q1, r1, now)
    BY <2>1, <2>3, <2>4, <2>5, <2>6, <2>7, <2>8 DEF Lim, Spaced, Forgotten
  <2> QED
    BY <2>9 DEF q1, r1
<1> QED
  BY <1>2, <1>5, <1>6 DEF r

\* Time goes on.
LEMMA LimLater ==
    ASSUME NEW q \in Seq(Nat), NEW ev \in Seq(Nat), NEW t \in Nat, Lim(q, ev, t)
    PROVE  Lim(q, ev, t + 1)
<1>1. /\ Window \in Nat /\ Len(q) \in Nat /\ Len(ev) \in Nat
      /\ \A i \in 1..Len(q) : q[i] \in Nat
  BY LimitAssumption
<1>2. \A i \in 1..Len(q) : q[i] <= t /\ q[i] <= t + 1
  BY <1>1 DEF Lim, Spaced, Forgotten
<1>3. ASSUME NEW j \in 1..(Len(q) - Len(ev)) PROVE q[j] <= (t + 1) - Window
  <2>1. j \in 1..Len(q)
    BY <1>1, <1>3
  <2>2. q[j] <= t - Window
    BY <1>3 DEF Lim, Spaced, Forgotten
  <2> QED
    BY <1>1, <2>1, <2>2
<1>4. \A i \in 1..Len(q) : q[i] <= t + 1
  BY <1>2
<1>5. \A j \in 1..(Len(q) - Len(ev)) : q[j] <= (t + 1) - Window
  BY <1>3
<1>6. Forgotten(q, ev, t + 1)
  BY <1>4, <1>5, Zenon DEF Forgotten
<1> QED
  BY <1>6 DEF Lim

\* No request was made yet.
LEMMA LimitStart == AccountsInit => LimitInv
<1> SUFFICES ASSUME AccountsInit PROVE LimitInv
  OBVIOUS
<1>1. \A k \in Keys : passed[k] = <<>> /\ events[k] = <<>>
  BY DEF AccountsInit
<1>2. Lim(<<>>, <<>>, 0)
  BY LimitAssumption DEF Lim, Spaced, Forgotten
<1> QED
  BY <1>1, <1>2 DEF AccountsInit, LimitInv

\* One call of the limiter keeps the invariant of every key.
LEMMA RateLimited ==
    ASSUME LimitInv, NEW key \in Keys, RateLimit(key), now' = now
    PROVE  LimitInv'
<1>1. /\ events[key] \in Seq(Nat) /\ passed[key] \in Seq(Nat) /\ now \in Nat
      /\ Lim(passed[key], events[key], now)
  BY DEF LimitInv
<1>2. /\ Lim(passed[key], Recent(events[key]), now) /\ Recent(events[key]) \in Seq(Nat)
      /\ Allow(key) => Lim(Append(passed[key], now), Append(Recent(events[key]), now), now)
  BY <1>1, LimStep DEF Allow
<1>3. /\ events' = [events EXCEPT ![key] = events'[key]]
      /\ passed' = [passed EXCEPT ![key] = passed'[key]]
      /\ Lim(passed'[key], events'[key], now) /\ events'[key] \in Seq(Nat)
      /\ passed'[key] \in Seq(Nat)
  <2>1. CASE Allow(key)
    <3>1. events' = [events EXCEPT ![key] = Append(Recent(events[key]), now)]
      BY <2>1 DEF RateLimit
    <3>2. passed' = [passed EXCEPT ![key] = Append(passed[key], now)]
      BY <2>1 DEF RateLimit
    <3> QED
      BY <1>1, <1>2, <2>1, <3>1, <3>2 DEF LimitInv
  <2>2. CASE ~Allow(key)
    <3>1. events' = [events EXCEPT ![key] = Recent(events[key])]
      BY <2>2 DEF RateLimit
    <3>2. passed' = [passed EXCEPT ![key] = passed[key]]
      BY <2>2 DEF RateLimit
    <3> QED
      BY <1>1, <1>2, <2>2, <3>1, <3>2 DEF LimitInv
  <2> QED
    BY <2>1, <2>2
<1>4. events' \in [Keys -> Seq(Nat)] /\ passed' \in [Keys -> Seq(Nat)]
  BY <1>3 DEF LimitInv
<1>5. \A k \in Keys : Lim(passed'[k], events'[k], now)
  BY <1>3 DEF LimitInv
<1> QED
  BY <1>1, <1>4, <1>5 DEF LimitInv

\* Requests and time keep it.
LEMMA LimitStep == LimitInv /\ [AccountsNext]_accountVars => LimitInv'
<1> SUFFICES ASSUME LimitInv, [AccountsNext]_accountVars PROVE LimitInv'
  OBVIOUS
<1>1. ASSUME NEW c \in Calls, NEW a \in Addresses, NEW e \in Emails, Register(c, a, e)
      PROVE  LimitInv'
  BY <1>1, RateLimited DEF Register, Keys
<1>2. ASSUME NEW a \in Addresses, LoginAttempt(a) PROVE LimitInv'
  BY <1>2, RateLimited DEF LoginAttempt, Keys
<1>3. CASE Tick_Clock
  <2>1. /\ now' = now + 1 /\ now \in Nat /\ events' = events /\ passed' = passed
        /\ Window \in Nat
    BY <1>3, LimitAssumption DEF Tick_Clock, LimitInv
  <2>2. \A k \in Keys : Lim(passed[k], events[k], now + 1)
    BY <2>1, LimLater DEF LimitInv
  <2> QED
    BY <2>1, <2>2 DEF LimitInv
<1>4. CASE now' = now /\ events' = events /\ passed' = passed
  BY <1>4 DEF LimitInv
<1> QED
  BY <1>1, <1>2, <1>3, <1>4
     DEF AccountsNext, Insert, InsertTimesOut, Commit, accountVars

\* WithinLimit: no window of time holds more requests of one key than the limit
\* allows, for any limit, window, keys and number of requests (ratelimit.py:
\* popleft, len, append).
THEOREM LimitHolds == AccountsSpec => []WithinLimit
<1>1. LimitInv => WithinLimit
  <2> SUFFICES ASSUME LimitInv, NEW k \in Keys, NEW i \in DOMAIN passed[k]
               PROVE  Cardinality({j \in DOMAIN passed[k] :
                          passed[k][j] > passed[k][i] - Window /\ j <= i}) <= MaxEvents
    BY DEF WithinLimit
  <2> DEFINE q == passed[k]
             J == {j \in DOMAIN q : q[j] > q[i] - Window /\ j <= i}
             low == i - MaxEvents + 1
  <2>1. q \in Seq(Nat) /\ DOMAIN q = 1..Len(q) /\ Len(q) \in Nat /\ Lim(q, events[k], now)
        /\ MaxEvents \in Nat /\ Window \in Nat /\ \A j \in 1..Len(q) : q[j] \in Nat
    BY LimitAssumption DEF LimitInv
  <2> HIDE DEF q
  <2>2. ASSUME NEW j \in J PROVE j \in low..i
    <3>1. j \in 1..Len(q) /\ j <= i /\ i \in 1..Len(q) /\ q[j] > q[i] - Window
      BY <2>1 DEF q
    <3>2. CASE j < low
      <4>1. i > MaxEvents /\ i - MaxEvents \in 1..Len(q) /\ j <= i - MaxEvents
        BY SMTT(30), <2>1, <3>1, <3>2
      <4>2. q[j] <= q[i - MaxEvents] /\ q[i - MaxEvents] <= q[i] - Window
        BY <2>1, <3>1, <4>1 DEF Lim, Spaced, Forgotten
      <4> QED
        BY SMTT(30), <2>1, <3>1, <4>1, <4>2
    <3> QED
      BY <2>1, <3>1, <3>2
  <2>3. i \in Int /\ low \in Int
    BY <2>1 DEF q
  <2>4. IsFiniteSet(low..i) /\ Cardinality(low..i) = IF low > i THEN 0 ELSE i - low + 1
    BY <2>3, FS_Interval
  <2>5. Cardinality(J) <= Cardinality(low..i)
    BY <2>2, <2>4, FS_Subset
  <2>6. Cardinality(low..i) <= MaxEvents
    BY <2>1, <2>3, <2>4
  <2>7. Cardinality(J) \in Nat /\ Cardinality(low..i) \in Nat
    BY <2>2, <2>4, FS_Subset, FS_CardinalityType
  <2> QED
    BY <2>1, <2>5, <2>6, <2>7 DEF q
<1> QED
  BY <1>1, LimitStart, LimitStep, PTL DEF AccountsSpec

\* No registration was begun.
LEMMA CloseStart == AccountsInit => CloseInv
<1> SUFFICES ASSUME AccountsInit PROVE CloseInv
  OBVIOUS
<1> QED
  BY DEF AccountsInit, CloseInv, Registered

\* A registration begins, inserts, commits or fails, next to the others.
LEMMA CloseStep == CloseInv /\ [AccountsNext]_accountVars => CloseInv'
<1> SUFFICES ASSUME CloseInv, [AccountsNext]_accountVars PROVE CloseInv'
  OBVIOUS
<1>1. ASSUME NEW c \in Calls, NEW a \in Addresses, NEW e \in Emails, Register(c, a, e)
      PROVE  CloseInv'
  <2>0. /\ accounts' = accounts /\ lock' = lock /\ call[c] = "new"
        /\ \A d \in Calls : call[d] # "inserting"
    BY <1>1 DEF Register, LoopFree
  <2>1. CASE /\ MayRegister(e)
             /\ call' = [call EXCEPT ![c] = "inserting"]
             /\ email' = [email EXCEPT ![c] = e]
             /\ overlapped' = IF lock = {} THEN overlapped ELSE overlapped \cup {c}
    <3>1. /\ call' \in [Calls -> {"new", "inserting", "flushed", "done"}]
          /\ call'[c] = "inserting" /\ \A d \in Calls \ {c} : call'[d] = call[d]
          /\ email' = [d \in Calls |-> email'[d]]
          /\ \A d \in Calls \ {c} : email'[d] = email[d]
      BY <2>1 DEF CloseInv
    <3>2. c \notin accounts /\ c \notin lock /\ c \notin overlapped
      BY <2>0 DEF CloseInv
    <3>3. /\ overlapped' \subseteq overlapped \cup {c} /\ overlapped \subseteq overlapped'
          /\ c \in overlapped' <=> lock # {}
      BY <2>1, <3>2
    <3>4. /\ accounts \subseteq Calls /\ lock \subseteq Calls /\ overlapped' \subseteq Calls
          /\ \A d \in Calls : call'[d] = "flushed" <=> lock' = {d}
          /\ lock' # {} => \E d \in Calls : lock' = {d}
          /\ \A d, f \in Calls : call'[d] = "inserting" /\ call'[f] = "inserting" => d = f
          /\ \A d \in accounts' \cup overlapped' : call'[d] # "new"
          /\ \A d \in accounts' : call'[d] = "done"
      BY <2>0, <3>1, <3>2, <3>3 DEF CloseInv
    <3>5. /\ \A d \in lock' : ~\E f \in accounts' : email'[f] = email'[d]
          /\ \A d, f \in accounts' : email'[d] = email'[f] => d = f
      BY <2>0, <3>1, <3>2 DEF CloseInv, Registered
    <3>6. ASSUME ~AllowRegistration
          PROVE  /\ \A d, f \in accounts' \ overlapped' : d = f
                 /\ \A d \in Calls \ overlapped' :
                       call'[d] \in {"inserting", "flushed"} => accounts' = {}
                 /\ \A d \in Calls \ overlapped' : call'[d] = "inserting" => lock' = {}
      <4>1. accounts = {}
        BY <2>1, <3>6 DEF MayRegister
      <4> QED
        BY <2>0, <3>1, <3>3, <4>1
    <3> QED
      BY <2>0, <3>1, <3>4, <3>5, <3>6 DEF CloseInv, Registered
  <2>2. CASE call' = [call EXCEPT ![c] = "done"] /\ UNCHANGED <<email, overlapped>>
    BY <2>0, <2>2 DEF CloseInv, Registered
  <2> QED
    BY <1>1, <2>1, <2>2 DEF Register
<1>2. ASSUME NEW c \in Calls, Insert(c) PROVE CloseInv'
  BY <1>2 DEF Insert, CloseInv, Registered
<1>3. ASSUME NEW c \in Calls, InsertTimesOut(c) PROVE CloseInv'
  BY <1>3 DEF InsertTimesOut, CloseInv, Registered
<1>4. ASSUME NEW c \in Calls, Commit(c) PROVE CloseInv'
  BY <1>4 DEF Commit, CloseInv, Registered
<1>5. CASE UNCHANGED <<call, email, accounts, lock, overlapped>>
  BY <1>5 DEF CloseInv, Registered
<1> QED
  BY <1>1, <1>2, <1>3, <1>4, <1>5 DEF AccountsNext, Tick_Clock, LoginAttempt, accountVars

\* RegistrationCloses: a server closed to registration takes a second account only
\* from a registration that overlapped the first, and never two of one address, for
\* any number of registrations (auth/router.py: register).
THEOREM OneAccount == AccountsSpec => []RegistrationCloses
<1>1. CloseInv => RegistrationCloses
  <2> SUFFICES ASSUME CloseInv PROVE RegistrationCloses
    OBVIOUS
  <2>1. ASSUME ~AllowRegistration PROVE Cardinality(accounts \ overlapped) <= 1
    <3>1. CASE accounts \ overlapped = {}
      BY <3>1, FS_EmptySet
    <3>2. ASSUME NEW c \in accounts \ overlapped PROVE Cardinality(accounts \ overlapped) <= 1
      <4>1. accounts \ overlapped = {c}
        BY <2>1, <3>2 DEF CloseInv
      <4> QED
        BY <4>1, FS_Singleton
    <3> QED
      BY <3>1, <3>2
  <2> QED
    BY <2>1 DEF RegistrationCloses, CloseInv
<1> QED
  BY <1>1, CloseStart, CloseStep, PTL DEF AccountsSpec

\* The clock stops at its bound, and a request registers some address.
ClockInv == now \in 0..LastTick /\ email \in [Calls -> Emails]

LEMMA ClockStart == AccountsInit => ClockInv
<1> SUFFICES ASSUME AccountsInit PROVE ClockInv
  OBVIOUS
<1>1. (CHOOSE e \in Emails : TRUE) \in Emails
  BY EmailAssumption, Zenon
<1> QED
  BY <1>1, LimitAssumption DEF AccountsInit, ClockInv

LEMMA ClockStep == ClockInv /\ [AccountsNext]_accountVars => ClockInv'
<1> SUFFICES ASSUME ClockInv, [AccountsNext]_accountVars PROVE ClockInv'
  OBVIOUS
<1>1. ASSUME NEW c \in Calls, NEW a \in Addresses, NEW e \in Emails, Register(c, a, e)
      PROVE  ClockInv'
  <2>1. now' = now /\ (email' = email \/ email' = [email EXCEPT ![c] = e])
    BY <1>1, Zenon DEF Register
  <2> QED
    BY <2>1 DEF ClockInv
<1>2. CASE Tick_Clock
  BY <1>2, LimitAssumption DEF Tick_Clock, ClockInv
<1>3. CASE now' = now /\ email' = email
  BY <1>3 DEF ClockInv
<1> QED
  BY <1>1, <1>2, <1>3
     DEF AccountsNext, LoginAttempt, Insert, InsertTimesOut, Commit, accountVars

LEMMA AccountsTyped == LimitInv /\ CloseInv /\ ClockInv => AccountsTypeOK
<1> SUFFICES ASSUME LimitInv, CloseInv, ClockInv PROVE AccountsTypeOK
  OBVIOUS
<1>1. \A k \in Keys : Len(events[k]) <= MaxEvents
  BY DEF LimitInv, Lim, Spaced
<1>2. /\ call \in [Calls -> {"new", "inserting", "flushed", "done"}]
      /\ accounts \subseteq Calls /\ lock \subseteq Calls /\ overlapped \subseteq Calls
  BY DEF CloseInv
<1> QED
  BY <1>1, <1>2 DEF ClockInv, AccountsTypeOK

-----------------------------------------------------------------------------
\* Onboarding: what is saved together.

\* A server the clients take.
Fit(s) == s \in Servers /\ AtLeast(VersionOf[s], MIN_SERVER_VERSION)

\* The stages of the form.
FormStages == {"idle", "register", "login", "store", "share", "refresh"}

\* Whatever is saved, and whatever the form is about to save, is of one server that
\* fits; a page is reached only with one.
OnboardingInv ==
    /\ page \in 1..3
    /\ probes \in [Servers -> {"none", "asked", "open", "closed"}]
    /\ url \in Servers \cup {Nowhere} /\ baseUrl \in Servers \cup {Nowhere}
    /\ form \in [at : FormStages, server : Servers \cup {Nowhere}]
    /\ main \in [server : Servers \cup {Nowhere}, token : Servers \cup {Nowhere}]
    /\ shareCopy \in [server : Servers \cup {Nowhere}, token : Servers \cup {Nowhere}]
    /\ mine \subseteq accounts_at /\ accounts_at \subseteq Servers /\ saidOpen \subseteq Servers
    /\ main.server = main.token /\ shareCopy.server = shareCopy.token
    /\ main # NoAuth => Fit(main.server)
    /\ IF form.at = "idle" THEN form = NoForm ELSE page > 1 /\ Fit(form.server)
    /\ form.at \in {"share", "refresh"} \/ page = 3 => main # NoAuth
    /\ page > 1 => Fit(baseUrl)
    /\ \A s \in Servers : probes[s] = "open" => s \in saidOpen
    /\ signInMode = "create" => baseUrl \in saidOpen
    /\ error = "server_too_old" =>
          \E s \in Servers : ~AtLeast(VersionOf[s], MIN_SERVER_VERSION)

\* The loop of semverGte is the comparison by major, minor and patch number.
LEMMA SemverIsAtLeast ==
    ASSUME NEW s \in Servers
    PROVE  semverGte(VersionOf[s], MIN_SERVER_VERSION) <=> AtLeast(VersionOf[s], MIN_SERVER_VERSION)
<1> DEFINE a == VersionOf[s]
           b == MIN_SERVER_VERSION
<1>1. /\ \A i \in 1..3 : Part(a, i) \in Nat \cup {NaN} /\ Part(b, i) \in Nat
  BY VersionAssumption DEF Part
<1>2. \A i \in 1..3 : Differs(a, b, i) <=> Part(a, i) # Part(b, i)
  BY <1>1, VersionAssumption DEF Differs
<1>3. \A i \in 1..3 : Greater(a, b, i) <=> Part(a, i) # NaN /\ Part(a, i) > Part(b, i)
  BY <1>1, VersionAssumption DEF Greater
<1> HIDE DEF a, b
<1>4. semverGte(a, b) <=>
      /\ Differs(a, b, 1) => Greater(a, b, 1)
      /\ Differs(a, b, 2) /\ ~Differs(a, b, 1) => Greater(a, b, 2)
      /\ Differs(a, b, 3) /\ ~Differs(a, b, 1) /\ ~Differs(a, b, 2) => Greater(a, b, 3)
  BY DEF semverGte
<1>5. 1 \in 1..3 /\ 2 \in 1..3 /\ 3 \in 1..3
  OBVIOUS
<1>6. semverGte(a, b) <=> AtLeast(a, b)
  BY <1>1, <1>2, <1>3, <1>4, <1>5 DEF AtLeast
<1> QED
  BY <1>6 DEF a, b

\* The first page, with no answer and nothing saved.
LEMMA OnboardingStart == OnboardingInit => OnboardingInv
BY OnboardingAssumption DEF OnboardingInit, OnboardingInv, NoAuth, NoForm, FormStages

\* Typing, probes, answers, forms and what is stored keep it.
LEMMA OnboardingStep == OnboardingInv /\ [OnboardingNext]_onboardingVars => OnboardingInv'
<1> SUFFICES ASSUME OnboardingInv, [OnboardingNext]_onboardingVars PROVE OnboardingInv'
  OBVIOUS
<1> USE OnboardingAssumption DEF OnboardingInv, FormStages, NoForm, NoAuth, savedVars
<1>1. ASSUME NEW s \in Servers, Type(s) PROVE OnboardingInv'
  BY <1>1 DEF Type, Fit
<1>2. CASE Next_Step
  BY <1>2 DEF Next_Step, Fit
<1>3. ASSUME NEW s \in Servers, ServeHealth(s) PROVE OnboardingInv'
  BY <1>3 DEF ServeHealth, Fit
<1>4. ASSUME NEW s \in Servers, ProbeFails(s) PROVE OnboardingInv'
  BY <1>4, SemverIsAtLeast DEF ProbeFails, Fit
<1>5. ASSUME NEW s \in Servers, ProbeFinds(s) PROVE OnboardingInv'
  BY <1>5, SemverIsAtLeast DEF ProbeFinds, OnNext, Fit
<1>6. CASE Submit
  BY <1>6 DEF Submit, Fit
<1>7. CASE RegisterCall
  BY <1>7 DEF RegisterCall, RegistrationOpen, Fit
<1>8. CASE LoginCall \/ SubmitFails
  BY <1>8 DEF LoginCall, SubmitFails, Fit
<1>9. CASE Store
  BY <1>9 DEF Store, Bundle, Fit
<1>10. CASE Share \/ RefreshCall
  BY <1>10 DEF Share, RefreshCall, Bundle, Fit
<1>11. ASSUME NEW s \in Servers, OthersRegister(s) PROVE OnboardingInv'
  BY <1>11 DEF OthersRegister, Fit
<1>12. CASE Reopen_Onboarding
  BY <1>12 DEF Reopen_Onboarding, Fit
<1>13. CASE UNCHANGED onboardingVars
  BY <1>13 DEF onboardingVars, Fit
<1> QED
  BY <1>1, <1>2, <1>3, <1>4, <1>5, <1>6, <1>7, <1>8, <1>9, <1>10, <1>11, <1>12, <1>13
     DEF OnboardingNext

\* The app stays what it is.
LEMMA PhoneStays == phone \in BOOLEAN /\ [OnboardingNext]_onboardingVars => phone' \in BOOLEAN
<1>1. [OnboardingNext]_onboardingVars => phone' = phone
  BY Zenon DEF OnboardingNext, Next_Step, Submit, RegisterCall, LoginCall, SubmitFails, Store, Share,
     RefreshCall, Reopen_Onboarding, Type, ServeHealth, ProbeFails, ProbeFinds, OthersRegister,
     onboardingVars
<1> QED
  BY <1>1, Zenon

\* SavedBelongTogether: a saved token is the one of the server saved with it, of a
\* version the client takes, however probes and submits overlap, for any servers and
\* versions (Onboarding.tsx, SignInStep.tsx, authPersist.ts).
THEOREM SavedTogether == OnboardingSpec => []SavedBelongTogether
<1>1. OnboardingInv => SavedBelongTogether
  BY DEF OnboardingInv, SavedBelongTogether, Fit
<1> QED
  BY <1>1, OnboardingStart, OnboardingStep, PTL DEF OnboardingSpec

-----------------------------------------------------------------------------
\* The command line: a send is not forgotten.

\* What the file of the command line can hold.
Files == [outbox : Seq(Notes), cursor : 0..LastCursor]

\* What the variables hold, whatever two processes do.
CliTypes ==
    /\ config \in Logins \cup {Nobody} /\ file \in Files
    /\ phase \in [Procs -> {"none", "store", "post", "retry", "sent", "refused", "listen"}]
    /\ given \in [Procs -> Notes \cup Procs] /\ cfg \in [Procs -> Logins \cup {Nobody}]
    /\ memory \in [Procs -> Files] /\ data \in [Procs -> Files]
    /\ setting \in [Procs -> {"no", "read", "write"}]
    /\ declined \subseteq Notes /\ confirmed \subseteq Notes
    /\ posted \in [Notes -> Logins \cup {Nobody}] /\ entered \in [Notes -> Logins \cup {Nobody}]
    /\ \A p \in Procs : /\ phase[p] # "none" => cfg[p] \in Logins
                        /\ phase[p] \notin {"none", "listen"} => given[p] \in Notes

\* The file of one user at a time: at most one process sends, at most one uses the
\* file, and what it holds or will write is the file, changed by its own step.
Alone ==
    /\ ~broken
    /\ \A p, q \in Procs : setting[p] # "no" /\ setting[q] # "no" => p = q
    /\ \A p, q \in Senders : p = q

\* What a process has in memory is the file, and its own step.
OwnStep(p) ==
    /\ phase[p] = "none" => setting[p] = "no"
    /\ phase[p] = "post" <=> p \in Senders /\ setting[p] = "no"
    /\ phase[p] = "store" =>
          memory[p].outbox = Append(file.outbox, given[p]) /\ entered[given[p]] = Nobody
    /\ phase[p] \in {"post", "retry"} => memory[p].outbox = file.outbox
    /\ phase[p] \in {"sent", "refused"} =>
          /\ file.outbox # <<>> /\ memory[p].outbox = Tail(file.outbox)
          /\ Head(file.outbox) \in confirmed \cup declined
    /\ setting[p] = "write" =>
          data[p].outbox = IF phase[p] = "listen" THEN file.outbox ELSE memory[p].outbox

\* What is stored was entered; what was entered is stored or answered; and unless
\* the account was changed meanwhile, all of it is for the account logged in.
Entered ==
    /\ \A t \in Range(file.outbox) : entered[t] # Nobody
    /\ \A t \in Notes : entered[t] # Nobody => t \in Range(file.outbox) \cup confirmed \cup declined
    /\ \A t \in Notes : entered[t] = Nobody => posted[t] = Nobody
    /\ relogin \/ /\ \A t \in Range(file.outbox) : entered[t] = config
                  /\ \A p \in Senders : cfg[p] = config
                  /\ \A t \in Notes : posted[t] \in {Nobody, entered[t]}

\* All of this as long as no two processes used the file at once.
CliInv ==
    /\ CliTypes
    /\ ~crossed => Alone /\ (\A p \in Procs : OwnStep(p)) /\ Entered

\* What an outbox holds after an entry joined it.
LEMMA AppendRange ==
    ASSUME NEW s \in Seq(Notes), NEW t \in Notes
    PROVE  /\ Append(s, t) \in Seq(Notes) /\ Append(s, t) # <<>>
           /\ Range(Append(s, t)) = Range(s) \cup {t}
<1>1. /\ Append(s, t) \in Seq(Notes) /\ Append(s, t) # <<>>
      /\ DOMAIN s = 1..Len(s) /\ DOMAIN Append(s, t) = 1..Len(s) + 1 /\ Len(s) \in Nat
      /\ \A i \in 1..Len(s) : Append(s, t)[i] = s[i]
      /\ Append(s, t)[Len(s) + 1] = t
  OBVIOUS
<1>2. Range(s) \cup {t} \subseteq Range(Append(s, t))
  BY <1>1 DEF Range
<1>3. Range(Append(s, t)) \subseteq Range(s) \cup {t}
  <2> SUFFICES ASSUME NEW i \in 1..Len(s) + 1 PROVE Append(s, t)[i] \in Range(s) \cup {t}
    BY <1>1 DEF Range
  <2>1. CASE i = Len(s) + 1
    BY <1>1, <2>1
  <2>2. CASE i \in 1..Len(s)
    BY <1>1, <2>2 DEF Range
  <2> QED
    BY <1>1, <2>1, <2>2
<1> QED
  BY <1>1, <1>2, <1>3

\* What an outbox holds after its first entry went.
LEMMA TailRange ==
    ASSUME NEW s \in Seq(Notes), s # <<>>
    PROVE  /\ Tail(s) \in Seq(Notes) /\ Head(s) \in Notes
           /\ Head(s) \in Range(s) /\ Range(Tail(s)) \subseteq Range(s)
           /\ Range(s) = {Head(s)} \cup Range(Tail(s))
<1>1. /\ Tail(s) \in Seq(Notes) /\ Head(s) \in Notes /\ Head(s) = s[1]
      /\ Len(s) \in Nat /\ Len(s) > 0 /\ DOMAIN s = 1..Len(s)
      /\ DOMAIN Tail(s) = 1..Len(s) - 1
      /\ \A i \in 1..Len(s) - 1 : Tail(s)[i] = s[i + 1]
  OBVIOUS
<1>2. Head(s) \in Range(s)
  BY <1>1 DEF Range
<1>3. Range(Tail(s)) \subseteq Range(s)
  <2>1. \A i \in 1..Len(s) - 1 : i + 1 \in 1..Len(s)
    BY <1>1
  <2> QED
    BY <1>1, <2>1 DEF Range
<1>4. Range(s) \subseteq {Head(s)} \cup Range(Tail(s))
  <2> SUFFICES ASSUME NEW i \in 1..Len(s), i # 1 PROVE s[i] \in Range(Tail(s))
    BY <1>1 DEF Range
  <2>1. i - 1 \in 1..Len(s) - 1 /\ Tail(s)[i - 1] = s[i]
    BY <1>1
  <2> QED
    BY <1>1, <2>1 DEF Range
<1> QED
  BY <1>1, <1>2, <1>3, <1>4

\* An empty file is a file and holds no entry.
LEMMA EmptyRange == EmptyFile \in Files /\ Range(EmptyFile.outbox) = {}
BY CommandLineAssumption DEF EmptyFile, Files, Range

\* A new process takes a number that is free.
LEMMA FreeProcess ==
    ASSUME \E q \in Procs : phase[q] = "none"
    PROVE  LET p == CHOOSE q \in Procs : phase[q] = "none" IN p \in Procs /\ phase[p] = "none"
OBVIOUS

\* A new text has an identity of its own.
LEMMA FreeNote == Unused # {} => (CHOOSE u \in Unused : TRUE) \in Unused
OBVIOUS

\* What is read of the file is a state.
LEMMA ReadsFile ==
    ASSUME CliTypes PROVE ReadFile \in Files
BY EmptyRange DEF CliTypes, ReadFile

\* No process uses the file at first.
LEMMA CliStart == CommandLineInit => CliInv
BY CommandLineAssumption, EmptyRange
   DEF CommandLineInit, CliInv, CliTypes, Alone, OwnStep, Entered, Senders, EmptyFile

\* Types.
LEMMA CliTypesStep == CliTypes /\ CommandLineNext => CliTypes'
<1> SUFFICES ASSUME CliTypes, CommandLineNext PROVE CliTypes'
  OBVIOUS
<1> USE CommandLineAssumption, EmptyRange DEF CliTypes, runVars
<1>1. ASSUME NEW a \in Logins, Login_Command(a) PROVE CliTypes'
  BY <1>1 DEF Login_Command
<1>2. ASSUME NEW p \in Procs, NEW t \in Notes, Run_Send(p, t) PROVE CliTypes'
  <2>1. [ReadFile EXCEPT !.outbox = Append(@, t)] \in Files
    BY ReadsFile, AppendRange DEF Files
  <2> QED
    BY <1>2, <2>1 DEF Run_Send, StartProcess
<1>3. ASSUME NEW p \in Procs, Run_Listen(p) PROVE CliTypes'
  BY <1>3, ReadsFile DEF Run_Listen, StartProcess
<1>4. ASSUME NEW p \in Procs, SetReads(p) PROVE CliTypes'
  <2>1. /\ [ReadFile EXCEPT !.cursor = memory[p].cursor] \in Files
        /\ [ReadFile EXCEPT !.outbox = memory[p].outbox] \in Files
    BY ReadsFile DEF Files
  <2> QED
    BY <1>4, <2>1 DEF SetReads
<1>5. ASSUME NEW p \in Procs, SetEnds(p) PROVE CliTypes'
  BY <1>5 DEF SetEnds, EndProcess
<1>6. ASSUME NEW p \in Procs, Page(p) PROVE CliTypes'
  <2>1. memory[p].cursor + 1 \in 0..LastCursor /\ memory[p] \in Files
    BY <1>6 DEF Page, Files
  <2>2. memory' \in [Procs -> Files]
    BY <1>6, <2>1 DEF Page, Files
  <2> QED
    BY <1>6, <2>2 DEF Page
<1>7. ASSUME NEW p \in Procs, Ends_Early(p) PROVE CliTypes'
  BY <1>7 DEF Ends_Early, EndProcess
<1>8. ASSUME NEW p \in Procs, Post_Arrives(p) PROVE CliTypes'
  BY <1>8 DEF Post_Arrives, Files
<1>9. ASSUME NEW p \in Procs, Post_Fails(p) PROVE CliTypes'
  BY <1>9 DEF Post_Fails
<1>10. ASSUME NEW p \in Procs, memory[p].outbox # <<>>, NEW how \in {"sent", "refused"},
              Shifted(p, how)
       PROVE  /\ Head(memory[p].outbox) \in Notes
              /\ phase' \in [Procs -> {"none", "store", "post", "retry", "sent", "refused", "listen"}]
              /\ memory' \in [Procs -> Files] /\ setting' \in [Procs -> {"no", "read", "write"}]
  <2>1. memory[p] \in Files /\ memory[p].outbox \in Seq(Notes)
    BY DEF Files
  <2>2. /\ Tail(memory[p].outbox) \in Seq(Notes) /\ Head(memory[p].outbox) \in Notes
        /\ memory[p].cursor \in 0..LastCursor
    BY <1>10, <2>1, TailRange DEF Files
  <2>3. memory' = [memory EXCEPT ![p] = [memory[p] EXCEPT !.outbox = Tail(memory[p].outbox)]]
    BY <1>10, <2>1 DEF Shifted
  <2>4. [memory[p] EXCEPT !.outbox = Tail(memory[p].outbox)] \in Files
    BY <2>1, <2>2 DEF Files
  <2>5. memory' \in [Procs -> Files]
    BY <2>3, <2>4
  <2> QED
    BY <1>10, <2>2, <2>5 DEF Shifted
<1>11. ASSUME NEW p \in Procs, Post_Accepted(p) PROVE CliTypes'
  <2>1. phase[p] = "post" /\ memory[p].outbox # <<>> /\ Shifted(p, "sent")
    BY <1>11 DEF Post_Accepted
  <2>2. confirmed' = confirmed \cup {Head(memory[p].outbox)} /\ declined' = declined
    BY <1>11 DEF Post_Accepted
  <2>3. /\ Head(memory[p].outbox) \in Notes
        /\ phase' \in [Procs -> {"none", "store", "post", "retry", "sent", "refused", "listen"}]
        /\ memory' \in [Procs -> Files] /\ setting' \in [Procs -> {"no", "read", "write"}]
    BY <2>1, <1>10
  <2>4. /\ phase' = [phase EXCEPT ![p] = "sent"]
        /\ config' = config /\ file' = file /\ given' = given /\ cfg' = cfg /\ data' = data
        /\ posted' = posted /\ entered' = entered
    BY <2>1, Zenon DEF Shifted
  <2>5. \A q \in Procs : phase'[q] # "none" => phase[q] # "none" /\
                         (phase'[q] \notin {"none", "listen"} => phase[q] \notin {"none", "listen"})
    BY <2>1, <2>4
  <2>6. \A q \in Procs : /\ phase'[q] # "none" => cfg'[q] \in Logins
                         /\ phase'[q] \notin {"none", "listen"} => given'[q] \in Notes
    BY <2>4, <2>5
  <2>7. declined' \subseteq Notes /\ confirmed' \subseteq Notes
    BY <2>2, <2>3
  <2> QED
    BY <2>3, <2>4, <2>6, <2>7
<1>12. ASSUME NEW p \in Procs, Post_Rejected(p) PROVE CliTypes'
  <2>1. phase[p] = "post" /\ memory[p].outbox # <<>> /\ Shifted(p, "refused")
    BY <1>12 DEF Post_Rejected
  <2>2. declined' = declined \cup {Head(memory[p].outbox)} /\ confirmed' = confirmed
    BY <1>12 DEF Post_Rejected
  <2>3. /\ Head(memory[p].outbox) \in Notes
        /\ phase' \in [Procs -> {"none", "store", "post", "retry", "sent", "refused", "listen"}]
        /\ memory' \in [Procs -> Files] /\ setting' \in [Procs -> {"no", "read", "write"}]
    BY <2>1, <1>10
  <2>4. /\ phase' = [phase EXCEPT ![p] = "refused"]
        /\ config' = config /\ file' = file /\ given' = given /\ cfg' = cfg /\ data' = data
        /\ posted' = posted /\ entered' = entered
    BY <2>1, Zenon DEF Shifted
  <2>5. \A q \in Procs : phase'[q] # "none" => phase[q] # "none" /\
                         (phase'[q] \notin {"none", "listen"} => phase[q] \notin {"none", "listen"})
    BY <2>1, <2>4
  <2>6. \A q \in Procs : /\ phase'[q] # "none" => cfg'[q] \in Logins
                         /\ phase'[q] \notin {"none", "listen"} => given'[q] \in Notes
    BY <2>4, <2>5
  <2>7. declined' \subseteq Notes /\ confirmed' \subseteq Notes
    BY <2>2, <2>3
  <2> QED
    BY <2>3, <2>4, <2>6, <2>7
<1> QED
  BY <1>1, <1>2, <1>3, <1>4, <1>5, <1>6, <1>7, <1>8, <1>9, <1>11, <1>12 DEF CommandLineNext

\* A write that was begun is ended, or is not.
LEMMA BrokenStep == broken \in BOOLEAN /\ CommandLineNext => broken' \in BOOLEAN
<1> SUFFICES ASSUME broken \in BOOLEAN, CommandLineNext PROVE broken' \in BOOLEAN
  OBVIOUS
<1>1. \/ broken' = broken \/ broken' = FALSE
      \/ \E p \in Procs : broken' = (broken \/ setting[p] = "write")
  BY Zenon DEF CommandLineNext, Login_Command, Run_Send, Run_Listen, StartProcess, SetReads, SetEnds,
     Page, Ends_Early, Post_Arrives, Post_Fails, Post_Accepted, Post_Rejected, Shifted
<1> QED
  BY <1>1, Zenon

LEMMA CommandLineTyped == CliTypes /\ broken \in BOOLEAN => CommandLineTypeOK
<1> SUFFICES ASSUME CliTypes, broken \in BOOLEAN PROVE CommandLineTypeOK
  OBVIOUS
<1>1. ASSUME NEW r \in Files PROVE IsFile(r)
  <2>1. r.outbox \in Seq(Notes) /\ r.cursor \in 0..LastCursor
    BY DEF Files
  <2>2. Range(r.outbox) \subseteq Notes
    BY <2>1 DEF Range
  <2> QED
    BY <2>1, <2>2 DEF IsFile
<1>2. /\ config \in Logins \cup {Nobody} /\ setting \in [Procs -> {"no", "read", "write"}]
      /\ posted \in [Notes -> Logins \cup {Nobody}] /\ entered \in [Notes -> Logins \cup {Nobody}]
      /\ declined \cup confirmed \subseteq Notes
      /\ file \in Files /\ \A p \in Procs : memory[p] \in Files /\ data[p] \in Files
  BY DEF CliTypes
<1> QED
  BY <1>1, <1>2, Zenon DEF CommandLineTypeOK

\* The second part, by name.
CliGood == Alone /\ (\A p \in Procs : OwnStep(p)) /\ Entered

\* The login writes the account only.
LEMMA LoginGood ==
    ASSUME CliTypes, CliGood, NEW a \in Logins, Login_Command(a)
    PROVE  CliGood'
<1> USE CommandLineAssumption DEF CliGood
<1>1. /\ config' = a /\ file' = file /\ broken' = broken /\ phase' = phase /\ given' = given
      /\ cfg' = cfg /\ memory' = memory /\ setting' = setting /\ data' = data
      /\ posted' = posted /\ declined' = declined /\ confirmed' = confirmed /\ entered' = entered
  BY Zenon DEF Login_Command
<1>2. Senders' = Senders
  BY <1>1 DEF Senders
<1>3. Alone'
  BY <1>1, <1>2 DEF Alone
<1>4. \A p \in Procs : OwnStep(p)'
  BY <1>1, <1>2 DEF OwnStep
<1>5. relogin' \/ (file.outbox = <<>> /\ Senders = {} /\ ~relogin)
  BY DEF Login_Command
<1>6. Range(<<>>) = {}
  BY DEF Range
<1>7. Entered'
  BY <1>1, <1>2, <1>5, <1>6 DEF Entered
<1> QED
  BY <1>3, <1>4, <1>7

\* `send` reads the file and adds its entry.
LEMMA SendGood ==
    ASSUME CliTypes, CliGood, ~crossed', NEW p \in Procs, NEW t \in Notes, Run_Send(p, t)
    PROVE  CliGood'
<1> USE CommandLineAssumption DEF CliGood
<1>1. phase[p] = "none" /\ t \in Unused /\ config # Nobody
  BY DEF Run_Send, StartProcess
<1>2. Senders = {} /\ \A q \in Procs : setting[q] = "no"
  BY DEF Run_Send
<1>3. ReadFile = file
  BY <1>2 DEF ReadFile, Writers, Alone
<1>4. /\ phase' = [phase EXCEPT ![p] = "store"] /\ given' = [given EXCEPT ![p] = t]
      /\ cfg' = [cfg EXCEPT ![p] = config]
      /\ setting' = [setting EXCEPT ![p] = "read"]
  BY DEF Run_Send, StartProcess
<1>5. /\ config' = config /\ file' = file /\ broken' = broken /\ data' = data
      /\ posted' = posted /\ declined' = declined /\ confirmed' = confirmed /\ entered' = entered
      /\ relogin' = relogin
  BY Zenon DEF Run_Send, StartProcess, runVars
<1>6. memory' = [memory EXCEPT ![p] = [file EXCEPT !.outbox = Append(file.outbox, t)]]
  BY <1>3 DEF Run_Send, StartProcess
<1>7. memory'[p].outbox = Append(file.outbox, t)
  BY <1>6 DEF CliTypes, Files
<1>8. \A q \in Procs \ {p} : /\ memory'[q] = memory[q] /\ phase'[q] = phase[q]
                             /\ given'[q] = given[q] /\ cfg'[q] = cfg[q] /\ setting'[q] = "no"
                             /\ phase[q] \in {"none", "listen"}
  BY <1>2, <1>4, <1>6 DEF CliTypes, Senders
<1>9. /\ phase'[p] = "store" /\ given'[p] = t /\ cfg'[p] = config /\ setting'[p] = "read"
  BY <1>4 DEF CliTypes
<1>10. Senders' = {p}
  BY <1>8, <1>9 DEF Senders
<1>11. Alone'
  BY <1>5, <1>8, <1>9, <1>10 DEF Alone
<1>12. entered[t] = Nobody
  BY <1>1 DEF Unused
<1>13. \A q \in Procs : OwnStep(q)'
  <2>1. OwnStep(p)'
    BY <1>5, <1>7, <1>9, <1>10, <1>12 DEF OwnStep
  <2>2. ASSUME NEW q \in Procs \ {p} PROVE OwnStep(q)'
    BY <1>5, <1>8, <1>10 DEF OwnStep
  <2> QED
    BY <2>1, <2>2
<1>14. Entered'
  BY <1>5, <1>9, <1>10 DEF Entered
<1> QED
  BY <1>11, <1>13, <1>14

\* `listen` reads the file and sends nothing.
LEMMA ListenGood ==
    ASSUME CliTypes, CliGood, NEW p \in Procs, Run_Listen(p)
    PROVE  CliGood'
<1> USE CommandLineAssumption DEF CliGood
<1>1. phase[p] = "none"
  BY DEF Run_Listen, StartProcess
<1>4. /\ phase' = [phase EXCEPT ![p] = "listen"] /\ given' = [given EXCEPT ![p] = p]
      /\ cfg' = [cfg EXCEPT ![p] = config] /\ memory' = [memory EXCEPT ![p] = ReadFile]
  BY DEF Run_Listen, StartProcess
<1>5. /\ config' = config /\ file' = file /\ broken' = broken /\ data' = data
      /\ posted' = posted /\ declined' = declined /\ confirmed' = confirmed /\ entered' = entered
      /\ relogin' = relogin /\ setting' = setting
  BY Zenon DEF Run_Listen, StartProcess, runVars
<1>8. \A q \in Procs \ {p} : /\ memory'[q] = memory[q] /\ phase'[q] = phase[q]
                             /\ given'[q] = given[q] /\ cfg'[q] = cfg[q]
  BY <1>4 DEF CliTypes
<1>9. phase'[p] = "listen" /\ setting[p] = "no"
  BY <1>1, <1>4 DEF CliTypes, OwnStep
<1>10. Senders' = Senders /\ p \notin Senders
  BY <1>1, <1>8, <1>9 DEF Senders
<1>11. Alone'
  BY <1>5, <1>10 DEF Alone
<1>13. \A q \in Procs : OwnStep(q)'
  <2>1. OwnStep(p)'
    BY <1>5, <1>9, <1>10 DEF OwnStep
  <2>2. ASSUME NEW q \in Procs \ {p} PROVE OwnStep(q)'
    BY <1>5, <1>8, <1>10 DEF OwnStep
  <2> QED
    BY <2>1, <2>2
<1>14. \A q \in Senders' : cfg'[q] = cfg[q]
  BY <1>8, <1>10 DEF Senders
<1>15. Entered'
  BY <1>5, <1>10, <1>14 DEF Entered
<1> QED
  BY <1>11, <1>13, <1>15

\* A write of the file reads it first.
LEMMA SetReadsGood ==
    ASSUME CliTypes, CliGood, ~crossed', NEW p \in Procs, SetReads(p)
    PROVE  CliGood'
<1> USE CommandLineAssumption DEF CliGood
<1>1. setting[p] = "read" /\ \A q \in Procs \ {p} : setting[q] = "no"
  BY DEF SetReads
<1>2. ReadFile = file
  BY <1>1 DEF ReadFile, Writers, Alone
<1>3. /\ config' = config /\ file' = file /\ broken' = broken
      /\ posted' = posted /\ declined' = declined /\ confirmed' = confirmed /\ entered' = entered
      /\ relogin' = relogin /\ phase' = phase /\ given' = given /\ cfg' = cfg /\ memory' = memory
  BY Zenon DEF SetReads, runVars
<1>4. setting' = [setting EXCEPT ![p] = "write"]
  BY DEF SetReads
<1>5. data'[p].outbox = IF phase[p] = "listen" THEN file.outbox ELSE memory[p].outbox
  <2>1. data'[p] = IF phase[p] = "listen" THEN [file EXCEPT !.cursor = memory[p].cursor]
                                          ELSE [file EXCEPT !.outbox = memory[p].outbox]
    BY <1>2 DEF SetReads, CliTypes
  <2> QED
    BY <2>1 DEF CliTypes, Files
<1>6. Senders' = Senders
  BY <1>3 DEF Senders
<1>7. /\ setting'[p] = "write" /\ \A q \in Procs \ {p} : setting'[q] = "no"
  BY <1>1, <1>4 DEF CliTypes
<1>8. Alone'
  BY <1>3, <1>6, <1>7 DEF Alone
<1>9. \A q \in Procs : OwnStep(q)'
  <2>1. OwnStep(p)'
    BY <1>1, <1>3, <1>5, <1>6, <1>7 DEF OwnStep
  <2>2. ASSUME NEW q \in Procs \ {p} PROVE OwnStep(q)'
    BY <1>1, <1>3, <1>6, <1>7 DEF OwnStep
  <2> QED
    BY <2>1, <2>2
<1>10. Entered'
  BY <1>3, <1>6 DEF Entered
<1> QED
  BY <1>8, <1>9, <1>10

\* The server takes the entry.
LEMMA ArrivesGood ==
    ASSUME CliTypes, CliGood, NEW p \in Procs, Post_Arrives(p)
    PROVE  CliGood'
<1> USE CommandLineAssumption DEF CliGood
<1> DEFINE t == Head(memory[p].outbox)
<1>1. /\ config' = config /\ file' = file /\ broken' = broken /\ phase' = phase /\ given' = given
      /\ cfg' = cfg /\ memory' = memory /\ setting' = setting /\ data' = data
      /\ declined' = declined /\ confirmed' = confirmed /\ entered' = entered
      /\ relogin' = relogin
  BY Zenon DEF Post_Arrives
<1>2. /\ phase[p] = "post" /\ memory[p].outbox # <<>>
      /\ posted[t] = Nobody /\ posted' = [posted EXCEPT ![t] = cfg[p]]
  BY DEF Post_Arrives
<1>3. memory[p].outbox \in Seq(Notes) /\ memory[p].outbox = file.outbox
  BY <1>2 DEF OwnStep, CliTypes, Files
<1>4. t \in Notes /\ t \in Range(file.outbox)
  BY <1>2, <1>3, TailRange
<1>5. Senders' = Senders /\ p \in Senders
  BY <1>1, <1>2 DEF Senders
<1>6. Alone'
  BY <1>1, <1>5 DEF Alone
<1>7. \A q \in Procs : OwnStep(q)'
  BY <1>1, <1>5 DEF OwnStep
<1>8. entered[t] # Nobody
  BY <1>4 DEF Entered
<1>9. relogin \/ (entered[t] = config /\ cfg[p] = config)
  BY <1>4, <1>5 DEF Entered
<1>10. posted'[t] = cfg[p] /\ \A u \in Notes \ {t} : posted'[u] = posted[u]
  BY <1>2, <1>4 DEF CliTypes
<1>11. Entered'
  <2>1. \A u \in Notes : entered[u] = Nobody => posted'[u] = Nobody
    BY <1>8, <1>10 DEF Entered
  <2>2. relogin \/ \A u \in Notes : posted'[u] \in {Nobody, entered[u]}
    BY <1>9, <1>10 DEF Entered
  <2> HIDE DEF t
  <2> QED
    BY <1>1, <1>5, <2>1, <2>2 DEF Entered
<1> QED
  BY <1>6, <1>7, <1>11

\* The entry is stored as before and waits for the next attempt.
LEMMA FailsGood ==
    ASSUME CliTypes, CliGood, ~crossed', NEW p \in Procs, Post_Fails(p)
    PROVE  CliGood'
<1> USE CommandLineAssumption DEF CliGood
<1>1. phase[p] = "post" /\ \A q \in Procs \ {p} : setting[q] = "no"
  BY DEF Post_Fails
<1>2. /\ config' = config /\ file' = file /\ broken' = broken /\ data' = data
      /\ posted' = posted /\ declined' = declined /\ confirmed' = confirmed /\ entered' = entered
      /\ relogin' = relogin /\ given' = given /\ cfg' = cfg /\ memory' = memory
  BY Zenon DEF Post_Fails, runVars
<1>3. phase' = [phase EXCEPT ![p] = "retry"] /\ setting' = [setting EXCEPT ![p] = "read"]
  BY DEF Post_Fails
<1>4. /\ phase'[p] = "retry" /\ setting'[p] = "read"
      /\ \A q \in Procs \ {p} : phase'[q] = phase[q] /\ setting'[q] = "no" /\ setting[q] = "no"
  BY <1>1, <1>3 DEF CliTypes
<1>5. Senders' = Senders /\ p \in Senders
  BY <1>1, <1>4 DEF Senders
<1>6. Alone'
  BY <1>2, <1>4, <1>5 DEF Alone
<1>7. \A q \in Procs : OwnStep(q)'
  <2>1. OwnStep(p)'
    BY <1>1, <1>2, <1>4, <1>5 DEF OwnStep
  <2>2. ASSUME NEW q \in Procs \ {p} PROVE OwnStep(q)'
    BY <1>1, <1>2, <1>4, <1>5 DEF OwnStep
  <2> QED
    BY <2>1, <2>2
<1>8. Entered'
  BY <1>2, <1>5 DEF Entered
<1> QED
  BY <1>6, <1>7, <1>8

\* The first entry is answered, and goes from the memory of its process.
LEMMA AnswerGood ==
    ASSUME CliTypes, CliGood, ~crossed', NEW p \in Procs, NEW how \in {"sent", "refused"},
           phase[p] = "post", memory[p].outbox # <<>>, Shifted(p, how),
           confirmed \subseteq confirmed', declined \subseteq declined',
           Head(memory[p].outbox) \in confirmed' \cup declined'
    PROVE  CliGood'
<1> USE CommandLineAssumption DEF CliGood
<1>1. \A q \in Procs \ {p} : setting[q] = "no"
  BY DEF Shifted
<1>2. /\ config' = config /\ file' = file /\ broken' = broken /\ data' = data
      /\ posted' = posted /\ entered' = entered
      /\ relogin' = relogin /\ given' = given /\ cfg' = cfg
  BY Zenon DEF Shifted
<1>3. /\ phase' = [phase EXCEPT ![p] = how] /\ setting' = [setting EXCEPT ![p] = "read"]
      /\ memory' = [memory EXCEPT ![p] = [memory[p] EXCEPT !.outbox = Tail(memory[p].outbox)]]
  BY DEF Shifted, CliTypes, Files
<1>4. /\ phase'[p] = how /\ setting'[p] = "read"
      /\ memory'[p].outbox = Tail(memory[p].outbox)
      /\ \A q \in Procs \ {p} : /\ phase'[q] = phase[q] /\ setting'[q] = "no" /\ setting[q] = "no"
                                /\ memory'[q] = memory[q]
  BY <1>1, <1>3 DEF CliTypes, Files
<1>5. memory[p].outbox = file.outbox
  BY DEF OwnStep
<1>6. Senders' = Senders /\ p \in Senders
  BY <1>4 DEF Senders
<1>7. Alone'
  BY <1>2, <1>4, <1>6 DEF Alone
<1>8. \A q \in Procs : OwnStep(q)'
  <2>1. OwnStep(p)'
    BY <1>2, <1>4, <1>5, <1>6 DEF OwnStep
  <2>2. ASSUME NEW q \in Procs \ {p} PROVE OwnStep(q)'
    <3>1. phase[q] \in {"none", "listen"}
      BY <1>6 DEF Alone, Senders
    <3> QED
      BY <1>2, <1>4, <1>6, <3>1 DEF OwnStep
  <2> QED
    BY <2>1, <2>2
<1>9. Entered'
  BY <1>2, <1>6 DEF Entered
<1> QED
  BY <1>7, <1>8, <1>9

\* The process ends between two writes.
LEMMA EndsGood ==
    ASSUME CliTypes, CliGood, ~crossed', NEW p \in Procs, Ends_Early(p)
    PROVE  CliGood'
<1> USE CommandLineAssumption DEF CliGood
<1>1. /\ config' = config /\ file' = file
      /\ posted' = posted /\ declined' = declined /\ confirmed' = confirmed /\ entered' = entered
      /\ relogin' = relogin
  BY Zenon DEF Ends_Early, runVars
<1>2. ~broken'
  BY DEF Ends_Early, Alone
<1>3. /\ phase' = [phase EXCEPT ![p] = "none"] /\ given' = [given EXCEPT ![p] = p]
      /\ cfg' = [cfg EXCEPT ![p] = Nobody] /\ memory' = [memory EXCEPT ![p] = EmptyFile]
      /\ setting' = [setting EXCEPT ![p] = "no"] /\ data' = [data EXCEPT ![p] = EmptyFile]
  BY DEF Ends_Early, EndProcess
<1>4. /\ phase'[p] = "none" /\ setting'[p] = "no"
      /\ \A q \in Procs \ {p} : /\ phase'[q] = phase[q] /\ setting'[q] = setting[q]
                                /\ memory'[q] = memory[q] /\ given'[q] = given[q]
                                /\ cfg'[q] = cfg[q] /\ data'[q] = data[q]
  BY <1>3 DEF CliTypes
<1>5. Senders' = Senders \ {p}
  BY <1>4 DEF Senders
<1>6. Alone'
  BY <1>2, <1>4, <1>5 DEF Alone
<1>7. \A q \in Procs : OwnStep(q)'
  <2>1. OwnStep(p)'
    BY <1>4, <1>5 DEF OwnStep
  <2>2. ASSUME NEW q \in Procs \ {p} PROVE OwnStep(q)'
    BY <1>1, <1>4, <1>5 DEF OwnStep
  <2> QED
    BY <2>1, <2>2
<1>8. \A q \in Senders' : cfg'[q] = cfg[q]
  BY <1>4, <1>5 DEF Senders
<1>9. Entered'
  BY <1>1, <1>5, <1>8 DEF Entered
<1> QED
  BY <1>6, <1>7, <1>9

\* A page of items moves the cursor only.
LEMMA PageGood ==
    ASSUME CliTypes, CliGood, ~crossed', NEW p \in Procs, Page(p)
    PROVE  CliGood'
<1> USE CommandLineAssumption DEF CliGood
<1>1. phase[p] = "listen" /\ \A q \in Procs \ {p} : setting[q] = "no"
  BY DEF Page
<1>2. /\ config' = config /\ file' = file /\ broken' = broken /\ data' = data
      /\ posted' = posted /\ declined' = declined /\ confirmed' = confirmed /\ entered' = entered
      /\ relogin' = relogin /\ given' = given /\ cfg' = cfg /\ phase' = phase
  BY Zenon DEF Page, runVars
<1>3. setting' = [setting EXCEPT ![p] = "read"]
  BY DEF Page
<1>4. /\ setting'[p] = "read"
      /\ \A q \in Procs \ {p} : setting'[q] = "no" /\ setting[q] = "no" /\ memory'[q] = memory[q]
  BY <1>1, <1>3 DEF CliTypes, Page
<1>5. Senders' = Senders /\ p \notin Senders
  BY <1>1, <1>2 DEF Senders
<1>6. Alone'
  BY <1>2, <1>4, <1>5 DEF Alone
<1>7. \A q \in Procs : OwnStep(q)'
  <2>1. OwnStep(p)'
    BY <1>1, <1>2, <1>4, <1>5 DEF OwnStep
  <2>2. ASSUME NEW q \in Procs \ {p} PROVE OwnStep(q)'
    BY <1>1, <1>2, <1>4, <1>5 DEF OwnStep
  <2> QED
    BY <2>1, <2>2
<1>8. Entered'
  BY <1>2, <1>5 DEF Entered
<1> QED
  BY <1>6, <1>7, <1>8

\* The file is written, as the process has it.
LEMMA SetEndsGood ==
    ASSUME CliTypes, CliGood, NEW p \in Procs, SetEnds(p)
    PROVE  CliGood'
<1> USE CommandLineAssumption DEF CliGood
<1>1. setting[p] = "write" /\ \A q \in Procs \ {p} : setting[q] = "no"
  BY DEF SetEnds, Alone, CliTypes
<1>2. /\ config' = config /\ posted' = posted /\ declined' = declined
      /\ confirmed' = confirmed /\ relogin' = relogin
  BY Zenon DEF SetEnds
<1>3. ~broken' /\ file' = data[p] /\ setting' = [setting EXCEPT ![p] = "no"]
      /\ data' = [data EXCEPT ![p] = EmptyFile]
  BY DEF SetEnds
<1>4. setting'[p] = "no" /\ \A q \in Procs \ {p} : setting'[q] = "no" /\ data'[q] = data[q]
  BY <1>1, <1>3 DEF CliTypes
<1>5. \A q \in Procs \ {p} : phase[q] \in {"none", "listen", "post"}
  BY <1>1 DEF OwnStep, Senders, CliTypes
<1>6. CASE phase[p] = "listen"
  <2>1. entered' = entered /\ phase' = phase /\ given' = given /\ cfg' = cfg /\ memory' = memory
    BY <1>6 DEF SetEnds
  <2>2. file'.outbox = file.outbox
    BY <1>1, <1>3, <1>6 DEF OwnStep
  <2>3. Senders' = Senders /\ p \notin Senders
    BY <1>6, <2>1 DEF Senders
  <2>4. Alone'
    BY <1>3, <1>4, <2>3 DEF Alone
  <2>5. \A q \in Procs : OwnStep(q)'
    <3>1. OwnStep(p)'
      BY <1>4, <1>6, <2>1, <2>2, <2>3 DEF OwnStep
    <3>2. ASSUME NEW q \in Procs \ {p} PROVE OwnStep(q)'
      BY <1>1, <1>2, <1>4, <2>1, <2>2, <2>3 DEF OwnStep
    <3> QED
      BY <3>1, <3>2
  <2>6. Entered'
    BY <1>2, <2>1, <2>2, <2>3 DEF Entered
  <2> QED
    BY <2>4, <2>5, <2>6
<1>7. CASE phase[p] # "listen"
  <2>1. file'.outbox = memory[p].outbox
    BY <1>1, <1>3, <1>7 DEF OwnStep
  <2>2. Senders = {p}
    BY <1>1, <1>7 DEF Senders, Alone, OwnStep
  <2>3. \A q \in Procs \ {p} : phase[q] \in {"none", "listen"}
    BY <2>2 DEF Senders
  <2>4. CASE phase[p] = "store"
    <3> DEFINE t == given[p]
    <3>1. /\ phase' = [phase EXCEPT ![p] = "post"] /\ entered' = [entered EXCEPT ![t] = cfg[p]]
          /\ given' = given /\ cfg' = cfg /\ memory' = memory
      BY <2>4 DEF SetEnds
    <3>2. t \in Notes /\ entered[t] = Nobody /\ cfg[p] \in Logins
          /\ memory[p].outbox = Append(file.outbox, t) /\ file.outbox \in Seq(Notes)
      BY <2>4 DEF CliTypes, Files, OwnStep
    <3>3. Range(file'.outbox) = Range(file.outbox) \cup {t}
      BY <2>1, <3>2, AppendRange
    <3>4. entered'[t] = cfg[p] /\ \A u \in Notes \ {t} : entered'[u] = entered[u]
      BY <3>1, <3>2 DEF CliTypes
    <3>5. phase'[p] = "post" /\ \A q \in Procs \ {p} : phase'[q] = phase[q]
      BY <3>1 DEF CliTypes
    <3>6. Senders' = {p}
      BY <2>3, <3>5 DEF Senders
    <3>7. Alone'
      BY <1>3, <1>4, <3>6 DEF Alone
    <3>8. \A q \in Procs : OwnStep(q)'
      <4>1. OwnStep(p)'
        BY <1>4, <2>1, <3>1, <3>5, <3>6 DEF OwnStep
      <4>2. ASSUME NEW q \in Procs \ {p} PROVE OwnStep(q)'
        BY <1>4, <2>3, <3>5, <3>6 DEF OwnStep
      <4> QED
        BY <4>1, <4>2
    <3>9. Range(file.outbox) \subseteq Notes
      BY <3>2 DEF Range
    <3>10. Entered'
      <4> HIDE DEF t
      <4>1. \A u \in Range(file'.outbox) : entered'[u] # Nobody
        BY <3>2, <3>3, <3>4, <3>9 DEF Entered
      <4>2. \A u \in Notes : entered'[u] # Nobody =>
                u \in Range(file'.outbox) \cup confirmed \cup declined
        BY <3>3, <3>4 DEF Entered
      <4>3. \A u \in Notes : entered'[u] = Nobody => posted[u] = Nobody
        BY <3>2, <3>4 DEF Entered
      <4>4. relogin \/ /\ \A u \in Range(file'.outbox) : entered'[u] = config
                       /\ cfg[p] = config
                       /\ \A u \in Notes : posted[u] \in {Nobody, entered'[u]}
        BY <2>2, <3>2, <3>3, <3>4, <3>9 DEF Entered
      <4> QED
        BY <1>2, <3>1, <3>6, <4>1, <4>2, <4>3, <4>4 DEF Entered
    <3> QED
      BY <3>7, <3>8, <3>10
  <2>5. CASE phase[p] = "retry"
    <3>1. /\ phase' = [phase EXCEPT ![p] = "post"] /\ entered' = entered
          /\ given' = given /\ cfg' = cfg /\ memory' = memory
      BY <2>5 DEF SetEnds
    <3>2. file'.outbox = file.outbox
      BY <2>1, <2>5 DEF OwnStep
    <3>5. phase'[p] = "post" /\ \A q \in Procs \ {p} : phase'[q] = phase[q]
      BY <3>1 DEF CliTypes
    <3>6. Senders' = {p}
      BY <2>3, <3>5 DEF Senders
    <3>7. Alone'
      BY <1>3, <1>4, <3>6 DEF Alone
    <3>8. \A q \in Procs : OwnStep(q)'
      <4>1. OwnStep(p)'
        BY <1>4, <2>1, <3>1, <3>5, <3>6 DEF OwnStep
      <4>2. ASSUME NEW q \in Procs \ {p} PROVE OwnStep(q)'
        BY <1>4, <2>3, <3>5, <3>6 DEF OwnStep
      <4> QED
        BY <4>1, <4>2
    <3>9. Entered'
      BY <1>2, <2>2, <3>1, <3>2, <3>6 DEF Entered
    <3> QED
      BY <3>7, <3>8, <3>9
  <2>6. CASE phase[p] \in {"sent", "refused"}
    <3>1. phase' = [phase EXCEPT ![p] = "none"] /\ entered' = entered
      BY <2>6 DEF SetEnds, EndProcess
    <3>2. /\ file.outbox \in Seq(Notes) /\ file.outbox # <<>>
          /\ file'.outbox = Tail(file.outbox) /\ Head(file.outbox) \in confirmed \cup declined
      BY <2>1, <2>6 DEF OwnStep, CliTypes, Files
    <3>3. /\ Range(file'.outbox) \subseteq Range(file.outbox)
          /\ Range(file.outbox) = {Head(file.outbox)} \cup Range(file'.outbox)
      BY <3>2, TailRange
    <3>5. phase'[p] = "none" /\ \A q \in Procs \ {p} : phase'[q] = phase[q]
      BY <3>1 DEF CliTypes
    <3>6. Senders' = {}
      BY <2>3, <3>5 DEF Senders
    <3>7. Alone'
      BY <1>3, <1>4, <3>6 DEF Alone
    <3>8. \A q \in Procs : OwnStep(q)'
      <4>1. OwnStep(p)'
        BY <1>4, <3>5, <3>6 DEF OwnStep
      <4>2. ASSUME NEW q \in Procs \ {p} PROVE OwnStep(q)'
        BY <1>4, <2>3, <3>5, <3>6 DEF OwnStep
      <4> QED
        BY <4>1, <4>2
    <3>9. Entered'
      BY <1>2, <3>1, <3>2, <3>3, <3>6 DEF Entered
    <3> QED
      BY <3>7, <3>8, <3>9
  <2> QED
    BY <1>7, <2>4, <2>5, <2>6 DEF SetEnds
<1> QED
  BY <1>6, <1>7

\* Every step keeps the invariant, as long as no two processes use the file at once.
LEMMA CliGoodStep == CliInv /\ CommandLineNext => CliInv'
<1> SUFFICES ASSUME CliInv, CommandLineNext, ~crossed' PROVE CliGood'
  BY CliTypesStep DEF CliInv, CliGood
<1>1. CliTypes /\ CliGood
  BY DEF CliInv, CliGood, CommandLineNext
<1>2. ASSUME NEW p \in Procs, Post_Accepted(p) PROVE CliGood'
  BY <1>1, <1>2, AnswerGood DEF Post_Accepted
<1>3. ASSUME NEW p \in Procs, Post_Rejected(p) PROVE CliGood'
  BY <1>1, <1>3, AnswerGood DEF Post_Rejected
<1> QED
  BY <1>1, <1>2, <1>3, LoginGood, SendGood, ListenGood, SetReadsGood, SetEndsGood, PageGood,
     EndsGood, ArrivesGood, FailsGood DEF CommandLineNext

\* SendKept: a text that `send` stored is in the file or answered, and is posted for
\* the account it was entered for, for any number of processes and texts, unless two
\* processes used the file at once, one was ended within a write or, for the
\* account, the login changed (cli main.ts, storage.ts).
THEOREM SendNotForgotten == CommandLineSpec => []SendKept
<1>1. CliInv /\ [CommandLineNext]_cliVars => CliInv'
  <2>1. CliInv /\ UNCHANGED cliVars => CliInv'
    BY DEF cliVars, CliInv, CliTypes, Alone, OwnStep, Entered, Senders
  <2> QED
    BY <2>1, CliGoodStep
<1>2. CliInv => SendKept
  BY DEF CliInv, SendKept, Entered
<1> QED
  BY <1>1, <1>2, CliStart, PTL DEF CommandLineSpec

-----------------------------------------------------------------------------
\* The settings: a choice is kept, shown and followed.

\* The request does this to that setting; no request does.
Match(r, d, f) == r.do = d /\ r.field = f
None(s, d, f) == \A n \in 1..Len(s) : ~Match(s[n], d, f)

\* The last request of its kind in the queue asks for v.
Last(s, d, f, v) ==
    \E n \in 1..Len(s) : /\ Match(s[n], d, f) /\ s[n].value = v
                         /\ \A m \in 1..Len(s) : m > n => ~Match(s[m], d, f)

\* A request of another kind is about that setting.
Unsaved(s, d, f) == \E n \in 1..Len(s) : s[n].do # d /\ s[n].field = f

\* What was last chosen is on its way, or stored.
OnItsWay(f) ==
    \/ Last(waiting, "read", f, chosen[f])
    \/ None(waiting, "read", f) /\ Last(waiting, "write", f, chosen[f])

\* It is on its way, or stored.
Saved(f) ==
    OnItsWay(f) \/ (None(waiting, "read", f) /\ None(waiting, "write", f) /\ stored[f] = chosen[f])

\* Whether the program starts at login is as chosen, or will be.
Started ==
    \/ OnItsWay("login")
    \/ /\ None(waiting, "read", "login") /\ None(waiting, "write", "login")
       /\ \/ Last(waiting, "autostart", "login", chosen["login"])
          \/ None(waiting, "autostart", "login") /\ applied["login"] = chosen["login"]

\* The settings and the requests of the extension's menu.
OfMenu == {"notify", "menu"}
Menus == {"menus", "removeAll", "create"}

\* A request about the menu is on its way.
Entries(s) == \E n \in 1..Len(s) : s[n].do # "load" /\ s[n].field \in OfMenu

\* The menu is as stored, or it is being rebuilt, by one request at a time.
MenuMade ==
    /\ \A m, n \in 1..Len(waiting) :
          waiting[m].field = "menu" /\ waiting[n].field \in OfMenu => m = n
    /\ \A n \in 1..Len(waiting) : /\ waiting[n].do = "removeAll" => waiting[n].value = stored["menu"]
                                  /\ waiting[n].do = "create" => stored["menu"] = TRUE
    /\ Entries(waiting) \/ applied["menu"] = stored["menu"]

\* The requests are about the settings of the client.
SettingsOf == CASE app = "desktop" -> {"notify", "toast", "login", "look"}
                [] app = "extension" -> {"notify", "menu", "look"}
                [] app = "mobile" -> {"notify", "look"}

RequestOK(r) ==
    /\ r.do \in {"load", "read", "write"}
          \cup (IF app = "desktop" THEN {"autostart"} ELSE {})
          \cup (IF app = "extension" THEN Menus ELSE {})
    /\ r.field \in SettingsOf
    /\ r.do = "read" => ~Whole(r.field)
    /\ r.do = "autostart" => r.field = "login"
    /\ r.do \in Menus => r.field \in OfMenu
    /\ r.do = "write" /\ ~Whole(r.field) =>
          /\ r.base[r.field] = r.value
          /\ \A g \in Fields : g # r.field /\ g # "look" => r.base[g] = stored[g]

\* One record is written at a time, and a tab asks while nothing else is asked.
Requested ==
    /\ \A n \in 1..Len(waiting) : RequestOK(waiting[n])
    /\ \A m, n \in 1..Len(waiting) :
          /\ waiting[m].do \in {"read", "write"} /\ waiting[n].do \in {"read", "write"}
          /\ ~Whole(waiting[m].field) /\ ~Whole(waiting[n].field)
          => waiting[m].field = waiting[n].field
    /\ \A n \in 1..Len(waiting) : waiting[n].do = "load" => Len(waiting) = 1

\* What an open tab shows is what was chosen.
TabTrue ==
    /\ tab = {} => ~loaded
    /\ loaded => \A f \in tab : shown[f] = chosen[f]
    /\ app = "mobile" => \/ \E n \in 1..Len(waiting) : Match(waiting[n], "load", "look")
                         \/ shown["look"] = chosen["look"]

\* The login item, the menu and the theme follow what is stored.
Followers ==
    /\ app = "desktop" => Started
    /\ app = "extension" => MenuMade
    /\ app # "mobile" => applied["look"] = stored["look"]

\* The types.
Bools == BOOLEAN
Dos == {"load", "read", "write", "autostart", "nothing", "written"} \cup Menus
Requests == [do : Dos, field : Fields, value : Bools, base : [Fields -> Bools]]

PrefsTypes ==
    /\ app \in SettingsClients
    /\ stored \in [Fields -> Bools] /\ applied \in [Fields -> Bools]
    /\ shown \in [Fields -> Bools] /\ chosen \in [Fields -> Bools]
    /\ waiting \in Seq(Requests) /\ tab \in Tabs \cup {{}}

\* All of this, for every setting.
PrefsTold == PrefsTypes /\ Requested /\ TabTrue /\ Followers /\ \A f \in Fields : Saved(f)

\* And all of it unless two saves clashed.
PrefsInv == ~clash => PrefsTold

\* The positions of a queue that one request joined.
LEMMA OneMore ==
    ASSUME NEW s \in Seq(Requests), NEW e \in Requests
    PROVE  /\ Append(s, e) \in Seq(Requests) /\ Len(Append(s, e)) = Len(s) + 1 /\ Len(s) \in Nat
           /\ \A n \in 1..Len(s) : Append(s, e)[n] = s[n] /\ n \in 1..(Len(s) + 1) /\ n # Len(s) + 1
           /\ Append(s, e)[Len(s) + 1] = e
           /\ \A n \in 1..(Len(s) + 1) : n \in 1..Len(s) \/ n = Len(s) + 1
           /\ Len(s) + 1 \in 1..(Len(s) + 1)
           /\ s \o <<e>> = Append(s, e) /\ s \o <<>> = s
OBVIOUS

\* The positions of a queue whose first request went.
LEMMA OneLess ==
    ASSUME NEW s \in Seq(Requests), s # <<>>
    PROVE  /\ Tail(s) \in Seq(Requests) /\ Len(Tail(s)) = Len(s) - 1 /\ Len(s) \in Nat /\ Len(s) >= 1
           /\ \A n \in 1..(Len(s) - 1) : Tail(s)[n] = s[n + 1] /\ n + 1 \in 1..Len(s) /\ n + 1 # 1
           /\ Head(s) = s[1] /\ Head(s) \in Requests /\ 1 \in 1..Len(s)
           /\ \A n \in 1..Len(s) : n = 1 \/ (n - 1 \in 1..(Len(s) - 1) /\ Tail(s)[n - 1] = s[n])
OBVIOUS

\* What the queue asks for after a request joined it.
LEMMA AppendMatch ==
    ASSUME NEW s \in Seq(Requests), NEW e \in Requests, NEW d, NEW f, NEW v
    PROVE  /\ None(Append(s, e), d, f) <=> None(s, d, f) /\ ~Match(e, d, f)
           /\ Match(e, d, f) => (Last(Append(s, e), d, f, v) <=> e.value = v)
           /\ ~Match(e, d, f) => (Last(Append(s, e), d, f, v) <=> Last(s, d, f, v))
<1> DEFINE t == Append(s, e)
<1>1. /\ Len(t) = Len(s) + 1 /\ Len(s) \in Nat /\ t[Len(s) + 1] = e
      /\ \A n \in 1..Len(s) : t[n] = s[n] /\ n \in 1..(Len(s) + 1) /\ n # Len(s) + 1
      /\ \A n \in 1..(Len(s) + 1) : n \in 1..Len(s) \/ n = Len(s) + 1
      /\ Len(s) + 1 \in 1..(Len(s) + 1)
  BY OneMore
<1>2. \A m, n \in 1..(Len(s) + 1) : /\ m > Len(s) + 1 => FALSE
                                   /\ n \in 1..Len(s) => Len(s) + 1 > n
  BY <1>1
<1> HIDE DEF t
<1>3. None(t, d, f) <=> None(s, d, f) /\ ~Match(e, d, f)
  BY <1>1, Zenon DEF None
<1>4. ASSUME Match(e, d, f) PROVE Last(t, d, f, v) <=> e.value = v
  <2>1. ASSUME e.value = v PROVE Last(t, d, f, v)
    BY <1>1, <1>2, <1>4, <2>1 DEF Last
  <2>2. ASSUME Last(t, d, f, v) PROVE e.value = v
    <3>1. PICK n \in 1..Len(t) : /\ Match(t[n], d, f) /\ t[n].value = v
                                 /\ \A m \in 1..Len(t) : m > n => ~Match(t[m], d, f)
      BY <2>2 DEF Last
    <3>2. n = Len(s) + 1
      BY <1>1, <1>2, <1>4, <3>1
    <3> QED
      BY <1>1, <3>1, <3>2
  <2> QED
    BY <2>1, <2>2
<1>5. ASSUME ~Match(e, d, f) PROVE Last(t, d, f, v) <=> Last(s, d, f, v)
  <2>1. ASSUME Last(s, d, f, v) PROVE Last(t, d, f, v)
    BY <1>1, <1>5, <2>1 DEF Last
  <2>2. ASSUME Last(t, d, f, v) PROVE Last(s, d, f, v)
    BY <1>1, <1>5, <2>2 DEF Last
  <2> QED
    BY <2>1, <2>2
<1> QED
  BY <1>3, <1>4, <1>5 DEF t

\* What the queue asked for before its first request went.
LEMMA TailMatch ==
    ASSUME NEW s \in Seq(Requests), s # <<>>, NEW d, NEW f, NEW v
    PROVE  /\ None(s, d, f) <=> None(Tail(s), d, f) /\ ~Match(Head(s), d, f)
           /\ Last(s, d, f, v) <=> \/ Last(Tail(s), d, f, v)
                                   \/ /\ None(Tail(s), d, f) /\ Match(Head(s), d, f)
                                      /\ Head(s).value = v
<1> DEFINE t == Tail(s)
<1>1. /\ Len(t) = Len(s) - 1 /\ Len(s) \in Nat /\ Len(s) >= 1
      /\ \A n \in 1..(Len(s) - 1) : t[n] = s[n + 1] /\ n + 1 \in 1..Len(s) /\ n + 1 # 1
      /\ Head(s) = s[1] /\ 1 \in 1..Len(s)
      /\ \A n \in 1..Len(s) : n = 1 \/ (n - 1 \in 1..(Len(s) - 1) /\ t[n - 1] = s[n])
  BY OneLess
<1> HIDE DEF t
<1>2. None(s, d, f) <=> None(t, d, f) /\ ~Match(Head(s), d, f)
  BY <1>1 DEF None
<1>3. ASSUME Last(t, d, f, v) PROVE Last(s, d, f, v)
  <2>1. PICK n \in 1..Len(t) : /\ Match(t[n], d, f) /\ t[n].value = v
                               /\ \A m \in 1..Len(t) : m > n => ~Match(t[m], d, f)
    BY <1>3 DEF Last
  <2>2. n + 1 \in 1..Len(s) /\ Match(s[n + 1], d, f) /\ s[n + 1].value = v
    BY <1>1, <2>1
  <2>3. ASSUME NEW m \in 1..Len(s), m > n + 1 PROVE ~Match(s[m], d, f)
    <3>1. m # 1 /\ m - 1 \in 1..Len(t) /\ m - 1 > n /\ t[m - 1] = s[m]
      BY <1>1, <2>1, <2>3
    <3> QED
      BY <2>1, <3>1
  <2> QED
    BY <2>2, <2>3 DEF Last
<1>4. ASSUME None(t, d, f), Match(Head(s), d, f), Head(s).value = v PROVE Last(s, d, f, v)
  <2>1. ASSUME NEW m \in 1..Len(s), m > 1 PROVE ~Match(s[m], d, f)
    BY <1>1, <1>4, <2>1 DEF None
  <2> QED
    BY <1>1, <1>4, <2>1 DEF Last
<1>5. ASSUME Last(s, d, f, v)
      PROVE  \/ Last(t, d, f, v)
             \/ None(t, d, f) /\ Match(Head(s), d, f) /\ Head(s).value = v
  <2>1. PICK n \in 1..Len(s) : /\ Match(s[n], d, f) /\ s[n].value = v
                               /\ \A m \in 1..Len(s) : m > n => ~Match(s[m], d, f)
    BY <1>5 DEF Last
  <2>2. CASE n = 1
    <3>1. ASSUME NEW m \in 1..Len(t) PROVE ~Match(t[m], d, f)
      BY <1>1, <2>1, <2>2, <3>1
    <3> QED
      BY <1>1, <2>1, <2>2, <3>1 DEF None
  <2>3. CASE n # 1
    <3>1. n - 1 \in 1..Len(t) /\ t[n - 1] = s[n]
      BY <1>1, <2>1, <2>3
    <3>2. ASSUME NEW m \in 1..Len(t), m > n - 1 PROVE ~Match(t[m], d, f)
      <4>1. m + 1 \in 1..Len(s) /\ m + 1 > n /\ t[m] = s[m + 1]
        BY <1>1, <2>1, <3>1, <3>2
      <4> QED
        BY <2>1, <4>1
    <3> QED
      BY <2>1, <3>1, <3>2 DEF Last
  <2> QED
    BY <2>2, <2>3
<1> QED
  BY <1>2, <1>3, <1>4, <1>5 DEF t

\* The settings there are, and their defaults.
LEMMA DefaultsTyped ==
    /\ DefaultPrefs \in [Fields -> Bools] /\ FALSE \in Bools /\ TRUE \in Bools
    /\ "look" \in Fields /\ "notify" \in Fields /\ "login" \in Fields /\ "menu" \in Fields
BY DEF DefaultPrefs, Bools, Fields, Prefs

\* The fields of a request.
LEMMA RequestTyped ==
    ASSUME NEW do \in Dos, NEW f \in Fields, NEW v \in Bools, NEW b \in [Fields -> Bools]
    PROVE  LET e == Request(do, f, v, b) IN
              e \in Requests /\ e.do = do /\ e.field = f /\ e.value = v /\ e.base = b
BY DEF Request, Requests

\* The fields of the request of a tab that is opened.
LEMMA LoadTyped ==
    ASSUME NEW f \in Fields
    PROVE  LoadOf(f) \in Requests /\ LoadOf(f).do = "load" /\ LoadOf(f).field = f
<1>1. PICK v \in Bools : v = FALSE
  BY DefaultsTyped
<1>2. LoadOf(f) = Request("load", f, v, DefaultPrefs)
  BY <1>1 DEF LoadOf
<1> QED
  BY <1>2, RequestTyped, DefaultsTyped DEF Dos

\* A queue of one request.
LEMMA OneRequest ==
    ASSUME NEW e \in Requests
    PROVE  /\ <<e>> \in Seq(Requests) /\ Len(<<e>>) = 1 /\ <<e>>[1] = e
           /\ Append(<<>>, e) = <<e>>
           /\ \A d, f : None(<<e>>, d, f) <=> ~Match(e, d, f)
BY DEF None

\* There is something that is no request: a queue that nothing joins is one that it
\* joins.
LEMMA NotARequest == \E e : e \notin Requests
<1> DEFINE d == {x \in Requests : x \notin x}
<1>1. d \notin Requests
  OBVIOUS
<1> QED
  BY <1>1

\* The clients that have settings.
LEMMA Clients == app \in SettingsClients => app \in {"desktop", "extension", "mobile"}
BY SettingsAssumption

\* Nothing was chosen: the defaults are stored, shown and followed.
LEMMA PrefsStart == SettingsInit => PrefsInv
<1> SUFFICES ASSUME SettingsInit PROVE PrefsInv
  OBVIOUS
<1>1. /\ app \in SettingsClients /\ applied = stored /\ chosen = stored /\ tab = {} /\ ~loaded
      /\ shown = DefaultPrefs
      /\ waiting = IF app = "mobile" THEN <<LoadOf("look")>> ELSE <<>>
  BY DEF SettingsInit
<1>2. stored \in [Fields -> Bools]
  <2>1. CASE stored = DefaultPrefs
    BY <2>1, DefaultsTyped
  <2>2. CASE stored = [f \in Fields |-> ~DefaultPrefs[f]]
    BY <2>2 DEF Bools
  <2> QED
    BY <2>1, <2>2 DEF SettingsInit
<1> DEFINE e == LoadOf("look")
<1>3. e \in Requests /\ e.do = "load" /\ e.field = "look"
  BY LoadTyped, DefaultsTyped
<1> HIDE DEF e
<1>4. /\ waiting \in Seq(Requests) /\ Len(waiting) <= 1
      /\ \A n \in 1..Len(waiting) : n = 1 /\ waiting[n] = e /\ app = "mobile" /\ Len(waiting) = 1
      /\ app = "mobile" => 1 \in 1..Len(waiting) /\ waiting[1] = e
  <2>1. CASE app = "mobile"
    BY <1>1, <1>3, <2>1, OneRequest DEF e
  <2>2. CASE app # "mobile"
    BY <1>1, <2>2
  <2> QED
    BY <2>1, <2>2
<1>5. PrefsTypes
  BY <1>1, <1>2, <1>4, DefaultsTyped DEF PrefsTypes
<1>6. Requested
  BY <1>3, <1>4 DEF Requested, RequestOK, SettingsOf, Menus
<1>7. TabTrue
  BY <1>1, <1>3, <1>4 DEF TabTrue, Match
<1>8. \A d \in {"read", "write", "autostart"}, f \in Fields : None(waiting, d, f)
  BY <1>3, <1>4 DEF None, Match
<1>9. \A f \in Fields : Saved(f)
  BY <1>1, <1>8 DEF Saved
<1>10. Followers
  BY <1>1, <1>4, <1>8, DefaultsTyped DEF Followers, Started, MenuMade
<1> QED
  BY <1>5, <1>6, <1>7, <1>9, <1>10 DEF PrefsInv, PrefsTold

\* A choice is made: its request joins the queue.
LEMMA ChoiceKept ==
    ASSUME PrefsTypes, Requested, Followers, \A g \in Fields : Saved(g),
           NEW f \in Fields, NEW v \in Bools, f \in SettingsOf,
           Save(f, v), ~Overlap(f), chosen' = [chosen EXCEPT ![f] = v],
           stored' = stored, applied' = applied, app' = app
    PROVE  /\ waiting' \in Seq(Requests) /\ chosen' \in [Fields -> Bools]
           /\ Requested' /\ Followers' /\ \A g \in Fields : Saved(g)'
           /\ \A n \in 1..Len(waiting) : waiting[n].do # "load"
<1>0. PICK do \in {"read", "write"} : /\ do = IF Whole(f) THEN "write" ELSE "read"
                                     /\ Ask(Request(do, f, v, DefaultPrefs))
  BY DEF Save
<1>1. PICK e \in Requests : /\ e = Request(do, f, v, DefaultPrefs)
                            /\ e.field = f /\ e.value = v /\ e.do = do
  BY <1>0, RequestTyped, DefaultsTyped DEF Dos
<1>2. waiting' = Append(waiting, e) /\ waiting \in Seq(Requests)
  BY <1>0, <1>1 DEF Ask, PrefsTypes
<1>3. /\ waiting' \in Seq(Requests) /\ Len(waiting') = Len(waiting) + 1 /\ Len(waiting) \in Nat
      /\ \A n \in 1..Len(waiting) : waiting'[n] = waiting[n] /\ n \in 1..Len(waiting')
      /\ waiting'[Len(waiting')] = e /\ Len(waiting') \in 1..Len(waiting')
      /\ \A n \in 1..Len(waiting') : n \in 1..Len(waiting) \/ n = Len(waiting')
  BY <1>1, <1>2, OneMore
<1>4. /\ chosen' \in [Fields -> Bools] /\ chosen'[f] = v
      /\ \A g \in Fields : g # f => chosen'[g] = chosen[g]
  BY DEF PrefsTypes
<1>5. \A n \in 1..Len(waiting) :
         /\ waiting[n].do \notin {"load", "menus", "removeAll", "create"}
         /\ waiting[n].do \in {"read", "write"} /\ ~Whole(f) => waiting[n].field = f
         /\ f = "menu" => waiting[n].field \notin {"notify", "menu"}
  <2>1. DOMAIN waiting = 1..Len(waiting)
    BY <1>2
  <2> QED
    BY <2>1 DEF Overlap
<1>7. ASSUME NEW n \in 1..Len(waiting) PROVE RequestOK(waiting[n])'
  <2>1. RequestOK(waiting[n]) /\ waiting'[n] = waiting[n]
    BY <1>3 DEF Requested
  <2> QED
    BY <2>1 DEF RequestOK, SettingsOf, Whole
<1>8. RequestOK(e)'
  BY <1>0, <1>1 DEF RequestOK, Menus, Whole, SettingsOf
<1>9. Requested'
  <2>1. \A n \in 1..Len(waiting') : RequestOK(waiting[n])'
    <3> SUFFICES ASSUME NEW n \in 1..Len(waiting') PROVE RequestOK(waiting[n])'
      OBVIOUS
    <3>1. CASE n \in 1..Len(waiting)
      BY <1>3, <1>7, <3>1
    <3>2. CASE n = Len(waiting')
      BY <1>3, <1>8, <3>2
    <3> QED
      BY <1>3, <3>1, <3>2
  <2>2. \A m, n \in 1..Len(waiting') :
          /\ waiting'[m].do \in {"read", "write"} /\ waiting'[n].do \in {"read", "write"}
          /\ ~(waiting'[m].field = "look" \/ app' = "mobile")
          /\ ~(waiting'[n].field = "look" \/ app' = "mobile")
          => waiting'[m].field = waiting'[n].field
    BY <1>1, <1>3, <1>5 DEF Requested, Whole
  <2>3. \A n \in 1..Len(waiting') : waiting'[n].do # "load"
    BY <1>1, <1>3, <1>5
  <2> QED
    BY <2>1, <2>2, <2>3 DEF Requested, Whole
<1>10. \A d, g, w : /\ None(waiting', d, g) <=> None(waiting, d, g) /\ ~Match(e, d, g)
                    /\ Match(e, d, g) => (Last(waiting', d, g, w) <=> e.value = w)
                    /\ ~Match(e, d, g) => (Last(waiting', d, g, w) <=> Last(waiting, d, g, w))
  BY <1>1, <1>2, AppendMatch
<1>11. \A d, g : Match(e, d, g) <=> e.do = d /\ f = g
  BY <1>1 DEF Match
<1>12. OnItsWay(f)'
  <2>1. CASE Whole(f)
    <3>1. None(waiting, "read", f)
      BY <2>1 DEF None, Match, Requested, RequestOK
    <3> QED
      BY <1>0, <1>1, <1>4, <1>10, <1>11, <2>1, <3>1 DEF OnItsWay
  <2>2. CASE ~Whole(f)
    BY <1>0, <1>1, <1>4, <1>10, <1>11, <2>2 DEF OnItsWay
  <2> QED
    BY <2>1, <2>2
<1>13. ASSUME NEW g \in Fields PROVE Saved(g)'
  <2>1. CASE g = f
    BY <1>12, <2>1 DEF Saved
  <2>2. CASE g # f
    BY <1>4, <1>10, <1>11, <2>2 DEF Saved, OnItsWay
  <2> QED
    BY <2>1, <2>2
<1>14. app = "desktop" => Started'
  <2>1. CASE f = "login"
    BY <1>12, <2>1 DEF Started
  <2>2. CASE f # "login"
    BY <1>4, <1>10, <1>11, <2>2, DefaultsTyped DEF Started, OnItsWay, Followers
  <2> QED
    BY <2>1, <2>2
<1>15. ASSUME app = "extension" PROVE MenuMade'
  <2>1. MenuMade /\ \A g : Whole(g) <=> g = "look"
    BY <1>15 DEF Followers, Whole
  <2>2. \A n \in 1..Len(waiting) : f \in OfMenu => waiting[n].field # "menu"
    BY <1>5, <1>15, <2>1 DEF OfMenu, Requested, RequestOK, Menus
  <2>3. \A m, n \in 1..Len(waiting') :
          waiting'[m].field = "menu" /\ waiting'[n].field \in OfMenu => m = n
    BY <1>1, <1>3, <1>5, <2>1, <2>2 DEF MenuMade, OfMenu
  <2>4. \A n \in 1..Len(waiting') :
           /\ waiting'[n].do = "removeAll" => waiting'[n].value = stored'["menu"]
           /\ waiting'[n].do = "create" => stored'["menu"] = TRUE
    BY <1>0, <1>1, <1>3, <2>1 DEF MenuMade
  <2>5. Entries(waiting') \/ applied'["menu"] = stored'["menu"]
    BY <1>0, <1>1, <1>3, <2>1 DEF MenuMade, Entries
  <2> QED
    BY <2>3, <2>4, <2>5 DEF MenuMade
<1>16. Followers'
  BY <1>14, <1>15 DEF Followers
<1> QED
  BY <1>3, <1>4, <1>5, <1>9, <1>13, <1>16

\* The first request is answered and goes, or another of its kind goes on at the end:
\* every request after the answer was there before, or is that one.
From(s, n) == IF n = Len(s) THEN 1 ELSE n + 1

\* From gives the place a request had before.
LEMMA Positions ==
    ASSUME NEW s \in Seq(Requests), s # <<>>, NEW t,
           NEW e, \/ e \notin Requests /\ t = Tail(s)
                  \/ e \in Requests /\ t = Append(Tail(s), e)
    PROVE  /\ t \in Seq(Requests) /\ Head(s) \in Requests /\ Head(s) = s[1] /\ 1 \in 1..Len(s)
           /\ \A n \in 1..Len(t) :
                 \/ From(s, n) \in 1..Len(s) /\ From(s, n) # 1 /\ t[n] = s[From(s, n)]
                 \/ From(s, n) = 1 /\ t[n] = e /\ e \in Requests
           /\ \A m, n \in 1..Len(t) : From(s, m) = From(s, n) => m = n
           /\ e \in Requests => \E n \in 1..Len(t) : t[n] = e
           /\ \A k \in 1..Len(s) : k = 1 \/ \E n \in 1..Len(t) : t[n] = s[k]
<1>1. /\ Tail(s) \in Seq(Requests) /\ Len(Tail(s)) = Len(s) - 1 /\ Len(s) \in Nat /\ Len(s) >= 1
      /\ \A n \in 1..(Len(s) - 1) : Tail(s)[n] = s[n + 1] /\ n + 1 \in 1..Len(s) /\ n + 1 # 1
      /\ Head(s) = s[1] /\ Head(s) \in Requests /\ 1 \in 1..Len(s)
  BY OneLess
<1>2. /\ t \in Seq(Requests) /\ \A n \in 1..(Len(s) - 1) : t[n] = s[n + 1] /\ n \in 1..Len(t)
      /\ \/ Len(t) = Len(s) - 1 /\ e \notin Requests
         \/ Len(t) = Len(s) /\ t[Len(s)] = e /\ e \in Requests
  <2>1. CASE e \in Requests /\ t = Append(Tail(s), e)
    <3> DEFINE r == Tail(s)
    <3>0. r \in Seq(Requests) /\ t = Append(r, e) /\ Len(r) = Len(s) - 1 /\ Len(s) \in Nat
      BY <1>1, <2>1
    <3> HIDE DEF r
    <3>1. /\ Len(t) = Len(r) + 1 /\ Len(r) \in Nat /\ t \in Seq(Requests) /\ t[Len(r) + 1] = e
          /\ \A n \in 1..Len(r) : t[n] = r[n]
      BY <2>1, <3>0, OneMore
    <3>2. Len(r) + 1 = Len(s) /\ Len(r) = Len(s) - 1 /\ Len(t) = Len(s)
      BY <3>0, <3>1
    <3>3. \A n \in 1..(Len(s) - 1) : n \in 1..Len(t) /\ n \in 1..Len(r)
      BY <1>1, <3>1, <3>2
    <3> QED
      BY <1>1, <2>1, <3>1, <3>2, <3>3 DEF r
  <2>2. CASE e \notin Requests /\ t = Tail(s)
    BY <1>1, <2>2
  <2> QED
    BY <2>1, <2>2
<1>0. Len(s) \in Nat /\ Len(s) >= 1 /\ (Len(t) = Len(s) - 1 \/ (Len(t) = Len(s) /\ e \in Requests))
  BY <1>1, <1>2
<1>3. ASSUME NEW n \in 1..Len(t)
      PROVE  n \in Nat /\ (n \in 1..(Len(s) - 1) \/ (n = Len(s) /\ e \in Requests))
  <2>1. CASE Len(t) = Len(s) - 1
    BY <1>0, <1>3, <2>1
  <2>2. CASE Len(t) = Len(s) /\ e \in Requests
    BY <1>0, <1>3, <2>2
  <2> QED
    BY <1>0, <2>1, <2>2
<1>4. ASSUME NEW n \in 1..Len(t)
      PROVE  \/ From(s, n) \in 1..Len(s) /\ From(s, n) # 1 /\ t[n] = s[From(s, n)]
             \/ From(s, n) = 1 /\ t[n] = e /\ e \in Requests
  <2>1. CASE n \in 1..(Len(s) - 1)
    <3>1. n # Len(s)
      BY <1>0, <2>1
    <3>2. From(s, n) = n + 1
      BY <3>1 DEF From
    <3> QED
      BY <1>1, <1>2, <2>1, <3>2
  <2>2. CASE n = Len(s) /\ e \in Requests
    BY <1>2, <2>2 DEF From
  <2> QED
    BY <1>3, <1>4, <2>1, <2>2
<1>5. \A m, n \in 1..Len(t) : From(s, m) = From(s, n) => m = n
  BY <1>0, <1>3 DEF From
<1>6. e \in Requests => \E n \in 1..Len(t) : t[n] = e
  BY <1>0, <1>2
<1>7. ASSUME NEW k \in 1..Len(s), k # 1 PROVE \E n \in 1..Len(t) : t[n] = s[k]
  <2>1. k - 1 \in 1..(Len(s) - 1) /\ (k - 1) + 1 = k
    BY <1>1, <1>7
  <2>2. t[k - 1] = s[k] /\ k - 1 \in 1..Len(t)
    BY <1>2, <2>1
  <2> QED
    BY <2>2
<1> QED
  BY <1>1, <1>2, <1>4, <1>5, <1>6, <1>7

\* The queue, and the menu's part of it, after an answer.
TakesFirst(e) == /\ waiting # <<>> /\ Head(waiting).do # "load"
           /\ \/ e \notin Requests /\ waiting' = Tail(waiting)
              \/ /\ e \in Requests /\ waiting' = Append(Tail(waiting), e)
                 /\ e.field = Head(waiting).field /\ e.do # "load"
                 /\ e.do \in {"read", "write"} => Head(waiting).do \in {"read", "write"}

\* The queue after an answer is made of requests that can be made.
LEMMA QueueLater ==
    ASSUME PrefsTypes, Requested, NEW e, TakesFirst(e), app' = app,
           e \in Requests => RequestOK(e)',
           \A n \in 1..Len(waiting) : \A r : n # 1 /\ r = waiting[n] => RequestOK(r)'
    PROVE  Requested' /\ waiting' \in Seq(Requests)
<1>1. /\ waiting' \in Seq(Requests) /\ Head(waiting) = waiting[1] /\ 1 \in 1..Len(waiting)
  BY Positions DEF TakesFirst, PrefsTypes
<1> DEFINE h == [n \in 1..Len(waiting') |-> From(waiting, n)]
<1>2. \A n \in 1..Len(waiting') :
            \/ h[n] \in 1..Len(waiting) /\ h[n] # 1 /\ waiting'[n] = waiting[h[n]]
            \/ h[n] = 1 /\ waiting'[n] = e /\ e \in Requests
  BY Positions DEF TakesFirst, PrefsTypes
<1> HIDE DEF h
<1>3. ASSUME NEW n \in 1..Len(waiting') PROVE RequestOK(waiting[n])'
  <2>1. CASE h[n] \in 1..Len(waiting) /\ h[n] # 1 /\ waiting'[n] = waiting[h[n]]
    BY <2>1
  <2>2. CASE waiting'[n] = e /\ e \in Requests
    BY <2>2
  <2> QED
    BY <1>2, <1>3, <2>1, <2>2
<1>4. \A n \in 1..Len(waiting) : waiting[n].do # "load"
  <2>1. ASSUME NEW n \in 1..Len(waiting), waiting[n].do = "load" PROVE FALSE
    <3>1. Len(waiting) = 1
      BY <2>1 DEF Requested
    <3> QED
      BY <1>1, <2>1, <3>1 DEF TakesFirst
  <2> QED
    BY <2>1
<1>5. \A n \in 1..Len(waiting') : waiting'[n].do # "load"
  BY <1>2, <1>4 DEF TakesFirst
<1>6. \A n \in 1..Len(waiting') :
         waiting'[n].do \in {"read", "write"} =>
            \E k \in 1..Len(waiting) : /\ waiting[k].do \in {"read", "write"}
                                       /\ waiting[k].field = waiting'[n].field
  BY <1>1, <1>2 DEF TakesFirst
<1>7. \A m, n \in 1..Len(waiting') :
          /\ waiting'[m].do \in {"read", "write"} /\ waiting'[n].do \in {"read", "write"}
          /\ ~(waiting'[m].field = "look" \/ app' = "mobile")
          /\ ~(waiting'[n].field = "look" \/ app' = "mobile")
          => waiting'[m].field = waiting'[n].field
  BY <1>6 DEF Requested, Whole
<1> QED
  BY <1>1, <1>3, <1>5, <1>7 DEF Requested, Whole

\* The menu after an answer is what is stored, or its rebuilding is on the way.
LEMMA MenuLater ==
    ASSUME PrefsTypes, Requested, MenuMade, NEW e, TakesFirst(e), app = "extension",
           stored' = stored \/ Head(waiting).field = "menu" \/ stored'["menu"] = stored["menu"],
           e \in Requests => /\ e.do = "removeAll" => e.value = stored'["menu"]
                             /\ e.do = "create" => stored'["menu"] = TRUE,
           \/ e \in Requests /\ e.field \in OfMenu
           \/ Head(waiting).field \notin OfMenu /\ applied'["menu"] = applied["menu"]
           \/ applied'["menu"] = stored'["menu"]
    PROVE  MenuMade'
<1>1. /\ waiting' \in Seq(Requests) /\ Head(waiting) = waiting[1] /\ 1 \in 1..Len(waiting)
      /\ e \in Requests => \E n \in 1..Len(waiting') : waiting'[n] = e
      /\ \A k \in 1..Len(waiting) : k = 1 \/ \E n \in 1..Len(waiting') : waiting'[n] = waiting[k]
  BY Positions DEF TakesFirst, PrefsTypes
<1> DEFINE h == [n \in 1..Len(waiting') |-> From(waiting, n)]
<1>2. /\ \A n \in 1..Len(waiting') :
            \/ h[n] \in 1..Len(waiting) /\ h[n] # 1 /\ waiting'[n] = waiting[h[n]]
            \/ h[n] = 1 /\ waiting'[n] = e /\ e \in Requests
      /\ \A m, n \in 1..Len(waiting') : h[m] = h[n] => m = n
  BY Positions DEF TakesFirst, PrefsTypes
<1> HIDE DEF h
<1>3. \A n \in 1..Len(waiting') : h[n] \in 1..Len(waiting)
                                  /\ waiting'[n].field = waiting[h[n]].field
  BY <1>1, <1>2 DEF TakesFirst
<1>4. \A m, n \in 1..Len(waiting') : h[m] = h[n] => m = n
  BY <1>1, <1>2
<1>5. \A m, n \in 1..Len(waiting') :
         waiting'[m].field = "menu" /\ waiting'[n].field \in OfMenu => m = n
  BY SMTT(30), <1>3, <1>4 DEF MenuMade
<1>6. ASSUME NEW n \in 1..Len(waiting')
      PROVE  /\ waiting'[n].do = "removeAll" => waiting'[n].value = stored'["menu"]
             /\ waiting'[n].do = "create" => stored'["menu"] = TRUE
  <2>1. CASE waiting'[n] = e /\ e \in Requests
    BY <2>1
  <2>2. CASE /\ h[n] \in 1..Len(waiting) /\ h[n] # 1 /\ waiting'[n] = waiting[h[n]]
             /\ waiting[h[n]].do \in {"removeAll", "create"}
    <3>1. waiting[h[n]].field \in OfMenu
      BY <2>2 DEF Requested, RequestOK, Menus
    <3>2. stored'["menu"] = stored["menu"]
      BY <1>1, <2>2, <3>1 DEF MenuMade
    <3> QED
      BY <2>2, <3>2 DEF MenuMade
  <2> QED
    BY <1>2, <1>6, <2>1, <2>2
<1>7. Entries(waiting') \/ applied'["menu"] = stored'["menu"]
  <2>1. CASE e \in Requests /\ e.field \in OfMenu
    BY <1>1, <2>1 DEF Entries, TakesFirst
  <2>2. CASE Head(waiting).field \notin OfMenu /\ applied'["menu"] = applied["menu"]
    <3>1. stored'["menu"] = stored["menu"]
      BY <2>2 DEF OfMenu
    <3>2. CASE Entries(waiting)
      BY <1>1, <2>2, <3>2 DEF Entries
    <3> QED
      BY <2>2, <3>1, <3>2 DEF MenuMade
  <2> QED
    BY <2>1, <2>2
<1> QED
  BY <1>5, <1>6, <1>7 DEF MenuMade

\* What the queue asks for after an answer, against what it asked for before.
LEMMA Rotates ==
    ASSUME PrefsTypes, NEW e, TakesFirst(e), NEW d, NEW g, NEW w
    PROVE  /\ None(waiting, d, g) <=> None(Tail(waiting), d, g) /\ ~Match(Head(waiting), d, g)
           /\ Last(waiting, d, g, w) <=>
                 \/ Last(Tail(waiting), d, g, w)
                 \/ /\ None(Tail(waiting), d, g) /\ Match(Head(waiting), d, g)
                    /\ Head(waiting).value = w
           /\ e \notin Requests =>
                 /\ None(waiting', d, g) <=> None(Tail(waiting), d, g)
                 /\ Last(waiting', d, g, w) <=> Last(Tail(waiting), d, g, w)
           /\ e \in Requests =>
                 /\ None(waiting', d, g) <=> None(Tail(waiting), d, g) /\ ~Match(e, d, g)
                 /\ Match(e, d, g) => (Last(waiting', d, g, w) <=> e.value = w)
                 /\ ~Match(e, d, g) =>
                       (Last(waiting', d, g, w) <=> Last(Tail(waiting), d, g, w))
<1>1. waiting \in Seq(Requests) /\ waiting # <<>>
  BY DEF TakesFirst, PrefsTypes
<1>2. Tail(waiting) \in Seq(Requests)
  BY <1>1, OneLess
<1>3. \/ e \notin Requests /\ waiting' = Tail(waiting)
      \/ e \in Requests /\ waiting' = Append(Tail(waiting), e)
  BY DEF TakesFirst
<1>4. /\ None(waiting, d, g) <=> None(Tail(waiting), d, g) /\ ~Match(Head(waiting), d, g)
      /\ Last(waiting, d, g, w) <=>
            \/ Last(Tail(waiting), d, g, w)
            \/ None(Tail(waiting), d, g) /\ Match(Head(waiting), d, g) /\ Head(waiting).value = w
  BY <1>1, TailMatch
<1>5. ASSUME e \in Requests, waiting' = Append(Tail(waiting), e)
      PROVE  /\ None(waiting', d, g) <=> None(Tail(waiting), d, g) /\ ~Match(e, d, g)
             /\ Match(e, d, g) => (Last(waiting', d, g, w) <=> e.value = w)
             /\ ~Match(e, d, g) => (Last(waiting', d, g, w) <=> Last(Tail(waiting), d, g, w))
  BY <1>2, <1>5, AppendMatch
<1> QED
  BY <1>3, <1>4, <1>5

\* The request at the head.
LEMMA FirstRequest ==
    ASSUME PrefsTypes, Requested, waiting # <<>>
    PROVE  /\ Head(waiting) \in Requests /\ Head(waiting) = waiting[1] /\ RequestOK(Head(waiting))
           /\ 1 \in 1..Len(waiting) /\ Tail(waiting) \in Seq(Requests)
           /\ Head(waiting).do \in Dos /\ Head(waiting).field \in Fields
           /\ Head(waiting).value \in Bools /\ Head(waiting).base \in [Fields -> Bools]
<1>1. /\ Head(waiting) \in Requests /\ Head(waiting) = waiting[1] /\ 1 \in 1..Len(waiting)
      /\ Tail(waiting) \in Seq(Requests)
  BY OneLess DEF PrefsTypes
<1>2. RequestOK(Head(waiting))
  BY <1>1 DEF Requested
<1> QED
  BY <1>1, <1>2 DEF Requests

\* Nothing but the queue changes, and the requests for a setting go on in their order.
LEMMA ReadGoes ==
    ASSUME PrefsTold, waiting # <<>>, Read_Answered(Head(waiting)),
           app' = app, tab' = tab, chosen' = chosen
    PROVE  PrefsTold'
<1> DEFINE request == Head(waiting)
<1>1. PrefsTypes /\ Requested /\ TabTrue /\ Followers
  BY DEF PrefsTold
<1>2. /\ request \in Requests /\ RequestOK(request) /\ request.do = "read"
      /\ request.field \in Fields /\ request.value \in Bools /\ ~Whole(request.field)
  BY <1>1, FirstRequest DEF Read_Answered, RequestOK
<1>3. /\ stored' = stored /\ applied' = applied /\ shown' = shown /\ loaded' = loaded
  BY DEF Read_Answered
<1>4. Patch(request.field, request.value) \in [Fields -> Bools]
      /\ Patch(request.field, request.value)[request.field] = request.value
      /\ \A g \in Fields : g # request.field =>
            Patch(request.field, request.value)[g] = stored[g]
  BY <1>1, <1>2 DEF Patch, PrefsTypes
<1>5. PICK e : /\ e = [request EXCEPT !.do = "write",
                                      !.base = Patch(request.field, request.value)]
               /\ waiting' = Append(Tail(waiting), e)
  BY DEF Read_Answered
<1>6. /\ e \in Requests /\ e.do = "write" /\ e.field = request.field /\ e.value = request.value
      /\ e.base[request.field] = request.value
      /\ \A g \in Fields : g # request.field => e.base[g] = stored[g]
  BY <1>2, <1>4, <1>5 DEF Requests, Dos
<1> HIDE DEF request
<1>7. TakesFirst(e)
  BY <1>2, <1>5, <1>6 DEF TakesFirst, request
<1>8. \A r : RequestOK(r) => RequestOK(r)'
  BY <1>3 DEF RequestOK, SettingsOf, Whole
<1>9. RequestOK(e)'
  BY <1>2, <1>3, <1>6 DEF RequestOK, SettingsOf, Whole, Menus
<1>10. Requested' /\ waiting' \in Seq(Requests)
  BY <1>1, <1>7, <1>8, <1>9, QueueLater DEF Requested
<1>11. PrefsTypes'
  BY <1>1, <1>3, <1>10 DEF PrefsTypes, Tabs
<1>12. ASSUME NEW g, NEW w
       PROVE  /\ Last(waiting, "read", g, w) =>
                    Last(waiting', "read", g, w)
                    \/ (None(waiting', "read", g) /\ Last(waiting', "write", g, w))
              /\ None(waiting, "read", g) => None(waiting', "read", g)
                    /\ (Last(waiting, "write", g, w) => Last(waiting', "write", g, w))
                    /\ (None(waiting, "write", g) => None(waiting', "write", g))
              /\ Last(waiting, "autostart", g, w) => Last(waiting', "autostart", g, w)
              /\ None(waiting, "autostart", g) => None(waiting', "autostart", g)
  <2>1. /\ e \in Requests /\ (Match(request, "read", g) <=> Match(e, "write", g))
        /\ ~Match(e, "read", g) /\ ~Match(e, "autostart", g)
        /\ ~Match(request, "write", g) /\ ~Match(request, "autostart", g)
        /\ e.value = request.value /\ request = Head(waiting)
    BY <1>2, <1>6 DEF Match, request
  <2>2. /\ Last(waiting, "read", g, w) =>
              Last(waiting', "read", g, w)
              \/ (None(waiting', "read", g) /\ Match(request, "read", g) /\ request.value = w)
        /\ None(waiting, "read", g) => None(waiting', "read", g) /\ ~Match(request, "read", g)
    BY <1>1, <1>7, <2>1, Rotates
  <2>3. /\ Match(e, "write", g) /\ e.value = w => Last(waiting', "write", g, w)
        /\ ~Match(e, "write", g) =>
              /\ Last(waiting, "write", g, w) => Last(waiting', "write", g, w)
              /\ None(waiting, "write", g) => None(waiting', "write", g)
    BY <1>1, <1>7, <2>1, Rotates
  <2>4. /\ Last(waiting, "autostart", g, w) => Last(waiting', "autostart", g, w)
        /\ None(waiting, "autostart", g) => None(waiting', "autostart", g)
    BY <1>1, <1>7, <2>1, Rotates
  <2> QED
    BY <2>1, <2>2, <2>3, <2>4
<1>13. \A g : OnItsWay(g) => OnItsWay(g)'
  BY <1>12 DEF OnItsWay
<1>14. \A g : Saved(g) => Saved(g)'
  BY <1>3, <1>12, <1>13 DEF Saved
<1>15. app = "desktop" => Started'
  BY <1>1, <1>3, <1>12, <1>13 DEF Followers, Started
<1>16. app = "extension" => MenuMade'
  <2> SUFFICES ASSUME app = "extension" PROVE MenuMade'
    OBVIOUS
  <2>1. request.field \in OfMenu
    BY <1>2 DEF RequestOK, SettingsOf, Whole, OfMenu
  <2> QED
    BY <1>1, <1>3, <1>6, <1>7, <2>1, MenuLater DEF Followers, request
<1>17. Followers'
  BY <1>1, <1>3, <1>15, <1>16 DEF Followers
<1>18. TabTrue'
  <2>1. \A n \in 1..Len(waiting) : ~Match(waiting[n], "load", "look")
    <3> SUFFICES ASSUME NEW n \in 1..Len(waiting), waiting[n].do = "load" PROVE FALSE
      BY DEF Match
    <3>1. Len(waiting) = 1
      BY <1>1 DEF Requested
    <3> QED
      BY <1>1, <1>2, <3>1, FirstRequest DEF request
  <2> QED
    BY <1>1, <1>3, <2>1 DEF TabTrue
<1> QED
  BY <1>10, <1>11, <1>14, <1>17, <1>18 DEF PrefsTold

\* Only a tab that has not read yet has a request of its own.
LEMMA NoLoad ==
    ASSUME PrefsTypes, Requested, waiting # <<>>, Head(waiting).do # "load"
    PROVE  \A n \in 1..Len(waiting) : waiting[n].do # "load"
<1> SUFFICES ASSUME NEW n \in 1..Len(waiting), waiting[n].do = "load" PROVE FALSE
  OBVIOUS
<1>1. Len(waiting) = 1
  BY DEF Requested
<1> QED
  BY <1>1, FirstRequest

\* A read or a write of the storage is answered.
LEMMA WriteGoes ==
    ASSUME PrefsTold, waiting # <<>>, Write_Answered(Head(waiting)),
           app' = app, tab' = tab, chosen' = chosen
    PROVE  PrefsTold'
<1> DEFINE request == Head(waiting)
           f == request.field
<1>1. PrefsTypes /\ Requested /\ TabTrue /\ Followers /\ app \in {"desktop", "extension", "mobile"}
  BY Clients DEF PrefsTold, PrefsTypes
<1>2. /\ request \in Requests /\ RequestOK(request) /\ request.do = "write"
      /\ f \in Fields /\ request.value \in Bools /\ request.base \in [Fields -> Bools]
      /\ f \in SettingsOf /\ request = waiting[1] /\ 1 \in 1..Len(waiting)
  BY <1>1, FirstRequest DEF Write_Answered, RequestOK, Menus
<1>3. /\ stored' = Written(request) /\ shown' = shown /\ loaded' = loaded
      /\ \A n \in 1..Len(waiting) : waiting[n].do # "load"
  BY <1>1, <1>2, NoLoad DEF Write_Answered
<1>4. /\ stored' \in [Fields -> Bools] /\ stored'[f] = request.value
      /\ \A g \in Fields : g # f => stored'[g] = stored[g]
  <2>1. CASE Whole(f)
    <3>1. stored' = [stored EXCEPT ![f] = request.value]
      BY <1>3, <2>1 DEF Written
    <3> QED
      BY <1>1, <1>2, <3>1 DEF PrefsTypes
  <2>2. CASE ~Whole(f)
    <3>1. stored' = [request.base EXCEPT !["look"] = stored["look"]]
      BY <1>3, <2>2 DEF Written
    <3>2. f # "look" /\ stored["look"] \in Bools
      BY <1>1, <2>2, DefaultsTyped DEF Whole, PrefsTypes
    <3>3. /\ request.base[f] = request.value
          /\ \A g \in Fields : g # f /\ g # "look" => request.base[g] = stored[g]
      BY <1>2, <2>2 DEF RequestOK
    <3> QED
      BY <1>2, <3>1, <3>2, <3>3
  <2> QED
    BY <2>1, <2>2
<1>5. PICK e : /\ \/ e \notin Requests /\ waiting' = Tail(waiting)
                  \/ e \in Requests /\ waiting' = Append(Tail(waiting), e)
               /\ e \in Requests => /\ e.field = f /\ e.value = request.value
                                    /\ e.do \in {"autostart", "menus"}
               /\ app = "desktop" /\ f = "login" => e \in Requests /\ e.do = "autostart"
               /\ app = "extension" /\ f # "look" => e \in Requests
               /\ e \in Requests /\ e.do = "menus" => app = "extension" /\ f # "look"
               /\ e \in Requests /\ e.do = "autostart" => app = "desktop" /\ f = "login"
  <2>0. Tail(waiting) \in Seq(Requests)
    BY <1>1, FirstRequest
  <2>1. CASE f = "login"
    <3>1. app = "desktop"
      BY <1>1, <1>2, <2>1 DEF SettingsOf
    <3>2. PICK e : e = [request EXCEPT !.do = "autostart"]
      OBVIOUS
    <3>3. e \in Requests /\ e.do = "autostart" /\ e.field = f /\ e.value = request.value
      BY <1>2, <3>2 DEF Requests, Dos
    <3>4. waiting' = Tail(waiting) \o <<e>>
      BY <1>2, <2>1, <3>1, <3>2 DEF Write_Answered, AfterWrite
    <3>5. waiting' = Append(Tail(waiting), e)
      BY <2>0, <3>3, <3>4, OneMore
    <3> QED
      BY <2>1, <3>1, <3>3, <3>5
  <2>2. CASE f # "login" /\ app = "extension" /\ f # "look"
    <3>2. PICK e : e = [request EXCEPT !.do = "menus"]
      OBVIOUS
    <3>3. e \in Requests /\ e.do = "menus" /\ e.field = f /\ e.value = request.value
      BY <1>2, <3>2 DEF Requests, Dos, Menus
    <3>4. waiting' = Tail(waiting) \o <<e>>
      BY <1>2, <2>2, <3>2 DEF Write_Answered, AfterWrite
    <3>5. waiting' = Append(Tail(waiting), e)
      BY <2>0, <3>3, <3>4, OneMore
    <3> QED
      BY <2>2, <3>3, <3>5
  <2>3. CASE f # "login" /\ ~(app = "extension" /\ f # "look")
    <3>1. waiting' = Tail(waiting) \o <<>>
      BY <1>2, <2>3 DEF Write_Answered, AfterWrite
    <3>2. waiting' = Tail(waiting)
      BY <2>0, <3>1
    <3>3. PICK e : e \notin Requests
      BY NotARequest
    <3> QED
      BY <2>3, <3>2, <3>3
  <2> QED
    BY <2>1, <2>2, <2>3
<1>6. TakesFirst(e)
  BY <1>2, <1>5 DEF TakesFirst
<1> HIDE DEF request, f
<1>7. applied' \in [Fields -> Bools]
      /\ (app # "mobile" => applied'["look"] = stored'["look"])
      /\ \A g \in Fields : g # "look" => applied'[g] = applied[g]
  <2>1. CASE f = "look" /\ app # "mobile"
    <3>1. applied' = [applied EXCEPT !["look"] = request.value]
      BY <1>2, <2>1 DEF Write_Answered, AfterWrite, request, f
    <3> QED
      BY <1>1, <1>2, <1>4, <2>1, <3>1, DefaultsTyped DEF PrefsTypes
  <2>2. CASE ~(f = "look" /\ app # "mobile")
    <3>1. applied' = applied
      BY <1>2, <2>2 DEF Write_Answered, AfterWrite, request, f
    <3> QED
      BY <1>1, <1>4, <2>2, <3>1, DefaultsTyped DEF PrefsTypes, Followers
  <2> QED
    BY <2>1, <2>2
<1>8. ASSUME NEW r, NEW n \in 1..Len(waiting), r = waiting[n] PROVE RequestOK(r)'
  <2>1. RequestOK(r)
    BY <1>8 DEF Requested, PrefsTold
  <2>2. ASSUME r.do = "write", ~Whole(r.field)
        PROVE  /\ r.base[r.field] = r.value
               /\ \A g \in Fields : g # r.field /\ g # "look" => r.base[g] = stored'[g]
    <3>1. /\ r.base[r.field] = r.value
          /\ \A g \in Fields : g # r.field /\ g # "look" => r.base[g] = stored[g]
      BY <2>1, <2>2 DEF RequestOK
    <3>2. f = "look" \/ f = r.field
      BY <1>1, <1>2, <1>8, <2>2 DEF Requested, Whole, f
    <3> QED
      BY <1>4, <3>1, <3>2
  <2> QED
    BY <2>1, <2>2 DEF RequestOK, SettingsOf, Whole
<1>9. ASSUME e \in Requests PROVE RequestOK(e)'
  BY <1>1, <1>2, <1>5, <1>9 DEF RequestOK, SettingsOf, Whole, Menus, OfMenu
<1>10. Requested' /\ waiting' \in Seq(Requests)
  BY <1>1, <1>6, <1>8, <1>9, QueueLater
<1>11. PrefsTypes'
  BY <1>1, <1>3, <1>4, <1>7, <1>10 DEF PrefsTypes, Tabs
<1>12. ASSUME NEW g, NEW w
       PROVE  /\ Last(waiting, "read", g, w) => Last(waiting', "read", g, w)
              /\ None(waiting, "read", g) => None(waiting', "read", g)
              /\ None(waiting, "write", g) => None(waiting', "write", g)
              /\ Last(waiting, "write", g, w) =>
                    Last(waiting', "write", g, w)
                    \/ (None(waiting', "write", g) /\ g = f /\ request.value = w)
  BY <1>1, <1>2, <1>5, <1>6, Rotates DEF Match, request, f
<1>13. ASSUME NEW g \in Fields, Saved(g) PROVE Saved(g)'
  <2>1. CASE Last(waiting, "read", g, chosen[g])
    BY <1>12, <2>1 DEF Saved, OnItsWay
  <2>2. CASE None(waiting, "read", g) /\ Last(waiting, "write", g, chosen[g])
    BY <1>4, <1>12, <2>2 DEF Saved, OnItsWay
  <2>3. CASE None(waiting, "read", g) /\ None(waiting, "write", g) /\ stored[g] = chosen[g]
    <3>1. g # f
      BY <1>2, <2>3 DEF None, Match, f, request
    <3> QED
      BY <1>4, <1>12, <2>3, <3>1 DEF Saved
  <2> QED
    BY <1>13, <2>1, <2>2, <2>3 DEF Saved, OnItsWay
<1>14. ASSUME app = "desktop" PROVE Started'
  <2>0. /\ Started /\ applied'["login"] = applied["login"]
    BY <1>1, <1>7, <1>14, DefaultsTyped DEF Followers
  <2>1. CASE Last(waiting, "read", "login", chosen["login"])
    BY <1>12, <2>1 DEF Started, OnItsWay
  <2>2. CASE None(waiting, "read", "login") /\ Last(waiting, "write", "login", chosen["login"])
    <3>1. CASE Last(waiting', "write", "login", chosen["login"])
      BY <1>12, <2>2, <3>1 DEF Started, OnItsWay
    <3>2. CASE None(waiting', "write", "login") /\ f = "login" /\ request.value = chosen["login"]
      <4>1. Match(e, "autostart", "login") /\ e \in Requests /\ e.value = chosen["login"]
        BY <1>5, <1>14, <3>2 DEF Match
      <4>2. Last(waiting', "autostart", "login", chosen["login"])
        BY <1>1, <1>6, <4>1, Rotates
      <4> QED
        BY <1>12, <2>2, <3>2, <4>2 DEF Started
    <3> QED
      BY <1>12, <2>2, <3>1, <3>2
  <2>3. CASE None(waiting, "read", "login") /\ None(waiting, "write", "login")
    <3>1. f # "login"
      BY <1>2, <2>3 DEF None, Match, f, request
    <3>2. /\ Last(waiting, "autostart", "login", chosen["login"]) =>
                Last(waiting', "autostart", "login", chosen["login"])
          /\ None(waiting, "autostart", "login") => None(waiting', "autostart", "login")
      BY <1>1, <1>2, <1>5, <1>6, <3>1, Rotates DEF Match, f, request
    <3>3. ~OnItsWay("login")
      BY <2>3 DEF OnItsWay, None, Last
    <3> QED
      BY <1>12, <2>0, <2>3, <3>2, <3>3 DEF Started
  <2> QED
    BY <2>0, <2>1, <2>2, <2>3 DEF Started, OnItsWay
<1>15. ASSUME app = "extension" PROVE MenuMade'
  <2>1. stored' = stored \/ request.field = "menu" \/ stored'["menu"] = stored["menu"]
    BY <1>4, DefaultsTyped DEF f
  <2>2. \/ e \in Requests /\ e.field \in OfMenu
        \/ request.field \notin OfMenu /\ applied'["menu"] = applied["menu"]
    <3>1. CASE f = "look"
      BY <1>7, <3>1, DefaultsTyped DEF OfMenu, f
    <3>2. CASE f # "look"
      BY <1>2, <1>5, <1>15, <3>2 DEF OfMenu, SettingsOf
    <3> QED
      BY <3>1, <3>2
  <2> QED
    BY <1>1, <1>5, <1>6, <1>15, <2>1, <2>2, MenuLater DEF Followers, request
<1>16. Followers'
  BY <1>7, <1>14, <1>15 DEF Followers
<1>17. TabTrue'
  BY <1>1, <1>3 DEF TabTrue, Match
<1> QED
  BY <1>10, <1>11, <1>13, <1>16, <1>17 DEF PrefsTold

\* An answer that stores nothing: of the autostart plugin, or of the menu.
LEMMA FollowerGoes ==
    ASSUME PrefsTold, NEW e, TakesFirst(e), Head(waiting).do \in {"autostart"} \cup Menus,
           e \in Requests => e.do \in Menus /\ RequestOK(e)',
           app' = app, tab' = tab, chosen' = chosen, stored' = stored, shown' = shown,
           loaded' = loaded, applied' \in [Fields -> Bools], applied'["look"] = applied["look"]
    PROVE  /\ PrefsTypes' /\ Requested' /\ TabTrue' /\ \A g \in Fields : Saved(g)'
           /\ (app = "desktop" => Started') /\ (app = "extension" => MenuMade') => PrefsTold'
<1> DEFINE request == Head(waiting)
<1>1. /\ PrefsTypes /\ Requested /\ TabTrue /\ Followers /\ \A g \in Fields : Saved(g)
      /\ waiting # <<>> /\ request.do \notin {"read", "write", "load"}
  BY DEF PrefsTold, TakesFirst, Menus
<1>2. \A n \in 1..Len(waiting) : waiting[n].do # "load"
  BY <1>1, NoLoad
<1> HIDE DEF request
<1>3. \A r : RequestOK(r) => RequestOK(r)'
  BY DEF RequestOK, SettingsOf, Whole
<1>4. Requested' /\ waiting' \in Seq(Requests)
  BY <1>1, <1>3, QueueLater DEF Requested
<1>5. PrefsTypes'
  BY <1>1, <1>4 DEF PrefsTypes, Tabs
<1>6. ASSUME NEW g, NEW w, NEW d \in {"read", "write"}
      PROVE  /\ Last(waiting, d, g, w) => Last(waiting', d, g, w)
             /\ None(waiting, d, g) => None(waiting', d, g)
  BY <1>1, <1>6, Rotates DEF Match, Menus, request
<1>7. \A g \in Fields : Saved(g)'
  BY <1>1, <1>6 DEF Saved, OnItsWay
<1>8. TabTrue'
  BY <1>1, <1>2 DEF TabTrue, Match
<1>9. app # "mobile" => applied'["look"] = stored'["look"]
  BY <1>1 DEF Followers
<1> QED
  BY <1>4, <1>5, <1>7, <1>8, <1>9 DEF PrefsTold, Followers

\* The autostart plugin is answered.
LEMMA AutostartGoes ==
    ASSUME PrefsTold, waiting # <<>>, Autostart_Answered(Head(waiting)), ~clash,  ~clash',
           app' = app, tab' = tab, chosen' = chosen
    PROVE  PrefsTold'
<1> DEFINE request == Head(waiting)
<1>1. PrefsTypes /\ Requested /\ Followers /\ request.do = "autostart"
  BY DEF PrefsTold, Autostart_Answered
<1>2. /\ request.field = "login" /\ app = "desktop" /\ request.value \in Bools
      /\ request \in Requests
  BY <1>1, FirstRequest, Clients DEF RequestOK, Menus, PrefsTypes
<1>3. /\ applied' = [applied EXCEPT !["login"] = request.value]
      /\ stored' = stored /\ shown' = shown /\ loaded' = loaded /\ waiting' = Tail(waiting)
  BY DEF Autostart_Answered
<1>4. /\ applied' \in [Fields -> Bools] /\ applied'["login"] = request.value
      /\ applied'["look"] = applied["look"]
  BY <1>1, <1>2, <1>3, DefaultsTyped DEF PrefsTypes
<1>5. PICK e : e \notin Requests
  BY NotARequest
<1>6. TakesFirst(e)
  BY <1>1, <1>3, <1>5 DEF TakesFirst
<1>7. Started'
  <2>1. ASSUME NEW w, NEW d \in {"read", "write"}
        PROVE  /\ Last(waiting, d, "login", w) => Last(waiting', d, "login", w)
               /\ None(waiting, d, "login") => None(waiting', d, "login")
    BY <1>1, <1>5, <1>6, <2>1, Rotates DEF Match
  <2>2. ASSUME NEW w
        PROVE  /\ Last(waiting, "autostart", "login", w) =>
                     \/ Last(waiting', "autostart", "login", w)
                     \/ None(waiting', "autostart", "login") /\ request.value = w
               /\ ~None(waiting, "autostart", "login")
    BY <1>1, <1>2, <1>5, <1>6, Rotates DEF Match
  <2>3. Started
    BY <1>1, <1>2 DEF Followers
  <2> QED
    BY <1>4, <2>1, <2>2, <2>3 DEF Started, OnItsWay
<1> QED
  BY <1>1, <1>2, <1>3, <1>4, <1>5, <1>6, <1>7, FollowerGoes DEF Menus

\* One of the calls that rebuild the menu is answered.
LEMMA MenusGo ==
    ASSUME PrefsTold, waiting # <<>>, Menus_Answered(Head(waiting)),
           app' = app, tab' = tab, chosen' = chosen
    PROVE  PrefsTold'
<1> DEFINE request == Head(waiting)
<1>1. /\ PrefsTypes /\ Requested /\ Followers /\ request.do \in Menus
      /\ stored' = stored /\ shown' = shown /\ loaded' = loaded
  BY DEF PrefsTold, Menus_Answered, Menus
<1>2. /\ request \in Requests /\ RequestOK(request) /\ request.field \in OfMenu
      /\ app = "extension" /\ Tail(waiting) \in Seq(Requests) /\ request = waiting[1]
      /\ 1 \in 1..Len(waiting) /\ request.do # "load"
  BY <1>1, FirstRequest, Clients DEF RequestOK, Menus, PrefsTypes
<1>3. MenuMade
  BY <1>1, <1>2 DEF Followers
<1>4. \E e : e \notin Requests
  BY NotARequest
<1>5. ASSUME NEW e, TakesFirst(e), e \in Requests => e.do \in Menus /\ e.field = request.field,
             e \in Requests => /\ e.do = "removeAll" => e.value = stored'["menu"]
                               /\ e.do = "create" => stored'["menu"] = TRUE,
             e \in Requests \/ applied'["menu"] = stored'["menu"],
             applied' \in [Fields -> Bools], applied'["look"] = applied["look"]
      PROVE  PrefsTold'
  <2>1. e \in Requests => RequestOK(e)'
    BY <1>1, <1>2, <1>5 DEF RequestOK, SettingsOf, Menus, Whole
  <2>2. MenuMade'
    BY <1>1, <1>2, <1>3, <1>5, MenuLater
  <2> QED
    BY <1>1, <1>2, <1>5, <2>1, <2>2, FollowerGoes
<1>6. CASE /\ request.do = "menus"
           /\ waiting' = Append(Tail(waiting),
                                [request EXCEPT !.do = "removeAll", !.value = stored["menu"]])
           /\ UNCHANGED applied
  <2>1. PICK e : e = [request EXCEPT !.do = "removeAll", !.value = stored["menu"]]
    OBVIOUS
  <2>2. stored["menu"] \in Bools
    BY <1>1, DefaultsTyped DEF PrefsTypes
  <2>3. /\ e \in Requests /\ e.do = "removeAll" /\ e.field = request.field
        /\ e.value = stored["menu"]
    BY <1>2, <2>1, <2>2 DEF Requests, Dos, Menus
  <2>4. TakesFirst(e)
    BY <1>2, <1>6, <2>1, <2>3 DEF TakesFirst
  <2> QED
    BY <1>1, <1>5, <1>6, <2>3, <2>4 DEF Menus, PrefsTypes
<1>7. CASE /\ request.do = "removeAll"
           /\ applied' = [applied EXCEPT !["menu"] = FALSE]
           /\ waiting' = Tail(waiting) \o
                            (IF request.value THEN <<[request EXCEPT !.do = "create"]>> ELSE <<>>)
  <2>0. request.value = stored["menu"] /\ request.value \in {TRUE, FALSE}
    BY <1>2, <1>3, <1>7 DEF MenuMade, Requests, Bools
  <2>1. /\ applied' \in [Fields -> Bools] /\ applied'["look"] = applied["look"]
        /\ applied'["menu"] = FALSE
    BY <1>1, <1>7, DefaultsTyped DEF PrefsTypes
  <2>2. CASE request.value = TRUE
    <3>1. PICK e : e = [request EXCEPT !.do = "create"]
      OBVIOUS
    <3>2. e \in Requests /\ e.do = "create" /\ e.field = request.field
      BY <1>2, <3>1 DEF Requests, Dos, Menus
    <3>3. waiting' = Tail(waiting) \o <<e>>
      BY <1>7, <2>2, <3>1
    <3>4. TakesFirst(e)
      BY <1>2, <3>2, <3>3, OneMore DEF TakesFirst
    <3> QED
      BY <1>1, <1>5, <2>0, <2>1, <2>2, <3>2, <3>4 DEF Menus
  <2>3. CASE request.value = FALSE
    <3>1. waiting' = Tail(waiting) \o <<>>
      BY <1>7, <2>3
    <3>2. PICK e : e \notin Requests
      BY <1>4
    <3>3. TakesFirst(e)
      BY <1>2, <3>1, <3>2, OneMore DEF TakesFirst
    <3> QED
      BY <1>1, <1>5, <2>0, <2>1, <2>3, <3>2, <3>3
  <2> QED
    BY <2>0, <2>2, <2>3
<1>8. CASE /\ request.do = "create"
           /\ applied' = [applied EXCEPT !["menu"] = TRUE]
           /\ waiting' = Tail(waiting)
  <2>0. stored["menu"] = TRUE
    BY <1>2, <1>3, <1>8 DEF MenuMade
  <2>1. /\ applied' \in [Fields -> Bools] /\ applied'["look"] = applied["look"]
        /\ applied'["menu"] = TRUE
    BY <1>1, <1>8, DefaultsTyped DEF PrefsTypes
  <2>2. PICK e : e \notin Requests
    BY <1>4
  <2>3. TakesFirst(e)
    BY <1>2, <1>8, <2>2 DEF TakesFirst
  <2> QED
    BY <1>1, <1>5, <2>0, <2>1, <2>2, <2>3
<1> QED
  BY <1>6, <1>7, <1>8, Zenon DEF Menus_Answered

\* With no save under way, what was last chosen is what is stored.
LEMMA AllStored ==
    ASSUME PrefsTold, \A n \in 1..Len(waiting) : waiting[n].do \notin {"read", "write"}
    PROVE  \A f \in Fields : stored[f] = chosen[f]
<1>1. \A d, f, v : d \in {"read", "write"} => ~Last(waiting, d, f, v)
  BY DEF Last, Match
<1> QED
  BY <1>1 DEF PrefsTold, Saved, OnItsWay

\* Nothing under way: what follows from the choices is in place.
LEMMA AllFollowed ==
    ASSUME PrefsTold, \A n \in 1..Len(waiting) : waiting[n].do = "load"
    PROVE  /\ \A f \in Fields : stored[f] = chosen[f]
           /\ \A d \in {"read", "write", "autostart"} : \A f : None(waiting, d, f)
           /\ app = "desktop" => applied["login"] = stored["login"]
           /\ app = "extension" => applied["menu"] = stored["menu"]
           /\ app # "mobile" => applied["look"] = stored["look"]
<1>1. \A f \in Fields : stored[f] = chosen[f]
  BY AllStored
<1>2. \A d \in {"read", "write", "autostart"} :
         \A f : None(waiting, d, f) /\ \A v : ~Last(waiting, d, f, v)
  BY DEF Last, None, Match
<1>3. app = "desktop" => applied["login"] = stored["login"]
  BY <1>1, <1>2, DefaultsTyped DEF PrefsTold, Followers, Started, OnItsWay
<1>4. app = "extension" => applied["menu"] = stored["menu"]
  BY DEF PrefsTold, Followers, MenuMade, Entries
<1> QED
  BY <1>1, <1>2, <1>3, <1>4 DEF PrefsTold, Followers

\* A queue of loads only, over settings that are stored and followed.
LEMMA AtRest ==
    ASSUME \A n \in 1..Len(waiting') : waiting'[n].do = "load",
           \A f \in Fields : stored'[f] = chosen'[f],
           app' = "desktop" => applied'["login"] = stored'["login"],
           app' = "extension" => applied'["menu"] = stored'["menu"],
           Len(waiting') \in Nat, Len(waiting') <= 1,
           app' # "mobile" => applied'["look"] = stored'["look"]
    PROVE  Followers' /\ \A f \in Fields : Saved(f)'
<1>1. \A d \in {"read", "write", "autostart"} : \A f : None(waiting', d, f)
  BY DEF None, Match
<1>2. \A f \in Fields : Saved(f)'
  BY <1>1 DEF Saved
<1>3. app' = "desktop" => Started'
  BY <1>1, DefaultsTyped DEF Started
<1>4. ASSUME app' = "extension" PROVE MenuMade'
  <2>1. \A m, n \in 1..Len(waiting') : m = n
    OBVIOUS
  <2> QED
    BY <1>4, <2>1 DEF MenuMade
<1> QED
  BY <1>2, <1>3, <1>4 DEF Followers

\* A tab is told what is stored.
LEMMA LoadGoes ==
    ASSUME PrefsTold, waiting # <<>>, Load_Answered(Head(waiting)),
           app' = app, tab' = tab, chosen' = chosen
    PROVE  PrefsTold'
<1> DEFINE request == Head(waiting)
           f == request.field
<1>1. PrefsTypes /\ Requested /\ TabTrue /\ app \in {"desktop", "extension", "mobile"}
  BY Clients DEF PrefsTold, PrefsTypes
<1>2. /\ request.do = "load" /\ f \in Fields /\ request = waiting[1] /\ 1 \in 1..Len(waiting)
      /\ RequestOK(request)
  BY <1>1, FirstRequest DEF Load_Answered
<1>3. /\ stored' = stored /\ applied' = applied /\ waiting' = Tail(waiting)
      /\ loaded' <=> loaded \/ f \in tab
      /\ app = "mobile" => shown' = [shown EXCEPT ![f] = stored[f]]
      /\ app # "mobile" => shown' = IF tab = {} THEN shown ELSE stored
  BY DEF Load_Answered
<1>4. Len(waiting) = 1
  BY <1>1, <1>2 DEF Requested
<1>5. waiting' \in Seq(Requests) /\ Len(waiting') = 0
  BY <1>1, <1>3, <1>4, OneLess DEF PrefsTypes
<1>6. \A n \in 1..Len(waiting) : n = 1
  BY <1>4
<1>7. \A n \in 1..Len(waiting) : waiting[n].do = "load"
  BY <1>2, <1>6
<1> HIDE DEF request
<1>8. /\ \A g \in Fields : stored[g] = chosen[g]
      /\ app = "desktop" => applied["login"] = stored["login"]
      /\ app = "extension" => applied["menu"] = stored["menu"]
      /\ app # "mobile" => applied["look"] = stored["look"]
  BY <1>7, AllFollowed
<1>9. \A n \in 1..Len(waiting') : FALSE
  BY <1>5
<1>10. Followers' /\ \A g \in Fields : Saved(g)'
  BY <1>3, <1>5, <1>8, <1>9, AtRest
<1>11. Requested'
  BY <1>9 DEF Requested
<1>12. /\ shown' \in [Fields -> Bools]
       /\ app # "mobile" /\ tab # {} => shown' = stored
       /\ app = "mobile" => /\ shown'[f] = stored[f]
                            /\ \A g \in Fields : g # f => shown'[g] = shown[g]
  BY <1>1, <1>2, <1>3 DEF PrefsTypes
<1>13. PrefsTypes'
  BY <1>1, <1>3, <1>5, <1>12 DEF PrefsTypes, Tabs
<1>14. tab \subseteq Fields
  BY <1>1 DEF PrefsTypes, Tabs, Fields, Prefs
<1>15. ASSUME loaded', NEW g \in tab PROVE shown'[g] = chosen'[g]
  <2>1. CASE app = "mobile"
    <3>1. tab = {"notify"}
      BY <1>1, <1>15, <2>1 DEF PrefsTypes, Tabs
    <3> QED
      BY <1>1, <1>3, <1>8, <1>12, <1>14, <1>15, <2>1, <3>1 DEF TabTrue
  <2>2. CASE app # "mobile"
    BY <1>8, <1>12, <1>14, <1>15, <2>2
  <2> QED
    BY <2>1, <2>2
<1>16. ASSUME app = "mobile" PROVE shown'["look"] = chosen'["look"]
  <2>1. CASE f = "look"
    BY <1>8, <1>12, <1>16, <2>1, DefaultsTyped
  <2>2. CASE f # "look"
    <3>1. \A n \in 1..Len(waiting) : ~Match(waiting[n], "load", "look")
      BY <1>2, <1>6, <2>2 DEF Match
    <3> QED
      BY <1>1, <1>12, <1>16, <2>2, <3>1, DefaultsTyped DEF TabTrue
  <2> QED
    BY <2>1, <2>2
<1>17. TabTrue'
  BY <1>1, <1>3, <1>15, <1>16 DEF TabTrue
<1> QED
  BY <1>10, <1>11, <1>13, <1>17 DEF PrefsTold

\* A tab of the settings opens and asks for what is stored.
LEMMA MountGoes ==
    ASSUME PrefsTold, NEW t \in Tabs, Mount_Tab(t), ~clash'
    PROVE  PrefsTold'
<1> DEFINE f == CHOOSE g \in t : TRUE
<1>1. PrefsTypes /\ TabTrue /\ app \in {"desktop", "extension", "mobile"}
  BY Clients DEF PrefsTold, PrefsTypes
<1>2. /\ tab = {} /\ tab' = t /\ waiting = <<>> /\ waiting' = Append(waiting, LoadOf(f))
      /\ app' = app /\ stored' = stored /\ applied' = applied /\ loaded' = loaded
      /\ shown' = shown /\ chosen' = chosen
  BY DEF Mount_Tab, Ask
<1>3. t # {} /\ t \subseteq SettingsOf /\ SettingsOf \subseteq Fields
  BY <1>1 DEF Tabs, SettingsOf, Fields, Prefs
<1>4. f \in SettingsOf /\ f \in Fields
  BY <1>3
<1>5. PICK e \in Requests : e = LoadOf(f) /\ e.do = "load" /\ e.field = f
  BY <1>4, LoadTyped
<1>6. waiting' = <<e>>
  BY <1>2, <1>5, OneRequest
<1>7. waiting' \in Seq(Requests) /\ Len(waiting') = 1 /\ \A n \in 1..Len(waiting') : waiting'[n] = e
  <2>1. <<e>> \in Seq(Requests) /\ Len(<<e>>) = 1 /\ <<e>>[1] = e
    BY <1>5, OneRequest
  <2> QED
    BY <1>6, <2>1
<1>8. /\ \A g \in Fields : stored[g] = chosen[g]
      /\ app = "desktop" => applied["login"] = stored["login"]
      /\ app = "extension" => applied["menu"] = stored["menu"]
      /\ app # "mobile" => applied["look"] = stored["look"]
  BY <1>2, AllFollowed
<1>9. Followers' /\ \A g \in Fields : Saved(g)'
  BY <1>2, <1>5, <1>7, <1>8, AtRest
<1>10. RequestOK(e)'
  BY <1>2, <1>4, <1>5 DEF RequestOK, SettingsOf, Menus
<1>11. Requested'
  BY <1>5, <1>7, <1>10 DEF Requested
<1>12. PrefsTypes'
  BY <1>1, <1>2, <1>7 DEF PrefsTypes, Tabs
<1>13. TabTrue'
  BY <1>1, <1>2, <1>3 DEF TabTrue
<1> QED
  BY <1>9, <1>11, <1>12, <1>13 DEF PrefsTold

\* The user chooses, and the choice is on its way.
LEMMA ChangeGoes ==
    ASSUME PrefsTold, NEW f \in Fields, NEW v \in Bools, f \in SettingsOf,
           Save(f, v), ~Overlap(f), chosen' = [chosen EXCEPT ![f] = v],
           stored' = stored, applied' = applied, app' = app, tab' = tab, loaded' = loaded,
           \/ shown' = [shown EXCEPT ![f] = v]
           \/ shown' = shown /\ tab = {} /\ app # "mobile"
    PROVE  PrefsTold'
<1>1. PrefsTypes /\ Requested /\ Followers /\ TabTrue /\ \A g \in Fields : Saved(g)
  BY DEF PrefsTold
<1>2. /\ waiting' \in Seq(Requests) /\ chosen' \in [Fields -> Bools]
      /\ Requested' /\ Followers' /\ \A g \in Fields : Saved(g)'
      /\ \A n \in 1..Len(waiting) : waiting[n].do # "load"
  BY <1>1, ChoiceKept
<1>3. shown' \in [Fields -> Bools]
  BY <1>1 DEF PrefsTypes
<1>4. PrefsTypes'
  BY <1>1, <1>2, <1>3 DEF PrefsTypes, Tabs
<1>5. tab \subseteq Fields
  BY <1>1, Clients DEF PrefsTypes, Tabs, Fields, Prefs
<1>6. app = "mobile" => shown["look"] = chosen["look"]
  BY <1>1, <1>2 DEF TabTrue, Match
<1>7. CASE shown' = [shown EXCEPT ![f] = v]
  <2>1. \A g \in Fields : shown[g] = chosen[g] => shown'[g] = chosen'[g]
    BY <1>1, <1>7 DEF PrefsTypes
  <2>2. TabTrue'
    BY <1>1, <1>5, <1>6, <2>1, DefaultsTyped DEF TabTrue
  <2> QED
    BY <1>2, <1>4, <2>2 DEF PrefsTold
<1>8. CASE shown' = shown /\ tab = {} /\ app # "mobile"
  <2>1. TabTrue'
    BY <1>1, <1>8 DEF TabTrue
  <2> QED
    BY <1>2, <1>4, <2>1 DEF PrefsTold
<1> QED
  BY <1>7, <1>8

\* The tab closes.
LEMMA BlankGoes ==
    ASSUME PrefsTold, Blank_Tab, waiting' = waiting, app' = app, stored' = stored,
           applied' = applied, chosen' = chosen
    PROVE  PrefsTold'
<1>1. PrefsTypes /\ Requested /\ Followers /\ TabTrue /\ \A g \in Fields : Saved(g)
  BY DEF PrefsTold
<1>2. PICK v \in Bools : v = (shown["look"] /\ app = "mobile")
  BY Zenon DEF Bools
<1>3. shown' = [DefaultPrefs EXCEPT !["look"] = v] /\ tab' = {} /\ ~loaded'
  BY <1>2 DEF Blank_Tab
<1>4. shown' \in [Fields -> Bools] /\ shown'["look"] = v
  BY <1>3, DefaultsTyped
<1>5. shown["look"] \in BOOLEAN
  BY <1>1, DefaultsTyped DEF PrefsTypes, Bools
<1>6. app = "mobile" => v = shown["look"]
  BY <1>2, <1>5
<1>7. PrefsTypes'
  BY <1>1, <1>3, <1>4 DEF PrefsTypes
<1>8. TabTrue'
  BY <1>1, <1>3, <1>4, <1>6 DEF TabTrue
<1>9. \A r : RequestOK(r) => RequestOK(r)'
  BY DEF RequestOK, SettingsOf, Whole
<1>10. Requested'
  BY <1>1, <1>9 DEF Requested, Whole
<1>11. Followers' /\ \A g \in Fields : Saved(g)'
  BY <1>1 DEF Followers, Started, MenuMade, Saved, OnItsWay
<1> QED
  BY <1>7, <1>8, <1>10, <1>11 DEF PrefsTold

\* The desktop starts for the first time and registers itself.
LEMMA FirstGoes == ASSUME PrefsTold, First_Autostart, ~clash' PROVE PrefsTold'
<1>1. PrefsTypes /\ Requested /\ TabTrue
  BY DEF PrefsTold
<1>2. /\ waiting = <<>> /\ stored["login"] /\ applied' = [applied EXCEPT !["login"] = TRUE]
      /\ app' = app /\ stored' = stored /\ tab' = tab /\ loaded' = loaded /\ shown' = shown
      /\ waiting' = waiting /\ chosen' = chosen
  BY DEF First_Autostart
<1>3. stored["login"] = TRUE
  BY <1>1, <1>2, DefaultsTyped DEF PrefsTypes, Bools
<1>4. /\ applied' \in [Fields -> Bools] /\ applied'["login"] = stored["login"]
      /\ applied'["menu"] = applied["menu"] /\ applied'["look"] = applied["look"]
  BY <1>1, <1>2, <1>3, DefaultsTyped DEF PrefsTypes
<1>5. /\ \A g \in Fields : stored[g] = chosen[g]
      /\ app = "extension" => applied["menu"] = stored["menu"]
      /\ app # "mobile" => applied["look"] = stored["look"]
  BY <1>2, AllFollowed
<1>6. Len(waiting') = 0 /\ \A n \in 1..Len(waiting') : waiting'[n].do = "load"
  BY <1>2
<1>7. Followers' /\ \A g \in Fields : Saved(g)'
  <2>1. /\ \A f \in Fields : stored'[f] = chosen'[f]
        /\ app' = "desktop" => applied'["login"] = stored'["login"]
        /\ app' = "extension" => applied'["menu"] = stored'["menu"]
        /\ app' # "mobile" => applied'["look"] = stored'["look"]
    BY <1>2, <1>4, <1>5
  <2>2. Len(waiting') \in Nat /\ Len(waiting') <= 1
    BY <1>6
  <2>3. Followers' /\ \A f \in Fields : Saved(f)'
    BY <1>6, <2>1, <2>2, AtRest
  <2> QED
    BY <2>3
<1>8. PrefsTypes'
  BY <1>1, <1>2, <1>4 DEF PrefsTypes, Tabs
<1>9. TabTrue' /\ Requested'
  BY <1>1, <1>2 DEF TabTrue, Requested
<1> QED
  BY <1>7, <1>8, <1>9 DEF PrefsTold

\* Every step keeps it, or two saves clash.
LEMMA PrefsStep == ASSUME PrefsInv, [SettingsNext]_settingsVars PROVE PrefsInv'
<1> SUFFICES ASSUME ~clash' PROVE PrefsTold'
  BY DEF PrefsInv
<1>1. ASSUME ~clash PROVE PrefsTold /\ PrefsTypes /\ app \in {"desktop", "extension", "mobile"}
  BY <1>1, Clients DEF PrefsInv, PrefsTold, PrefsTypes
<1>2. ASSUME NEW t \in Tabs, Mount_Tab(t) PROVE PrefsTold'
  <2>1. ~clash
    BY <1>2 DEF Mount_Tab
  <2> QED
    BY <1>1, <1>2, <2>1, MountGoes
<1>3. ASSUME NEW f \in Fields, NEW v \in Bools, Change_Setting(f, v), f \in SettingsOf
      PROVE  PrefsTold'
  <2>1. /\ ~clash /\ ~Overlap(f) /\ Save(f, v) /\ chosen' = [chosen EXCEPT ![f] = v]
        /\ shown' = [shown EXCEPT ![f] = v] /\ app' = app /\ stored' = stored
        /\ applied' = applied /\ tab' = tab /\ loaded' = loaded
    BY <1>3 DEF Change_Setting
  <2> QED
    BY <1>1, <1>3, <2>1, ChangeGoes
<1>4. ASSUME NEW f \in Prefs, Toggle_Pref(f) PROVE PrefsTold'
  <2>1. f \in tab /\ f \in Fields /\ f # "look" /\ Change_Setting(f, ~shown[f]) /\ ~clash
    BY <1>4 DEF Toggle_Pref, Fields, Change_Setting
  <2>2. f \in SettingsOf
    BY <1>1, <2>1 DEF PrefsTypes, Tabs, SettingsOf
  <2>3. PICK v \in Bools : v = ~shown[f]
    BY Zenon DEF Bools
  <2>4. Change_Setting(f, v)
    BY <2>1, <2>3
  <2> QED
    BY <1>3, <2>1, <2>2, <2>4
<1>5. ASSUME Toggle_Notify PROVE PrefsTold'
  <2>1. "notify" \in Fields /\ Change_Setting("notify", ~shown["notify"]) /\ app = "mobile"
    BY <1>5, DefaultsTyped DEF Toggle_Notify
  <2>2. "notify" \in SettingsOf
    BY <2>1 DEF SettingsOf
  <2>3. PICK v \in Bools : v = ~shown["notify"]
    BY Zenon DEF Bools
  <2>4. Change_Setting("notify", v)
    BY <2>1, <2>3
  <2> QED
    BY <1>3, <2>1, <2>2, <2>4
<1>6. ~clash => "look" \in SettingsOf
  BY <1>1 DEF SettingsOf
<1>7. ASSUME NEW v \in BOOLEAN, Pick_Look(v) PROVE PrefsTold'
  <2>1. Change_Setting("look", v) /\ v \in Bools /\ ~clash
    BY <1>7 DEF Pick_Look, Bools, Change_Setting
  <2> QED
    BY <1>3, <1>6, <2>1, DefaultsTyped
<1>8. ASSUME NEW v \in BOOLEAN, Finish_Appearance(v) PROVE PrefsTold'
  <2>1. /\ v \in Bools /\ ~clash /\ ~Overlap("look") /\ Save("look", v)
        /\ chosen' = [chosen EXCEPT !["look"] = v] /\ tab = {}
        /\ shown' = IF app = "mobile" THEN [shown EXCEPT !["look"] = v] ELSE shown
        /\ app' = app /\ stored' = stored /\ applied' = applied /\ tab' = tab
        /\ loaded' = loaded
    BY <1>8 DEF Finish_Appearance, Bools
  <2> QED
    BY <1>1, <1>6, <2>1, ChangeGoes, DefaultsTyped
<1>9. ASSUME Unmount_Tab PROVE PrefsTold'
  <2>1. /\ ~clash /\ Blank_Tab /\ waiting' = waiting /\ app' = app /\ stored' = stored
        /\ applied' = applied /\ chosen' = chosen
    BY <1>9 DEF Unmount_Tab
  <2> QED
    BY <1>1, <2>1, BlankGoes
<1>10. ASSUME Popup_Gone PROVE PrefsTold'
  <2>1. /\ ~clash /\ Blank_Tab /\ waiting' = waiting /\ app' = app /\ stored' = stored
        /\ applied' = applied /\ chosen' = chosen
    BY <1>10 DEF Popup_Gone
  <2> QED
    BY <1>1, <2>1, BlankGoes
<1>11. ASSUME Settings_Answer PROVE PrefsTold'
  <2> DEFINE request == Head(waiting)
  <2>1. /\ waiting # <<>> /\ app' = app /\ tab' = tab /\ chosen' = chosen
        /\ \/ Load_Answered(request) \/ Read_Answered(request) \/ Write_Answered(request)
           \/ Autostart_Answered(request) \/ Menus_Answered(request)
           \/ Nothing_Answered(request)
    BY <1>11 DEF Settings_Answer
  <2>2. ~clash
    BY <2>1 DEF Load_Answered, Read_Answered, Write_Answered, Autostart_Answered,
                Menus_Answered, Nothing_Answered
  <2>3. PrefsTold
    BY <1>1, <2>2
  <2>4. ~Nothing_Answered(request)
    BY <2>1, <2>3, FirstRequest DEF PrefsTold, Nothing_Answered, RequestOK, Menus
  <2> QED
    BY <2>1, <2>2, <2>3, <2>4, LoadGoes, ReadGoes, WriteGoes, AutostartGoes, MenusGo
<1>12. ASSUME First_Autostart PROVE PrefsTold'
  BY <1>1, <1>12, FirstGoes DEF First_Autostart
<1>13. ASSUME UNCHANGED settingsVars PROVE PrefsTold'
  <2>1. /\ app' = app /\ stored' = stored /\ applied' = applied /\ tab' = tab
        /\ (loaded' <=> loaded) /\ shown' = shown /\ waiting' = waiting /\ chosen' = chosen
        /\ (clash' <=> clash)
    BY <1>13, Zenon DEF settingsVars
  <2>2. PrefsTold
    BY <1>1, <2>1
  <2>3. \A r : RequestOK(r) => RequestOK(r)'
    BY <2>1 DEF RequestOK, SettingsOf, Whole
  <2>4. PrefsTypes' /\ Requested'
    BY <2>1, <2>2, <2>3 DEF PrefsTold, PrefsTypes, Tabs, Requested, Whole
  <2>5. TabTrue'
    BY <2>1, <2>2 DEF PrefsTold, TabTrue
  <2>6. Followers' /\ \A g \in Fields : Saved(g)'
    BY <2>1, <2>2 DEF PrefsTold, Followers, Started, MenuMade, Saved, OnItsWay
  <2> QED
    BY <2>4, <2>5, <2>6 DEF PrefsTold
<1> QED
  BY <1>2, <1>4, <1>5, <1>7, <1>8, <1>9, <1>10, <1>11, <1>12, <1>13 DEF SettingsNext

\* With nothing under way the choice is stored, shown and followed.
LEMMA PrefsNow == PrefsInv => PrefsTrue
<1> SUFFICES ASSUME PrefsTold, waiting = <<>>
             PROVE  /\ stored = chosen
                    /\ \A f \in tab : loaded => shown[f] = stored[f]
                    /\ app = "mobile" => shown["look"] = stored["look"]
                    /\ \A f \in Followed : applied[f] = stored[f]
  BY DEF PrefsInv, PrefsTrue
<1>1. PrefsTypes /\ TabTrue /\ app \in {"desktop", "extension", "mobile"}
  BY Clients DEF PrefsTold, PrefsTypes
<1>2. /\ \A g \in Fields : stored[g] = chosen[g]
      /\ app = "desktop" => applied["login"] = stored["login"]
      /\ app = "extension" => applied["menu"] = stored["menu"]
      /\ app # "mobile" => applied["look"] = stored["look"]
  BY AllFollowed
<1>3. stored = chosen
  BY <1>1, <1>2 DEF PrefsTypes
<1>4. \A n \in 1..Len(waiting) : FALSE
  OBVIOUS
<1> QED
  BY <1>1, <1>2, <1>3, <1>4 DEF TabTrue, Followed

\* PrefsTrue: with nothing under way what was chosen last is stored, shown and
\* followed, for any number of changes, tabs and answers, until two saves clash or
\* one fails (settings.ts, prefs.ts, GeneralTab.tsx, CaptureTab.tsx, menus.ts).
THEOREM ChoicesKept == SettingsSpec => []PrefsTrue
<1>1. SettingsInit => PrefsInv
  BY PrefsStart
<1>2. PrefsInv /\ [SettingsNext]_settingsVars => PrefsInv'
  BY PrefsStep
<1>3. PrefsInv => PrefsTrue
  BY PrefsNow
<1> QED
  BY <1>1, <1>2, <1>3, PTL DEF SettingsSpec

\* What the variables hold, even after two saves have clashed.
SwitchTypes ==
    /\ PrefsTypes /\ Len(waiting) <= MaxWaiting + 1
SwitchFlags == loaded \in BOOLEAN /\ first \in BOOLEAN /\ clash \in BOOLEAN

LEMMA SwitchStart == SettingsInit => SwitchTypes /\ SwitchFlags
<1> SUFFICES ASSUME SettingsInit PROVE SwitchTypes /\ SwitchFlags
  OBVIOUS
<1>1. waiting \in Seq(Requests) /\ Len(waiting) <= 1
  BY LoadTyped, DefaultsTyped, OneRequest DEF SettingsInit
<1>2. [f \in Fields |-> ~DefaultPrefs[f]] \in [Fields -> Bools]
  BY DEF Bools
<1>3. PrefsTypes
  BY <1>1, <1>2, DefaultsTyped DEF SettingsInit, PrefsTypes
<1>4. SwitchFlags
  BY Zenon DEF SettingsInit, SwitchFlags
<1> QED
  BY <1>1, <1>3, <1>4, SettingsAssumption DEF SwitchTypes

\* A request that is made finds room.
LEMMA JoinsTyped ==
    ASSUME SwitchTypes, NEW e \in Requests, Ask(e)
    PROVE  waiting' \in Seq(Requests) /\ Len(waiting') <= MaxWaiting + 1
<1>1. waiting \in Seq(Requests) /\ waiting' = Append(waiting, e) /\ Len(waiting) < MaxWaiting
  BY DEF SwitchTypes, PrefsTypes, Ask
<1>2. Len(waiting') = Len(waiting) + 1 /\ Len(waiting) \in Nat /\ waiting' \in Seq(Requests)
  BY <1>1, OneMore
<1> QED
  BY <1>1, <1>2, SettingsAssumption

\* A queue whose first request goes while another joins is as long as it was.
LEMMA Turned ==
    ASSUME NEW s \in Seq(Requests), s # <<>>, NEW e \in Requests
    PROVE  Append(Tail(s), e) \in Seq(Requests) /\ Len(Append(Tail(s), e)) = Len(s)
<1> DEFINE t == Tail(s)
<1>1. t \in Seq(Requests) /\ Len(t) = Len(s) - 1 /\ Len(s) \in Nat
  BY OneLess
<1> HIDE DEF t
<1>2. Append(t, e) \in Seq(Requests) /\ Len(Append(t, e)) = Len(t) + 1
  BY <1>1, OneMore
<1>3. Len(Append(t, e)) = Len(s)
  BY <1>1, <1>2
<1> QED
  BY <1>2, <1>3 DEF t

\* One that is answered makes room for at most one more.
LEMMA ReplacedTyped ==
    ASSUME SwitchTypes, waiting # <<>>,
           \/ waiting' = Tail(waiting)
           \/ \E e \in Requests : waiting' = Append(Tail(waiting), e)
    PROVE  waiting' \in Seq(Requests) /\ Len(waiting') <= MaxWaiting + 1
<1>1. waiting \in Seq(Requests) /\ Len(waiting) <= MaxWaiting + 1
  BY DEF SwitchTypes, PrefsTypes
<1>2. Tail(waiting) \in Seq(Requests) /\ Len(Tail(waiting)) = Len(waiting) - 1 /\ Len(waiting) \in Nat
  BY <1>1, OneLess
<1>3. CASE waiting' = Tail(waiting)
  BY <1>1, <1>2, <1>3, SettingsAssumption
<1>4. ASSUME NEW e \in Requests, waiting' = Append(Tail(waiting), e)
      PROVE  waiting' \in Seq(Requests) /\ Len(waiting') <= MaxWaiting + 1
  BY <1>1, <1>4, Turned
<1> QED
  BY <1>3, <1>4

\* A choice is a request, and is shown.
LEMMA ChangeTyped ==
    ASSUME SwitchTypes, NEW f \in Fields, NEW v \in Bools, Save(f, v),
           app' = app, tab' = tab, stored' = stored, applied' = applied,
           shown' = shown \/ shown' = [shown EXCEPT ![f] = v], chosen' = [chosen EXCEPT ![f] = v]
    PROVE  SwitchTypes'
<1>1. PICK e : e = Request(IF Whole(f) THEN "write" ELSE "read", f, v, DefaultPrefs) /\ Ask(e)
  BY DEF Save
<1>2. e \in Requests
  BY <1>1, RequestTyped, DefaultsTyped DEF Dos
<1>3. waiting' \in Seq(Requests) /\ Len(waiting') <= MaxWaiting + 1
  BY <1>1, <1>2, JoinsTyped
<1>4. shown' \in [Fields -> Bools] /\ chosen' \in [Fields -> Bools]
  BY DEF SwitchTypes, PrefsTypes
<1> QED
  BY <1>3, <1>4 DEF SwitchTypes, PrefsTypes, Tabs

\* A tab that goes leaves the defaults.
LEMMA BlankTyped ==
    ASSUME SwitchTypes, Blank_Tab, app' = app, stored' = stored, applied' = applied,
           chosen' = chosen, waiting' \in Seq(Requests), Len(waiting') = Len(waiting)
    PROVE  SwitchTypes'
<1>1. PICK v \in Bools : v = (shown["look"] /\ app = "mobile")
  BY Zenon DEF Bools
<1>2. shown' = [DefaultPrefs EXCEPT !["look"] = v] /\ tab' = {}
  BY <1>1 DEF Blank_Tab
<1>3. shown' \in [Fields -> Bools]
  BY <1>2, DefaultsTyped
<1> QED
  BY <1>2, <1>3 DEF SwitchTypes, PrefsTypes, Tabs

\* The popup's requests stay requests.
LEMMA PopupTyped ==
    ASSUME SwitchTypes, Popup_Gone
    PROVE  SwitchTypes'
<1>1. /\ waiting \in Seq(Requests) /\ DOMAIN waiting = 1..Len(waiting) /\ Len(waiting) \in Nat
      /\ \A n \in 1..Len(waiting) : waiting[n] \in Requests
  BY DEF SwitchTypes, PrefsTypes
<1> DEFINE Left(r) == [r EXCEPT !.do = IF @ = "read" THEN "nothing" ELSE "written"]
<1>2. ASSUME NEW r \in Requests PROVE Left(r) \in Requests
  BY DEF Requests, Dos
<1>3. waiting' = [n \in DOMAIN waiting |->
                    IF waiting[n].do \in {"read", "write"} THEN Left(waiting[n]) ELSE waiting[n]]
  BY DEF Popup_Gone
<1> HIDE DEF Left
<1>4. waiting' \in [1..Len(waiting) -> Requests]
  BY <1>1, <1>2, <1>3
<1>5. waiting' \in Seq(Requests) /\ Len(waiting') = Len(waiting)
  BY <1>1, <1>4
<1>6. /\ Blank_Tab /\ app' = app /\ stored' = stored /\ applied' = applied /\ chosen' = chosen
  BY DEF Popup_Gone
<1> QED
  BY <1>5, <1>6, BlankTyped

\* An answer changes what is stored, shown or followed to what it is about.
LEMMA AnswerTyped ==
    ASSUME SwitchTypes, Settings_Answer
    PROVE  SwitchTypes'
<1> DEFINE request == Head(waiting)
<1>1. /\ waiting # <<>> /\ app' = app /\ tab' = tab /\ chosen' = chosen
      /\ \/ Load_Answered(request) \/ Read_Answered(request) \/ Write_Answered(request)
         \/ Autostart_Answered(request) \/ Menus_Answered(request) \/ Nothing_Answered(request)
  BY Zenon DEF Settings_Answer
<1>2. /\ stored \in [Fields -> Bools] /\ applied \in [Fields -> Bools]
      /\ shown \in [Fields -> Bools] /\ Tail(waiting) \in Seq(Requests)
      /\ request \in Requests /\ request.field \in Fields /\ request.value \in Bools
      /\ request.base \in [Fields -> Bools]
  <2>1. waiting \in Seq(Requests) /\ stored \in [Fields -> Bools] /\ applied \in [Fields -> Bools]
        /\ shown \in [Fields -> Bools]
    BY DEF SwitchTypes, PrefsTypes
  <2>2. request \in Requests /\ Tail(waiting) \in Seq(Requests)
    BY <1>1, <2>1, OneLess
  <2> QED
    BY <2>1, <2>2 DEF Requests
<1> HIDE DEF request
<1> DEFINE Replaced == \/ waiting' = Tail(waiting)
                       \/ \E e \in Requests : waiting' = Append(Tail(waiting), e)
<1>3. ASSUME Replaced, stored' \in [Fields -> Bools], applied' \in [Fields -> Bools],
             shown' \in [Fields -> Bools]
      PROVE  SwitchTypes'
  <2>1. waiting' \in Seq(Requests) /\ Len(waiting') <= MaxWaiting + 1
    BY <1>1, <1>3, ReplacedTyped
  <2> QED
    BY <1>1, <1>3, <2>1 DEF SwitchTypes, PrefsTypes, Tabs
<1>4. \A e : Tail(waiting) \o <<e>> = Append(Tail(waiting), e) /\ Tail(waiting) \o <<>> = Tail(waiting)
  BY <1>2
<1>5. CASE Load_Answered(request)
  <2>1. /\ waiting' = Tail(waiting) /\ stored' = stored /\ applied' = applied
        /\ \/ shown' = [shown EXCEPT ![request.field] = stored[request.field]]
           \/ shown' = shown \/ shown' = stored
    BY <1>5, Zenon DEF Load_Answered
  <2> QED
    BY <1>2, <1>3, <2>1
<1>6. CASE Read_Answered(request)
  <2>1. PICK e : /\ e = [request EXCEPT !.do = "write", !.base = Patch(request.field, request.value)]
                 /\ waiting' = Append(Tail(waiting), e)
    BY <1>6 DEF Read_Answered
  <2>2. Patch(request.field, request.value) \in [Fields -> Bools]
    BY <1>2 DEF Patch
  <2>3. e \in Requests
    BY <1>2, <2>1, <2>2 DEF Requests, Dos
  <2> QED
    BY <1>2, <1>3, <1>6, <2>1, <2>3 DEF Read_Answered
<1>7. CASE Write_Answered(request)
  <2>1. stored' \in [Fields -> Bools]
    <3>1. \/ stored' = [stored EXCEPT ![request.field] = request.value]
          \/ stored' = [request.base EXCEPT !["look"] = stored["look"]]
      BY <1>7, Zenon DEF Write_Answered, Written
    <3> QED
      BY <1>2, <3>1, DefaultsTyped
  <2>2. applied' \in [Fields -> Bools]
    <3>1. applied' = applied \/ applied' = [applied EXCEPT !["look"] = request.value]
      BY <1>7, Zenon DEF Write_Answered, AfterWrite
    <3> QED
      BY <1>2, <3>1, DefaultsTyped
  <2>3. /\ [request EXCEPT !.do = "autostart"] \in Requests
        /\ [request EXCEPT !.do = "menus"] \in Requests
    BY <1>2 DEF Requests, Dos, Menus
  <2>4. \/ waiting' = Tail(waiting) \o <<[request EXCEPT !.do = "autostart"]>>
        \/ waiting' = Tail(waiting) \o <<[request EXCEPT !.do = "menus"]>>
        \/ waiting' = Tail(waiting) \o <<>>
    <3>1. CASE app = "desktop" /\ request.field = "login" /\ request.do = "write"
      BY <1>7, <3>1 DEF Write_Answered, AfterWrite
    <3>2. CASE app = "extension" /\ request.field # "look"
      BY <1>7, <3>2 DEF Write_Answered, AfterWrite
    <3>3. CASE /\ ~(app = "desktop" /\ request.field = "login" /\ request.do = "write")
               /\ ~(app = "extension" /\ request.field # "look")
      BY <1>7, <3>3 DEF Write_Answered, AfterWrite
    <3> QED
      BY <3>1, <3>2, <3>3
  <2>5. Replaced
    BY <1>4, <2>3, <2>4
  <2> QED
    BY <1>2, <1>3, <1>7, <2>1, <2>2, <2>5 DEF Write_Answered
<1>8. CASE Autostart_Answered(request)
  <2>1. /\ waiting' = Tail(waiting) /\ stored' = stored /\ shown' = shown
        /\ applied' = applied \/ applied' = [applied EXCEPT !["login"] = request.value]
    BY <1>8, Zenon DEF Autostart_Answered
  <2> QED
    BY <1>2, <1>3, <2>1, DefaultsTyped
<1>9. CASE Menus_Answered(request)
  <2>1. /\ stored' = stored /\ shown' = shown
        /\ applied' = applied \/ applied' = [applied EXCEPT !["menu"] = FALSE]
           \/ applied' = [applied EXCEPT !["menu"] = TRUE]
        /\ \/ waiting' = Append(Tail(waiting),
                                [request EXCEPT !.do = "removeAll", !.value = stored["menu"]])
           \/ waiting' = Tail(waiting) \o <<[request EXCEPT !.do = "create"]>>
           \/ waiting' = Tail(waiting) \o <<>>
           \/ waiting' = Tail(waiting)
    BY <1>9, Zenon DEF Menus_Answered
  <2>2. stored["menu"] \in Bools
    BY <1>2, DefaultsTyped
  <2>3. /\ [request EXCEPT !.do = "removeAll", !.value = stored["menu"]] \in Requests
        /\ [request EXCEPT !.do = "create"] \in Requests
    BY <1>2, <2>2 DEF Requests, Dos, Menus
  <2>4. Replaced
    BY <1>4, <2>1, <2>3
  <2>5. applied' \in [Fields -> Bools]
    BY <1>2, <2>1, DefaultsTyped
  <2> QED
    BY <1>2, <1>3, <2>1, <2>4, <2>5
<1>10. CASE Nothing_Answered(request)
  <2>1. waiting' = Tail(waiting) /\ stored' = stored /\ applied' = applied /\ shown' = shown
    BY <1>10, Zenon DEF Nothing_Answered
  <2> QED
    BY <1>2, <1>3, <2>1
<1> QED
  BY <1>1, <1>5, <1>6, <1>7, <1>8, <1>9, <1>10

\* Every step of the settings keeps the types.
LEMMA SwitchStep == ASSUME SwitchTypes, [SettingsNext]_settingsVars PROVE SwitchTypes'
<1>1. ASSUME NEW t \in Tabs, Mount_Tab(t) PROVE SwitchTypes'
  <2>1. app \in {"desktop", "extension", "mobile"}
    BY Clients DEF SwitchTypes, PrefsTypes
  <2>2. (CHOOSE f \in t : TRUE) \in t /\ t \subseteq Fields
    <3>1. t # {} /\ t \subseteq Fields
      BY <2>1 DEF Tabs, Fields, Prefs
    <3> QED
      BY <3>1
  <2>3. LoadOf(CHOOSE f \in t : TRUE) \in Requests
    BY <2>2, LoadTyped
  <2>4. waiting' \in Seq(Requests) /\ Len(waiting') <= MaxWaiting + 1
    BY <1>1, <2>3, JoinsTyped DEF Mount_Tab
  <2>5. /\ app' = app /\ stored' = stored /\ applied' = applied /\ shown' = shown
        /\ chosen' = chosen /\ tab' = t
    BY <1>1, Zenon DEF Mount_Tab
  <2> QED
    BY <2>4, <2>5 DEF SwitchTypes, PrefsTypes, Tabs
<1>2. ASSUME NEW f \in Fields, NEW v \in Bools, Change_Setting(f, v) PROVE SwitchTypes'
  <2>1. /\ Save(f, v) /\ app' = app /\ tab' = tab /\ stored' = stored /\ applied' = applied
        /\ shown' = [shown EXCEPT ![f] = v] /\ chosen' = [chosen EXCEPT ![f] = v]
    BY <1>2, Zenon DEF Change_Setting
  <2> QED
    BY <2>1, ChangeTyped
<1>3. ASSUME NEW f \in Prefs, Toggle_Pref(f) PROVE SwitchTypes'
  <2>1. f \in Fields /\ Change_Setting(f, ~shown[f])
    BY <1>3 DEF Toggle_Pref, Fields
  <2>2. PICK v \in Bools : v = ~shown[f]
    BY Zenon DEF Bools
  <2> QED
    BY <1>2, <2>1, <2>2
<1>4. ASSUME Toggle_Notify PROVE SwitchTypes'
  <2>1. Change_Setting("notify", ~shown["notify"])
    BY <1>4 DEF Toggle_Notify
  <2>2. PICK v \in Bools : v = ~shown["notify"]
    BY Zenon DEF Bools
  <2> QED
    BY <1>2, <2>1, <2>2, DefaultsTyped
<1>5. ASSUME NEW v \in BOOLEAN, Pick_Look(v) PROVE SwitchTypes'
  <2>1. Change_Setting("look", v) /\ v \in Bools
    BY <1>5 DEF Pick_Look, Bools
  <2> QED
    BY <1>2, <2>1, DefaultsTyped
<1>6. ASSUME NEW v \in BOOLEAN, Finish_Appearance(v) PROVE SwitchTypes'
  <2>1. /\ v \in Bools /\ Save("look", v) /\ chosen' = [chosen EXCEPT !["look"] = v]
        /\ shown' = shown \/ shown' = [shown EXCEPT !["look"] = v]
        /\ app' = app /\ tab' = tab /\ stored' = stored /\ applied' = applied
    BY <1>6, Zenon DEF Finish_Appearance, Bools
  <2> QED
    BY <2>1, ChangeTyped, DefaultsTyped
<1>7. ASSUME Unmount_Tab PROVE SwitchTypes'
  <2>1. /\ Blank_Tab /\ waiting' = waiting /\ app' = app /\ stored' = stored
        /\ applied' = applied /\ chosen' = chosen
    BY <1>7 DEF Unmount_Tab
  <2>2. waiting' \in Seq(Requests) /\ Len(waiting') = Len(waiting)
    BY <2>1 DEF SwitchTypes, PrefsTypes
  <2> QED
    BY <2>1, <2>2, BlankTyped
<1>8. ASSUME First_Autostart PROVE SwitchTypes'
  <2>1. /\ applied' = [applied EXCEPT !["login"] = TRUE]
        /\ app' = app /\ stored' = stored /\ tab' = tab /\ shown' = shown
        /\ waiting' = waiting /\ chosen' = chosen
    BY <1>8, Zenon DEF First_Autostart
  <2>2. PICK v \in Bools : v = TRUE
    BY Zenon DEF Bools
  <2>3. applied' = [applied EXCEPT !["login"] = v]
    BY <2>1, <2>2
  <2>4. applied' \in [Fields -> Bools]
    BY <2>3 DEF SwitchTypes, PrefsTypes
  <2> QED
    BY <2>1, <2>4 DEF SwitchTypes, PrefsTypes, Tabs
<1>9. ASSUME UNCHANGED settingsVars PROVE SwitchTypes'
  <2>1. /\ app' = app /\ stored' = stored /\ applied' = applied /\ tab' = tab
        /\ shown' = shown /\ waiting' = waiting /\ chosen' = chosen
    BY <1>9, Zenon DEF settingsVars
  <2> QED
    BY <2>1 DEF SwitchTypes, PrefsTypes, Tabs
<1> QED
  BY <1>1, <1>3, <1>4, <1>5, <1>6, <1>7, <1>8, <1>9, PopupTyped, AnswerTyped DEF SettingsNext

\* The flags are flags.
LEMMA SwitchFlagsStep == SwitchFlags /\ [SettingsNext]_settingsVars => SwitchFlags'
<1> SUFFICES ASSUME SwitchFlags, [SettingsNext]_settingsVars PROVE SwitchFlags'
  OBVIOUS
<1> USE DEF SwitchFlags
<1>1. ASSUME NEW t, Mount_Tab(t) PROVE SwitchFlags'
  BY <1>1, Zenon DEF Mount_Tab
<1>2. ASSUME NEW f, NEW v, Change_Setting(f, v) PROVE SwitchFlags'
  BY <1>2, Zenon DEF Change_Setting
<1>3. ASSUME NEW f, Toggle_Pref(f) PROVE SwitchFlags'
  BY <1>2, <1>3, Zenon DEF Toggle_Pref
<1>4. ASSUME NEW v, Pick_Look(v) \/ Toggle_Notify PROVE SwitchFlags'
  BY <1>2, <1>4, Zenon DEF Pick_Look, Toggle_Notify
<1>5. ASSUME NEW v, Finish_Appearance(v) PROVE SwitchFlags'
  BY <1>5, Zenon DEF Finish_Appearance
<1>6. CASE Unmount_Tab \/ Popup_Gone
  BY <1>6, Zenon DEF Unmount_Tab, Popup_Gone, Blank_Tab
<1>7. CASE Settings_Answer
  <2>1. ASSUME NEW r, \/ Load_Answered(r) \/ Read_Answered(r) \/ Write_Answered(r)
                      \/ Autostart_Answered(r) \/ Menus_Answered(r) \/ Nothing_Answered(r)
        PROVE  loaded' \in BOOLEAN /\ clash' \in BOOLEAN
    BY <2>1, Zenon DEF Load_Answered, Read_Answered, Write_Answered, Autostart_Answered,
       Menus_Answered, Nothing_Answered
  <2> QED
    BY <1>7, <2>1, Zenon DEF Settings_Answer
<1>8. CASE First_Autostart
  BY <1>8, Zenon DEF First_Autostart
<1>9. CASE UNCHANGED settingsVars
  BY <1>9, Zenon DEF settingsVars
<1> QED
  BY <1>1, <1>3, <1>4, <1>5, <1>6, <1>7, <1>8, <1>9, Zenon DEF SettingsNext

LEMMA SettingsTyped == SwitchTypes /\ SwitchFlags => SettingsTypeOK
<1> SUFFICES ASSUME SwitchTypes, SwitchFlags PROVE SettingsTypeOK
  OBVIOUS
<1>1. app \in {"desktop", "extension", "mobile"}
  BY Clients DEF SwitchTypes, PrefsTypes
<1>2. tab \subseteq Fields
  BY <1>1 DEF SwitchTypes, PrefsTypes, Tabs, Fields, Prefs
<1>3. {stored, applied, shown, chosen} \subseteq [Fields -> BOOLEAN]
  BY DEF SwitchTypes, PrefsTypes, Bools
<1> QED
  BY <1>2, <1>3 DEF SwitchTypes, PrefsTypes, SwitchFlags, SettingsTypeOK

-----------------------------------------------------------------------------
\* The parts together, one of which runs.

AlertsPart == AlertsTypeOK
FeedScreenPart == FeedScreenInv
CapturePart == CaptureInv /\ CaptureMade /\ CaptureSaid
HotkeysPart == HotkeysInv
AccountsPart == LimitInv /\ CloseInv /\ ClockInv
WindowsPart == WinTypes /\ WinFlags
OnboardingPart == OnboardingInv /\ phone \in BOOLEAN
SharePart == ShareInv /\ ShareFlags
SettingsPart == SwitchTypes /\ SwitchFlags
CommandLinePart == CliTypes /\ broken \in BOOLEAN
DeviceScreensPart == DeviceInv /\ Counters /\ heard <= MaxHeard
ComposingPart == AimInv
FeedListPart == PillInv
NativePart == YieldInv

\* The part that runs is as it is when it runs by itself.
PartInv ==
    /\ part = "alerts" => AlertsPart
    /\ part = "feed_screen" => FeedScreenPart
    /\ part = "capture" => CapturePart
    /\ part = "hotkeys" => HotkeysPart
    /\ part = "accounts" => AccountsPart
    /\ part = "windows" => WindowsPart
    /\ part = "onboarding" => OnboardingPart
    /\ part = "share" => SharePart
    /\ part = "settings" => SettingsPart
    /\ part = "command_line" => CommandLinePart
    /\ part = "device_screens" => DeviceScreensPart
    /\ part = "composing" => ComposingPart
    /\ part = "feed_list" => FeedListPart
    /\ part = "native" => NativePart

\* Whichever part it is, the step is one of its own.
LEMMA Turn ==
    ASSUME [Next]_allVars
    PROVE  /\ part' = part
           /\ part = "alerts" => [AlertsNext]_alertVars
           /\ part = "feed_screen" => [FeedScreenNext]_feedScreenVars
           /\ part = "capture" => [CaptureNext]_captureVars
           /\ part = "hotkeys" => [HotkeysNext]_hotkeyVars
           /\ part = "accounts" => [AccountsNext]_accountVars
           /\ part = "windows" => [WindowsNext]_windowVars
           /\ part = "onboarding" => [OnboardingNext]_onboardingVars
           /\ part = "share" => [ShareNext]_shareVars
           /\ part = "settings" => [SettingsNext]_settingsVars
           /\ part = "command_line" => [CommandLineNext]_cliVars
           /\ part = "device_screens" =>
                 [DeviceScreensNext]_deviceScreenVars /\ (heard' <= MaxHeard \/ heard' = heard)
           /\ part = "composing" => [ComposingNext]_composeVars
           /\ part = "feed_list" => [FeedListNext]_feedListVars
           /\ part = "native" => [NativeNext]_nativeVars
<1>1. Settings_Answer => SettingsNext
  BY DEF SettingsNext
<1>2. CASE UNCHANGED allVars
  <2>1. UNCHANGED deviceScreenVars => heard' = heard
    BY DEF deviceScreenVars
  <2> QED
    BY <1>2, <2>1 DEF allVars
<1>3. CASE Next
  <2>1. part' = part
    BY <1>3 DEF Next, OthersStay
  <2> QED
    BY <1>1, <1>3, <2>1 DEF Next
<1> QED
  BY <1>2, <1>3

\* The steps of the parts keep what is theirs, and so do those that change nothing.
LEMMA PartsStep ==
    /\ AlertsPart /\ [AlertsNext]_alertVars => AlertsPart'
    /\ CommandLinePart /\ [CommandLineNext]_cliVars => CommandLinePart'
    /\ WindowsPart /\ [WindowsNext]_windowVars => WindowsPart'
    /\ SettingsPart /\ [SettingsNext]_settingsVars => SettingsPart'
    /\ DeviceScreensPart /\ [DeviceScreensNext]_deviceScreenVars
          /\ (heard' <= MaxHeard \/ heard' = heard) => DeviceScreensPart'
<1>1. AlertsPart /\ [AlertsNext]_alertVars => AlertsPart'
  <2>1. AlertsTypeOK /\ UNCHANGED alertVars => AlertsTypeOK'
    BY DEF alertVars, AlertsTypeOK
  <2> QED
    BY <2>1, AlertsTypeStep DEF AlertsPart
<1>2. CommandLinePart /\ [CommandLineNext]_cliVars => CommandLinePart'
  <2>1. CommandLinePart /\ UNCHANGED cliVars => CommandLinePart'
    BY DEF cliVars, CommandLinePart, CliTypes, Senders
  <2> QED
    BY <2>1, CliTypesStep, BrokenStep DEF CommandLinePart
<1>3. WindowsPart /\ [WindowsNext]_windowVars => WindowsPart'
  <2>1. WinTypes /\ UNCHANGED windowVars => WinTypes'
    <3> SUFFICES ASSUME WinTypes, UNCHANGED windowVars PROVE WinTypes'
      OBVIOUS
    <3>1. /\ running' = running /\ items' = items /\ tombstones' = tombstones
          /\ uploaded' = uploaded /\ entries' = entries /\ posting' = posting
          /\ failures' = failures /\ toCancel' = toCancel /\ drawn' = drawn /\ listNow' = listNow
          /\ listAsked' = listAsked /\ listSaved' = listSaved /\ jobs' = jobs /\ win' = win
          /\ view' = view
      BY Zenon DEF windowVars
    <3> QED
      BY <3>1 DEF WinTypes, WinSets, WinJobs, JobOK
  <2> QED
    BY <2>1, TypesStep, WinFlagsStep DEF WindowsPart
<1>4. SettingsPart /\ [SettingsNext]_settingsVars => SettingsPart'
  BY SwitchStep, SwitchFlagsStep DEF SettingsPart
<1>5. DeviceScreensPart /\ [DeviceScreensNext]_deviceScreenVars
         /\ (heard' <= MaxHeard \/ heard' = heard) => DeviceScreensPart'
  <2>1. DeviceInv /\ UNCHANGED deviceScreenVars => DeviceInv'
    BY QuietStep DEF deviceScreenVars
  <2>2. heard <= MaxHeard /\ (heard' <= MaxHeard \/ heard' = heard) => heard' <= MaxHeard
    OBVIOUS
  <2> QED
    BY <2>1, <2>2, DeviceStep, CountersStep DEF DeviceScreensPart
<1> QED
  BY <1>1, <1>2, <1>3, <1>4, <1>5

\* Every part begins as it should.
LEMMA PartStart == Init => PartInv
<1> SUFFICES ASSUME Init PROVE PartInv
  OBVIOUS
<1>1. /\ AlertsInit /\ FeedScreenInit /\ CaptureInit /\ HotkeysInit /\ AccountsInit /\ WindowsInit
      /\ OnboardingInit /\ ShareInit /\ SettingsInit /\ CommandLineInit /\ DeviceScreensInit
      /\ ComposingInit /\ FeedListInit /\ NativeInit
  BY DEF Init, InitAlerts, InitHotkeys, InitWindows, InitOnboarding, InitShare, InitSettings,
         InitCommandLine, InitDeviceScreens, InitComposing, InitFeedList
<1>2. AlertsPart /\ FeedScreenPart /\ CapturePart /\ HotkeysPart
  BY <1>1, AlertsTypeStart, FeedScreenStart, CaptureStart, CaptureFlagsStart, HotkeysStart
     DEF AlertsPart, FeedScreenPart, CapturePart, HotkeysPart
<1>3. AccountsPart /\ WindowsPart /\ OnboardingPart
  <2>1. phone \in BOOLEAN
    BY <1>1, Zenon DEF OnboardingInit
  <2> QED
    BY <1>1, <2>1, LimitStart, CloseStart, ClockStart, WinStart, WinFlagsStart, OnboardingStart
       DEF AccountsPart, WindowsPart, OnboardingPart
<1>4. SharePart /\ SettingsPart
  BY <1>1, ShareStart, ShareTypesStart, SwitchStart DEF SharePart, SettingsPart
<1>5. CommandLinePart
  <2>1. CliTypes
    BY <1>1, CliStart DEF CliInv
  <2>2. broken \in BOOLEAN
    BY <1>1, Zenon DEF CommandLineInit
  <2> QED
    BY <2>1, <2>2 DEF CommandLinePart
<1>6. DeviceScreensPart
  <2>1. DeviceInv /\ heard = 0 /\ edits = 0
    BY <1>1, DeviceStart DEF DeviceScreensInit
  <2> QED
    BY <2>1, DeviceScreensAssumption DEF DeviceScreensPart, Counters, MaxHeard
<1>7. ComposingPart /\ FeedListPart /\ NativePart
  BY <1>1, AimStart, PillStart, YieldStart DEF ComposingPart, FeedListPart, NativePart
<1> QED
  BY <1>2, <1>3, <1>4, <1>5, <1>6, <1>7 DEF PartInv

\* The part that runs keeps what is its own.
LEMMA PartStep == ASSUME PartInv, [Next]_allVars PROVE PartInv'
<1>0. part' = part
  BY Turn
<1>1. ASSUME part = "alerts" PROVE AlertsPart'
  <2>1. AlertsPart /\ [AlertsNext]_alertVars
    BY <1>1, Turn DEF PartInv
  <2> QED
    BY <2>1, PartsStep
<1>2. ASSUME part = "feed_screen" PROVE FeedScreenPart'
  <2>1. FeedScreenPart /\ [FeedScreenNext]_feedScreenVars
    BY <1>2, Turn DEF PartInv
  <2> QED
    BY <2>1, FeedScreenStep DEF FeedScreenPart
<1>3. ASSUME part = "capture" PROVE CapturePart'
  <2>1. CapturePart /\ [CaptureNext]_captureVars
    BY <1>3, Turn DEF PartInv
  <2> QED
    BY <2>1, CaptureStep, CaptureFlagsStep DEF CapturePart, CaptureInv
<1>4. ASSUME part = "hotkeys" PROVE HotkeysPart'
  <2>1. HotkeysPart /\ [HotkeysNext]_hotkeyVars
    BY <1>4, Turn DEF PartInv
  <2> QED
    BY <2>1, HotkeysStep DEF HotkeysPart
<1>5. ASSUME part = "accounts" PROVE AccountsPart'
  <2>1. AccountsPart /\ [AccountsNext]_accountVars
    BY <1>5, Turn DEF PartInv
  <2> QED
    BY <2>1, LimitStep, CloseStep, ClockStep DEF AccountsPart
<1>6. ASSUME part = "windows" PROVE WindowsPart'
  <2>1. WindowsPart /\ [WindowsNext]_windowVars
    BY <1>6, Turn DEF PartInv
  <2> QED
    BY <2>1, PartsStep
<1>7. ASSUME part = "onboarding" PROVE OnboardingPart'
  <2>1. OnboardingPart /\ [OnboardingNext]_onboardingVars
    BY <1>7, Turn DEF PartInv
  <2> QED
    BY <2>1, OnboardingStep, PhoneStays DEF OnboardingPart
<1>8. ASSUME part = "share" PROVE SharePart'
  <2>1. SharePart /\ [ShareNext]_shareVars
    BY <1>8, Turn DEF PartInv
  <2> QED
    BY <2>1, ShareStep, ShareTypesStep DEF SharePart
<1>9. ASSUME part = "settings" PROVE SettingsPart'
  <2>1. SettingsPart /\ [SettingsNext]_settingsVars
    BY <1>9, Turn DEF PartInv
  <2> QED
    BY <2>1, PartsStep
<1>10. ASSUME part = "command_line" PROVE CommandLinePart'
  <2>1. CommandLinePart /\ [CommandLineNext]_cliVars
    BY <1>10, Turn DEF PartInv
  <2> QED
    BY <2>1, PartsStep
<1>11. ASSUME part = "device_screens" PROVE DeviceScreensPart'
  <2>1. DeviceScreensPart /\ [DeviceScreensNext]_deviceScreenVars /\ (heard' <= MaxHeard \/ heard' = heard)
    BY <1>11, Turn DEF PartInv
  <2> QED
    BY <2>1, PartsStep
<1>12. ASSUME part = "composing" PROVE ComposingPart'
  <2>1. ComposingPart /\ [ComposingNext]_composeVars
    BY <1>12, Turn DEF PartInv
  <2> QED
    BY <2>1, AimStep DEF ComposingPart
<1>13. ASSUME part = "feed_list" PROVE FeedListPart'
  <2>1. FeedListPart /\ [FeedListNext]_feedListVars
    BY <1>13, Turn DEF PartInv
  <2> QED
    BY <2>1, PillStep DEF FeedListPart
<1>14. ASSUME part = "native" PROVE NativePart'
  <2>1. NativePart /\ [NativeNext]_nativeVars
    BY <1>14, Turn DEF PartInv
  <2> QED
    BY <2>1, YieldStep DEF NativePart
<1> QED
  BY <1>0, <1>1, <1>2, <1>3, <1>4, <1>5, <1>6, <1>7, <1>8, <1>9,
     <1>10, <1>11, <1>12, <1>13, <1>14 DEF PartInv

\* What each part keeps gives its types.
LEMMA PartTyped == PartInv => ClientsTypeOK
<1> SUFFICES ASSUME PartInv PROVE ClientsTypeOK
  OBVIOUS
<1>1. FeedScreenPart => FeedScreenTypeOK
  BY DEF FeedScreenPart, FeedScreenInv
<1>2. CapturePart => CaptureTypeOK
  BY CaptureTyped DEF CapturePart, CaptureInv
<1>3. HotkeysPart => HotkeysTypeOK
  BY DEF HotkeysPart, HotkeysInv
<1>4. OnboardingPart => OnboardingTypeOK
  <2> SUFFICES ASSUME OnboardingInv, phone \in BOOLEAN PROVE OnboardingTypeOK
    BY DEF OnboardingPart
  <2>1. /\ form.server \in Servers \cup {Nowhere} /\ form.at \in FormStages
        /\ main.server \in Servers \cup {Nowhere} /\ shareCopy.server \in Servers \cup {Nowhere}
    BY DEF OnboardingInv
  <2>2. {url, baseUrl, form.server, main.server, shareCopy.server} \subseteq Servers \cup {Nowhere}
    BY <2>1 DEF OnboardingInv
  <2> QED
    BY <2>1, <2>2 DEF OnboardingInv, OnboardingTypeOK, FormStages
<1>5. DeviceScreensPart => DeviceScreensTypeOK
  <2> SUFFICES ASSUME DeviceScreensPart PROVE DeviceScreensTypeOK
    OBVIOUS
  <2>1. heard \in 0..(2 * MaxEdits + 1) /\ edits \in 0..MaxEdits
    BY DeviceScreensAssumption DEF DeviceScreensPart, Counters, MaxHeard
  <2>2. ASSUME NEW c \in calls
        PROVE  /\ c.want \in DeviceNames \cup {Unlisted, "list"}
               /\ c.got \in DeviceNames \cup {Unlisted, "refused"}
               /\ c.stage \in {"asked", "served", "kept"}
    <3>1. Honest(c) /\ DeviceInv
      BY <2>2 DEF DeviceScreensPart, DeviceInv
    <3> QED
      BY <3>1 DEF Honest, IsCall
  <2> QED
    BY <2>1, <2>2 DEF DeviceScreensPart, DeviceInv, DeviceScreensTypeOK
<1>6. ComposingPart => ComposingTypeOK
  BY DEF ComposingPart, AimInv
<1>7. FeedListPart => FeedListTypeOK
  <2> SUFFICES ASSUME ListTypes PROVE FeedListTypeOK
    BY DEF FeedListPart, PillInv
  <2>1. 1..drawnIds \subseteq Ids
    BY DEF ListTypes, Ids
  <2> QED
    BY <2>1 DEF ListTypes, FeedListTypeOK
<1>8. NativePart => NativeTypeOK
  BY DEF NativePart, YieldInv
<1> QED
  BY <1>1, <1>2, <1>3, <1>4, <1>5, <1>6, <1>7, <1>8, AccountsTyped, WindowsTyped, ShareTyped,
     SettingsTyped, CommandLineTyped
     DEF PartInv, ClientsTypeOK, AlertsPart, AccountsPart, WindowsPart, SharePart, SettingsPart,
         CommandLinePart

\* ClientsTypeOK: the variables of every part hold what is said of them as long as it
\* runs, for any constants.  That the messages heard of at one time are few is the
\* bound of the run.
THEOREM ClientsTyped == Spec => []ClientsTypeOK
BY PartStart, PartStep, PartTyped, PTL DEF Spec
=============================================================================

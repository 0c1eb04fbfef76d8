---------------------------- MODULE DesktopProofs ----------------------------
(***************************************************************************)
(* Proofs about the windows of the extension and the desktop, and about    *)
(* the native side of the desktop, for any number of items, versions,      *)
(* requests, captures, events and combinations.                            *)
(***************************************************************************)
EXTENDS DesktopCapture, Hotkeys, NativeWindows, Windows, TLAPS

-----------------------------------------------------------------------------
\* The windows: what they show once everything has arrived.

\* The requests that add an item, those about items, those about sends, all of them.
Adds == {"item", "upserted"}
OfItems == Adds \cup {"item_deleted"}
OfSends == {"outbox_changed", "upserted", "delivered", "rejected"}
Kinds == OfItems \cup OfSends \cup {"devices", "devices_cached", "snapshot", "first", "nobody"}
Jobs == [then : Kinds, arg : Things \cup Nat, left : 1..2]

\* The queue holds a request of one of these kinds; one about this thing.
Kind(s, K) == \E n \in 1..Len(s) : s[n].then \in K
Has(s, K, i) == \E n \in 1..Len(s) : s[n].then \in K /\ s[n].arg = i

\* What the requests are about.
JobOK(j) ==
    /\ j.then = "devices" => j.arg \in 0..listNow
    /\ j.then \in OfItems => j.arg \in Things
    /\ j.then \in {"delivered", "rejected"} => j.arg \in Own

\* What the sets hold, and what the queue of requests holds.
WinSets ==
    /\ items \subseteq Things /\ items \cap tombstones = {} /\ tombstones \subseteq Things
    /\ uploaded \subseteq Things /\ failures \subseteq Own /\ drawn \subseteq Own
    /\ posting \subseteq entries /\ entries \subseteq drawn /\ toCancel \subseteq Own
    /\ listNow \in 0..LastVersion /\ listSaved \in 0..listNow
    /\ listAsked \in Seq(0..LastVersion) /\ Len(listAsked) <= MaxFetches
    /\ win \in {"closed", "opening", "late", "ready"}
    /\ view \in [items : SUBSET Things, pending : SUBSET Own, devices : Nat]

WinJobs ==
    /\ jobs \in Seq(Jobs) /\ Len(jobs) <= MaxJobs
    /\ \A n \in 1..Len(jobs) : JobOK(jobs[n])

WinTypes == WinSets /\ WinJobs

\* The event that adds an item comes before the one that takes it away.
InOrder(s) ==
    \A m, n \in 1..Len(s) :
        s[m].then \in Adds /\ s[n].then = "item_deleted" /\ s[m].arg = s[n].arg
        => (m < n /\ s[m].left <= s[n].left) \/ (n < m /\ s[m].left < s[n].left)

\* What is stored and what the events on the way say agree.
ItemEvents ==
    /\ InOrder(jobs)
    /\ \A i \in Things : /\ Has(jobs, {"item_deleted"}, i) => i \in tombstones
                         /\ Has(jobs, Adds, i) => i \in items \cup tombstones
                         /\ Has(jobs, Adds, i) /\ i \notin items => Has(jobs, {"item_deleted"}, i)

\* An open window lacks only items whose event is on the way.
Shown ==
    win = "ready" =>
        /\ view.devices = listSaved
        /\ \A i \in Things : /\ i \in items \ view.items => Has(jobs, Adds, i)
                             /\ i \in view.items \ items => Has(jobs, {"item_deleted"}, i)

\* The list of sends it shows is the stored one, or it will be told.
SendEvents ==
    /\ running \/ (failures = {} /\ posting = {} /\ ~unheard /\ ~Kind(jobs, OfSends))
    /\ win = "ready" => \/ unheard \/ view.pending = Pending
                        \/ Kind(jobs, OfSends)

\* Facts about sequences: their elements, what Append and Tail do to each position.
LEMMA SeqElements ==
    ASSUME NEW S, NEW s \in Seq(S) PROVE \A n \in 1..Len(s) : s[n] \in S
OBVIOUS

\* An element is appended after the others.
LEMMA SeqAppend ==
    ASSUME NEW S, NEW s \in Seq(S), NEW e \in S
    PROVE  /\ Append(s, e) \in Seq(S) /\ Len(Append(s, e)) = Len(s) + 1 /\ Len(s) \in Nat
           /\ \A n \in 1..Len(s) : Append(s, e)[n] = s[n]
           /\ Append(s, e)[Len(s) + 1] = e
OBVIOUS

\* The first element goes and the others move up.
LEMMA SeqTail ==
    ASSUME NEW S, NEW s \in Seq(S), s # <<>>
    PROVE  /\ Tail(s) \in Seq(S) /\ Len(Tail(s)) = Len(s) - 1 /\ Len(s) \in Nat /\ Len(s) >= 1
           /\ \A n \in 1..Len(s) - 1 : Tail(s)[n] = s[n + 1]
           /\ Head(s) = s[1] /\ Head(s) \in S
OBVIOUS

\* What the queue holds after a request joined it.
LEMMA HasAppend ==
    ASSUME NEW s \in Seq(Jobs), NEW e \in Jobs, NEW K
    PROVE  /\ Kind(Append(s, e), K) <=> Kind(s, K) \/ e.then \in K
           /\ \A i : Has(Append(s, e), K, i) <=> Has(s, K, i) \/ (e.then \in K /\ e.arg = i)
<1>1. /\ Len(Append(s, e)) = Len(s) + 1 /\ Len(s) \in Nat
      /\ \A n \in 1..Len(s) : Append(s, e)[n] = s[n]
      /\ Append(s, e)[Len(s) + 1] = e
  BY SeqAppend
<1>2. \A n \in 1..Len(s) + 1 : n \in 1..Len(s) \/ n = Len(s) + 1
  BY <1>1
<1>3. \A n \in 1..Len(s) : n \in 1..Len(s) + 1
  BY <1>1
<1>4. Len(s) + 1 \in 1..Len(s) + 1
  BY <1>1
<1> QED
  BY <1>1, <1>2, <1>3, <1>4, Zenon DEF Has, Kind

\* What the queue held before its first request went.
LEMMA HasTail ==
    ASSUME NEW s \in Seq(Jobs), s # <<>>, NEW K
    PROVE  /\ Kind(s, K) <=> Kind(Tail(s), K) \/ Head(s).then \in K
           /\ \A i : Has(s, K, i) <=> Has(Tail(s), K, i) \/ (Head(s).then \in K /\ Head(s).arg = i)
<1>1. /\ Len(Tail(s)) = Len(s) - 1 /\ Len(s) \in Nat /\ Len(s) >= 1
      /\ \A n \in 1..Len(s) - 1 : Tail(s)[n] = s[n + 1]
      /\ Head(s) = s[1]
  BY SeqTail
<1>2. \A n \in 1..Len(s) : n = 1 \/ (n - 1 \in 1..Len(s) - 1 /\ Tail(s)[n - 1] = s[n])
  BY <1>1
<1>3. 1 \in 1..Len(s) /\ \A n \in 1..Len(s) - 1 : n + 1 \in 1..Len(s)
  BY <1>1
<1>4. Kind(s, K) <=> Kind(Tail(s), K) \/ Head(s).then \in K
  BY <1>1, <1>2, <1>3 DEF Kind
<1>5. ASSUME NEW i PROVE Has(s, K, i) <=> Has(Tail(s), K, i) \/ (Head(s).then \in K /\ Head(s).arg = i)
  <2>1. Has(s, K, i) => Has(Tail(s), K, i) \/ (Head(s).then \in K /\ Head(s).arg = i)
    <3> SUFFICES ASSUME NEW n \in 1..Len(s), s[n].then \in K, s[n].arg = i, n # 1
                 PROVE  Has(Tail(s), K, i)
      BY <1>1 DEF Has
    <3> QED
      BY <1>1, <1>2 DEF Has
  <2>2. Has(Tail(s), K, i) => Has(s, K, i)
    BY <1>1, <1>3 DEF Has
  <2>3. Head(s).then \in K /\ Head(s).arg = i => Has(s, K, i)
    BY <1>1, <1>3 DEF Has
  <2> QED
    BY <2>1, <2>2, <2>3
<1> QED
  BY <1>4, <1>5

\* The order survives the end of the first request.
LEMMA OrderTail ==
    ASSUME NEW s \in Seq(Jobs), s # <<>>, InOrder(s) PROVE InOrder(Tail(s))
<1>1. /\ Len(Tail(s)) = Len(s) - 1 /\ Len(s) \in Nat /\ Len(s) >= 1
      /\ \A n \in 1..Len(s) - 1 : Tail(s)[n] = s[n + 1]
  BY SeqTail
<1>2. \A n \in 1..Len(s) - 1 : n + 1 \in 1..Len(s)
  BY <1>1
<1> SUFFICES ASSUME NEW m \in 1..Len(s) - 1, NEW n \in 1..Len(s) - 1,
                    s[m + 1].then \in Adds, s[n + 1].then = "item_deleted",
                    s[m + 1].arg = s[n + 1].arg
             PROVE  \/ m < n /\ s[m + 1].left <= s[n + 1].left
                    \/ n < m /\ s[m + 1].left < s[n + 1].left
  BY <1>1 DEF InOrder
<1>3. \/ m + 1 < n + 1 /\ s[m + 1].left <= s[n + 1].left
      \/ n + 1 < m + 1 /\ s[m + 1].left < s[n + 1].left
  BY <1>2 DEF InOrder
<1> QED
  BY <1>3

\* The order survives a request that joins, if it is not overtaken by the other one
\* about its item.
LEMMA OrderAppend ==
    ASSUME NEW s \in Seq(Jobs), NEW e \in Jobs, InOrder(s),
           \A n \in 1..Len(s) : s[n].arg = e.arg =>
              /\ e.then \in Adds /\ s[n].then = "item_deleted" => e.left < s[n].left
              /\ e.then = "item_deleted" /\ s[n].then \in Adds => s[n].left <= e.left
    PROVE  InOrder(Append(s, e))
<1>1. /\ Len(Append(s, e)) = Len(s) + 1 /\ Len(s) \in Nat
      /\ \A n \in 1..Len(s) : Append(s, e)[n] = s[n]
      /\ Append(s, e)[Len(s) + 1] = e
  BY SeqAppend
<1> DEFINE t == Append(s, e)
<1> SUFFICES ASSUME NEW m \in 1..Len(s) + 1, NEW n \in 1..Len(s) + 1,
                    t[m].then \in Adds, t[n].then = "item_deleted", t[m].arg = t[n].arg
             PROVE  \/ m < n /\ t[m].left <= t[n].left
                    \/ n < m /\ t[m].left < t[n].left
  BY <1>1 DEF InOrder
<1> HIDE DEF t
<1>2. CASE m \in 1..Len(s) /\ n \in 1..Len(s)
  BY <1>1, <1>2 DEF InOrder, t
<1>3. CASE m \in 1..Len(s) /\ n = Len(s) + 1
  BY <1>1, <1>3 DEF t
<1>4. CASE m = Len(s) + 1 /\ n \in 1..Len(s)
  BY <1>1, <1>4 DEF t
<1>5. CASE m = Len(s) + 1 /\ n = Len(s) + 1
  BY <1>1, <1>5 DEF t, Adds
<1> QED
  BY <1>1, <1>2, <1>3, <1>4, <1>5

\* Nothing is open and nothing is asked for at first.
LEMMA WinStart == WindowsInit => WinTypes /\ ItemEvents /\ Shown /\ SendEvents
<1> SUFFICES ASSUME WindowsInit PROVE WinTypes /\ ItemEvents /\ Shown /\ SendEvents
  OBVIOUS
<1>1. /\ jobs = <<>> /\ listAsked = <<>> /\ win = "closed" /\ view = Blank /\ failures = {}
      /\ uploaded = items \cup tombstones /\ posting = {} /\ toCancel = {}
  BY DEF WindowsInit
<1>2. jobs \in Seq(Jobs) /\ Len(jobs) = 0 /\ listAsked \in Seq(0..LastVersion) /\ Len(listAsked) = 0
  BY <1>1
<1>3. view \in [items : SUBSET Things, pending : SUBSET Own, devices : Nat]
  BY <1>1 DEF Blank
<1>4. WinTypes
  BY <1>1, <1>2, <1>3, WindowsAssumption DEF WindowsInit, WinTypes, WinSets, WinJobs, Things
<1>5. ItemEvents
  BY <1>2 DEF ItemEvents, InOrder, Has
<1>6. ~unheard
  BY DEF WindowsInit
<1>7. SendEvents /\ Shown
  BY <1>1, <1>2, <1>6 DEF SendEvents, Shown, Kind
<1> QED
  BY <1>4, <1>5, <1>7

\* The fields of a request.
LEMMA JobOf ==
    ASSUME NEW then \in Kinds, NEW arg \in Things \cup Nat, NEW left \in 1..2
    PROVE  LET e == Job(then, arg, left) IN
              e \in Jobs /\ e.then = then /\ e.arg = arg /\ e.left = left
BY DEF Job, Jobs

\* A request joins the queue.
LEMMA Queued ==
    ASSUME WinJobs, NEW then \in Kinds, NEW arg \in Things \cup Nat, NEW left \in 1..2,
           Queue(Job(then, arg, left)), listNow' = listNow,
           then = "devices" => arg \in 0..listNow,
           then \in OfItems => arg \in Things,
           then \in {"delivered", "rejected"} => arg \in Own
    PROVE  WinJobs'
<1> DEFINE e == Job(then, arg, left)
<1>1. e \in Jobs /\ e.then = then /\ e.arg = arg
  BY JobOf
<1>2. jobs' = Append(jobs, e) /\ Len(jobs) < MaxJobs /\ jobs \in Seq(Jobs)
  BY DEF Queue, WinJobs
<1>3. JobOK(e)'
  BY <1>1 DEF JobOK
<1>4. \A j : JobOK(j) => JobOK(j)'
  BY DEF JobOK
<1> HIDE DEF e
<1>5. /\ jobs' \in Seq(Jobs) /\ Len(jobs') = Len(jobs) + 1 /\ Len(jobs) \in Nat
      /\ \A n \in 1..Len(jobs) : jobs'[n] = jobs[n]
      /\ jobs'[Len(jobs) + 1] = e
  BY <1>1, <1>2, SeqAppend
<1>6. ASSUME NEW n \in 1..Len(jobs') PROVE JobOK(jobs[n])'
  <2>1. CASE n = Len(jobs) + 1
    BY <1>3, <1>5, <2>1
  <2>2. CASE n \in 1..Len(jobs)
    BY <1>4, <1>5, <2>2 DEF WinJobs
  <2> QED
    BY <1>5, <2>1, <2>2
<1>7. Len(jobs') <= MaxJobs
  BY <1>2, <1>5, WindowsAssumption
<1> QED
  BY <1>5, <1>6, <1>7 DEF WinJobs

\* A queue that stays speaks of versions of the list that still exist.
LEMMA SameJobs ==
    WinJobs /\ jobs' = jobs /\ {listNow, listNow'} \subseteq Nat /\ listNow' >= listNow => WinJobs'
BY DEF WinJobs, JobOK

\* The first request is answered; another may join.
LEMMA AnsweredJobs ==
    ASSUME WinJobs, jobs # <<>>, listNow' = listNow,
           \/ jobs' = Rest
           \/ \E e \in Jobs : JobOK(e) /\ jobs' = Append(Rest, e)
    PROVE  WinJobs'
<1>1. /\ Rest \in Seq(Jobs) /\ Len(Rest) = Len(jobs) - 1 /\ Len(jobs) \in Nat
      /\ \A n \in 1..Len(jobs) - 1 : Rest[n] = jobs[n + 1]
      /\ Len(jobs) <= MaxJobs /\ MaxJobs \in Nat
  BY SeqTail, WindowsAssumption DEF WinJobs, Rest
<1>2. \A n \in 1..Len(jobs) - 1 : JobOK(Rest[n])
  <2>1. \A n \in 1..Len(jobs) - 1 : n + 1 \in 1..Len(jobs)
    BY <1>1
  <2> QED
    BY <1>1, <2>1 DEF WinJobs
<1>3. \A j : JobOK(j) => JobOK(j)'
  BY DEF JobOK
<1>4. CASE jobs' = Rest
  BY <1>1, <1>2, <1>3, <1>4 DEF WinJobs
<1>5. ASSUME NEW e \in Jobs, JobOK(e), jobs' = Append(Rest, e) PROVE WinJobs'
  <2>1. /\ jobs' \in Seq(Jobs) /\ Len(jobs') = Len(jobs)
        /\ \A n \in 1..Len(jobs) - 1 : jobs'[n] = Rest[n]
        /\ jobs'[Len(jobs)] = e
    BY <1>1, <1>5, SeqAppend
  <2>2. ASSUME NEW n \in 1..Len(jobs') PROVE JobOK(jobs[n])'
    <3>1. CASE n = Len(jobs)
      BY <1>3, <1>5, <2>1, <3>1
    <3>2. CASE n \in 1..Len(jobs) - 1
      BY <1>2, <1>3, <2>1, <3>2
    <3> QED
      BY <1>1, <2>1, <3>1, <3>2
  <2> QED
    BY <1>1, <2>1, <2>2 DEF WinJobs
<1> QED
  BY <1>4, <1>5

\* The request at the head, and what is left of it after one of its reads.
LEMMA FirstJob ==
    ASSUME WinJobs, jobs # <<>>
    PROVE  /\ Head(jobs) \in Jobs /\ JobOK(Head(jobs))
           /\ Head(jobs).left > 1 => LET e == [Head(jobs) EXCEPT !.left = @ - 1] IN
                 /\ e \in Jobs /\ e.left = 1 /\ e.then = Head(jobs).then /\ e.arg = Head(jobs).arg
                 /\ JobOK(e)
<1>1. Head(jobs) = jobs[1] /\ 1 \in 1..Len(jobs) /\ Head(jobs) \in Jobs
  BY SeqTail DEF WinJobs
<1>2. JobOK(Head(jobs))
  BY <1>1 DEF WinJobs
<1> QED
  BY <1>1, <1>2 DEF Jobs, JobOK

\* Closing only forgets whom the first snapshot is for.
LEMMA Forgetting ==
    ASSUME WinTypes, Close
    PROVE  /\ WinJobs' /\ (InOrder(jobs) => InOrder(jobs'))
           /\ \A i : /\ Has(jobs', Adds, i) <=> Has(jobs, Adds, i)
                     /\ Has(jobs', {"item_deleted"}, i) <=> Has(jobs, {"item_deleted"}, i)
           /\ Kind(jobs', OfSends) <=> Kind(jobs, OfSends)
<1>1. jobs \in Seq(Jobs) /\ Len(jobs) <= MaxJobs /\ \A n \in 1..Len(jobs) : JobOK(jobs[n])
  BY DEF WinTypes, WinJobs
<1>2. \A n \in 1..Len(jobs) : jobs[n] \in Jobs
  BY <1>1, SeqElements
<1> DEFINE Forgot(j) == IF j.then = "first" THEN Job("nobody", 0, 1) ELSE j
<1>3. jobs' = [n \in 1..Len(jobs) |-> Forgot(jobs[n])] /\ listNow' = listNow
  BY <1>1 DEF Close, deviceVars
<1>4. \A j \in Jobs : /\ Forgot(j) \in Jobs
                      /\ Forgot(j).then = (IF j.then = "first" THEN "nobody" ELSE j.then)
                      /\ j.then # "first" => Forgot(j) = j
  BY JobOf DEF Kinds, Jobs, Job
<1> HIDE DEF Forgot
<1>5. /\ jobs' \in Seq(Jobs) /\ Len(jobs') = Len(jobs)
      /\ \A n \in 1..Len(jobs) : jobs'[n] = Forgot(jobs[n])
  BY <1>1, <1>2, <1>3, <1>4
<1>6. \A n \in 1..Len(jobs) :
         /\ jobs[n].then # "first" => jobs'[n] = jobs[n]
         /\ jobs[n].then = "first" => jobs'[n].then = "nobody"
  BY <1>2, <1>4, <1>5
<1>7. WinJobs'
  <2>1. \A n \in 1..Len(jobs) : JobOK(jobs[n])'
    BY <1>1, <1>3, <1>6 DEF JobOK, OfItems, Adds
  <2> QED
    BY <1>1, <1>5, <2>1 DEF WinJobs
<1>8. InOrder(jobs) => InOrder(jobs')
  BY <1>5, <1>6 DEF InOrder, Adds
<1>9. \A i : /\ Has(jobs', Adds, i) <=> Has(jobs, Adds, i)
             /\ Has(jobs', {"item_deleted"}, i) <=> Has(jobs, {"item_deleted"}, i)
  BY <1>5, <1>6 DEF Has, Adds
<1>10. Kind(jobs', OfSends) <=> Kind(jobs, OfSends)
  BY <1>5, <1>6 DEF Kind, OfSends
<1> QED
  BY <1>7, <1>8, <1>9, <1>10

\* Each step keeps the types, and every request is about something that exists.
LEMMA TypesStep == WinTypes /\ WindowsNext => WinTypes'
<1> SUFFICES ASSUME WinTypes, WindowsNext PROVE WinTypes'
  OBVIOUS
<1>0. WinSets /\ WinJobs /\ listNow \in Nat
  BY DEF WinTypes, WinSets
<1>1. Woken => WinTypes'
  BY <1>0, SameJobs DEF Woken, WinSets, WinTypes, outboxVars, deviceVars
<1>2. Arrive => WinTypes'
  BY <1>0, SameJobs DEF Arrive, WinSets, WinTypes, deviceVars, Things
<1>3. Unanswered => WinTypes'
  BY <1>0, SameJobs DEF Unanswered, WinSets, WinTypes, deviceVars
<1>4. ListChanges => WinTypes'
  BY <1>0, SameJobs, WindowsAssumption DEF ListChanges, WinSets, WinTypes, outboxVars
<1>5. FetchDevices => WinTypes'
  BY <1>0, SameJobs, WindowsAssumption, SeqAppend DEF FetchDevices, WinSets, WinTypes, outboxVars
<1>6. GiveUp => WinTypes'
  BY <1>0, SameJobs DEF GiveUp, WinSets, WinTypes, outboxVars, deviceVars
<1>7. Close => WinTypes'
  BY <1>0, Forgetting DEF Close, WinSets, WinTypes, outboxVars, deviceVars, Blank
<1>8. Open => WinTypes'
  BY <1>0, Queued DEF Open, WinSets, WinTypes, outboxVars, deviceVars, Blank, Kinds, OfItems, Adds
<1>9. ASSUME Refresh_Window PROVE WinTypes'
  <2>2. WinJobs'
    BY <1>0, <1>9, Queued DEF Refresh_Window, Kinds, OfItems, OfSends, Adds
  <2>1. listAsked \in Seq(0..LastVersion) /\ Len(listAsked) < MaxFetches /\ MaxFetches \in Nat
        /\ listAsked' = Append(listAsked, listNow) /\ listNow \in 0..LastVersion
    BY <1>0, <1>9, WindowsAssumption DEF Refresh_Window, WinSets
  <2>3. listAsked' \in Seq(0..LastVersion) /\ Len(listAsked') <= MaxFetches
    BY <2>1, SeqAppend
  <2>4. WinSets'
    BY <1>0, <1>9, <2>3 DEF Refresh_Window, WinSets, outboxVars
  <2> QED
    BY <2>2, <2>4 DEF WinTypes
<1>10. ASSUME NEW i \in Own, Flush(i) PROVE WinTypes'
  BY <1>0, <1>10, SameJobs DEF Flush, WinSets, WinTypes, deviceVars
<1>11. ASSUME NEW i \in Own, Send(i) \/ Retry(i) PROVE WinTypes'
  <2>1. PICK gone : SendFrom(i, gone)
    BY <1>11 DEF Send, Retry
  <2>2. WinJobs'
    BY <1>0, <2>1, Queued DEF SendFrom, deviceVars, Kinds, OfItems, OfSends, Adds, Things
  <2>3. WinSets'
    BY <1>0, <2>1 DEF SendFrom, WinSets, deviceVars
  <2> QED
    BY <2>2, <2>3 DEF WinTypes
<1>12. ASSUME NEW i \in Own, Accepted(i) PROVE WinTypes'
  <2>2. WinJobs'
    BY <1>0, <1>12, Queued DEF Accepted, deviceVars, Kinds, OfItems, OfSends, Adds, Things
  <2>3. WinSets'
    BY <1>0, <1>12 DEF Accepted, WinSets, deviceVars
  <2> QED
    BY <2>2, <2>3 DEF WinTypes
<1>13. ASSUME NEW i \in Own, RejectedByServer(i) PROVE WinTypes'
  <2>2. WinJobs'
    BY <1>0, <1>13, Queued DEF RejectedByServer, deviceVars, Kinds, OfItems, OfSends, Adds, Things
  <2>3. WinSets'
    BY <1>0, <1>13 DEF RejectedByServer, WinSets, deviceVars
  <2> QED
    BY <2>2, <2>3 DEF WinTypes
<1>14. ASSUME NEW i \in Own, UndoQueued(i) PROVE WinTypes'
  <2>2. WinJobs'
    BY <1>0, <1>14, Queued, SameJobs DEF UndoQueued, deviceVars, Kinds, OfItems, OfSends, Adds, Things
  <2>3. WinSets'
    BY <1>0, <1>14 DEF UndoQueued, WinSets, deviceVars, Busy
  <2> QED
    BY <2>2, <2>3 DEF WinTypes
<1>15. ASSUME NEW i \in Things, EngineItem(i) PROVE WinTypes'
  <2>2. WinJobs'
    BY <1>0, <1>15, Queued DEF EngineItem, Upsert, deviceVars, Kinds, OfItems, OfSends, Adds
  <2>3. WinSets'
    BY <1>0, <1>15 DEF EngineItem, Upsert, New, WinSets, outboxVars, deviceVars
  <2> QED
    BY <2>2, <2>3 DEF WinTypes
<1>16. ASSUME NEW i \in Things, ItemDeleted(i) PROVE WinTypes'
  <2>2. WinJobs'
    BY <1>0, <1>16, Queued DEF ItemDeleted, Remove, deviceVars, Kinds, OfItems, OfSends, Adds
  <2>3. WinSets'
    BY <1>0, <1>16 DEF ItemDeleted, Remove, WinSets, outboxVars, deviceVars
  <2> QED
    BY <2>2, <2>3 DEF WinTypes
<1>17. ASSUME NEW i \in Things, OtherSends(i) PROVE WinTypes'
  BY <1>0, <1>17, SameJobs DEF OtherSends, WinSets, WinTypes, deviceVars
<1>18. ASSUME DevicesFetched PROVE WinTypes'
  <2>1. PICK n \in DOMAIN listAsked :
          /\ listAsked' = [k \in 1..Len(listAsked) - 1 |-> listAsked[IF k < n THEN k ELSE k + 1]]
          /\ \/ \E v \in listAsked[n]..listNow : Queue(Job("devices", v, 1))
             \/ Queue(Job("devices_cached", 0, 1))
    BY <1>18 DEF DevicesFetched
  <2>2. listAsked \in Seq(0..LastVersion) /\ Len(listAsked) <= MaxFetches /\ listNow \in Nat
    BY <1>0 DEF WinSets
  <2>3. listAsked' \in Seq(0..LastVersion) /\ Len(listAsked') = Len(listAsked) - 1
    <3>1. n \in 1..Len(listAsked) /\ Len(listAsked) \in Nat
      BY <2>1, <2>2
    <3>2. \A k \in 1..Len(listAsked) - 1 : (IF k < n THEN k ELSE k + 1) \in 1..Len(listAsked)
      BY <3>1
    <3>3. \A k \in 1..Len(listAsked) : listAsked[k] \in 0..LastVersion
      BY <2>2, SeqElements
    <3>4. Len(listAsked) - 1 \in Nat
      BY <3>1
    <3> QED
      BY <2>1, <3>2, <3>3, <3>4
  <2>4. listNow' = listNow
    BY <1>18 DEF DevicesFetched
  <2>5. WinJobs'
    <3>1. CASE Queue(Job("devices_cached", 0, 1))
      BY <1>0, <2>4, <3>1, Queued DEF Kinds, OfItems, OfSends, Adds
    <3>2. ASSUME NEW v \in listAsked[n]..listNow, Queue(Job("devices", v, 1)) PROVE WinJobs'
      <4>1. listAsked[n] \in Nat
        <5>1. n \in 1..Len(listAsked)
          BY <2>1, <2>2
        <5>2. listAsked[n] \in 0..LastVersion
          BY <2>2, <5>1, SeqElements
        <5> QED
          BY <5>2
      <4>2. v \in 0..listNow /\ v \in Nat
        BY <2>2, <4>1
      <4> QED
        BY <1>0, <2>4, <3>2, <4>2, Queued DEF Kinds, OfItems, OfSends, Adds
    <3> QED
      BY <2>1, <3>1, <3>2
  <2>6. WinSets'
    BY <1>0, <1>18, <2>2, <2>3, WindowsAssumption DEF DevicesFetched, WinSets, outboxVars
  <2> QED
    BY <2>5, <2>6 DEF WinTypes
<1>19. ASSUME StorageAnswers PROVE WinTypes'
  <2> DEFINE job == Head(jobs)
  <2>1. jobs # <<>> /\ listNow' = listNow /\ listAsked' = listAsked /\ tombstones' = tombstones
        /\ uploaded' = uploaded /\ entries' = entries /\ posting' = posting /\ drawn' = drawn
    BY <1>19 DEF StorageAnswers, deviceVars
  <2>2. job \in Jobs /\ JobOK(job)
    BY <1>0, <2>1, FirstJob
  <2>3. CASE job.left > 1
    <3>1. jobs' = Append(Rest, [job EXCEPT !.left = @ - 1])
      BY <1>19, <2>3 DEF StorageAnswers
    <3>2. WinJobs'
      BY <1>0, <2>1, <2>3, <3>1, FirstJob, AnsweredJobs
    <3>3. WinSets'
      BY <1>0, <1>19, <2>1, <2>3 DEF StorageAnswers, WinSets
    <3> QED
      BY <3>2, <3>3 DEF WinTypes
  <2>4. CASE ~(job.left > 1)
    <3>1. Answered1(job)
      BY <1>19, <2>4 DEF StorageAnswers
    <3> HIDE DEF job
    <3>2. WinJobs'
      BY <1>0, <2>1, <2>2, <3>1, AnsweredJobs, JobOf
         DEF Answered1, Delivered, JobOK, Kinds, OfItems, OfSends, Adds, Things
    <3>3. WinSets'
      <4>0. /\ job.then \in OfItems => job.arg \in Things
            /\ job.then \in {"delivered", "rejected"} => job.arg \in Own
            /\ job.then = "devices" => job.arg \in 0..listNow
        BY <2>2 DEF JobOK
      <4>1. Pending \subseteq Own
        BY <1>0 DEF Pending, WinSets
      <4>2. CASE EventOf(job) /\ UNCHANGED <<items, failures, toCancel, listSaved, win>>
        <5>1. view' \in [items : SUBSET Things, pending : SUBSET Own, devices : Nat]
          <6>1. CASE job.then = "item" /\ BroadcastItem(job.arg)
            BY <1>0, <4>0, <6>1 DEF WinSets, BroadcastItem, Told, OfItems, Adds
          <6>2. CASE /\ job.then = "upserted"
                     /\ Told([view EXCEPT !.items = @ \cup {job.arg}, !.pending = Pending])
            BY <1>0, <4>0, <4>1, <6>2 DEF WinSets, Told, OfItems, Adds
          <6>3. CASE job.then = "item_deleted" /\ Told([view EXCEPT !.items = @ \ {job.arg}])
            BY <1>0, <4>0, <6>3 DEF WinSets, Told, OfItems, Adds
          <6>4. CASE BroadcastOutbox
            BY <1>0, <4>1, <6>4 DEF WinSets, BroadcastOutbox, Told
          <6>5. CASE BroadcastDevices(listSaved)
            BY <1>0, <6>5 DEF WinSets, BroadcastDevices, Told
          <6> QED
            BY <4>2, <6>1, <6>2, <6>3, <6>4, <6>5, Zenon DEF EventOf
        <5>2. /\ items' = items /\ failures' = failures /\ toCancel' = toCancel
              /\ listSaved' = listSaved /\ win' = win
          BY <4>2, Zenon
        <5> QED
          BY <1>0, <2>1, <5>1, <5>2 DEF WinSets
      <4>3. CASE /\ job.then = "rejected"
                 /\ failures' = failures \cup {job.arg}
                 /\ view' = IF win = "closed" THEN view
                            ELSE [view EXCEPT !.pending = Pending \cup {job.arg}]
                 /\ UNCHANGED <<items, toCancel, listSaved, win>>
        BY <1>0, <2>1, <4>0, <4>1, <4>3 DEF WinSets
      <4>4. CASE /\ job.then = "delivered" /\ Delivered(job.arg)
                 /\ UNCHANGED <<failures, listSaved, win>>
        BY <1>0, <2>1, <4>0, <4>1, <4>4 DEF WinSets, Delivered, New, BroadcastOutbox, Told, Things
      <4>5. CASE /\ job.then = "devices"
                 /\ listSaved' = job.arg
                 /\ BroadcastDevices(job.arg)
                 /\ UNCHANGED <<items, failures, toCancel, win>>
        BY <1>0, <2>1, <4>0, <4>5 DEF WinSets, BroadcastDevices, Told
      <4>6. CASE /\ (view' = Snap /\ win' = "ready") \/ UNCHANGED <<view, win>>
                 /\ UNCHANGED <<items, failures, toCancel, listSaved>>
        BY <1>0, <2>1, <4>1, <4>6 DEF WinSets, Snap
      <4> QED
        BY <3>1, <4>2, <4>3, <4>4, <4>5, <4>6, Zenon DEF Answered1
    <3> QED
      BY <3>2, <3>3 DEF WinTypes
  <2> QED
    BY <2>3, <2>4
<1> QED
  BY <1>1, <1>2, <1>3, <1>4, <1>5, <1>6, <1>7, <1>8, <1>9, <1>10, <1>11, <1>12, <1>13, <1>14,
     <1>15, <1>16, <1>17, <1>18, <1>19, Zenon DEF WindowsNext

\* What the requests are about stays the same, but for one that joins and is not
\* about an item.
LEMMA QuietItems ==
    ASSUME WinTypes, ItemEvents, Shown, items' = items, tombstones' = tombstones,
           listSaved' = listSaved, win' # "ready" \/ (win' = win /\ view' = view),
           jobs' = jobs \/ \E e \in Jobs : jobs' = Append(jobs, e) /\ e.then \notin OfItems
    PROVE  ItemEvents' /\ Shown'
<1>1. ASSUME NEW e \in Jobs, jobs' = Append(jobs, e), e.then \notin OfItems
      PROVE  ItemEvents' /\ Shown'
  <2>1. jobs \in Seq(Jobs) /\ InOrder(jobs)
    BY DEF WinTypes, WinJobs, ItemEvents
  <2>2. InOrder(jobs')
    BY <1>1, <2>1, OrderAppend DEF OfItems, Adds
  <2>3. \A i : /\ Has(jobs', Adds, i) <=> Has(jobs, Adds, i)
               /\ Has(jobs', {"item_deleted"}, i) <=> Has(jobs, {"item_deleted"}, i)
    BY <1>1, <2>1, HasAppend DEF OfItems, Adds
  <2> QED
    BY <2>2, <2>3 DEF ItemEvents, Shown
<1>2. CASE jobs' = jobs
  BY <1>2 DEF ItemEvents, Shown
<1> QED
  BY <1>1, <1>2

\* The list of sends is told, or will be.
LEMMA SendsTold ==
    ASSUME WinTypes, running',
           win' = "ready" => \/ unheard' \/ view'.pending = Pending'
                             \/ Kind(jobs', OfSends)
    PROVE  SendEvents'
BY DEF SendEvents

\* A request that joins, and whether the queue now speaks of the sends.
LEMMA QueuedKinds ==
    ASSUME WinTypes, NEW then \in Kinds, NEW arg \in Things \cup Nat, NEW left \in 1..2,
           Queue(Job(then, arg, left))
    PROVE  /\ \E e \in Jobs : /\ jobs' = Append(jobs, e)
                              /\ e.then = then /\ e.arg = arg /\ e.left = left
           /\ Kind(jobs', OfSends) <=> Kind(jobs, OfSends) \/ then \in OfSends
<1> DEFINE e == Job(then, arg, left)
<1>1. e \in Jobs /\ e.then = then /\ e.arg = arg /\ e.left = left
  BY JobOf
<1>2. jobs' = Append(jobs, e) /\ jobs \in Seq(Jobs)
  BY DEF Queue, WinTypes, WinJobs
<1> HIDE DEF e
<1> QED
  BY <1>1, <1>2, HasAppend

\* Which requests are about items and which about sends.
LEMMA KindOf == /\ "first" \in Kinds \ (OfItems \cup OfSends) /\ "snapshot" \in Kinds \ (OfItems \cup OfSends)
                /\ "devices" \in Kinds \ (OfItems \cup OfSends)
                /\ "devices_cached" \in Kinds \ (OfItems \cup OfSends)
                /\ "outbox_changed" \in OfSends \ OfItems /\ "delivered" \in OfSends \ OfItems
                /\ "rejected" \in OfSends \ OfItems /\ OfSends \subseteq Kinds
                /\ "item" \in OfItems \ OfSends /\ "item_deleted" \in OfItems \ OfSends
                /\ "upserted" \in OfItems /\ "upserted" \in OfSends /\ OfItems \subseteq Kinds
BY DEF Kinds, OfItems, OfSends, Adds

\* All that is said beyond the types.
WinRest == ItemEvents /\ Shown /\ SendEvents

\* The steps of the outbox, the device list and the window, those that touch no item
\* and answer no request.
LEMMA RestStep ==
    ASSUME WinTypes, WinRest, WindowsNext, ~StorageAnswers,
           \A i \in Things : ~EngineItem(i) /\ ~ItemDeleted(i)
    PROVE  WinRest'
<1> USE DEF WinRest
<1>0. listNow \in Nat /\ Own \subseteq Things /\ Own \subseteq Things \cup Nat
  BY DEF WinTypes, WinSets, Things
<1>1. ASSUME Arrive \/ Unanswered \/ ListChanges \/ FetchDevices \/ (\E i \in Own : Flush(i))
             \/ (\E i \in Things : OtherSends(i))
      PROVE  WinRest'
  <2>1. /\ items' = items /\ tombstones' = tombstones /\ listSaved' = listSaved /\ win' = win
        /\ view' = view /\ jobs' = jobs /\ running' = running /\ entries' = entries
        /\ failures' = failures /\ unheard' = unheard
    BY <1>1, Zenon DEF Arrive, Unanswered, ListChanges, FetchDevices, Flush, OtherSends, outboxVars
  <2>2. ItemEvents' /\ Shown'
    BY <2>1, QuietItems
  <2>3. running \/ posting' = {}
    BY <1>1 DEF Arrive, Unanswered, ListChanges, FetchDevices, Flush, OtherSends, outboxVars,
                WinRest, SendEvents
  <2>4. SendEvents'
    BY <2>1, <2>3 DEF SendEvents, Pending
  <2> QED
    BY <2>2, <2>4
<1>2. ASSUME Woken PROVE WinRest'
  <2>1. /\ items' = items /\ tombstones' = tombstones /\ listSaved' = listSaved /\ win' = win
        /\ view' = view /\ jobs' = jobs /\ running' /\ ~running /\ entries' = entries
        /\ failures' = failures
    BY <1>2 DEF Woken, outboxVars
  <2>2. ItemEvents' /\ Shown'
    BY <2>1, QuietItems
  <2>3. unheard' \/ entries = {}
    BY <1>2, Zenon DEF Woken
  <2>4. SendEvents'
    <3>1. CASE unheard'
      BY <2>1, <3>1 DEF SendEvents
    <3>2. CASE entries = {}
      <4>1. Pending = {} /\ Pending' = {}
        BY <2>1, <3>2 DEF SendEvents, Pending
      <4>2. win = "ready" => view.pending = {}
        BY <2>1, <4>1 DEF SendEvents
      <4>3. ~Kind(jobs, OfSends)
        BY <2>1 DEF SendEvents
      <4> QED
        BY <2>1, <4>1, <4>2, <4>3 DEF SendEvents
    <3> QED
      BY <2>3, <3>1, <3>2
  <2> QED
    BY <2>2, <2>4
<1>3. ASSUME GiveUp PROVE WinRest'
  <2>1. /\ items' = items /\ tombstones' = tombstones /\ listSaved' = listSaved /\ win' # "ready"
        /\ jobs' = jobs /\ running' = running /\ failures' = failures /\ posting' = posting
        /\ unheard' = unheard
    BY <1>3 DEF GiveUp, outboxVars
  <2>2. ItemEvents' /\ Shown'
    BY <2>1, QuietItems
  <2>3. SendEvents'
    BY <2>1 DEF SendEvents
  <2> QED
    BY <2>2, <2>3
<1>8. ASSUME Close PROVE WinRest'
  <2>1. /\ items' = items /\ tombstones' = tombstones /\ win' # "ready" /\ running' = running
        /\ failures' = failures /\ posting' = posting /\ unheard' = unheard
    BY <1>8 DEF Close, outboxVars
  <2>2. ItemEvents' /\ Shown'
    BY <1>8, <2>1, Forgetting DEF ItemEvents, Shown
  <2>3. SendEvents'
    BY <1>8, <2>1, Forgetting DEF SendEvents
  <2> QED
    BY <2>2, <2>3
<1>4. ASSUME Open PROVE WinRest'
  <2>1. /\ items' = items /\ tombstones' = tombstones /\ listSaved' = listSaved /\ win' # "ready"
        /\ Queue(Job("first", 0, 1)) /\ running' = running /\ failures' = failures
        /\ posting' = posting /\ unheard' = unheard
    BY <1>4 DEF Open, outboxVars
  <2>2. ItemEvents' /\ Shown'
    BY <2>1, QuietItems, QueuedKinds, KindOf
  <2>3. SendEvents'
    BY <2>1, QueuedKinds, KindOf DEF SendEvents
  <2> QED
    BY <2>2, <2>3
<1>5. ASSUME Refresh_Window PROVE WinRest'
  <2>1. /\ items' = items /\ tombstones' = tombstones /\ listSaved' = listSaved /\ win' = win
        /\ view' = view /\ running' = running /\ failures' = failures /\ unheard' = unheard
        /\ entries' = entries /\ posting' = posting /\ Queue(Job("snapshot", 0, 1))
    BY <1>5, Zenon DEF Refresh_Window, outboxVars
  <2>2. ItemEvents' /\ Shown'
    BY <2>1, QuietItems, QueuedKinds, KindOf
  <2>3. SendEvents'
    BY <2>1, QueuedKinds, KindOf DEF SendEvents, Pending
  <2> QED
    BY <2>2, <2>3
<1>6. ASSUME DevicesFetched PROVE WinRest'
  <2>1. /\ items' = items /\ tombstones' = tombstones /\ listSaved' = listSaved /\ win' = win
        /\ view' = view /\ running' = running /\ failures' = failures /\ unheard' = unheard
        /\ entries' = entries /\ posting' = posting
    BY <1>6, Zenon DEF DevicesFetched, outboxVars
  <2>2. \E then \in {"devices", "devices_cached"}, arg \in Nat : Queue(Job(then, arg, 1))
    <3>1. PICK n \in DOMAIN listAsked :
             \/ \E v \in listAsked[n]..listNow : Queue(Job("devices", v, 1))
             \/ Queue(Job("devices_cached", 0, 1))
      BY <1>6 DEF DevicesFetched
    <3>2. listAsked \in Seq(0..LastVersion)
      BY DEF WinTypes, WinSets
    <3>3. n \in 1..Len(listAsked)
      BY <3>1, <3>2
    <3>4. listAsked[n] \in 0..LastVersion
      BY <3>2, <3>3, SeqElements
    <3>5. \A v \in listAsked[n]..listNow : v \in Nat
      BY <1>0, <3>4
    <3> QED
      BY <3>1, <3>5
  <2>3. PICK then \in {"devices", "devices_cached"}, arg \in Nat : Queue(Job(then, arg, 1))
    BY <2>2
  <2>4. then \in Kinds \ (OfItems \cup OfSends) /\ arg \in Things \cup Nat
    BY <2>3, KindOf
  <2>5. /\ \E e \in Jobs : jobs' = Append(jobs, e) /\ e.then = then
        /\ Kind(jobs', OfSends) <=> Kind(jobs, OfSends)
    BY <2>3, <2>4, QueuedKinds
  <2>6. ItemEvents' /\ Shown'
    BY <2>1, <2>4, <2>5, QuietItems
  <2>7. SendEvents'
    BY <2>1, <2>5 DEF SendEvents, Pending
  <2> QED
    BY <2>6, <2>7
<1>7. ASSUME NEW i \in Own, Send(i) \/ Retry(i) \/ Accepted(i) \/ RejectedByServer(i) \/ UndoQueued(i)
      PROVE  WinRest'
  <2>1. /\ items' = items /\ tombstones' = tombstones /\ listSaved' = listSaved /\ win' = win
        /\ view' = view /\ running' = running /\ unheard' = unheard
        /\ \/ jobs' = jobs /\ entries' = entries /\ failures' = failures
           \/ \E then \in {"outbox_changed", "delivered", "rejected"} : Queue(Job(then, i, 1))
    BY <1>7, Zenon DEF Send, Retry, SendFrom, Accepted, RejectedByServer, UndoQueued
  <2>4. running
    BY <1>7 DEF Send, Retry, SendFrom, Accepted, RejectedByServer, UndoQueued, SendEvents
  <2>2. CASE jobs' = jobs /\ entries' = entries /\ failures' = failures
    <3>1. ItemEvents' /\ Shown'
      BY <2>1, <2>2, QuietItems
    <3>2. SendEvents'
      BY <2>1, <2>2, <2>4 DEF SendEvents, Pending
    <3> QED
      BY <3>1, <3>2
  <2>3. ASSUME NEW then \in {"outbox_changed", "delivered", "rejected"}, Queue(Job(then, i, 1))
        PROVE  WinRest'
    <3>1. then \in Kinds /\ then \in OfSends \ OfItems /\ i \in Things \cup Nat
      BY <1>0, KindOf
    <3>2. (\E e \in Jobs : jobs' = Append(jobs, e) /\ e.then = then) /\ Kind(jobs', OfSends)
      BY <2>3, <3>1, QueuedKinds
    <3>3. ItemEvents' /\ Shown'
      BY <2>1, <3>1, <3>2, QuietItems
    <3> QED
      BY <2>1, <2>4, <3>2, <3>3, SendsTold
  <2> QED
    BY <2>1, <2>2, <2>3
<1> QED
  BY <1>1, <1>2, <1>3, <1>4, <1>5, <1>6, <1>7, <1>8, Zenon DEF WindowsNext

\* An item is stored, and its event joins the queue.
LEMMA ItemJoins ==
    ASSUME WinTypes, ItemEvents, Shown, NEW i \in Things, New(i),
           NEW s \in Seq(Jobs), NEW e \in Jobs, e.then \in Adds, e.arg = i,
           InOrder(s), \A j \in Things : /\ Has(s, Adds, j) <=> Has(jobs, Adds, j)
                                         /\ Has(s, {"item_deleted"}, j)
                                               <=> Has(jobs, {"item_deleted"}, j),
           jobs' = Append(s, e), items' = items \cup {i}, tombstones' = tombstones,
           listSaved' = listSaved, win' = win, view' = view
    PROVE  ItemEvents' /\ Shown'
<1>1. i \notin items /\ i \notin tombstones /\ ~Has(s, {"item_deleted"}, i)
  BY DEF New, ItemEvents
<1>2. InOrder(jobs')
  BY <1>1, OrderAppend DEF Has, Adds
<1>3. \A j : /\ Has(jobs', Adds, j) <=> Has(s, Adds, j) \/ i = j
             /\ Has(jobs', {"item_deleted"}, j) <=> Has(s, {"item_deleted"}, j)
  BY HasAppend DEF Adds
<1> QED
  BY <1>1, <1>2, <1>3 DEF ItemEvents, Shown

\* The engine stores or deletes an item and tells the window, in this order.
LEMMA ItemsStep ==
    ASSUME WinTypes, WinRest, NEW i \in Things, EngineItem(i) \/ ItemDeleted(i)
    PROVE  WinRest'
<1>0. /\ jobs \in Seq(Jobs) /\ InOrder(jobs) /\ \A n \in 1..Len(jobs) : jobs[n] \in Jobs
  BY SeqElements DEF WinTypes, WinJobs, WinRest, ItemEvents
<1>1. /\ listSaved' = listSaved /\ win' = win /\ view' = view /\ running' = running /\ running
      /\ unheard' = unheard /\ entries' = entries /\ failures' = failures
  BY Zenon DEF EngineItem, ItemDeleted, outboxVars
<1>2. PICK then \in {"item", "item_deleted"} : Queue(Job(then, i, 2))
                                              /\ (then = "item" <=> EngineItem(i))
  <2>1. EngineItem(i) => Queue(Job("item", i, 2))
    BY DEF EngineItem, Upsert
  <2>2. ItemDeleted(i) => Queue(Job("item_deleted", i, 2))
    BY DEF ItemDeleted, Remove
  <2> QED
    BY <2>1, <2>2
<1>3. then \in Kinds /\ then \in OfItems \ OfSends /\ i \in Things \cup Nat
  BY <1>2, KindOf
<1>4. /\ \E e \in Jobs : /\ jobs' = Append(jobs, e)
                         /\ e.then = then /\ e.arg = i /\ e.left = 2
      /\ Kind(jobs', OfSends) <=> Kind(jobs, OfSends)
  BY <1>2, <1>3, QueuedKinds
<1>5. SendEvents'
  BY <1>1, <1>4 DEF WinRest, SendEvents, Pending
<1>6. PICK e \in Jobs : jobs' = Append(jobs, e) /\ e.then = then /\ e.arg = i /\ e.left = 2
  BY <1>4
<1>7. CASE EngineItem(i)
  <2>1. New(i) /\ items' = items \cup {i} /\ tombstones' = tombstones
    BY <1>7 DEF EngineItem, Upsert
  <2>2. e.then \in Adds
    BY <1>2, <1>6, <1>7 DEF Adds
  <2>3. ItemEvents' /\ Shown'
    BY <1>0, <1>1, <1>6, <2>1, <2>2, ItemJoins DEF WinRest
  <2> QED
    BY <1>5, <2>3 DEF WinRest
<1>8. CASE ~EngineItem(i)
  <2>1. tombstones' = tombstones \cup {i} /\ items' = items \ {i} /\ then = "item_deleted"
    BY <1>2, <1>8 DEF ItemDeleted, Remove
  <2>2. InOrder(jobs')
    <3>1. \A n \in 1..Len(jobs) : jobs[n].left <= 2
      BY <1>0 DEF Jobs
    <3>2. e.then \notin Adds
      BY <1>6, <2>1 DEF Adds
    <3> QED
      BY <1>0, <1>6, <3>1, <3>2, OrderAppend
  <2>3. \A j : /\ Has(jobs', Adds, j) <=> Has(jobs, Adds, j)
               /\ Has(jobs', {"item_deleted"}, j) <=> Has(jobs, {"item_deleted"}, j) \/ i = j
    BY <1>0, <1>6, <2>1, HasAppend DEF Adds
  <2>4. ItemEvents'
    BY <2>1, <2>2, <2>3 DEF WinRest, ItemEvents
  <2>5. Shown'
    BY <1>1, <2>1, <2>3 DEF WinRest, Shown
  <2> QED
    BY <1>5, <2>4, <2>5 DEF WinRest
<1> QED
  BY <1>7, <1>8

\* The request at the head, and what the others say without it.
LEMMA WithoutFirst ==
    ASSUME WinTypes, WinRest, jobs # <<>>
    PROVE  /\ Rest \in Seq(Jobs) /\ InOrder(Rest) /\ Head(jobs) \in Jobs /\ JobOK(Head(jobs))
           /\ \A i : /\ Has(jobs, Adds, i)
                           <=> Has(Rest, Adds, i) \/ (Head(jobs).then \in Adds /\ Head(jobs).arg = i)
                     /\ Has(jobs, {"item_deleted"}, i)
                           <=> Has(Rest, {"item_deleted"}, i)
                               \/ (Head(jobs).then = "item_deleted" /\ Head(jobs).arg = i)
           /\ Kind(jobs, OfSends) <=> Kind(Rest, OfSends) \/ Head(jobs).then \in OfSends
           /\ Head(jobs).then \in OfSends => running
<1>1. jobs \in Seq(Jobs) /\ InOrder(jobs) /\ WinJobs
  BY DEF WinTypes, WinJobs, WinRest, ItemEvents
<1>2. Rest \in Seq(Jobs) /\ InOrder(Rest) /\ Head(jobs) \in Jobs /\ JobOK(Head(jobs))
  BY <1>1, SeqTail, OrderTail, FirstJob DEF Rest
<1>3. \A i : /\ Has(jobs, Adds, i)
                   <=> Has(Rest, Adds, i) \/ (Head(jobs).then \in Adds /\ Head(jobs).arg = i)
             /\ Has(jobs, {"item_deleted"}, i)
                   <=> Has(Rest, {"item_deleted"}, i)
                       \/ (Head(jobs).then = "item_deleted" /\ Head(jobs).arg = i)
  BY <1>1, HasTail DEF Rest
<1>4. Kind(jobs, OfSends) <=> Kind(Rest, OfSends) \/ Head(jobs).then \in OfSends
  BY <1>1, HasTail DEF Rest
<1> QED
  BY <1>2, <1>3, <1>4 DEF WinRest, SendEvents

\* The order of the first request and the others about its item.
LEMMA FirstOrder ==
    ASSUME WinTypes, WinRest, jobs # <<>>,
           NEW n \in 1..Len(Rest), Rest[n].arg = Head(jobs).arg
    PROVE  /\ Head(jobs).then \in Adds /\ Rest[n].then = "item_deleted"
              => Head(jobs).left <= Rest[n].left
           /\ Head(jobs).then = "item_deleted" /\ Rest[n].then \in Adds
              => Rest[n].left < Head(jobs).left
<1>1. jobs \in Seq(Jobs) /\ InOrder(jobs)
  BY DEF WinTypes, WinJobs, WinRest, ItemEvents
<1>2. /\ Rest \in Seq(Jobs) /\ Len(Rest) = Len(jobs) - 1 /\ Len(jobs) \in Nat
      /\ Rest[n] = jobs[n + 1] /\ Head(jobs) = jobs[1] /\ n + 1 \in 1..Len(jobs)
      /\ 1 \in 1..Len(jobs) /\ n + 1 > 1
  BY <1>1, SeqTail DEF Rest
<1>3. /\ jobs[1].then \in Adds /\ jobs[n + 1].then = "item_deleted" =>
            \/ (1 < n + 1 /\ jobs[1].left <= jobs[n + 1].left)
            \/ (n + 1 < 1 /\ jobs[1].left < jobs[n + 1].left)
      /\ jobs[1].then = "item_deleted" /\ jobs[n + 1].then \in Adds =>
            \/ (n + 1 < 1 /\ jobs[n + 1].left <= jobs[1].left)
            \/ (1 < n + 1 /\ jobs[n + 1].left < jobs[1].left)
  BY <1>1, <1>2 DEF InOrder
<1> QED
  BY <1>2, <1>3

\* Storage answers the first request, which shows what it read or goes on.
LEMMA AnswerStep ==
    ASSUME WinTypes, WinRest, StorageAnswers
    PROVE  WinRest'
<1> DEFINE job == Head(jobs)
<1>0. /\ running' = running /\ tombstones' = tombstones /\ entries' = entries
      /\ posting' = posting
  BY Zenon DEF StorageAnswers
<1>1. jobs # <<>>
  BY DEF StorageAnswers
<1>2. /\ Rest \in Seq(Jobs) /\ InOrder(Rest) /\ job \in Jobs /\ JobOK(job)
      /\ \A i : /\ Has(jobs, Adds, i) <=> Has(Rest, Adds, i) \/ (job.then \in Adds /\ job.arg = i)
                /\ Has(jobs, {"item_deleted"}, i)
                      <=> Has(Rest, {"item_deleted"}, i) \/ (job.then = "item_deleted" /\ job.arg = i)
      /\ Kind(jobs, OfSends) <=> Kind(Rest, OfSends) \/ job.then \in OfSends
      /\ job.then \in OfSends => running
  BY <1>1, WithoutFirst
<1>3. \A n \in 1..Len(Rest) : Rest[n] \in Jobs
  BY <1>2, SeqElements
<1>4. job.left \in 1..2 /\ job.then \in Kinds
  BY <1>2 DEF Jobs
<1>5. ASSUME NEW n \in 1..Len(Rest), Rest[n].arg = job.arg
      PROVE  /\ job.then \in Adds /\ Rest[n].then = "item_deleted" => job.left <= Rest[n].left
             /\ job.then = "item_deleted" /\ Rest[n].then \in Adds => Rest[n].left < job.left
             /\ Rest[n].left \in 1..2
  BY <1>1, <1>3, <1>5, FirstOrder DEF Jobs
<1>6. running \/ (failures = {} /\ posting = {} /\ ~unheard /\ ~Kind(jobs, OfSends))
  BY DEF WinRest, SendEvents
<1>7. CASE job.left > 1
  <2>1. jobs' = Append(Rest, [job EXCEPT !.left = @ - 1])
    BY <1>7 DEF StorageAnswers
  <2>2. /\ items' = items /\ failures' = failures /\ listSaved' = listSaved /\ win' = win
        /\ view' = view /\ unheard' = unheard
    BY <1>7, Zenon DEF StorageAnswers
  <2>3. PICK e \in Jobs : /\ jobs' = Append(Rest, e) /\ e.left = 1 /\ e.then = job.then
                          /\ e.arg = job.arg
    BY <1>1, <1>7, <2>1, FirstJob DEF WinTypes
  <2>4. InOrder(jobs')
    <3>1. \A n \in 1..Len(Rest) : Rest[n].arg = e.arg =>
              /\ e.then \in Adds /\ Rest[n].then = "item_deleted" => e.left < Rest[n].left
              /\ e.then = "item_deleted" /\ Rest[n].then \in Adds => Rest[n].left <= e.left
      BY <1>4, <1>5, <1>7, <2>3
    <3> QED
      BY <1>2, <2>3, <3>1, OrderAppend
  <2>5. \A i : /\ Has(jobs', Adds, i) <=> Has(jobs, Adds, i)
               /\ Has(jobs', {"item_deleted"}, i) <=> Has(jobs, {"item_deleted"}, i)
    BY SMTT(30), <1>2, <2>3, HasAppend
  <2>6. Kind(jobs', OfSends) <=> Kind(jobs, OfSends)
    BY <1>2, <2>3, HasAppend
  <2>7. ItemEvents' /\ Shown'
    BY <1>0, <2>2, <2>4, <2>5 DEF WinRest, ItemEvents, Shown
  <2>8. SendEvents'
    BY <1>0, <2>2, <2>6 DEF WinRest, SendEvents, Pending
  <2> QED
    BY <2>7, <2>8 DEF WinRest
<1>8. CASE ~(job.left > 1)
  <2>0. Answered1(job)
    BY <1>8 DEF StorageAnswers
  <2>1. job.left = 1
    BY <1>4, <1>8
  <2> HIDE DEF job
  <2>2. ASSUME jobs' = Rest, job.then \notin OfItems, items' = items,
               \/ win' = "ready" /\ view'.items = items /\ view'.devices = listSaved'
               \/ /\ win' = win
                  /\ win = "ready" => /\ view'.items = view.items
                                      /\ view.devices = listSaved => view'.devices = listSaved'
        PROVE  ItemEvents' /\ Shown'
    <3>1. \A i : /\ Has(jobs', Adds, i) <=> Has(jobs, Adds, i)
                 /\ Has(jobs', {"item_deleted"}, i) <=> Has(jobs, {"item_deleted"}, i)
      BY <1>2, <2>2 DEF OfItems
    <3>2. ItemEvents'
      BY <1>0, <1>2, <2>2, <3>1 DEF WinRest, ItemEvents
    <3>3. Shown'
      BY <2>2, <3>1 DEF WinRest, Shown
    <3> QED
      BY <3>2, <3>3
  <2>3. ASSUME jobs' = Rest, job.then \notin OfSends, failures' = failures, unheard' = unheard,
               win' = win, view'.pending = view.pending
        PROVE  SendEvents'
    <3>1. Pending' = Pending
      BY <1>0, <2>3 DEF Pending
    <3> QED
      BY <1>0, <1>2, <1>6, <2>3, <3>1 DEF WinRest, SendEvents
  <2>4. ASSUME running, win' = "ready" => view'.pending = Pending'
        PROVE  SendEvents'
    BY <1>0, <2>4 DEF SendEvents
  \* An event of an item.
  <2>5. ASSUME job.then \in OfItems, jobs' = Rest, items' = items, win' = win, listSaved' = listSaved,
               win = "ready" =>
                  /\ view'.devices = view.devices
                  /\ job.then \in Adds => view'.items = view.items \cup {job.arg}
                  /\ job.then = "item_deleted" => view'.items = view.items \ {job.arg}
        PROVE  ItemEvents' /\ Shown'
    <3>0. InOrder(jobs') /\ job.arg \in Things
      BY <1>2, <2>5 DEF JobOK
    <3>1. CASE job.then \in Adds
      <4>1. \A i : /\ Has(jobs, Adds, i) <=> Has(jobs', Adds, i) \/ job.arg = i
                   /\ Has(jobs, {"item_deleted"}, i) <=> Has(jobs', {"item_deleted"}, i)
        BY <1>2, <2>5, <3>1 DEF Adds
      <4>2. ItemEvents'
        BY <1>0, <2>5, <3>0, <4>1 DEF WinRest, ItemEvents
      <4>3. Shown'
        BY <2>5, <3>0, <3>1, <4>1 DEF WinRest, Shown, ItemEvents
      <4> QED
        BY <4>2, <4>3
    <3>2. CASE job.then = "item_deleted"
      <4>1. \A i : /\ Has(jobs, Adds, i) <=> Has(jobs', Adds, i)
                   /\ Has(jobs, {"item_deleted"}, i) <=> Has(jobs', {"item_deleted"}, i)
                                                         \/ job.arg = i
        BY <1>2, <2>5, <3>2 DEF Adds
      <4>2. ~Has(jobs', Adds, job.arg)
        <5> SUFFICES ASSUME NEW n \in 1..Len(Rest), Rest[n].arg = job.arg, Rest[n].then \in Adds
                     PROVE  FALSE
          BY <2>5 DEF Has
        <5> QED
          BY <1>5, <2>1, <3>2
      <4>3. job.arg \notin items
        BY <3>0, <4>1 DEF WinRest, ItemEvents, WinTypes, WinSets
      <4>4. ItemEvents'
        BY <1>0, <2>5, <3>0, <4>1, <4>2 DEF WinRest, ItemEvents
      <4>5. Shown'
        BY <2>5, <3>0, <3>2, <4>1, <4>3 DEF WinRest, Shown
      <4> QED
        BY <4>4, <4>5
    <3> QED
      BY <2>5, <3>1, <3>2 DEF OfItems
  <2>6. view \in [items : SUBSET Things, pending : SUBSET Own, devices : Nat]
    BY DEF WinTypes, WinSets
  <2>7. ASSUME EventOf(job), jobs' = Rest, UNCHANGED <<items, failures, toCancel, listSaved, win>>
        PROVE  WinRest'
    <3>0. /\ items' = items /\ failures' = failures /\ listSaved' = listSaved /\ win' = win
          /\ Pending' = Pending
      BY <1>0, <2>7 DEF Pending
    <3>1. CASE job.then = "item" /\ BroadcastItem(job.arg) /\ UNCHANGED unheard
      <4>1. job.then \in OfItems \ OfSends /\ job.then \in Adds /\ job.then # "item_deleted"
        BY <3>1, KindOf DEF Adds
      <4>2. /\ view'.devices = view.devices /\ view'.pending = view.pending
            /\ win = "ready" => view'.items = view.items \cup {job.arg}
        BY <2>6, <3>1 DEF BroadcastItem, Told
      <4> QED
        BY <2>3, <2>5, <2>7, <3>0, <3>1, <4>1, <4>2 DEF WinRest
    <3>2. CASE /\ job.then = "upserted"
               /\ Told([view EXCEPT !.items = @ \cup {job.arg}, !.pending = Pending])
      <4>1. job.then \in OfItems /\ job.then \in OfSends /\ job.then \in Adds
            /\ job.then # "item_deleted"
        BY <3>2, KindOf DEF Adds
      <4>2. win = "ready" => /\ view'.devices = view.devices /\ view'.pending = Pending
                             /\ view'.items = view.items \cup {job.arg}
        BY <2>6, <3>2 DEF Told
      <4> QED
        BY <1>2, <2>4, <2>5, <2>7, <3>0, <4>1, <4>2 DEF WinRest
    <3>3. CASE /\ job.then = "item_deleted" /\ UNCHANGED unheard
               /\ Told([view EXCEPT !.items = @ \ {job.arg}])
      <4>1. job.then \in OfItems \ OfSends /\ job.then \notin Adds
        BY <3>3, KindOf DEF Adds
      <4>2. /\ view'.devices = view.devices /\ view'.pending = view.pending
            /\ win = "ready" => view'.items = view.items \ {job.arg}
        BY <2>6, <3>3 DEF Told
      <4> QED
        BY <2>3, <2>5, <2>7, <3>0, <3>3, <4>1, <4>2 DEF WinRest
    <3>4. CASE job.then = "outbox_changed" /\ BroadcastOutbox
      <4>1. job.then \in OfSends \ OfItems
        BY <3>4, KindOf
      <4>2. win = "ready" => /\ view'.devices = view.devices /\ view'.pending = Pending
                             /\ view'.items = view.items
        BY <2>6, <3>4 DEF BroadcastOutbox, Told
      <4> QED
        BY <1>2, <2>2, <2>4, <2>7, <3>0, <4>1, <4>2 DEF WinRest
    <3>5. CASE job.then = "devices_cached" /\ BroadcastDevices(listSaved) /\ UNCHANGED unheard
      <4>1. job.then \notin OfSends /\ job.then \notin OfItems
        BY <3>5, KindOf
      <4>2. /\ view'.items = view.items /\ view'.pending = view.pending
            /\ win = "ready" => view'.devices = listSaved
        BY <2>6, <3>5 DEF BroadcastDevices, Told
      <4> QED
        BY <2>2, <2>3, <2>7, <3>0, <3>5, <4>1, <4>2 DEF WinRest
    <3> QED
      BY <2>7, <3>1, <3>2, <3>3, <3>4, <3>5, Zenon DEF EventOf
  <2>8. ASSUME /\ job.then = "rejected"
               /\ failures' = failures \cup {job.arg}
               /\ jobs' = Rest
               /\ view' = IF win = "closed" THEN view
                          ELSE [view EXCEPT !.pending = Pending \cup {job.arg}]
               /\ UNCHANGED <<items, toCancel, listSaved, win>>
        PROVE  WinRest'
    <3>1. job.then \in OfSends \ OfItems
      BY <2>8, KindOf
    <3>2. win = "ready" => /\ view'.devices = view.devices /\ view'.pending = Pending \cup {job.arg}
                           /\ view'.items = view.items
      BY <2>6, <2>8
    <3>3. running /\ Pending' = Pending \cup {job.arg}
      BY <1>0, <1>2, <2>8, <3>1 DEF Pending
    <3> QED
      BY <2>2, <2>4, <2>8, <3>1, <3>2, <3>3 DEF WinRest
  <2>9. ASSUME job.then = "delivered", Delivered(job.arg), UNCHANGED <<failures, listSaved, win>>
        PROVE  WinRest'
    <3>1. job.then \in OfSends \ OfItems /\ job.then # "item_deleted" /\ job.then \notin Adds
      BY <2>9, KindOf DEF Adds
    <3>2. running /\ job.arg \in Things /\ failures' = failures /\ win' = win
          /\ listSaved' = listSaved
      BY <1>2, <2>9, <3>1 DEF JobOK, Things
    <3>3. CASE jobs' = Rest /\ unheard' = TRUE /\ UNCHANGED <<items, view>>
      BY <1>0, <2>2, <3>1, <3>2, <3>3 DEF WinRest, SendEvents
    <3>4. CASE /\ New(job.arg) /\ items' = items \cup {job.arg}
               /\ jobs' = Append(Rest, Job("upserted", job.arg, 2))
               /\ UNCHANGED <<toCancel, view, unheard>>
      <4>1. "upserted" \in Kinds /\ "upserted" \in Adds /\ "upserted" \in OfSends
        BY KindOf DEF Adds
      <4>2. PICK e \in Jobs : e = Job("upserted", job.arg, 2) /\ e.then = "upserted"
                              /\ e.arg = job.arg
        BY <3>2, <4>1, JobOf
      <4>3. jobs' = Append(Rest, e) /\ items' = items \cup {job.arg} /\ view' = view
        BY <3>4, <4>2
      <4>4. Kind(jobs', OfSends)
        BY <1>2, <4>1, <4>2, <4>3, HasAppend
      <4>5. \A j : /\ Has(Rest, Adds, j) <=> Has(jobs, Adds, j)
                   /\ Has(Rest, {"item_deleted"}, j) <=> Has(jobs, {"item_deleted"}, j)
        BY <1>2, <3>1
      <4>6. ItemEvents' /\ Shown'
        BY <1>0, <1>2, <3>2, <3>4, <4>1, <4>2, <4>3, <4>5, ItemJoins DEF WinRest
      <4> QED
        BY <1>0, <3>2, <4>4, <4>6 DEF WinRest, SendEvents
    <3>5. CASE jobs' = Rest /\ BroadcastOutbox /\ items' = items
      <4>1. win = "ready" => /\ view'.devices = view.devices /\ view'.pending = Pending
                             /\ view'.items = view.items
        BY <2>6, <3>5 DEF BroadcastOutbox, Told
      <4>2. Pending' = Pending
        BY <1>0, <3>2 DEF Pending
      <4> QED
        BY <2>2, <2>4, <3>1, <3>2, <3>5, <4>1, <4>2 DEF WinRest
    <3> QED
      BY <2>9, <3>3, <3>4, <3>5, Zenon DEF Delivered
  <2>10. ASSUME /\ job.then = "devices"
                /\ listSaved' = job.arg
                /\ jobs' = Rest
                /\ BroadcastDevices(job.arg)
                /\ UNCHANGED <<items, failures, toCancel, win, unheard>>
         PROVE  WinRest'
    <3>1. job.then \notin OfSends /\ job.then \notin OfItems
      BY <2>10, KindOf
    <3>2. /\ view'.items = view.items /\ view'.pending = view.pending
          /\ win = "ready" => view'.devices = listSaved'
      BY <2>6, <2>10 DEF BroadcastDevices, Told
    <3> QED
      BY <2>2, <2>3, <2>10, <3>1, <3>2 DEF WinRest
  <2>11. ASSUME /\ job.then \in {"snapshot", "first"}
                /\ jobs' = Rest
                /\ \/ view' = Snap /\ win' = "ready" /\ unheard' = FALSE
                   \/ UNCHANGED <<view, win, unheard>>
                /\ UNCHANGED <<items, failures, toCancel, listSaved>>
         PROVE  WinRest'
    <3>1. job.then \notin OfSends /\ job.then \notin OfItems
      BY <2>11, KindOf
    <3>2. CASE UNCHANGED <<view, win, unheard>>
      BY <2>2, <2>3, <2>11, <3>1, <3>2 DEF WinRest
    <3>3. CASE view' = Snap /\ win' = "ready" /\ unheard' = FALSE
      <4>1. view'.items = items /\ view'.devices = listSaved' /\ view'.pending = Pending'
        BY <1>0, <2>11, <3>3 DEF Snap, Pending
      <4>2. ItemEvents' /\ Shown'
        BY <2>2, <2>11, <3>1, <3>3, <4>1
      <4>3. ~unheard' /\ failures' = failures /\ (Kind(jobs', OfSends) <=> Kind(jobs, OfSends))
        BY <1>2, <2>11, <3>1, <3>3
      <4>4. SendEvents'
        BY <1>0, <1>6, <4>1, <4>3 DEF SendEvents
      <4> QED
        BY <4>2, <4>4 DEF WinRest
    <3> QED
      BY <2>11, <3>2, <3>3
  <2>12. ASSUME /\ job.then = "nobody"
                /\ jobs' = Rest
                /\ UNCHANGED <<items, failures, toCancel, listSaved, win, view, unheard>>
         PROVE  WinRest'
    <3>1. job.then \notin OfSends /\ job.then \notin OfItems
      BY <2>12 DEF OfSends, OfItems, Adds
    <3> QED
      BY <2>2, <2>3, <2>12, <3>1 DEF WinRest
  <2> QED
    BY <2>0, <2>7, <2>8, <2>9, <2>10, <2>11, <2>12 DEF Answered1
<1> QED
  BY <1>7, <1>8

WinInv == WinTypes /\ WinRest

\* Every step keeps the invariant.
LEMMA WinStep == WinInv /\ [WindowsNext]_windowVars => WinInv'
<1> SUFFICES ASSUME WinTypes, WinRest, [WindowsNext]_windowVars PROVE WinTypes' /\ WinRest'
  BY DEF WinInv
<1>1. CASE WindowsNext
  <2>1. WinTypes'
    BY <1>1, TypesStep
  <2>2. CASE StorageAnswers
    BY <2>1, <2>2, AnswerStep
  <2>3. CASE \E i \in Things : EngineItem(i) \/ ItemDeleted(i)
    BY <2>1, <2>3, ItemsStep
  <2> QED
    BY <1>1, <2>1, <2>2, <2>3, RestStep
<1>2. CASE UNCHANGED windowVars
  <2>1. /\ running' = running /\ items' = items /\ tombstones' = tombstones
        /\ uploaded' = uploaded /\ entries' = entries /\ posting' = posting
        /\ failures' = failures /\ toCancel' = toCancel /\ drawn' = drawn /\ listNow' = listNow
        /\ listAsked' = listAsked /\ listSaved' = listSaved /\ jobs' = jobs /\ win' = win
        /\ view' = view /\ unheard' = unheard
    BY <1>2, Zenon DEF windowVars
  <2>2. WinTypes'
    BY <2>1 DEF WinTypes, WinSets, WinJobs, JobOK
  <2>3. WinRest'
    BY <2>1 DEF WinRest, ItemEvents, Shown, SendEvents, Pending
  <2> QED
    BY <2>2, <2>3
<1> QED
  BY <1>1, <1>2

\* WindowTrue: a ready window with no storage request under way shows the stored
\* items, devices and sends, for any number of each, whatever the engine writes
\* between a read and its answer; excused are the changes of the sends that are
\* announced to nobody (background/controller.ts, useBridge.ts, useWorker.ts).
THEOREM WindowsTrue == WindowsSpec => []WindowTrue
<1>1. WindowsInit => WinInv
  BY WinStart DEF WinInv, WinRest
<1>2. WinInv => WindowTrue
  <2> SUFFICES ASSUME WinInv, win = "ready", jobs = <<>> PROVE WindowTrue
    BY DEF WindowTrue
  <2>1. Len(jobs) = 0
    OBVIOUS
  <2>2. \A K : ~Kind(jobs, K) /\ \A i : ~Has(jobs, K, i)
    BY <2>1 DEF Kind, Has
  <2>3. unheard \/ view.pending = Pending
    BY <2>2 DEF WinInv, WinRest, SendEvents
  <2>4. items \subseteq Things /\ view.items \subseteq Things
    BY DEF WinInv, WinTypes, WinSets
  <2>5. view.devices = listSaved /\ view.items = items
    BY <2>2, <2>4 DEF WinInv, WinRest, Shown
  <2> QED
    BY <2>3, <2>5 DEF WindowTrue
<1> QED
  BY <1>1, <1>2, WinStep, PTL DEF WindowsSpec

\* The flags of the controller, and which of the two it is.
WinFlags == shell \in Shells /\ running \in BOOLEAN /\ unheard \in BOOLEAN

LEMMA WinFlagsStart == WindowsInit => WinFlags
BY DEF WindowsInit, WinFlags

LEMMA WinFlagsStep == WinFlags /\ [WindowsNext]_windowVars => WinFlags'
<1> SUFFICES ASSUME WinFlags, [WindowsNext]_windowVars PROVE WinFlags'
  OBVIOUS
<1>1. CASE Woken
  BY <1>1 DEF Woken, WinFlags
<1>2. CASE UNCHANGED <<shell, running, unheard>>
  BY <1>2 DEF WinFlags
<1>3. CASE StorageAnswers
  <2>1. UNCHANGED <<shell, running>>
    BY <1>3, Zenon DEF StorageAnswers
  <2>2. unheard' = FALSE \/ unheard' = TRUE \/ unheard' = unheard
    <3> DEFINE job == Head(jobs)
    <3>1. (UNCHANGED <<items, failures, toCancel, listSaved, win, view, unheard>>) \/ Answered1(job)
      BY <1>3, Zenon DEF StorageAnswers
    <3> HIDE DEF job
    <3>2. EventOf(job) => unheard' = FALSE \/ unheard' = unheard
      BY Zenon DEF EventOf, BroadcastOutbox
    <3>3. Delivered(job.arg) => unheard' = FALSE \/ unheard' = TRUE \/ unheard' = unheard
      BY Zenon DEF Delivered, BroadcastOutbox
    <3> QED
      BY <3>1, <3>2, <3>3, Zenon DEF Answered1
  <2> QED
    BY <2>1, <2>2 DEF WinFlags
<1>4. ASSUME NEW i, Send(i) \/ Retry(i) PROVE WinFlags'
  BY <1>2, <1>4, Zenon DEF Send, Retry, SendFrom
<1>5. ASSUME NEW i, \/ Flush(i) \/ Accepted(i) \/ RejectedByServer(i) \/ UndoQueued(i)
                    \/ EngineItem(i) \/ ItemDeleted(i) \/ OtherSends(i)
      PROVE  WinFlags'
  BY <1>2, <1>5, Zenon DEF Flush, Accepted, RejectedByServer, UndoQueued, EngineItem, ItemDeleted,
     OtherSends
<1>6. CASE \/ Arrive \/ Unanswered \/ ListChanges \/ FetchDevices \/ DevicesFetched
           \/ Open \/ GiveUp \/ Close \/ Refresh_Window
  BY <1>2, <1>6, Zenon DEF Arrive, Unanswered, ListChanges, FetchDevices, DevicesFetched, Open,
     GiveUp, Close, Refresh_Window
<1>7. CASE UNCHANGED windowVars
  BY <1>2, <1>7, Zenon DEF windowVars
<1> QED
  BY <1>1, <1>3, <1>4, <1>5, <1>6, <1>7, Zenon DEF WindowsNext

LEMMA WindowsTyped == WinTypes /\ WinFlags => WindowsTypeOK
BY DEF WinTypes, WinSets, WinJobs, WinFlags, WindowsTypeOK

-----------------------------------------------------------------------------
\* The native windows: the flyout goes when it loses the keyboard.

\* The events of the main thread.
Mails == {"tray", "menu", "key", "second", "blur"} \cup Labels

\* The event is on the queue.
Holds(s, m) == \E n \in 1..Len(s) : s[n] = m

\* The flyout is on the screen without the keyboard only as long as it is yet to be told.
YieldInv ==
    /\ NativeTypeOK
    /\ "flyout" \in shown_windows => focus = "flyout" \/ refused \/ Holds(mailed, "blur")

\* What a posted event, or one that was handled, leaves of the queue.
LEMMA Posted ==
    ASSUME NEW s \in Seq(Mails), NEW t \in Seq(Mails)
    PROVE  /\ s \o t \in Seq(Mails)
           /\ Holds(s, "blur") => Holds(s \o t, "blur")
           /\ Holds(t, "blur") => Holds(s \o t, "blur")
<1>1. /\ s \o t \in Seq(Mails) /\ Len(s \o t) = Len(s) + Len(t) /\ Len(s) \in Nat /\ Len(t) \in Nat
      /\ \A n \in 1..Len(s) : (s \o t)[n] = s[n] /\ n \in 1..(Len(s) + Len(t))
      /\ \A n \in 1..Len(t) : /\ (s \o t)[Len(s) + n] = t[n]
                              /\ Len(s) + n \in 1..(Len(s) + Len(t))
  OBVIOUS
<1> QED
  BY <1>1 DEF Holds

\* The thread takes the first event off its queue.
LEMMA HandledOne ==
    ASSUME NEW s \in Seq(Mails), s # <<>>
    PROVE  /\ Tail(s) \in Seq(Mails) /\ Head(s) \in Mails
           /\ Holds(s, "blur") => Head(s) = "blur" \/ Holds(Tail(s), "blur")
<1>1. /\ Tail(s) \in Seq(Mails) /\ Head(s) \in Mails /\ Head(s) = s[1]
      /\ Len(Tail(s)) = Len(s) - 1 /\ Len(s) \in Nat
      /\ \A n \in 1..Len(s) : n = 1 \/ (n - 1 \in 1..(Len(s) - 1) /\ Tail(s)[n - 1] = s[n])
  OBVIOUS
<1> QED
  BY <1>1 DEF Holds

\* A flyout that loses the keyboard is told so by an event.
LEMMA TellsIt ==
    ASSUME NEW w
    PROVE  /\ Blurred(w) \in Seq(Mails)
           /\ focus = "flyout" /\ w # "flyout" => Holds(Blurred(w), "blur")
<1>1. /\ <<"blur">> \in Seq(Mails) /\ Len(<<"blur">>) = 1 /\ <<"blur">>[1] = "blur"
      /\ <<>> \in Seq(Mails)
  BY DEF Mails
<1> QED
  BY <1>1 DEF Blurred, Holds

\* What the user does mails events and may move the keyboard.
LEMMA UserStep ==
    ASSUME YieldInv, NEW w \in shown_windows \cup {"other"}, NEW t \in Seq(Mails),
           UserPosts(w, t), refused' \in BOOLEAN,
           refused /\ w # "flyout" => refused'
    PROVE  YieldInv'
<1>1. /\ focus' = w /\ shown_windows' = shown_windows /\ mailed \in Seq(Mails)
      /\ mailed' = (mailed \o Blurred(w)) \o t
  BY DEF UserPosts, YieldInv, NativeTypeOK, Mails
<1>2. /\ mailed \o Blurred(w) \in Seq(Mails)
      /\ Holds(mailed, "blur") => Holds(mailed \o Blurred(w), "blur")
      /\ focus = "flyout" /\ w # "flyout" => Holds(mailed \o Blurred(w), "blur")
  BY <1>1, TellsIt, Posted
<1>3. /\ mailed' \in Seq(Mails)
      /\ Holds(mailed \o Blurred(w), "blur") => Holds(mailed', "blur")
  BY <1>1, <1>2, Posted
<1>4. NativeTypeOK'
  BY <1>1, <1>3 DEF YieldInv, NativeTypeOK, Mails
<1> QED
  BY <1>1, <1>2, <1>3, <1>4 DEF YieldInv

\* The user's steps, those of the main thread and a restart keep it.
LEMMA YieldStep == ASSUME YieldInv, [NativeNext]_nativeVars PROVE YieldInv'
<1>1. \A e \in Mails : <<e>> \in Seq(Mails)
  OBVIOUS
<1>2. /\ focus \in shown_windows \cup {"other"} /\ refused \in BOOLEAN /\ <<>> \in Seq(Mails)
      /\ mailed \in Seq(Mails) /\ shown_windows \subseteq Labels
  BY DEF YieldInv, NativeTypeOK, Mails
<1>3. ASSUME NEW w \in Labels \cup {"other"}, ClickOn(w) PROVE YieldInv'
  <2>1. /\ w \in shown_windows \cup {"other"} /\ UserPosts(w, <<>>)
        /\ refused' = (refused /\ w # "flyout")
    BY <1>3 DEF ClickOn
  <2> QED
    BY <1>2, <2>1, UserStep
<1>4. ASSUME NEW w \in Labels, AskClose(w) PROVE YieldInv'
  BY <1>1, <1>2, <1>4, UserStep DEF AskClose, Mails
<1>5. ASSUME ClickTray \/ PickMenu \/ PressFlyoutKey \/ LaunchAgain PROVE YieldInv'
  BY <1>1, <1>2, <1>5, UserStep DEF ClickTray, PickMenu, PressFlyoutKey, LaunchAgain, Mails
<1>6. ASSUME mailed # <<>>, Head(mailed) # "blur", NEW w \in Labels, ShowAndFocus(w)
      PROVE  YieldInv'
  <2>1. /\ shown_windows' = shown_windows \cup {w} /\ focus' \in {w, focus}
        /\ mailed' = Tail(mailed) \o Blurred(focus')
        /\ refused' = IF w = "flyout" THEN focus' # "flyout" ELSE refused
    BY <1>6 DEF ShowAndFocus
  <2>2. /\ Tail(mailed) \in Seq(Mails)
        /\ Holds(mailed, "blur") => Holds(Tail(mailed), "blur")
    BY <1>2, <1>6, HandledOne
  <2>3. /\ mailed' \in Seq(Mails)
        /\ Holds(mailed, "blur") => Holds(mailed', "blur")
        /\ focus = "flyout" /\ focus' # "flyout" => Holds(mailed', "blur")
    BY <2>1, <2>2, TellsIt, Posted
  <2>4. refused' \in BOOLEAN
    BY <1>2, <2>1
  <2>5. NativeTypeOK'
    BY <1>2, <2>1, <2>3, <2>4 DEF NativeTypeOK, Mails
  <2> QED
    BY <2>1, <2>3, <2>5 DEF YieldInv, Labels
<1>7. ASSUME mailed # <<>>, NEW w \in Labels, Hide(w), Head(mailed) # "blur" \/ w = "flyout"
      PROVE  YieldInv'
  <2>1. /\ shown_windows' = shown_windows \ {w}
        /\ focus' = IF focus = w THEN "other" ELSE focus
        /\ mailed' = Tail(mailed) \o Blurred(focus')
        /\ refused' = (refused /\ w # "flyout")
    BY <1>7 DEF Hide
  <2>2. /\ Tail(mailed) \in Seq(Mails)
        /\ Holds(mailed, "blur") => Holds(Tail(mailed), "blur") \/ w = "flyout"
    BY <1>2, <1>7, HandledOne
  <2>3. /\ mailed' \in Seq(Mails)
        /\ Holds(mailed, "blur") => Holds(mailed', "blur") \/ w = "flyout"
    BY <2>1, <2>2, TellsIt, Posted
  <2>5. NativeTypeOK'
    BY <1>2, <2>1, <2>3 DEF NativeTypeOK, Mails
  <2> QED
    BY <2>1, <2>3, <2>5 DEF YieldInv, Labels
<1>8. "main" \in Labels /\ "flyout" \in Labels /\ "blur" \notin Labels
  BY DEF Labels
<1>9. ASSUME MainThread PROVE YieldInv'
  <2>1. mailed # <<>>
    BY <1>9 DEF MainThread
  <2>2. CASE show_main \/ SecondLaunch
    BY <1>6, <1>8, <2>1, <2>2 DEF show_main, SecondLaunch
  <2>3. CASE show_flyout
    BY <1>6, <1>8, <2>1, <2>3 DEF show_flyout
  <2>4. CASE toggle_flyout
    BY <1>6, <1>7, <1>8, <2>1, <2>4 DEF toggle_flyout
  <2>5. CASE FlyoutBlurred
    BY <1>7, <1>8, <2>1, <2>5 DEF FlyoutBlurred
  <2>6. CASE CloseRequested
    BY <1>7, <1>8, <2>1, <2>6 DEF CloseRequested
  <2> QED
    BY <1>9, <2>2, <2>3, <2>4, <2>5, <2>6 DEF MainThread
<1>10. ASSUME StartNative PROVE YieldInv'
  <2>1. mailed' = <<>> /\ mailed' \in Seq(Mails)
    BY <1>10 DEF StartNative
  <2> QED
    BY <1>10, <2>1, Zenon DEF StartNative, YieldInv, NativeTypeOK, Mails
<1>11. ASSUME UNCHANGED nativeVars PROVE YieldInv'
  BY <1>11 DEF nativeVars, YieldInv, NativeTypeOK
<1> QED
  BY <1>3, <1>4, <1>5, <1>9, <1>10, <1>11 DEF NativeNext

\* The windows are as the program starts.
LEMMA YieldStart == NativeInit => YieldInv
<1> SUFFICES ASSUME NativeInit PROVE YieldInv
  OBVIOUS
<1>1. mailed = <<>> /\ mailed \in Seq(Mails)
  BY DEF NativeInit
<1> QED
  BY <1>1, Zenon DEF NativeInit, YieldInv, NativeTypeOK, Mails

\* FlyoutYields: with nothing mailed the flyout is on the screen only with the
\* keyboard, or refused it by the system, however many clicks, shortcuts, launches
\* and closings the main thread handles, in any order (src-tauri lib.rs and
\* tray.rs).
THEOREM FlyoutGoes == NativeSpec => []FlyoutYields
<1>1. NativeInit => YieldInv
  BY YieldStart
<1>2. YieldInv /\ [NativeNext]_nativeVars => YieldInv'
  BY YieldStep
<1>3. YieldInv => FlyoutYields
  BY DEF YieldInv, FlyoutYields, Holds
<1> QED
  BY <1>1, <1>2, <1>3, PTL DEF NativeSpec

-----------------------------------------------------------------------------
\* Captures: what was undone in time goes.

USE CaptureAssumption

CaptureTypes ==
    /\ made \in 0..LastCapture
    /\ taking \cup told \cup queue \cup landed \cup delivered \cup deletes \subseteq 1..made
    /\ post = 0 \/ post \in 1..made
    /\ cancels \cup saved \cup deletes \subseteq undone
    /\ undone \subseteq 1..made
    /\ row \in [Captures -> {"no", "item", "deleted"}]
    /\ \A c \in Captures : row[c] # "no" => c <= made

\* Where a capture is: in the outbox, its POST answered, delivered, or being deleted.
OnePlace ==
    /\ \A c \in queue : c \notin landed \cup delivered \cup deletes
    /\ \A c \in landed : c \notin delivered \cup deletes
    /\ \A c, d \in landed : c = d
    /\ post # 0 => landed = {} /\ First(post)

\* What the server may have before the program knows: the first entry, which is
\* being sent or was tried or whose answer broke off, and what is answered or delivered.
MaybeThere ==
    \A c \in taking \cup told : row[c] # "no" =>
        /\ c \in queue => First(c) /\ (c \in tried \cup garbled \/ post = c)
        /\ c \in queue \cup landed \cup delivered \cup undone

\* An undone capture that is not delivered yet will be cancelled when it is.
Remembered == \A c \in undone \ excused : c \in queue \cup landed => c \in cancels

CaptureInv == CaptureTypes /\ OnePlace /\ MaybeThere /\ Remembered /\ UndoneGoes

\* Nothing was captured yet.
LEMMA CaptureStart == CaptureInit => CaptureInv
BY DEF CaptureInit, CaptureInv, CaptureTypes, OnePlace, MaybeThere, Remembered, UndoneGoes,
       Captures

\* Each step of the outbox, the controller and the toast keeps the five parts.
LEMMA CaptureStep == CaptureInv /\ [CaptureNext]_captureVars => CaptureInv'
<1> SUFFICES ASSUME CaptureInv, [CaptureNext]_captureVars PROVE CaptureInv'
  OBVIOUS
<1> USE DEF CaptureInv, undoVars, toastVars, historyVars
<1>1. CASE Capture
  <2>1. CaptureTypes'
    BY <1>1 DEF Capture, CaptureTypes, Captures
  <2>2. OnePlace'
    BY <1>1 DEF Capture, CaptureTypes, OnePlace, First
  <2>3. MaybeThere'
    BY <1>1 DEF Capture, CaptureTypes, MaybeThere, Captures, First
  <2>4. Remembered'
    BY <1>1 DEF Capture, CaptureTypes, Remembered
  <2>5. UndoneGoes'
    BY <1>1 DEF Capture, UndoneGoes
  <2> QED
    BY <2>1, <2>2, <2>3, <2>4, <2>5
<1>2. CASE Reach
  <2>1. CaptureTypes'
    BY <1>2 DEF Reach, CaptureTypes, Captures
  <2>2. OnePlace'
    BY <1>2 DEF Reach, OnePlace, First
  <2>3. MaybeThere'
    BY <1>2 DEF Reach, OnePlace, MaybeThere, First
  <2>4. Remembered'
    BY <1>2 DEF Reach, Remembered
  <2>5. UndoneGoes'
    BY <1>2 DEF Reach, OnePlace, Remembered, UndoneGoes, First
  <2> QED
    BY <2>1, <2>2, <2>3, <2>4, <2>5
<1>3. CASE Answer
  <2>1. CaptureTypes'
    BY <1>3 DEF Answer, CaptureTypes
  <2>2. OnePlace'
    BY <1>3 DEF Answer, OnePlace, First
  <2>3. MaybeThere'
    BY <1>3 DEF Answer, OnePlace, MaybeThere, First
  <2>4. Remembered'
    BY <1>3 DEF Answer, OnePlace, Remembered, First
  <2>5. UndoneGoes'
    BY <1>3 DEF Answer, OnePlace, UndoneGoes
  <2> QED
    BY <2>1, <2>2, <2>3, <2>4, <2>5
<1>4. CASE Refuse
  <2>1. CaptureTypes'
    BY <1>4 DEF Refuse, CaptureTypes
  <2>2. OnePlace'
    BY <1>4 DEF Refuse, OnePlace
  <2>3. MaybeThere'
    BY <1>4 DEF Refuse, MaybeThere, First
  <2>4. Remembered'
    BY <1>4 DEF Refuse, Remembered
  <2>5. UndoneGoes'
    BY <1>4 DEF Refuse, UndoneGoes
  <2> QED
    BY <2>1, <2>2, <2>3, <2>4, <2>5
<1>5. CASE PostFails
  <2>1. CaptureTypes'
    BY <1>5 DEF PostFails, CaptureTypes
  <2>2. OnePlace'
    BY <1>5 DEF PostFails, OnePlace
  <2>3. MaybeThere'
    BY <1>5 DEF PostFails, MaybeThere, First
  <2>4. Remembered'
    BY <1>5 DEF PostFails, Remembered
  <2>5. UndoneGoes'
    BY <1>5 DEF PostFails, UndoneGoes
  <2> QED
    BY <2>1, <2>2, <2>3, <2>4, <2>5
<1>6. CASE Dismiss
  <2>1. CaptureTypes'
    BY <1>6 DEF Dismiss, CaptureTypes
  <2>2. OnePlace'
    BY <1>6 DEF Dismiss, OnePlace, First
  <2>3. MaybeThere'
    BY <1>6 DEF Dismiss, MaybeThere, First
  <2>4. Remembered'
    BY <1>6 DEF Dismiss, Remembered
  <2>5. UndoneGoes'
    BY <1>6 DEF Dismiss, UndoneGoes
  <2> QED
    BY <2>1, <2>2, <2>3, <2>4, <2>5
<1>7. CASE SaveCancels
  <2>1. CaptureTypes'
    BY <1>7 DEF SaveCancels, CaptureTypes
  <2>2. OnePlace'
    BY <1>7 DEF SaveCancels, OnePlace, First
  <2>3. MaybeThere'
    BY <1>7 DEF SaveCancels, MaybeThere, First
  <2>4. Remembered'
    BY <1>7 DEF SaveCancels, Remembered
  <2>5. UndoneGoes'
    BY <1>7 DEF SaveCancels, UndoneGoes
  <2> QED
    BY <2>1, <2>2, <2>3, <2>4, <2>5
<1>8. CASE RestartDesktop
  <2>1. CaptureTypes'
    BY <1>8 DEF RestartDesktop, CaptureTypes
  <2>2. OnePlace'
    BY <1>8 DEF RestartDesktop, OnePlace
  <2>3. MaybeThere'
    BY <1>8 DEF RestartDesktop, MaybeThere
  <2>4. Remembered'
    BY <1>8 DEF RestartDesktop, Remembered
  <2>5. UndoneGoes'
    BY <1>8 DEF RestartDesktop, UndoneGoes
  <2> QED
    BY <2>1, <2>2, <2>3, <2>4, <2>5
<1>9. ASSUME NEW c \in Captures, CaptureResult(c) PROVE CaptureInv'
  <2>1. CaptureTypes'
    BY <1>9 DEF CaptureResult, ShowToast, CaptureTypes
  <2>2. OnePlace'
    BY <1>9 DEF CaptureResult, ShowToast, OnePlace, First
  <2>3. MaybeThere'
    BY <1>9 DEF CaptureResult, ShowToast, MaybeThere, First
  <2>4. Remembered'
    BY <1>9 DEF CaptureResult, ShowToast, Remembered
  <2>5. UndoneGoes'
    BY <1>9 DEF CaptureResult, ShowToast, UndoneGoes
  <2> QED
    BY <2>1, <2>2, <2>3, <2>4, <2>5
<1>10. ASSUME NEW c \in Captures, FlushNext(c) PROVE CaptureInv'
  <2>1. CaptureTypes'
    BY <1>10 DEF FlushNext, CaptureTypes, First
  <2>2. OnePlace'
    BY <1>10 DEF FlushNext, OnePlace, First, Flushing
  <2>3. MaybeThere'
    BY <1>10 DEF FlushNext, MaybeThere, Captures, First, Flushing
  <2>4. Remembered'
    BY <1>10 DEF FlushNext, Remembered
  <2>5. UndoneGoes'
    BY <1>10 DEF FlushNext, UndoneGoes
  <2> QED
    BY <2>1, <2>2, <2>3, <2>4, <2>5
<1>11. ASSUME NEW c \in Captures, Deliver(c) PROVE CaptureInv'
  <2>1. CaptureTypes'
    BY <1>11 DEF Deliver, CaptureTypes
  <2>2. OnePlace'
    BY <1>11 DEF Deliver, OnePlace
  <2>3. MaybeThere'
    BY <1>11 DEF Deliver, CaptureTypes, OnePlace, MaybeThere, First
  <2>4. Remembered'
    BY <1>11 DEF Deliver, OnePlace, Remembered
  <2>5. UndoneGoes'
    BY <1>11 DEF Deliver, OnePlace, UndoneGoes
  <2> QED
    BY <2>1, <2>2, <2>3, <2>4, <2>5
<1>12. ASSUME NEW c \in Captures, Synced(c) PROVE CaptureInv'
  <2>1. CaptureTypes'
    BY <1>12 DEF Synced, CaptureTypes
  <2>2. OnePlace'
    BY <1>12 DEF Synced, OnePlace, First
  <2>3. MaybeThere'
    BY <1>12 DEF Synced, MaybeThere, First
  <2>4. Remembered'
    BY <1>12 DEF Synced, Remembered
  <2>5. UndoneGoes'
    BY <1>12 DEF Synced, UndoneGoes
  <2> QED
    BY <2>1, <2>2, <2>3, <2>4, <2>5
<1>13. ASSUME NEW c \in Captures, Undo_Capture(c) PROVE CaptureInv'
  <2>1. CaptureTypes'
    BY <1>13 DEF Undo_Capture, HideToast, ToastOf, CaptureTypes
  <2>2. OnePlace'
    BY <1>13 DEF Undo_Capture, HideToast, ToastOf, OnePlace, First, CanCancel, Flushing
  <2>3. MaybeThere'
    BY <1>13 DEF Undo_Capture, HideToast, ToastOf, MaybeThere, First
  <2>4. Remembered'
    BY <1>13 DEF Undo_Capture, HideToast, ToastOf, OnePlace, Remembered, CanCancel
  <2>5. UndoneGoes'
    BY <1>13 DEF Undo_Capture, HideToast, ToastOf, MaybeThere, UndoneGoes, Captures, CanCancel, Flushing
  <2> QED
    BY <2>1, <2>2, <2>3, <2>4, <2>5
<1>14. ASSUME NEW c \in Captures, DeleteEnds(c) PROVE CaptureInv'
  <2>1. CaptureTypes'
    BY <1>14 DEF DeleteEnds, CaptureTypes
  <2>2. OnePlace'
    BY <1>14 DEF DeleteEnds, OnePlace, First
  <2>3. MaybeThere'
    BY <1>14 DEF DeleteEnds, CaptureTypes, OnePlace, MaybeThere, Captures, First
  <2>4. Remembered'
    BY <1>14 DEF DeleteEnds, Remembered
  <2>5. UndoneGoes'
    BY <1>14 DEF DeleteEnds, CaptureTypes, UndoneGoes, Captures
  <2> QED
    BY <2>1, <2>2, <2>3, <2>4, <2>5
<1>15. CASE PostThrows
  <2>1. CaptureTypes'
    BY <1>15 DEF PostThrows, CaptureTypes
  <2>2. OnePlace'
    BY <1>15 DEF PostThrows, OnePlace
  <2>3. MaybeThere'
    BY <1>15 DEF PostThrows, MaybeThere, First
  <2>4. Remembered'
    BY <1>15 DEF PostThrows, Remembered
  <2>5. UndoneGoes'
    BY <1>15 DEF PostThrows, UndoneGoes
  <2> QED
    BY <2>1, <2>2, <2>3, <2>4, <2>5
<1>16. CASE UNCHANGED captureVars
  BY <1>16 DEF captureVars, CaptureTypes, OnePlace, MaybeThere, Remembered, UndoneGoes, First
<1> QED
  BY <1>1, <1>2, <1>3, <1>4, <1>5, <1>6, <1>7, <1>8, <1>9, <1>10, <1>11, <1>12, <1>13, <1>14,
     <1>15, <1>16
     DEF CaptureNext

\* UndoneGoes: an undone capture does not stay on the server, for any number of
\* captures, however deliveries, failures and restarts fall.
THEOREM UndoneCapturesGo == CaptureInit /\ [][CaptureNext]_captureVars => []UndoneGoes
<1>1. CaptureInv => UndoneGoes
  BY DEF CaptureInv
<1> QED
  BY <1>1, CaptureStart, CaptureStep, PTL

\* The rest of the types: only captures that were made are anywhere, and the two
\* words and the flag that do not number captures.
CaptureMade ==
    /\ tried \subseteq 1..made /\ syncing \subseteq 1..made /\ excused \subseteq 1..made
    /\ garbled \subseteq 1..made /\ toast \in 0..made
CaptureSaid == saving \in BOOLEAN /\ said \in {"queued", "synced"}

LEMMA CaptureFlagsStart == CaptureInit => CaptureMade /\ CaptureSaid
<1> SUFFICES ASSUME CaptureInit PROVE CaptureMade /\ CaptureSaid
  OBVIOUS
<1>1. CaptureMade
  BY DEF CaptureInit, CaptureMade
<1>2. CaptureSaid
  BY Zenon DEF CaptureInit, CaptureSaid
<1> QED
  BY <1>1, <1>2

\* Every step, by what it does to these.
LEMMA CaptureFlagsStep ==
    CaptureTypes /\ CaptureMade /\ CaptureSaid /\ [CaptureNext]_captureVars
        => CaptureMade' /\ CaptureSaid'
<1> SUFFICES ASSUME CaptureTypes, CaptureMade, CaptureSaid, [CaptureNext]_captureVars
             PROVE  CaptureMade' /\ CaptureSaid'
  OBVIOUS
<1>1. made \in Nat /\ 0 \in 0..made /\ \A c \in 1..made : c \in 0..made
  BY DEF CaptureTypes
<1>2. CaptureMade'
  <2> USE DEF CaptureTypes, CaptureMade, toastVars, undoVars, historyVars
  <2>1. CASE Capture
    <3>1. made' = made + 1 /\ UNCHANGED <<tried, syncing, excused, garbled, toast>>
      BY <2>1, Zenon DEF Capture
    <3> QED
      BY <1>1, <3>1
  <2>2. CASE /\ made' = made /\ tried' \subseteq 1..made /\ syncing' \subseteq 1..made
             /\ excused' \subseteq 1..made /\ garbled' \subseteq 1..made /\ toast' \in 0..made
    BY <2>2
  <2>3. CASE Reach \/ Answer \/ Refuse \/ SaveCancels \/ UNCHANGED captureVars
    <3>1. UNCHANGED <<made, tried, syncing, excused, garbled, toast>>
      BY <2>3, Zenon DEF Reach, Answer, Refuse, SaveCancels, captureVars
    <3> QED
      BY <2>2, <3>1
  <2>4. CASE PostFails \/ PostThrows
    BY <1>1, <2>2, <2>4 DEF PostFails, PostThrows
  <2>5. CASE Dismiss
    BY <1>1, <2>2, <2>5 DEF Dismiss
  <2>6. CASE RestartDesktop
    BY <1>1, <2>2, <2>6 DEF RestartDesktop
  <2>7. ASSUME NEW c \in Captures, CaptureResult(c) PROVE CaptureMade'
    BY <1>1, <2>2, <2>7 DEF CaptureResult, ShowToast
  <2>8. ASSUME NEW c \in Captures, FlushNext(c) PROVE CaptureMade'
    BY <2>2, <2>8 DEF FlushNext
  <2>9. ASSUME NEW c \in Captures, Deliver(c) \/ Synced(c) PROVE CaptureMade'
    BY <2>2, <2>9 DEF Deliver, Synced
  <2>10. ASSUME NEW c \in Captures, Undo_Capture(c) PROVE CaptureMade'
    BY <1>1, <2>2, <2>10 DEF Undo_Capture, HideToast
  <2>11. ASSUME NEW c \in Captures, DeleteEnds(c) PROVE CaptureMade'
    BY <2>2, <2>11 DEF DeleteEnds
  <2> QED
    BY <2>1, <2>3, <2>4, <2>5, <2>6, <2>7, <2>8, <2>9, <2>10, <2>11, Zenon DEF CaptureNext
<1>3. saving' = saving \/ saving' = TRUE \/ saving' = FALSE
  BY Zenon DEF CaptureNext, Capture, Reach, Answer, Refuse, PostFails, PostThrows, Dismiss, SaveCancels,
     RestartDesktop, CaptureResult, FlushNext, Deliver, Synced, Undo_Capture, DeleteEnds,
     captureVars, undoVars
<1>4. said' = said \/ said' = "queued" \/ said' = "synced"
  BY Zenon DEF CaptureNext, Capture, Reach, Answer, Refuse, PostFails, PostThrows, Dismiss, SaveCancels,
     RestartDesktop, CaptureResult, ShowToast, FlushNext, Deliver, Synced, Undo_Capture, DeleteEnds,
     captureVars, toastVars
<1> QED
  BY <1>2, <1>3, <1>4, Zenon DEF CaptureSaid

LEMMA CaptureTyped == CaptureTypes /\ CaptureMade /\ CaptureSaid => CaptureTypeOK
<1> SUFFICES ASSUME CaptureTypes, CaptureMade, CaptureSaid PROVE CaptureTypeOK
  OBVIOUS
<1>1. /\ made \in 0..LastCapture /\ post \in 0..made /\ toast \in 0..made
      /\ row \in [Captures -> {"no", "item", "deleted"}]
      /\ taking \subseteq 1..made /\ queue \subseteq 1..made /\ landed \subseteq 1..made
      /\ delivered \subseteq 1..made /\ deletes \subseteq 1..made /\ told \subseteq 1..made
  BY DEF CaptureTypes, CaptureMade
<1>4. /\ tried \subseteq 1..made /\ syncing \subseteq 1..made /\ excused \subseteq 1..made
      /\ garbled \subseteq 1..made
      /\ cancels \subseteq 1..made /\ saved \subseteq 1..made /\ undone \subseteq 1..made
  BY DEF CaptureTypes, CaptureMade
<1>2. saving \in BOOLEAN /\ said \in {"queued", "synced"}
  BY Zenon DEF CaptureSaid
<1>3. \A S \in {taking, queue, tried, landed, syncing, delivered, cancels, saved, deletes,
                 told, undone, garbled, excused} : S \subseteq 1..made
  BY <1>1, <1>4, Zenon
<1> QED
  BY <1>1, <1>2, <1>3, Zenon DEF CaptureTypeOK

-----------------------------------------------------------------------------
\* Shortcuts: the menu tells the truth, and pausing pauses.

USE CombosAssumption

\* The two combinations differ, and what the switch governs is registered with
\* it on; the flyout's does not depend on it.
HotkeysInv ==
    /\ HotkeysTypeOK
    /\ capture_combo # flyout_combo
    /\ checked = capture_enabled
    /\ ~failed => /\ flyout_combo \in grabbed
                  /\ capture_enabled => capture_combo \in grabbed

\* The defaults are registered, or failed.
LEMMA HotkeysStart == HotkeysInit => HotkeysInv
BY DEF HotkeysInit, HotkeysInv, HotkeysTypeOK, register_default_hotkeys

\* Commands, menu and key presses keep it.
LEMMA HotkeysStep == HotkeysInv /\ [HotkeysNext]_hotkeyVars => HotkeysInv'
<1> SUFFICES ASSUME HotkeysInv, [HotkeysNext]_hotkeyVars PROVE HotkeysInv'
  OBVIOUS
<1> USE DEF HotkeysInv, HotkeysTypeOK
<1>1. ASSUME NEW capture \in Combos \cup {BadCombo}, NEW flyout \in Combos \cup {BadCombo},
             register_hotkeys(capture, flyout)
      PROVE  HotkeysInv'
  BY <1>1 DEF register_hotkeys, parse_accelerator, Free
<1>2. ASSUME NEW b \in BOOLEAN, set_capture_enabled(b) PROVE HotkeysInv'
  BY <1>2 DEF set_capture_enabled, Switch, set_capture_check, set_tray_state, Free
<1>3. CASE toggle_capture
  BY <1>3 DEF toggle_capture, Switch, set_capture_check, set_tray_state, Free
<1>4. ASSUME NEW b \in BOOLEAN, pause_capture(b) \/ menu_pause \/ set_tray_pending(b)
      PROVE  HotkeysInv'
  BY <1>4 DEF pause_capture, menu_pause, PauseFor, set_tray_pending, set_tray_state
<1>5. CASE RestartApp
  BY <1>5 DEF RestartApp, register_default_hotkeys
<1>6. CASE get_boot_conflicts \/ Deadline \/ TakeCapture
  BY <1>6 DEF get_boot_conflicts, Deadline, TakeCapture
<1>7. CASE emit_capture_event
  BY <1>7 DEF emit_capture_event
<1>8. ASSUME NEW combo \in Combos, OtherProgram(combo) PROVE HotkeysInv'
  BY <1>8 DEF OtherProgram
<1>9. CASE UNCHANGED hotkeyVars
  BY <1>9 DEF hotkeyVars
<1> QED
  BY <1>1, <1>2, <1>3, <1>4, <1>5, <1>6, <1>7, <1>8, <1>9 DEF HotkeysNext

\* MenuTrue: for any combinations, whatever other programs hold.
THEOREM MenuIsTrue == HotkeysInit /\ [][HotkeysNext]_hotkeyVars => []MenuTrue
<1>1. HotkeysInv => MenuTrue
  BY DEF HotkeysInv, MenuTrue
<1> QED
  BY <1>1, HotkeysStart, HotkeysStep, PTL

\* NoUnwantedCapture: only a press sends a capture, and never against the switch
\* or a pause.
THEOREM NoCaptureUnwanted == HotkeysInit /\ [][HotkeysNext]_hotkeyVars => NoUnwantedCapture
<1>1. [HotkeysNext]_hotkeyVars
      => [sent = "none" /\ sent' # "none" => capture_enabled /\ pause # "until"]_hotkeyVars
  BY DEF HotkeysNext, register_hotkeys, set_capture_enabled, toggle_capture, Switch,
         pause_capture, menu_pause, set_tray_pending, RestartApp, get_boot_conflicts, Deadline,
         TakeCapture, OtherProgram, emit_capture_event, is_capture_blocked, hotkeyVars
<1> QED
  BY <1>1, PTL DEF NoUnwantedCapture
=============================================================================

----------------------------- MODULE ScreenProofs -----------------------------
(***************************************************************************)
(* Proofs about what the screens of the clients show and announce, for any *)
(* number of items, devices, names, shares and sends.                      *)
(***************************************************************************)
EXTENDS Alerts, FeedScreen, FeedList, Composing, DeviceScreens, ShareFlow, FiniteSetTheorems,
        WellFoundedInduction, TLAPS

-----------------------------------------------------------------------------
\* Alerts and the badge.

\* The stages of a handler that passed the watermark.
Passed == {"count", "bump", "show", "prefs"}

\* What the proof needs of the types.
AlertTypes ==
    /\ mark \in 0..LastItem
    /\ at \in [Handlers -> Stages] /\ banners \in [Items -> Nat]
    /\ aim \in [Items -> {"own", "here", "elsewhere", "all"}]

\* Whoever has not been overtaken stores a higher watermark.
OnTime == \A h \in Handlers : at[h] = "write" /\ h \notin late => h[1] > mark

\* Of an item that the watermark has not let pass again one handler at most has
\* passed it, and has not announced the item yet.
PassedOnce ==
    \A i \in Items : i \notin sunk =>
        /\ banners[i] <= 1
        /\ banners[i] > 0 => i <= mark
        /\ \A h \in Handlers : h[1] = i /\ at[h] \in Passed => banners[i] = 0 /\ i <= mark
        /\ \A g, h \in Handlers :
              g[1] = i /\ h[1] = i /\ at[g] \in Passed /\ at[h] \in Passed => g = h

\* Where the feed is asked, an item that was handed out has one handler, and has not
\* been announced if the feed did not hold it.
HeldOnce ==
    /\ \A h \in Handlers : at[h] # "none" => h[1] \in seen
    /\ \A g, h \in Handlers : g[1] = h[1] /\ at[g] # "none" /\ at[h] # "none" => g = h
    /\ \A i \in Items : i \notin lost =>
          /\ banners[i] <= 1
          /\ banners[i] > 0 => i \in mem
          /\ \A h \in Handlers : h[1] = i /\ at[h] # "none" => banners[i] = 0

\* Only an item that is aimed at this device, or at all, is announced.
Aimed ==
    /\ \A h \in Handlers : /\ at[h] \in {"count", "bump", "show"} => aim[h[1]] # "own"
                           /\ at[h] = "prefs" => aim[h[1]] \in {"here", "all"}
    /\ \A i \in Items : banners[i] > 0 => aim[i] = "here" \/ (aim[i] = "all" /\ wants)

\* The watermark, and on the clients that ask the feed the feed, lets an item pass once.
AlertInv ==
    /\ AlertTypes /\ Aimed /\ OnTime /\ PassedOnce
    /\ client = "mobile" \/ HeldOnce

\* A handler is one of an item.
LEMMA HandlerItem == \A h \in Handlers : h[1] \in Items
BY DEF Handlers

\* No handler runs at first.
LEMMA AlertStart == AlertsInit => AlertInv
<1> SUFFICES ASSUME AlertsInit PROVE AlertInv
  OBVIOUS
<1>1. /\ mark = 0 /\ at = [h \in Handlers |-> "none"] /\ banners = [i \in Items |-> 0] /\ aim \in Aims
  BY DEF AlertsInit
<1>2. AlertTypes
  BY <1>1, FeedAssumption, AimsAssumption DEF AlertTypes, Items, Stages
<1>3. Aimed /\ OnTime /\ PassedOnce /\ HeldOnce
  BY <1>1 DEF Aimed, OnTime, PassedOnce, HeldOnce, Passed
<1> QED
  BY <1>2, <1>3 DEF AlertInv

\* A handler goes from one stage to another, and what it changes on the way.
Goes(h, to) ==
    /\ at' = [at EXCEPT ![h] = to]
    /\ \/ /\ at[h] \in Stages \ {"write", "prefs"} /\ mark' = mark /\ banners' = banners
          /\ to = "write" => h[1] > mark
          /\ to \in {"bump", "show", "prefs"} => at[h] \in {"count", "bump", "show"}
          /\ to = "prefs" => aim[h[1]] # "elsewhere"
          /\ to # "count"
          /\ at[h] = "none" /\ to # "none" /\ client # "mobile" => h[1] \notin mem \cup seen
          /\ at[h] = "none" /\ to # "none" => h[1] \in seen'
       \/ /\ at[h] = "write" /\ mark' = h[1] /\ banners' = banners
          /\ to = "none" \/ (to = "count" /\ aim[h[1]] # "own")
                         \/ (to = "prefs" /\ aim[h[1]] \notin {"own", "elsewhere"})
       \/ /\ at[h] = "prefs" /\ to = "none" /\ mark' = mark
          /\ banners' = [banners EXCEPT ![h[1]] = @ + IF aim[h[1]] = "here" \/ wants THEN 1 ELSE 0]

AlertView ==
    \/ \E h \in Handlers, to \in Stages : Goes(h, to)
    \/ at' = at /\ mark' = mark /\ banners' = banners

\* Each step leaves every handler where it is, or moves one of them as Goes says.
LEMMA AlertsViewed ==
    ASSUME AlertTypes, AlertStep
    PROVE  /\ client' = client /\ aim' = aim /\ wants' = wants /\ AlertView
           /\ client = "mobile" \/ seen \subseteq seen'
<1> USE DEF AlertTypes, Goes, Move, Stages
<1>1. ASSUME NEW i \in Items, NEW n \in 1..MaxHandlers, Emit(i, n)
      PROVE  \E h \in Handlers, to \in Stages : Goes(h, to)
  <2> DEFINE h == <<i, n>>
  <2>1. h \in Handlers /\ h[1] = i
    BY DEF Handlers
  <2>2. /\ mark' = mark /\ banners' = banners /\ at[h] = "none"
        /\ i \notin seen /\ i \in seen'
    BY <1>1, Zenon DEF Emit
  <2>3. \/ i \notin mem /\ Move(h, "persist")
        \/ i \in mem /\ client = "mobile" /\ Move(h, "read")
        \/ i \in mem /\ client # "mobile" /\ UNCHANGED at
    BY <1>1, Zenon DEF Emit
  <2> HIDE DEF h
  <2>4. at' = at => at' = [at EXCEPT ![h] = "none"]
    BY <2>1, <2>2
  <2>5. CASE at' = at
    BY <2>1, <2>2, <2>4, <2>5
  <2> QED
    BY <2>1, <2>2, <2>3, <2>5
<1>2. ASSUME NEW h \in Handlers, Persist(h) PROVE \E to \in Stages : Goes(h, to)
  BY <1>2 DEF Persist
<1>3. ASSUME NEW h \in Handlers, ReadMark(h) PROVE \E to \in Stages : Goes(h, to)
  <2>1. mark' = mark /\ banners' = banners /\ at[h] = "read"
    BY <1>3, Zenon DEF ReadMark, badgeVars
  <2>2. h[1] > mark \/ h[1] <= mark
    BY HandlerItem DEF Items
  <2>3. h[1] <= mark => Goes(h, "none")
    BY <1>3, <2>1 DEF ReadMark
  <2>4. ~(h[1] <= mark) => Goes(h, "write")
    BY <1>3, <2>1, <2>2 DEF ReadMark
  <2> QED
    BY <2>3, <2>4
<1>4. ASSUME NEW h \in Handlers, WriteMark(h) PROVE \E to \in Stages : Goes(h, to)
  BY <1>4 DEF WriteMark
<1>5. ASSUME NEW h \in Handlers, ReadCount(h) PROVE \E to \in Stages : Goes(h, to)
  BY <1>5 DEF ReadCount
<1>6. ASSUME NEW h \in Handlers, Bump(h) PROVE \E to \in Stages : Goes(h, to)
  BY <1>6 DEF Bump
<1>7. ASSUME NEW h \in Handlers, Show(h) PROVE \E to \in Stages : Goes(h, to)
  BY <1>7, HandlerItem DEF Show
<1>8. ASSUME NEW h \in Handlers, Present(h) PROVE \E to \in Stages : Goes(h, to)
  BY <1>8 DEF Present
<1>9. Clear \/ Cleared \/ FlashOn \/ FlashTimer \/ FlashOff \/ Reopen
      => at' = at /\ mark' = mark /\ banners' = banners
  BY Zenon DEF Clear, Cleared, FlashOn, FlashTimer, FlashOff, Reopen, badgeVars
<1>10. client' = client /\ aim' = aim /\ wants' = wants
  BY Zenon DEF AlertStep, Emit, Persist, ReadMark, WriteMark, ReadCount, Bump, Show,
     Present, Clear, Cleared, FlashOn, FlashTimer, FlashOff, Reopen, fixed
<1> HIDE DEF Goes
<1>11. client = "mobile" \/ seen' = seen \/ (\E i \in Items : seen' = seen \cup {i})
  BY Zenon DEF AlertStep, Emit, Persist, ReadMark, WriteMark, ReadCount, Bump, Show,
     Present, Clear, Cleared, FlashOn, FlashTimer, FlashOff, Reopen, feedVars
<1>12. client = "mobile" \/ seen \subseteq seen'
  BY <1>11
<1>13. AlertView
  BY <1>1, <1>2, <1>3, <1>4, <1>5, <1>6, <1>7, <1>8, <1>9, Zenon DEF AlertStep, AlertView
<1> QED
  BY <1>10, <1>12, <1>13

\* The step of one handler disturbs what is said of its own item only.
LEMMA AlertInvStep == AlertInv /\ AlertsNext => AlertInv'
<1> SUFFICES ASSUME AlertInv, AlertsNext PROVE AlertInv'
  OBVIOUS
<1>1. AlertTypes /\ Aimed /\ OnTime /\ PassedOnce /\ (client = "mobile" \/ HeldOnce)
  BY DEF AlertInv
<1>2. lost' = lost \cup {i \in Items : banners'[i] > 0 /\ i \notin mem'}
  BY DEF AlertsNext
<1>3. CASE Restart
  <2>1. /\ at' = [h \in Handlers |-> "none"] /\ mark' = mark /\ banners' = banners
        /\ sunk' = sunk /\ client' = client /\ aim' = aim /\ wants' = wants
    BY <1>3, Zenon DEF Restart, fixed
  <2>2. AlertTypes' /\ Aimed' /\ OnTime'
    BY <1>1, <2>1 DEF AlertTypes, Aimed, OnTime, Stages
  <2>3. PassedOnce'
    BY <1>1, <2>1 DEF PassedOnce, Passed
  <2>4. HeldOnce => HeldOnce'
    BY <1>1, <1>2, <2>1 DEF AlertTypes, HeldOnce
  <2> QED
    BY <1>1, <2>1, <2>2, <2>3, <2>4 DEF AlertInv
<1>4. CASE /\ AlertStep
           /\ late' = {h \in Handlers : at'[h] = "write" /\ (h \in late \/ Overtaken(h))}
           /\ sunk' = sunk \cup SunkNow
  <2>1. /\ client' = client /\ aim' = aim /\ wants' = wants /\ AlertView
        /\ client = "mobile" \/ seen \subseteq seen'
    BY <1>1, <1>4, AlertsViewed
  <2>2. \A h \in Handlers : h[1] \in Items /\ h[1] \in Nat
    BY HandlerItem DEF Items
  <2>3. CASE at' = at /\ mark' = mark /\ banners' = banners
    <3>1. AlertTypes' /\ Aimed'
      BY <1>1, <2>1, <2>3 DEF AlertTypes, Aimed, Stages
    <3>2. \A h \in Handlers : ~Stores(h)
      BY <2>3 DEF Stores
    <3>3. OnTime'
      BY <1>1, <1>4, <2>3, <3>2 DEF OnTime, Overtaken
    <3>4. PassedOnce'
      BY <1>1, <1>4, <2>3 DEF PassedOnce
    <3>5. client # "mobile" /\ HeldOnce => HeldOnce'
      BY <1>1, <1>2, <2>1, <2>3 DEF AlertTypes, HeldOnce
    <3> QED
      BY <1>1, <2>1, <3>1, <3>3, <3>4, <3>5 DEF AlertInv
  <2>4. ASSUME NEW i \in Handlers, NEW to \in Stages, Goes(i, to)
        PROVE  AlertInv'
    <3>1. at' = [at EXCEPT ![i] = to]
      BY <2>4 DEF Goes
    <3>2. at'[i] = to /\ \A j \in Handlers \ {i} : at'[j] = at[j]
      BY <1>1, <3>1 DEF AlertTypes
    <3>3. CASE /\ at[i] \in Stages \ {"write", "prefs"} /\ mark' = mark /\ banners' = banners
               /\ to = "write" => i[1] > mark
               /\ to \in {"bump", "show", "prefs"} => at[i] \in {"count", "bump", "show"}
               /\ to = "prefs" => aim[i[1]] # "elsewhere"
               /\ to # "count"
               /\ at[i] = "none" /\ to # "none" /\ client # "mobile" => i[1] \notin mem \cup seen
               /\ at[i] = "none" /\ to # "none" => i[1] \in seen'
      <4>1. AlertTypes'
        BY <1>1, <2>1, <3>1, <3>3 DEF AlertTypes
      <4>2. Aimed'
        BY <1>1, <2>1, <2>2, <3>2, <3>3 DEF AlertTypes, Aimed
      <4>3. \A h \in Handlers : ~Stores(h)
        BY <3>2, <3>3 DEF Stores
      <4>4. OnTime'
        BY <1>1, <1>4, <3>2, <3>3, <4>3 DEF OnTime, Overtaken
      <4>5. \A h \in Handlers : at'[h] \in Passed => at[h] \in Passed
        BY <3>2, <3>3 DEF Passed
      <4>6. PassedOnce'
        BY <1>1, <1>4, <3>3, <4>5 DEF PassedOnce
      <4>7. ASSUME client # "mobile", HeldOnce PROVE HeldOnce'
        <5>1. \A h \in Handlers : at'[h] # "none" => h[1] \in seen'
          BY <2>1, <3>2, <3>3, <4>7 DEF HeldOnce
        <5>2. ASSUME at[i] = "none", to # "none"
              PROVE  \A h \in Handlers : h[1] = i[1] => at[h] = "none"
          BY <3>3, <4>7, <5>2 DEF HeldOnce
        <5>3. \A g, h \in Handlers : g[1] = h[1] /\ at'[g] # "none" /\ at'[h] # "none" => g = h
          BY <3>2, <4>7, <5>2 DEF HeldOnce
        <5>4. ASSUME NEW j \in Items, j \notin lost'
              PROVE  /\ banners'[j] <= 1
                     /\ banners'[j] > 0 => j \in mem'
                     /\ \A h \in Handlers : h[1] = j /\ at'[h] # "none" => banners'[j] = 0
          <6>1. j \notin lost /\ ~(banners'[j] > 0 /\ j \notin mem') /\ banners[j] \in Nat
            BY <1>1, <1>2, <5>4 DEF AlertTypes
          <6>2. ASSUME NEW h \in Handlers, h[1] = j, at'[h] # "none" PROVE banners[j] = 0
            <7>1. CASE at[h] # "none"
              BY <4>7, <6>1, <6>2, <7>1 DEF HeldOnce
            <7>2. CASE at[h] = "none"
              <8>1. h = i /\ j \notin mem
                BY <3>2, <3>3, <4>7, <6>2, <7>2
              <8> QED
                BY <4>7, <6>1, <8>1 DEF HeldOnce
            <7> QED
              BY <7>1, <7>2
          <6> QED
            BY <3>3, <4>7, <6>1, <6>2 DEF HeldOnce
        <5> QED
          BY <5>1, <5>3, <5>4 DEF HeldOnce
      <4> QED
        BY <1>1, <2>1, <4>1, <4>2, <4>4, <4>6, <4>7 DEF AlertInv
    <3>4. CASE /\ at[i] = "write" /\ mark' = i[1] /\ banners' = banners
               /\ to = "none" \/ (to = "count" /\ aim[i[1]] # "own")
                              \/ (to = "prefs" /\ aim[i[1]] \notin {"own", "elsewhere"})
      <4>1. AlertTypes'
        BY <1>1, <2>1, <2>2, <3>1, <3>4, FeedAssumption DEF AlertTypes, Items
      <4>2. Aimed'
        BY <1>1, <2>1, <2>2, <3>2, <3>4 DEF AlertTypes, Aimed
      <4>3. Stores(i) /\ mark \in Nat /\ \A j \in Items : j \in Nat
        BY <1>1, <3>2, <3>4 DEF Stores, AlertTypes, Items
      <4>4. OnTime'
        <5> SUFFICES ASSUME NEW h \in Handlers, at'[h] = "write", h \notin late'
                     PROVE  h[1] > i[1]
          BY <3>4 DEF OnTime
        <5>1. ~Overtaken(h)
          BY <1>4
        <5> QED
          BY <2>2, <4>3, <5>1 DEF Overtaken
      <4>5. PassedOnce'
        <5> SUFFICES ASSUME NEW j \in Items, j \notin sunk'
                     PROVE  /\ banners[j] <= 1
                            /\ banners[j] > 0 => j <= i[1]
                            /\ \A h \in Handlers : h[1] = j /\ at'[h] \in Passed
                                  => banners[j] = 0 /\ j <= i[1]
                            /\ \A g, h \in Handlers : g[1] = j /\ h[1] = j /\ at'[g] \in Passed
                                  /\ at'[h] \in Passed => g = h
          BY <3>4 DEF PassedOnce
        <5>1. j \notin sunk /\ j \notin SunkNow
          BY <1>4
        <5>2. i[1] > mark \/ ~(i[1] <= j /\ j <= mark)
          <6>1. i \in late => ~(i[1] <= j /\ j <= mark)
            BY <4>3, <5>1 DEF SunkNow
          <6>2. i \notin late => i[1] > mark
            BY <1>1, <3>4 DEF OnTime
          <6> QED
            BY <6>1, <6>2
        <5>3. j <= mark => j <= i[1] /\ j # i[1]
          BY <2>2, <4>3, <5>2
        <5>4. /\ banners[j] <= 1 /\ (banners[j] > 0 => j <= mark) /\ banners[j] \in Nat
              /\ \A h \in Handlers : h[1] = j /\ at[h] \in Passed => banners[j] = 0 /\ j <= mark
              /\ \A g, h \in Handlers :
                    g[1] = j /\ h[1] = j /\ at[g] \in Passed /\ at[h] \in Passed => g = h
          BY <1>1, <5>1 DEF PassedOnce, AlertTypes
        <5>5. CASE j # i[1]
          <6>1. \A h \in Handlers : h[1] = j => at'[h] = at[h]
            BY <3>2, <5>5
          <6> QED
            BY <5>3, <5>4, <6>1
        <5>6. CASE j = i[1]
          <6>1. banners[j] = 0 /\ \A h \in Handlers : h[1] = j => at[h] \notin Passed
            BY <5>3, <5>4, <5>6
          <6>2. \A h \in Handlers : h[1] = j /\ at'[h] \in Passed => h = i
            BY <3>2, <6>1
          <6> QED
            BY <2>2, <5>6, <6>1, <6>2
        <5> QED
          BY <5>5, <5>6
      <4>6. client # "mobile" /\ HeldOnce => HeldOnce'
        BY <1>1, <1>2, <2>1, <3>2, <3>4 DEF AlertTypes, HeldOnce
      <4> QED
        BY <1>1, <2>1, <4>1, <4>2, <4>4, <4>5, <4>6 DEF AlertInv
    <3>5. CASE /\ at[i] = "prefs" /\ to = "none" /\ mark' = mark
               /\ banners' = [banners EXCEPT ![i[1]] = @ + IF aim[i[1]] = "here" \/ wants THEN 1 ELSE 0]
      <4> DEFINE k == i[1]
      <4>1. /\ \/ banners'[k] = banners[k]
               \/ banners'[k] = banners[k] + 1 /\ (aim[k] = "here" \/ wants)
            /\ \A j \in Items \ {k} : banners'[j] = banners[j]
            /\ banners' \in [Items -> Nat] /\ banners[k] \in Nat /\ k \in Items
        <5>1. banners[k] \in Nat /\ banners \in [Items -> Nat] /\ k \in Items
          BY <1>1, <2>2 DEF AlertTypes
        <5>2. CASE aim[k] = "here" \/ wants
          <6>1. banners' = [banners EXCEPT ![k] = banners[k] + 1]
            BY <3>5, <5>2
          <6> HIDE DEF k
          <6> QED
            BY <5>1, <5>2, <6>1
        <5>3. CASE ~(aim[k] = "here" \/ wants)
          <6>1. banners' = [banners EXCEPT ![k] = banners[k] + 0]
            BY <3>5, <5>3
          <6> HIDE DEF k
          <6>2. banners[k] + 0 = banners[k]
            BY <5>1
          <6>3. banners' = banners
            BY <5>1, <6>1, <6>2
          <6> QED
            BY <5>1, <6>3
        <5> QED
          BY <5>2, <5>3
      <4>2. AlertTypes'
        BY <1>1, <2>1, <3>1, <3>5, <4>1 DEF AlertTypes
      <4>3. Aimed'
        <5>1. aim[k] \in {"here", "all"}
          BY <1>1, <3>5 DEF Aimed
        <5> HIDE DEF k
        <5> QED
          BY <1>1, <2>1, <3>2, <3>5, <4>1, <5>1 DEF Aimed
      <4>4. \A h \in Handlers : ~Stores(h)
        BY <3>2, <3>5 DEF Stores
      <4>5. OnTime'
        BY <1>1, <1>4, <3>2, <3>5, <4>4 DEF OnTime, Overtaken
      <4>6. \A h \in Handlers : at'[h] \in Passed => at[h] \in Passed /\ h # i
        BY <3>2, <3>5 DEF Passed
      <4>7. at[i] \in Passed
        BY <3>5 DEF Passed
      <4>8. PassedOnce'
        <5> SUFFICES ASSUME NEW j \in Items, j \notin sunk'
                     PROVE  /\ banners'[j] <= 1
                            /\ banners'[j] > 0 => j <= mark
                            /\ \A h \in Handlers : h[1] = j /\ at'[h] \in Passed
                                  => banners'[j] = 0 /\ j <= mark
                            /\ \A g, h \in Handlers : g[1] = j /\ h[1] = j /\ at'[g] \in Passed
                                  /\ at'[h] \in Passed => g = h
          BY <3>5 DEF PassedOnce
        <5>1. j \notin sunk
          BY <1>4
        <5>2. /\ banners[j] <= 1 /\ (banners[j] > 0 => j <= mark) /\ banners[j] \in Nat
              /\ \A h \in Handlers : h[1] = j /\ at[h] \in Passed => banners[j] = 0 /\ j <= mark
              /\ \A g, h \in Handlers :
                    g[1] = j /\ h[1] = j /\ at[g] \in Passed /\ at[h] \in Passed => g = h
          BY <1>1, <5>1 DEF PassedOnce, AlertTypes
        <5>3. CASE j # k
          BY <4>1, <4>6, <5>2, <5>3
        <5>4. CASE j = k
          <6>1. banners[j] = 0 /\ j <= mark
            BY <4>7, <5>2, <5>4
          <6>2. \A h \in Handlers : h[1] = j => at'[h] \notin Passed
            BY <4>6, <4>7, <5>2, <5>4
          <6> QED
            BY <4>1, <5>4, <6>1, <6>2
        <5> QED
          BY <5>3, <5>4
      <4>9. client # "mobile" /\ HeldOnce => HeldOnce'
        BY <1>1, <1>2, <2>1, <2>2, <3>2, <3>5, <4>1 DEF AlertTypes, HeldOnce
      <4> QED
        BY <1>1, <2>1, <4>2, <4>3, <4>5, <4>8, <4>9 DEF AlertInv
    <3> QED
      BY <2>4, <3>3, <3>4, <3>5 DEF Goes
  <2> QED
    BY <2>1, <2>3, <2>4 DEF AlertView
<1> QED
  BY <1>3, <1>4 DEF AlertsNext

\* AnnouncedOnce: no item is announced twice and none that was not aimed at this
\* device, for any number of items and handlers, unless a handler took the watermark
\* back that had read it before a higher or the same one was stored and, except on
\* the phone, the item was dropped from the feed (alerts.ts, AlertManager.ts).
THEOREM NoItemTwice == AlertsSpec => []AnnouncedOnce
<1>1. AlertInv /\ [AlertsNext]_alertVars => AlertInv'
  <2>1. AlertInv /\ UNCHANGED alertVars => AlertInv'
    BY DEF alertVars, AlertInv, AlertTypes, Aimed, OnTime, PassedOnce, HeldOnce
  <2> QED
    BY <2>1, AlertInvStep
<1>2. AlertInv => AnnouncedOnce
  BY DEF AlertInv, AlertTypes, Aimed, PassedOnce, HeldOnce, AnnouncedOnce
<1> QED
  BY <1>1, <1>2, AlertStart, PTL DEF AlertsSpec

\* Only what fits of a feed stays in it.
LEMMA NewestOf == ASSUME NEW S PROVE Newest(S) \subseteq S
BY DEF Newest

\* The first state has the types.
LEMMA AlertsTypeStart == AlertsInit => AlertsTypeOK
BY FeedAssumption DEF AlertsInit, AlertsTypeOK, Items, Stages

\* Every step keeps the types.
LEMMA AlertsTypeStep == AlertsTypeOK /\ AlertsNext => AlertsTypeOK'
<1> SUFFICES ASSUME AlertsTypeOK, AlertsNext PROVE AlertsTypeOK'
  OBVIOUS
<1> USE FeedAssumption DEF AlertsTypeOK, Move, Stages, Flash
<1>1. ASSUME NEW i \in Items, NEW n \in 1..MaxHandlers, Emit(i, n) PROVE AlertsTypeOK'
  <2>1. mem' \subseteq Items /\ seen' \subseteq Items
    BY <1>1, NewestOf DEF Emit
  <2>2. /\ kept' = kept /\ mark' = mark /\ count' = count /\ text' = text /\ old' = old
        /\ flash' = flash /\ restore' = restore /\ banners' = banners /\ news' = news
    BY <1>1, Zenon DEF Emit, badgeVars
  <2>3. at' \in [Handlers -> Stages]
    BY <1>1 DEF Emit
  <2> QED
    BY <2>1, <2>2, <2>3
<1>2. ASSUME NEW h \in Handlers, Persist(h) PROVE AlertsTypeOK'
  <2>1. kept' \subseteq Items
    BY <1>2, NewestOf, HandlerItem DEF Persist
  <2> QED
    BY <1>2, <2>1 DEF Persist, badgeVars
<1>3. ASSUME NEW h \in Handlers, ReadMark(h) PROVE AlertsTypeOK'
  BY <1>3 DEF ReadMark, badgeVars, feedVars
<1>4. ASSUME NEW h \in Handlers, WriteMark(h) PROVE AlertsTypeOK'
  <2>1. mark' \in 0..LastItem /\ news' \subseteq Items
    <3>1. mark' = h[1] /\ h[1] \in 1..LastItem
      BY <1>4, HandlerItem, Zenon DEF WriteMark, Items
    <3>2. news' = news \/ news' = news \cup {h[1]}
      BY <1>4, Zenon DEF WriteMark
    <3>3. mark' \in 0..LastItem
      BY <3>1
    <3>4. news' \subseteq Items
      BY <3>2, HandlerItem
    <3> QED
      BY <3>3, <3>4
  <2>2. /\ mem' = mem /\ kept' = kept /\ seen' = seen /\ count' = count /\ text' = text
        /\ old' = old /\ flash' = flash /\ restore' = restore /\ banners' = banners
    BY <1>4, Zenon DEF WriteMark, feedVars
  <2>3. at' \in [Handlers -> Stages]
    BY <1>4 DEF WriteMark
  <2> QED
    BY <2>1, <2>2, <2>3
<1>5. ASSUME NEW h \in Handlers, ReadCount(h) PROVE AlertsTypeOK'
  BY <1>5 DEF ReadCount, feedVars
<1>6. ASSUME NEW h \in Handlers, Bump(h) PROVE AlertsTypeOK'
  BY <1>6 DEF Bump, feedVars
<1>7. ASSUME NEW h \in Handlers, Show(h) PROVE AlertsTypeOK'
  BY <1>7 DEF Show, feedVars
<1>8. ASSUME NEW h \in Handlers, Present(h) PROVE AlertsTypeOK'
  BY <1>8, HandlerItem DEF Present, feedVars, badgeVars
<1>9. Clear => AlertsTypeOK'
  BY DEF Clear, feedVars
<1>10. Cleared => AlertsTypeOK'
  BY DEF Cleared, feedVars
<1>11. FlashOn => AlertsTypeOK'
  BY DEF FlashOn, feedVars
<1>12. FlashTimer \/ FlashOff => AlertsTypeOK'
  BY DEF FlashTimer, FlashOff, feedVars
<1>13. Restart => AlertsTypeOK'
  BY DEF Restart
<1>14. Reopen => AlertsTypeOK'
  BY DEF Reopen, badgeVars
<1>15. AlertStep \/ Restart
  BY DEF AlertsNext
<1> HIDE DEF AlertsTypeOK
<1> QED
  BY <1>1, <1>2, <1>3, <1>4, <1>5, <1>6, <1>7, <1>8, <1>9, <1>10, <1>11, <1>12, <1>13, <1>14,
     <1>15, Zenon DEF AlertStep

\* AlertsTypeOK: the type invariant of the alerts, for any number of items.
THEOREM AlertsTyped == AlertsSpec => []AlertsTypeOK
<1>1. AlertsTypeOK /\ UNCHANGED alertVars => AlertsTypeOK'
  BY DEF alertVars, AlertsTypeOK
<1> QED
  BY <1>1, AlertsTypeStart, AlertsTypeStep, PTL DEF AlertsSpec

--------------------------------------------------------------------------------

\* The handlers that are updating the badge.
Live == {h \in Handlers : at[h] \in {"count", "bump", "show"}}

\* The badge while at most one update of it is under way.
BadgeRight ==
    /\ \A i, j \in Live : i = j
    /\ Live # {} => ~clearing /\ flash = "no"
    /\ clearing => flash = "no" /\ count = 0 /\ news = {}
    /\ flash # "no" => count = Cardinality(news)
    /\ flash = "read" => restore = count
    /\ Live = {} /\ ~clearing /\ flash = "no" => count = Cardinality(news) /\ text = count
    /\ \A h \in Live : /\ h[1] \in news
                       /\ at[h] \in {"count", "bump"} => count + 1 = Cardinality(news)
                       /\ at[h] = "bump" => old[h] = count
                       /\ at[h] = "show" => count = old[h] + 1 /\ count = Cardinality(news)

\* There are finitely many items.
LEMMA FiniteItems == IsFiniteSet(Items)
BY FS_Interval, FeedAssumption DEF Items

\* And finitely many handlers.
LEMMA FiniteHandlers == IsFiniteSet(Handlers)
<1>1. IsFiniteSet(1..MaxHandlers)
  BY FS_Interval, HandlersAssumption
<1> QED
  BY <1>1, FiniteItems, FS_Product DEF Handlers

\* What a count of updates of at most one says of each of them.
LEMMA FewUpdates ==
    ASSUME NEW S \in SUBSET Handlers, NEW c \in {0, 1}, NEW f \in {0, 1}
    PROVE  LET n == Cardinality(S) + c + f IN
              /\ n \in Nat
              /\ n <= 1 => /\ \A i, j \in S : i = j
                           /\ S # {} => c = 0 /\ f = 0
                           /\ c = 1 => f = 0
              /\ n = 0 <=> S = {} /\ c = 0 /\ f = 0
<1>1. IsFiniteSet(S) /\ Cardinality(S) \in Nat
  BY FiniteHandlers, FS_Subset, FS_CardinalityType
<1>2. Cardinality(S) = 0 <=> S = {}
  BY <1>1, FS_EmptySet
<1>3. Cardinality(S) <= 1 => \A i, j \in S : i = j
  <2> SUFFICES ASSUME NEW i \in S, NEW j \in S, i # j PROVE Cardinality(S) > 1
    BY <1>1
  <2>1. /\ IsFiniteSet(S \ {i}) /\ Cardinality(S \ {i}) = Cardinality(S) - 1
        /\ Cardinality(S \ {i}) \in Nat
    BY <1>1, FS_RemoveElement, FS_CardinalityType
  <2>2. Cardinality(S \ {i}) # 0
    <3>1. S \ {i} # {}
      OBVIOUS
    <3> QED
      BY <2>1, <3>1, FS_EmptySet
  <2> QED
    BY <1>1, <2>1, <2>2
<1> QED
  BY <1>1, <1>2, <1>3

\* A new item counts one more.
LEMMA NewsCount ==
    ASSUME NEW N \in SUBSET Items
    PROVE  /\ Cardinality(N) \in Nat /\ (N = {} => Cardinality(N) = 0)
           /\ \A i \in Items \ N : Cardinality(N \cup {i}) = Cardinality(N) + 1
<1>1. IsFiniteSet(N) /\ Cardinality(N) \in Nat
  BY FiniteItems, FS_Subset, FS_CardinalityType
<1> QED
  BY <1>1, FS_EmptySet, FS_AddElement

\* The badge is blank and nothing is new.
LEMMA BadgeStart == AlertsInit => BadgeRight
<1> SUFFICES ASSUME AlertsInit PROVE BadgeRight
  OBVIOUS
<1>1. Live = {} /\ count = 0 /\ text = 0 /\ news = {} /\ ~clearing /\ flash = "no"
  BY DEF AlertsInit, Live
<1>2. Cardinality({}) = 0
  BY FS_EmptySet
<1> QED
  BY <1>1, <1>2 DEF BadgeRight

\* What the updates say of the badge, before a step and after it.
LEMMA UpdatesNow ==
    ASSUME AlertsTypeOK
    PROVE  /\ Updates \in Nat
           /\ Updates <= 1 => /\ \A i, j \in Live : i = j
                              /\ Live # {} => ~clearing /\ flash = "no"
                              /\ clearing => flash = "no"
           /\ Updates = 0 <=> Live = {} /\ ~clearing /\ flash = "no"
<1>1. Live \in SUBSET Handlers
  BY DEF Live
<1> DEFINE c == IF clearing THEN 1 ELSE 0
           f == IF flash = "no" THEN 0 ELSE 1
<1>2. Updates = Cardinality(Live) + c + f
  BY DEF Updates, Live
<1>3. /\ c \in {0, 1} /\ (clearing <=> c = 1) /\ (~clearing <=> c = 0)
      /\ f \in {0, 1} /\ (flash = "no" <=> f = 0)
  OBVIOUS
<1> HIDE DEF c, f
<1> QED
  BY <1>1, <1>2, <1>3, FewUpdates

\* FewUpdates of the next state.
LEMMA UpdatesNext ==
    ASSUME AlertsTypeOK'
    PROVE  /\ Updates' \in Nat
           /\ Updates' <= 1 => /\ \A i, j \in Live' : i = j
                               /\ Live' # {} => ~clearing' /\ flash' = "no"
                               /\ clearing' => flash' = "no"
           /\ Updates' = 0 <=> Live' = {} /\ ~clearing' /\ flash' = "no"
<1>1. Live' \in SUBSET Handlers
  BY DEF Live
<1> DEFINE c == IF clearing' THEN 1 ELSE 0
           f == IF flash' = "no" THEN 0 ELSE 1
<1>2. Updates' = Cardinality(Live') + c + f
  BY DEF Updates, Live
<1>3. /\ c \in {0, 1} /\ (clearing' <=> c = 1) /\ (~clearing' <=> c = 0)
      /\ f \in {0, 1} /\ (flash' = "no" <=> f = 0)
  OBVIOUS
<1> HIDE DEF c, f
<1> QED
  BY <1>1, <1>2, <1>3, FewUpdates

\* A step starts a second update of the badge, or leaves it right.
LEMMA BadgeStep == AlertsTypeOK /\ (raced \/ BadgeRight) /\ AlertsNext => raced' \/ BadgeRight'
<1> SUFFICES ASSUME AlertsTypeOK, raced \/ BadgeRight, AlertsNext, ~raced' PROVE BadgeRight'
  OBVIOUS
<1>1. AlertsTypeOK'
  BY AlertsTypeStep
<1> DEFINE N == Cardinality(news)
<1>2. N \in Nat /\ (news = {} => N = 0) /\ \A i \in Items \ news : Cardinality(news \cup {i}) = N + 1
  BY NewsCount DEF AlertsTypeOK
<1>3. Cardinality({}) = 0
  BY FS_EmptySet
<1>4. CASE Restart
  <2>1. ~raced /\ ~(Updates > 0) /\ ~(client = "desktop" /\ count > 0)
    BY <1>4 DEF Restart
  <2>2. Live = {} /\ ~clearing /\ flash = "no" /\ BadgeRight
    BY <2>1, UpdatesNow
  <2>3. count = N /\ text = count /\ count \in Nat
    BY <2>2 DEF BadgeRight, AlertsTypeOK
  <2>4. text' = count
    BY <1>4, <2>1, <2>3 DEF Restart
  <2>5. count' = count /\ news' = news /\ ~clearing' /\ flash' = "no" /\ at' = [h \in Handlers |-> "none"]
    BY <1>4, Zenon DEF Restart
  <2>6. Live' = {}
    BY <2>5 DEF Live
  <2> QED
    BY <2>3, <2>4, <2>5, <2>6 DEF BadgeRight
<1>5. CASE AlertStep /\ raced' = (Updates' > 1 \/ CountedAgain \/ (raced /\ ~(clearing' /\ Updates = 0)))
  <2>1. Updates' <= 1 /\ ~CountedAgain /\ (raced => clearing' /\ Updates = 0)
    <3>1. ~(Updates' > 1) /\ ~CountedAgain /\ ~(raced /\ ~(clearing' /\ Updates = 0))
      BY <1>5, Zenon
    <3>2. Updates' <= 1
      BY <1>1, <3>1, UpdatesNext
    <3> QED
      BY <3>1, <3>2, Zenon
  <2>2. /\ \A i, j \in Live' : i = j
        /\ Live' # {} => ~clearing' /\ flash' = "no"
        /\ clearing' => flash' = "no"
    BY <1>1, <2>1, UpdatesNext
  <2>3. CASE Clear
    <3>1. clearing' /\ count' = 0 /\ news' = {}
      BY <2>3 DEF Clear
    <3>2. Live' = {} /\ flash' = "no"
      BY <2>2, <3>1
    <3> QED
      BY <3>1, <3>2 DEF BadgeRight
  <2>4. ASSUME clearing' => clearing
        PROVE  BadgeRight
    BY <2>1, <2>4, UpdatesNow
  <2>5. ASSUME Live' = Live, clearing' = clearing, count' = count, news' = news, text' = text,
               old' = old, flash' = flash, restore' = restore,
               \A i \in Live : at'[i] = at[i]
        PROVE  BadgeRight'
    BY <2>4, <2>5 DEF BadgeRight
  <2>6. ASSUME NEW i \in Handlers, NEW to \in Stages, at[i] \notin {"count", "bump", "show"},
               to \notin {"count", "bump", "show"},
               at' = [at EXCEPT ![i] = to], UNCHANGED badgeVars
        PROVE  BadgeRight'
    <3>1. /\ clearing' = clearing /\ count' = count /\ news' = news /\ text' = text
          /\ old' = old /\ flash' = flash /\ restore' = restore
      BY <2>6, Zenon DEF badgeVars
    <3>2. Live' = Live /\ \A j \in Live : at'[j] = at[j]
      BY <2>6 DEF Live, AlertsTypeOK
    <3> QED
      BY <2>5, <3>1, <3>2
  <2>7. ASSUME at' = at, UNCHANGED badgeVars
        PROVE  BadgeRight'
    <3>1. /\ clearing' = clearing /\ count' = count /\ news' = news /\ text' = text
          /\ old' = old /\ flash' = flash /\ restore' = restore
      BY <2>7, Zenon DEF badgeVars
    <3> QED
      BY <2>5, <2>7, <3>1 DEF Live
  <2>8. ASSUME NEW i \in Items, NEW n \in 1..MaxHandlers, Emit(i, n) PROVE BadgeRight'
    <3>1. <<i, n>> \in Handlers
      BY DEF Handlers
    <3> QED
      BY <2>6, <2>7, <2>8, <3>1 DEF Emit, Move, Stages
  <2>9. ASSUME NEW i \in Handlers, Persist(i) PROVE BadgeRight'
    BY <2>6, <2>9 DEF Persist, Move, Stages
  <2>10. ASSUME NEW i \in Handlers, ReadMark(i) PROVE BadgeRight'
    BY <2>6, <2>10 DEF ReadMark, Move, Stages
  <2>11. ASSUME NEW i \in Handlers, Present(i) PROVE BadgeRight'
    BY <2>6, <2>11 DEF Present, Move, Stages
  <2>12. Reopen => BadgeRight'
    BY <2>7 DEF Reopen
  <2>13. ASSUME NEW i \in Handlers, WriteMark(i) PROVE BadgeRight'
    <3>1. /\ count' = count /\ text' = text /\ old' = old /\ clearing' = clearing
          /\ flash' = flash /\ restore' = restore /\ at[i] = "write"
      BY <2>13, Zenon DEF WriteMark
    <3>2. CASE news' = news /\ \E to \in {"none", "prefs"} : Move(i, to)
      <4>1. \E to \in Stages : to \notin {"count", "bump", "show"} /\ at' = [at EXCEPT ![i] = to]
        BY <3>2 DEF Move, Stages
      <4> QED
        BY <2>6, <3>1, <3>2, <4>1 DEF badgeVars
    <3>3. CASE news' = news \cup {i[1]} /\ Move(i, "count")
      <4>1. at'[i] = "count" /\ \A j \in Handlers \ {i} : at'[j] = at[j]
        BY <3>3 DEF Move, AlertsTypeOK
      <4>2. Live' = Live \cup {i} /\ i \notin Live
        BY <3>1, <4>1 DEF Live
      <4>3. Live = {} /\ ~clearing /\ flash = "no"
        BY <2>2, <3>1, <4>2
      <4>4. count = N
        BY <2>4, <3>1, <4>3 DEF BadgeRight
      <4>5. i[1] \notin news
        BY <2>1, <3>1, <4>1 DEF CountedAgain
      <4>6. Cardinality(news') = N + 1
        BY <1>2, <3>3, <4>5, HandlerItem
      <4> HIDE DEF N
      <4> QED
        BY <3>1, <3>3, <4>1, <4>2, <4>3, <4>4, <4>6 DEF BadgeRight
    <3> QED
      BY <2>13, <3>2, <3>3 DEF WriteMark
  <2>14. ASSUME NEW i \in Handlers, ReadCount(i) PROVE BadgeRight'
    <3>1. /\ count' = count /\ text' = text /\ news' = news /\ clearing' = clearing
          /\ flash' = flash /\ restore' = restore /\ at[i] = "count"
      BY <2>14, Zenon DEF ReadCount
    <3>2. at'[i] = "bump" /\ (\A j \in Handlers \ {i} : at'[j] = at[j]) /\ old'[i] = count
      BY <2>14 DEF ReadCount, Move, AlertsTypeOK
    <3>3. Live' = Live /\ i \in Live
      BY <3>1, <3>2 DEF Live
    <3>4. BadgeRight
      BY <2>4, <3>1
    <3> QED
      BY <3>1, <3>2, <3>3, <3>4 DEF BadgeRight
  <2>15. ASSUME NEW i \in Handlers, Bump(i) PROVE BadgeRight'
    <3>1. /\ old' = old /\ text' = text /\ news' = news /\ clearing' = clearing
          /\ flash' = flash /\ restore' = restore /\ at[i] = "bump"
      BY <2>15, Zenon DEF Bump
    <3>2. at'[i] = "show" /\ (\A j \in Handlers \ {i} : at'[j] = at[j]) /\ count' = old[i] + 1
      BY <2>15 DEF Bump, Move, AlertsTypeOK
    <3>3. Live' = Live /\ i \in Live
      BY <3>1, <3>2 DEF Live
    <3>4. BadgeRight
      BY <2>4, <3>1
    <3> QED
      BY <3>1, <3>2, <3>3, <3>4 DEF BadgeRight
  <2>16. ASSUME NEW i \in Handlers, Show(i) PROVE BadgeRight'
    <3>1. /\ count' = count /\ news' = news /\ clearing' = clearing
          /\ flash' = flash /\ restore' = restore /\ at[i] = "show" /\ text' = old[i] + 1
      BY <2>16, Zenon DEF Show
    <3>2. at'[i] \in {"none", "prefs"} /\ \A j \in Handlers \ {i} : at'[j] = at[j]
      BY <2>16 DEF Show, Move, AlertsTypeOK
    <3>3. Live' = Live \ {i} /\ i \in Live
      BY <3>1, <3>2 DEF Live
    <3>4. BadgeRight
      BY <2>4, <3>1
    <3>5. Live' = {} /\ ~clearing /\ flash = "no" /\ count = old[i] + 1 /\ count = N
      BY <3>1, <3>3, <3>4 DEF BadgeRight
    <3> QED
      BY <3>1, <3>5 DEF BadgeRight
  <2>17. Cleared => BadgeRight'
    <3> SUFFICES ASSUME Cleared PROVE BadgeRight'
      OBVIOUS
    <3>1. /\ count' = count /\ news' = news /\ clearing /\ ~clearing' /\ at' = at
          /\ flash' = flash /\ restore' = restore /\ text' = 0
      BY DEF Cleared
    <3>2. BadgeRight /\ Live' = Live
      BY <2>4, <3>1 DEF Live
    <3>3. Live = {} /\ flash = "no" /\ count = 0 /\ news = {}
      BY <3>1, <3>2 DEF BadgeRight
    <3> QED
      BY <1>3, <3>1, <3>2, <3>3 DEF BadgeRight
  <2>18. FlashOn => BadgeRight'
    <3> SUFFICES ASSUME FlashOn PROVE BadgeRight'
      OBVIOUS
    <3>1. /\ count' = count /\ news' = news /\ clearing' = clearing /\ at' = at
          /\ flash = "no" /\ flash' = "shown"
      BY Zenon DEF FlashOn
    <3>2. BadgeRight /\ Live' = Live
      BY <2>4, <3>1 DEF Live
    <3>3. Live = {} /\ ~clearing
      BY <2>2, <3>1, <3>2
    <3> QED
      BY <3>1, <3>2, <3>3 DEF BadgeRight
  <2>19. FlashTimer => BadgeRight'
    <3> SUFFICES ASSUME FlashTimer PROVE BadgeRight'
      OBVIOUS
    <3>1. /\ count' = count /\ news' = news /\ clearing' = clearing /\ at' = at
          /\ flash = "shown" /\ flash' = "read" /\ restore' = count
      BY Zenon DEF FlashTimer
    <3>2. BadgeRight /\ Live' = Live
      BY <2>4, <3>1 DEF Live
    <3>3. Live = {} /\ ~clearing
      BY <3>1, <3>2 DEF BadgeRight
    <3> QED
      BY <3>1, <3>2, <3>3 DEF BadgeRight
  <2>20. FlashOff => BadgeRight'
    <3> SUFFICES ASSUME FlashOff PROVE BadgeRight'
      OBVIOUS
    <3>1. /\ count' = count /\ news' = news /\ clearing' = clearing /\ at' = at
          /\ flash = "read" /\ flash' = "no" /\ text' = restore
      BY Zenon DEF FlashOff
    <3>2. BadgeRight /\ Live' = Live
      BY <2>4, <3>1 DEF Live
    <3>3. Live = {} /\ ~clearing /\ restore = count /\ count = N
      BY <3>1, <3>2 DEF BadgeRight
    <3> QED
      BY <3>1, <3>2, <3>3 DEF BadgeRight
  <2> QED
    BY <1>5, <2>3, <2>8, <2>9, <2>10, <2>11, <2>12, <2>13, <2>14, <2>15, <2>16, <2>17, <2>18,
       <2>19, <2>20, Zenon DEF AlertStep
<1> QED
  BY <1>4, <1>5 DEF AlertsNext

\* BadgeTrue: with no update of it under way the badge shows the stored count, and
\* that is the number of items since the user last looked, for any number of items,
\* unless two updates overlapped or an item was passed on twice (alerts.ts of the
\* extension and the desktop).
THEOREM BadgeIsTrue == AlertsSpec => []BadgeTrue
<1>1. (raced \/ BadgeRight) /\ UNCHANGED alertVars => (raced \/ BadgeRight)'
  BY DEF alertVars, BadgeRight, Live
<1>2. AlertsTypeOK /\ (raced \/ BadgeRight) => BadgeTrue
  BY UpdatesNow DEF BadgeTrue, BadgeRight, AlertsTypeOK
<1> QED
  BY <1>1, <1>2, AlertsTyped, BadgeStart, BadgeStep, PTL DEF AlertsSpec

-----------------------------------------------------------------------------
\* The pill over the feed.

\* What was counted was listed since, and is listed no more only if it was deleted, so
\* that an item is counted once; and what fails or waits is this device's own.
ListTypes ==
    /\ LastEntry \in Nat /\ drawnIds \in 0..LastEntry
    /\ listed \subseteq Ids /\ uploads \subseteq Ids /\ ownIds \subseteq 1..drawnIds
    /\ uploads \subseteq 1..drawnIds
    /\ prevTop \in Ids \cup {0} /\ newCount \in Nat
    /\ waitingIds \in Seq(ownIds) /\ refusedIds \in Seq(ownIds)

\* Whatever was counted is there or was deleted, and no more is counted.
Counted ==
    /\ arrived \subseteq Ids /\ arrived \subseteq listed \cup gone
    /\ ~scrolled => newCount = 0
    /\ newCount <= Cardinality(arrived) \/ slid

PillInv == ListTypes /\ Counted

\* A set of numbers has a least element, by well-founded induction.
LEMMA Least ==
    ASSUME NEW S \in SUBSET Nat, S # {} PROVE \E n \in S : \A m \in S : n <= m
<1> DEFINE R == {ss \in Nat \X Nat : ss[1] < ss[2]}
<1>0. OpToRel(<, Nat) = R
  BY Zenon DEF OpToRel
<1>1. IsWellFoundedOn(R, Nat)
  BY <1>0, NatLessThanWellFounded, Zenon
<1>2. \A i, j \in Nat : i < j => <<i, j>> \in R
  OBVIOUS
<1> HIDE DEF R
<1>3. PICK x \in S : \A y \in S : ~(<<y, x>> \in R)
  BY <1>1, WFMin
<1>4. ASSUME NEW y \in S PROVE x <= y
  <2>1. x \in Nat /\ y \in Nat
    OBVIOUS
  <2>2. ~(y < x)
    BY <1>2, <1>3, <2>1, Zenon
  <2> QED
    BY <2>1, <2>2
<1> QED
  BY <1>4

\* Min of a set of numbers is one of them.
LEMMA FirstOne ==
    ASSUME NEW S, S \subseteq Nat, S # {} PROVE Min(S) \in S
<1>1. PICK n \in S : \A m \in S : n <= m
  BY Least
<1>2. \A m \in S : n =< m
  BY <1>1
<1> QED
  BY <1>2 DEF Min

\* Max of a set of numbers below a bound is one of them.
LEMMA Greatest ==
    ASSUME NEW n \in Nat, NEW S, S \subseteq 1..n, S # {} PROVE Max(S) \in S
<1> DEFINE T == {n - i : i \in S}
<1>0. \A i \in S : i \in 1..n /\ n - i \in Nat
  OBVIOUS
<1>1. T \subseteq Nat /\ T # {}
  BY <1>0
<1>2. PICK t \in T : \A u \in T : t <= u
  BY <1>1, Least
<1>3. PICK x \in S : t = n - x
  BY <1>2
<1>4. ASSUME NEW y \in S PROVE x >= y
  <2>1. n - y \in T /\ x \in Nat /\ y \in Nat
    BY <1>3
  <2> QED
    BY <1>2, <1>3, <2>1
<1> QED
  BY <1>4 DEF Max

\* The first entry of the feed is one that is shown, or none.
LEMMA TopIsThere ==
    ASSUME LastEntry \in Nat, NEW own, NEW l, l \subseteq Ids, NEW w \in Seq(own), NEW r \in Seq(own), NEW f
    PROVE  Top(l, w, r, f) \in own \cup l \cup {0}
<1> DEFINE queue == r \o w
           ahead == {n \in DOMAIN queue : Passes(queue[n], f)}
           items == {i \in l : Passes(i, f)}
<1>1. queue \in Seq(own) /\ DOMAIN queue = 1..Len(queue) /\ Len(queue) \in Nat
  OBVIOUS
<1>4. \A n \in DOMAIN queue : queue[n] \in own
  BY <1>1
<1>2. ASSUME ahead # {} PROVE queue[Min(ahead)] \in own
  <2>1. ahead \subseteq Nat
    BY <1>1
  <2>2. Min(ahead) \in ahead
    BY <1>2, <2>1, FirstOne
  <2> QED
    BY <1>4, <2>2
<1>3. ASSUME items # {} PROVE Max(items) \in l
  <2>1. items \subseteq 1..LastEntry
    BY DEF Ids
  <2>2. Max(items) \in items
    BY <1>3, <2>1, Greatest
  <2> QED
    BY <2>2
<1> QED
  BY <1>2, <1>3 DEF Top

\* The items and what waits or failed are shown otherwise, with the ids as they are then.
LEMMA ShownLater ==
    ASSUME PillInv, NEW l, NEW w, NEW r, NEW f, Shown_As(l, w, r, f),
           l \subseteq Ids, ownIds' \subseteq 1..drawnIds', uploads' \subseteq 1..drawnIds',
           drawnIds' \in 0..LastEntry, w \in Seq(ownIds'), r \in Seq(ownIds'),
           listed \cup gone \subseteq l \cup gone',
           \A i \in l : i \in listed \/ i \notin listed \cup gone
    PROVE  PillInv'
<1> DEFINE top == Top(l, w, r, f)
           counts == prevTop # 0 /\ top # 0 /\ top # prevTop /\ scrolled /\ Counts(top)
<1>1. /\ listed' = l /\ waitingIds' = w /\ refusedIds' = r /\ scrolled' = scrolled
      /\ Render_Feed(l, w, r, f) /\ LastEntry \in Nat
      /\ newCount \in Nat /\ listed \subseteq Ids /\ prevTop \in Ids \cup {0}
      /\ arrived \subseteq Ids /\ arrived \subseteq listed \cup gone
      /\ ~scrolled => newCount = 0
      /\ newCount <= Cardinality(arrived) \/ slid
  BY DEF Shown_As, PillInv, ListTypes, Counted
<1>2. top \in ownIds' \cup l \cup {0} /\ top \in Ids \cup {0}
  <2>1. top \in ownIds' \cup l \cup {0}
    BY <1>1, TopIsThere
  <2>2. ownIds' \subseteq Ids
    BY <1>1 DEF Ids
  <2> QED
    BY <2>1, <2>2
<1>3. IsFiniteSet(Ids)
  BY <1>1, FS_Interval DEF Ids
<1> HIDE DEF top
<1>4. CASE surface = "flyout"
  <2>1. UNCHANGED <<prevTop, newCount, slid, arrived>>
    BY <1>1, <1>4 DEF Render_Feed
  <2>2. ListTypes'
    BY <1>1, <2>1 DEF ListTypes, Ids
  <2>3. Counted'
    BY <1>1, <2>1 DEF Counted
  <2> QED
    BY <2>2, <2>3 DEF PillInv
<1>5. CASE surface # "flyout"
  <2>1. /\ prevTop' = top
        /\ newCount' = IF counts THEN newCount + 1 ELSE newCount
        /\ slid' = (slid \/ (counts /\ top \in listed))
        /\ arrived' = IF scrolled THEN arrived \cup ((l \ listed) \ ownIds') ELSE {}
    BY <1>1, <1>5 DEF Render_Feed, top
  <2>2. ListTypes'
    <3>1. newCount' \in Nat /\ prevTop' \in Ids \cup {0}
      BY <1>1, <1>2, <2>1
    <3> QED
      BY <1>1, <3>1 DEF ListTypes, Ids
  <2>3. arrived' \subseteq Ids /\ arrived' \subseteq l \cup gone'
    BY <1>1, <2>1
  <2>4. counts => scrolled /\ top # 0 /\ top \notin ownIds'
    BY DEF Counts
  <2>5. CASE ~scrolled
    <3>1. newCount' = 0 /\ arrived' = {} /\ Cardinality(arrived') = 0
      BY <1>1, <2>1, <2>5, FS_EmptySet
    <3> QED
      BY <1>1, <2>2, <3>1 DEF PillInv, Counted
  <2>6. CASE scrolled
    <3>1. /\ arrived \subseteq arrived' /\ IsFiniteSet(arrived') /\ IsFiniteSet(arrived)
      BY <1>1, <1>3, <2>1, <2>3, <2>6, FS_Subset
    <3>2. /\ Cardinality(arrived) <= Cardinality(arrived')
          /\ Cardinality(arrived) \in Nat /\ Cardinality(arrived') \in Nat
      BY <3>1, FS_Subset, FS_CardinalityType
    <3>3. ASSUME counts, ~slid' PROVE newCount' <= Cardinality(arrived')
      <4>1. top \in l /\ top \notin listed /\ top \notin gone
        BY <1>2, <2>1, <2>4, <3>3
      <4>2. top \in arrived' /\ top \notin arrived
        BY <1>1, <2>1, <2>4, <2>6, <3>3, <4>1
      <4>3. /\ IsFiniteSet(arrived \cup {top}) /\ arrived \cup {top} \subseteq arrived'
            /\ Cardinality(arrived \cup {top}) = Cardinality(arrived) + 1
        BY <3>1, <4>2, FS_AddElement
      <4>4. /\ Cardinality(arrived \cup {top}) <= Cardinality(arrived')
        BY <3>1, <4>3, FS_Subset
      <4>5. newCount <= Cardinality(arrived)
        BY <1>1, <2>1, <3>3
      <4> QED
        BY <1>1, <2>1, <3>2, <3>3, <4>3, <4>4, <4>5
    <3>4. ASSUME ~counts, ~slid' PROVE newCount' <= Cardinality(arrived')
      <4>1. newCount' = newCount
        BY <2>1, <3>4
      <4>2. newCount <= Cardinality(arrived)
        BY <1>1, <2>1, <3>4
      <4> QED
        BY <1>1, <3>2, <4>1, <4>2
    <3> QED
      BY <1>1, <2>2, <2>3, <2>6, <3>3, <3>4 DEF PillInv, Counted
  <2> QED
    BY <2>5, <2>6
<1> QED
  BY <1>4, <1>5

\* A queue over a set is one over any larger set.
LEMMA SeqOver ==
    ASSUME NEW S, NEW T, S \subseteq T, NEW q \in Seq(S)
    PROVE  /\ q \in Seq(T) /\ <<>> \in Seq(T)
           /\ \A x \in T : Append(q, x) \in Seq(T)
           /\ q # <<>> => Tail(q) \in Seq(S) /\ Head(q) \in S
OBVIOUS

\* What arrives is listed before it is counted, and what is listed goes only when it
\* is deleted.
LEMMA PillStep == ASSUME PillInv, [FeedListNext]_feedListVars PROVE PillInv'
<1>1. /\ LastEntry \in Nat /\ drawnIds \in 0..LastEntry
      /\ listed \subseteq Ids /\ uploads \subseteq Ids /\ ownIds \subseteq 1..drawnIds
      /\ uploads \subseteq 1..drawnIds
      /\ prevTop \in Ids \cup {0} /\ newCount \in Nat
      /\ waitingIds \in Seq(ownIds) /\ refusedIds \in Seq(ownIds)
      /\ arrived \subseteq Ids /\ arrived \subseteq listed \cup gone
      /\ ~scrolled => newCount = 0
      /\ newCount <= Cardinality(arrived) \/ slid
  BY DEF PillInv, ListTypes, Counted
<1>2. Ids = 1..LastEntry /\ 1..drawnIds \subseteq Ids
  BY <1>1 DEF Ids
<1>3. ASSUME drawnIds < LastEntry
      PROVE  /\ drawnIds + 1 \in 0..LastEntry /\ drawnIds + 1 \in Ids
             /\ 1..drawnIds \subseteq 1..(drawnIds + 1) /\ drawnIds + 1 \in 1..(drawnIds + 1)
  BY <1>1, <1>2, <1>3
<1>4. ASSUME Sent_Elsewhere PROVE PillInv'
  <2>1. /\ drawnIds' = drawnIds + 1 /\ uploads' = uploads \cup {drawnIds + 1}
        /\ ownIds' = ownIds /\ gone' = gone /\ listed' = listed
        /\ waitingIds' = waitingIds /\ refusedIds' = refusedIds /\ scrolled' = scrolled
        /\ prevTop' = prevTop /\ newCount' = newCount /\ arrived' = arrived /\ slid' = slid
        /\ drawnIds < LastEntry
    BY <1>4 DEF Sent_Elsewhere
  <2>2. ListTypes'
    BY <1>1, <1>3, <2>1 DEF ListTypes, Ids
  <2>3. Counted'
    BY <1>1, <2>1 DEF Counted, Ids
  <2> QED
    BY <2>2, <2>3 DEF PillInv
<1>5. ASSUME NEW i \in Ids, Item_Arrives(i) PROVE PillInv'
  <2>1. /\ i \in uploads \ (listed \cup gone) /\ ownIds' = ownIds /\ drawnIds' = drawnIds
        /\ uploads' = uploads /\ gone' = gone
        /\ Shown_As(listed \cup {i}, waitingIds, refusedIds, filter)
    BY <1>5 DEF Item_Arrives
  <2>2. /\ listed \cup {i} \subseteq Ids /\ listed \cup gone \subseteq (listed \cup {i}) \cup gone'
        /\ \A j \in listed \cup {i} : j \in listed \/ j \notin listed \cup gone
    BY <1>1, <1>5, <2>1
  <2>3. ownIds' \subseteq 1..drawnIds' /\ uploads' \subseteq 1..drawnIds' /\ drawnIds' \in 0..LastEntry
        /\ waitingIds \in Seq(ownIds') /\ refusedIds \in Seq(ownIds')
    BY <1>1, <2>1
  <2> QED
    BY <2>1, <2>2, <2>3, ShownLater
<1>6. ASSUME NEW r \in Seq(ownIds), Own_Send(r) PROVE PillInv'
  <2>1. /\ drawnIds' = drawnIds + 1 /\ ownIds' = ownIds \cup {drawnIds + 1}
        /\ uploads' = uploads /\ gone' = gone /\ drawnIds < LastEntry
        /\ Shown_As(listed, Append(waitingIds, drawnIds + 1), r, filter)
    BY <1>6 DEF Own_Send
  <2>2. Append(waitingIds, drawnIds + 1) \in Seq(ownIds') /\ r \in Seq(ownIds')
    BY <1>1, <2>1, SeqOver
  <2> QED
    BY <1>1, <1>2, <1>3, <2>1, <2>2, ShownLater
<1>7. ASSUME Own_Posted PROVE PillInv'
  <2>1. /\ uploads' = uploads \cup {Head(waitingIds)} /\ waitingIds # <<>>
        /\ drawnIds' = drawnIds /\ ownIds' = ownIds /\ gone' = gone /\ listed' = listed
        /\ waitingIds' = waitingIds /\ refusedIds' = refusedIds /\ scrolled' = scrolled
        /\ prevTop' = prevTop /\ newCount' = newCount /\ arrived' = arrived /\ slid' = slid
    BY <1>7 DEF Own_Posted
  <2>2. Head(waitingIds) \in 1..drawnIds
    BY <1>1, <2>1, SeqOver
  <2>3. uploads' \subseteq Ids /\ uploads' \subseteq 1..drawnIds
    BY <1>1, <1>2, <2>1, <2>2
  <2>4. ListTypes'
    BY <1>1, <2>1, <2>3 DEF ListTypes, Ids
  <2>5. Counted'
    BY <1>1, <2>1 DEF Counted, Ids
  <2> QED
    BY <2>4, <2>5 DEF PillInv
<1>8. ASSUME Outbox_Changed PROVE PillInv'
  <2>1. /\ waitingIds # <<>> /\ ownIds' = ownIds /\ drawnIds' = drawnIds
        /\ uploads' = uploads /\ gone' = gone
        /\ Shown_As(listed, Tail(waitingIds), refusedIds, filter)
    BY <1>8 DEF Outbox_Changed
  <2>2. Tail(waitingIds) \in Seq(ownIds)
    BY <1>1, <2>1, SeqOver
  <2> QED
    BY <1>1, <2>1, <2>2, ShownLater
<1>9. ASSUME Own_Refused PROVE PillInv'
  <2>1. /\ waitingIds # <<>> /\ ownIds' = ownIds /\ drawnIds' = drawnIds
        /\ uploads' = uploads /\ gone' = gone
        /\ Shown_As(listed, Tail(waitingIds), Append(refusedIds, Head(waitingIds)), filter)
    BY <1>9 DEF Own_Refused
  <2>2. /\ Tail(waitingIds) \in Seq(ownIds) /\ Head(waitingIds) \in ownIds
        /\ Append(refusedIds, Head(waitingIds)) \in Seq(ownIds)
    BY <1>1, <2>1, SeqOver
  <2> QED
    BY <1>1, <2>1, <2>2, ShownLater
<1>10. ASSUME NEW i \in Ids, Retry_Entry(i) PROVE PillInv'
  <2>1. <<>> \in Seq(ownIds) /\ Own_Send(<<>>)
    BY <1>10 DEF Retry_Entry
  <2> QED
    BY <1>6, <2>1
<1>11. ASSUME NEW i \in Ids, Delete_Entry(i) \/ Deleted_Elsewhere(i) PROVE PillInv'
  <2>1. /\ i \in listed /\ gone' = gone \cup {i} /\ ownIds' = ownIds
        /\ drawnIds' = drawnIds /\ uploads' = uploads
        /\ Shown_As(listed \ {i}, waitingIds, refusedIds, filter)
    BY <1>11 DEF Delete_Entry, Deleted_Elsewhere
  <2>2. /\ listed \ {i} \subseteq Ids
        /\ listed \cup gone \subseteq (listed \ {i}) \cup gone'
        /\ \A j \in listed \ {i} : j \in listed \/ j \notin listed \cup gone
    BY <1>1, <2>1
  <2>3. /\ ownIds' \subseteq 1..drawnIds' /\ uploads' \subseteq 1..drawnIds'
        /\ drawnIds' \in 0..LastEntry
        /\ waitingIds \in Seq(ownIds') /\ refusedIds \in Seq(ownIds')
    BY <1>1, <2>1
  <2> QED
    BY <2>1, <2>2, <2>3, ShownLater
<1>12. ASSUME NEW f, Select_Device(f) PROVE PillInv'
  <2>1. /\ gone' = gone /\ ownIds' = ownIds /\ drawnIds' = drawnIds /\ uploads' = uploads
        /\ Shown_As(listed, waitingIds, refusedIds, f)
    BY <1>12 DEF Select_Device
  <2> QED
    BY <1>1, <2>1, ShownLater
<1>13. ASSUME Scroll_Feed \/ Press_Pill PROVE PillInv'
  <2>1. /\ drawnIds' = drawnIds /\ ownIds' = ownIds /\ gone' = gone /\ listed' = listed
        /\ uploads' = uploads /\ waitingIds' = waitingIds /\ refusedIds' = refusedIds
        /\ prevTop' = prevTop /\ newCount' = 0 /\ arrived' = {}
    BY <1>1, <1>13 DEF Scroll_Feed, Press_Pill
  <2>2. Cardinality(arrived') = 0
    BY <2>1, FS_EmptySet
  <2>3. ListTypes'
    BY <1>1, <2>1 DEF ListTypes, Ids
  <2>4. Counted'
    BY <2>1, <2>2 DEF Counted
  <2> QED
    BY <2>3, <2>4 DEF PillInv
<1>14. ASSUME UNCHANGED feedListVars PROVE PillInv'
  <2>1. /\ drawnIds' = drawnIds /\ ownIds' = ownIds /\ gone' = gone /\ listed' = listed
        /\ uploads' = uploads /\ waitingIds' = waitingIds /\ refusedIds' = refusedIds
        /\ prevTop' = prevTop /\ newCount' = newCount /\ arrived' = arrived
        /\ scrolled' = scrolled /\ slid' = slid
    BY <1>14, Zenon DEF feedListVars
  <2>2. ListTypes'
    BY <1>1, <2>1 DEF ListTypes, Ids
  <2>3. Counted'
    BY <1>1, <2>1 DEF Counted, Ids
  <2> QED
    BY <2>2, <2>3 DEF PillInv
<1> QED
  BY <1>1, <1>4, <1>5, <1>6, <1>7, <1>8, <1>9, <1>10, <1>11, <1>12, <1>13, <1>14 DEF FeedListNext

\* The feed is at its top, and nothing was counted.
LEMMA PillStart == FeedListInit => PillInv
<1> SUFFICES ASSUME FeedListInit PROVE PillInv
  OBVIOUS
<1>1. Cardinality({}) = 0
  BY FS_EmptySet
<1>2. ListTypes
  BY FeedListAssumption DEF FeedListInit, ListTypes
<1>3. Counted
  BY <1>1 DEF FeedListInit, Counted
<1> QED
  BY <1>2, <1>3 DEF PillInv

\* PillTrue: the pill counts no more than what others sent since the list was
\* scrolled, for any number of entries, unless an entry that was on the list all the
\* time came on top (Feed.tsx, App.tsx).
THEOREM PillCounts == FeedListSpec => []PillTrue
<1>1. PillInv => PillTrue
  BY DEF PillInv, ListTypes, Counted, PillTrue
<1> QED
  BY <1>1, PillStart, PillStep, PTL DEF FeedListSpec

-----------------------------------------------------------------------------
\* Composing: whom an item alerts.

\* The entries that were sent, and what is known of them.
Sent == 1..(nextNote - 1)

\* d was on some list, and is on the last one no more.
Gone(d) == d # Silent /\ d \notin active /\ \E k \in 1..Len(lists) : d \in lists[k]

TrueMark(n) == aimOf[n] = markedAt[n] \/ (n \in unmet /\ markedAt[n] = NoChip)

\* A device that is on two lists is on every list between them.
OnceListed ==
    \A i, j, k \in 1..Len(lists) : \A d :
       i <= j /\ j <= k /\ d \in lists[i] /\ d \in lists[k] => d \in lists[j]

\* An entry without its mark has a target that logged in after the list that was
\* shown, or was revoked before it, and then it is never accepted.
AimInv ==
    /\ ComposingTypeOK /\ outgoing \in Seq(Nat) /\ leftover \in Seq(Nat)
    /\ OnceListed
    /\ target # Silent => \E k \in 1..Len(lists) : target \in lists[k]
    /\ \A n \in Sent : TrueMark(n) \/ Gone(aimOf[n])
    /\ \A n \in itemIds : TrueMark(n)
    /\ Range(outgoing) \cup itemIds \cup refusedNotes \cup settled = Sent
    /\ leftover # <<>> => ~signed /\ outgoing \in {leftover, <<>>}

\* What a queue holds after an entry joins it or goes.
LEMMA QueueRange ==
    ASSUME NEW s \in Seq(Nat)
    PROVE  /\ \A e \in Nat : Append(s, e) \in Seq(Nat) /\ Range(Append(s, e)) = Range(s) \cup {e}
           /\ s # <<>> => /\ Tail(s) \in Seq(Nat) /\ Head(s) \in Nat
                          /\ Range(s) = Range(Tail(s)) \cup {Head(s)}
<1>1. /\ DOMAIN s = 1..Len(s) /\ Len(s) \in Nat
      /\ \A t \in Seq(Nat) : Range(t) = {t[n] : n \in 1..Len(t)}
  BY DEF Range
<1>2. ASSUME NEW e \in Nat
      PROVE  Append(s, e) \in Seq(Nat) /\ Range(Append(s, e)) = Range(s) \cup {e}
  <2>1. /\ Append(s, e) \in Seq(Nat) /\ Len(Append(s, e)) = Len(s) + 1
        /\ \A n \in 1..Len(s) : Append(s, e)[n] = s[n] /\ n \in 1..(Len(s) + 1)
        /\ \A n \in 1..(Len(s) + 1) : n \in 1..Len(s) \/ n = Len(s) + 1
        /\ Append(s, e)[Len(s) + 1] = e /\ Len(s) + 1 \in 1..(Len(s) + 1)
    OBVIOUS
  <2> QED
    BY <1>1, <2>1
<1>3. ASSUME s # <<>>
      PROVE  /\ Tail(s) \in Seq(Nat) /\ Head(s) \in Nat
             /\ Range(s) = Range(Tail(s)) \cup {Head(s)}
  <2>1. /\ Tail(s) \in Seq(Nat) /\ Len(Tail(s)) = Len(s) - 1 /\ Head(s) = s[1]
        /\ Head(s) \in Nat /\ 1 \in 1..Len(s)
        /\ \A n \in 1..(Len(s) - 1) : Tail(s)[n] = s[n + 1] /\ n + 1 \in 1..Len(s)
        /\ \A n \in 1..Len(s) : n = 1 \/ (n - 1 \in 1..(Len(s) - 1) /\ Tail(s)[n - 1] = s[n])
    BY <1>3
  <2>2. Range(s) = {s[n] : n \in 1..Len(s)} /\ Range(Tail(s)) = {Tail(s)[n] : n \in 1..(Len(s) - 1)}
    BY <1>1, <2>1
  <2> DEFINE t == Tail(s)
  <2> HIDE DEF t
  <2>3. \A x \in Range(s) : x = Head(s) \/ x \in Range(t)
    BY <2>1, <2>2 DEF t
  <2>4. Head(s) \in Range(s) /\ \A x \in Range(t) : x \in Range(s)
    BY <2>1, <2>2 DEF t
  <2> QED
    BY <2>1, <2>3, <2>4 DEF t
<1> QED
  BY <1>2, <1>3

\* The ids of what was sent.
LEMMA Numbers ==
    ASSUME ComposingTypeOK
    PROVE  /\ nextNote \in Nat /\ nextNote >= 1 /\ nextNote - 1 \in Nat /\ nextNote \notin Sent
           /\ Sent \subseteq Nat /\ Sent \subseteq 1..MaxNotes
           /\ nextNote <= MaxNotes => nextNote \in 1..MaxNotes
           /\ \A m : m = nextNote + 1 =>
                 /\ 1..(m - 1) = Sent \cup {nextNote}
                 /\ nextNote <= MaxNotes => m \in 1..(MaxNotes + 1)
BY ComposingAssumption DEF ComposingTypeOK, Sent

\* A device without a chip.
LEMMA WithoutChip ==
    ASSUME AimInv, NEW d \in Others, d \notin chips, \E k \in 1..Len(lists) : d \in lists[k]
    PROVE  Unmet(d) \/ Gone(d)
<1>1. /\ Len(lists) \in Nat /\ Len(lists) >= 1 /\ shownList \in 0..Len(lists) /\ d # Silent
  BY ComposingAssumption DEF AimInv, ComposingTypeOK
<1> SUFFICES ASSUME d \in active, NEW k \in 1..shownList, d \in lists[k] PROVE FALSE
  BY <1>1 DEF Unmet, Gone
<1>2. /\ shownList # 0 /\ chips = lists[shownList] /\ k <= shownList /\ shownList <= Len(lists)
      /\ k \in 1..Len(lists) /\ shownList \in 1..Len(lists) /\ Len(lists) \in 1..Len(lists)
  BY <1>1 DEF chips
<1> QED
  BY <1>2 DEF AimInv, OnceListed, active

\* A text is handed over.  It was marked, or its device logged in later than the list
\* that was shown, or is not active any more.
LEMMA NoteSent ==
    ASSUME AimInv, NEW whom \in Chosen, NEW sight \in Chosen \cup {NoChip}, NEW missed \in BOOLEAN,
           Enqueue_Note(whom, sight, missed),
           whom = sight \/ (missed /\ sight = NoChip) \/ Gone(whom),
           composer' = composer, lists' = lists, shownList' = shownList, signed' = signed,
           target' \in {target, Silent},
           \/ refusedNotes' = refusedNotes /\ settled' = settled
           \/ \E n \in refusedNotes : /\ refusedNotes' = refusedNotes \ {n}
                                      /\ settled' = settled \cup {n}
    PROVE  AimInv'
<1>1. /\ ComposingTypeOK /\ outgoing \in Seq(Nat) /\ leftover \in Seq(Nat)
      /\ nextNote \in Nat /\ nextNote \notin Sent
  BY Numbers DEF AimInv
<1>2. /\ refusedNotes' \cup settled' = refusedNotes \cup settled
      /\ target' \in Chosen /\ (target' # Silent => \E k \in 1..Len(lists) : target' \in lists[k])
  BY DEF AimInv, ComposingTypeOK, Chosen
<1>3. OnceListed' /\ (\A d : Gone(d)' = Gone(d)) /\ active' = active
  BY DEF AimInv, OnceListed, Gone, active
<1>4. CASE signed
  <2>1. /\ nextNote <= MaxNotes /\ nextNote' = nextNote + 1
        /\ outgoing' = Append(outgoing, nextNote) /\ itemIds' = itemIds /\ leftover' = leftover
        /\ aimOf' = [aimOf EXCEPT ![nextNote] = whom]
        /\ markedAt' = [markedAt EXCEPT ![nextNote] = sight]
        /\ unmet' \subseteq unmet \cup {nextNote} /\ unmet \subseteq unmet'
        /\ missed => nextNote \in unmet'
    BY <1>4 DEF Enqueue_Note
  <2>2. /\ outgoing' \in Seq(Nat) /\ Range(outgoing') = Range(outgoing) \cup {nextNote}
        /\ leftover' = <<>>
    BY <1>1, <1>4, <2>1, QueueRange DEF AimInv
  <2>3. /\ nextNote \in 1..MaxNotes /\ Sent \subseteq 1..MaxNotes
        /\ Sent' = Sent \cup {nextNote} /\ nextNote' \in 1..(MaxNotes + 1)
    BY <1>1, <2>1, Numbers DEF Sent
  <2>4. /\ aimOf' \in [1..MaxNotes -> Chosen] /\ markedAt' \in [1..MaxNotes -> Chosen \cup {NoChip}]
        /\ aimOf'[nextNote] = whom /\ markedAt'[nextNote] = sight
        /\ \A n \in Sent : aimOf'[n] = aimOf[n] /\ markedAt'[n] = markedAt[n]
    BY <1>1, <2>1, <2>3 DEF ComposingTypeOK
  <2>5. unmet \subseteq Sent /\ Range(leftover') = {}
    BY <1>1, <2>2 DEF ComposingTypeOK, Sent, Range
  <2>6. Range(outgoing') \cup itemIds' \cup refusedNotes' \cup settled' = Sent'
    BY <1>2, <2>1, <2>2, <2>3 DEF AimInv
  <2>7. ComposingTypeOK'
    <3>1. Range(outgoing') \cup Range(leftover') \cup itemIds' \cup refusedNotes' \cup unmet'
             \cup settled' \subseteq Sent'
      BY <2>1, <2>3, <2>5, <2>6
    <3> QED
      BY <1>1, <1>2, <2>3, <2>4, <3>1 DEF ComposingTypeOK, Sent
  <2>8. \A n \in Sent' : TrueMark(n)' \/ Gone(aimOf'[n])
    <3>1. \A n \in Sent : TrueMark(n) => TrueMark(n)'
      BY <2>1, <2>4 DEF TrueMark
    <3>2. \/ whom = sight \/ Gone(whom)
          \/ nextNote \in unmet' /\ sight = NoChip
      BY <2>1, Zenon
    <3>3. \A n \in {nextNote} : TrueMark(n)' \/ Gone(aimOf'[n])
      BY <2>4, <3>2 DEF TrueMark, Gone
    <3>4. \A n \in Sent : TrueMark(n)' \/ Gone(aimOf'[n])
      BY <2>4, <3>1 DEF AimInv, Gone
    <3> QED
      BY <2>3, <3>3, <3>4
  <2>9. \A n \in itemIds' : TrueMark(n)'
    <3>1. itemIds \subseteq Sent
      BY DEF AimInv
    <3> QED
      BY <2>1, <2>4, <3>1 DEF AimInv, TrueMark
  <2>10. \A n \in Sent' : TrueMark(n)' \/ Gone(aimOf[n])'
    BY <1>3, <2>8 DEF Gone, active
  <2> QED
    BY <1>1, <1>2, <1>3, <2>2, <2>6, <2>7, <2>9, <2>10 DEF AimInv
<1>5. CASE ~signed
  <2>1. /\ nextNote' = nextNote /\ outgoing' = outgoing /\ itemIds' = itemIds
        /\ leftover' = leftover /\ unmet' = unmet
        /\ aimOf' = aimOf /\ markedAt' = markedAt /\ Sent' = Sent
    BY <1>5 DEF Enqueue_Note, Sent
  <2>2. Range(outgoing') \cup itemIds' \cup refusedNotes' \cup settled' = Sent'
    BY <1>2, <2>1 DEF AimInv
  <2>3. ComposingTypeOK'
    BY <1>1, <1>2, <2>1 DEF ComposingTypeOK
  <2>4. \A n : TrueMark(n)' = TrueMark(n) /\ Gone(aimOf[n])' = Gone(aimOf[n])
    BY <1>3, <2>1 DEF TrueMark, Gone, active
  <2> QED
    BY <1>1, <1>2, <1>3, <2>1, <2>2, <2>3, <2>4 DEF AimInv
<1> QED
  BY <1>4, <1>5

\* Nothing is sent, and no device logs in or goes: the entries move, the chips change.
LEMMA NoteMoves ==
    ASSUME AimInv, nextNote' = nextNote, aimOf' = aimOf, markedAt' = markedAt, unmet' = unmet,
           lists' = lists, shownList' \in 0..Len(lists),
           outgoing' \in Seq(Nat), leftover' \in Seq(Nat), Range(leftover') \subseteq Sent,
           leftover' # <<>> => ~signed' /\ outgoing' \in {leftover', <<>>},
           target' \in Chosen, target' # Silent => \E k \in 1..Len(lists) : target' \in lists[k],
           Range(outgoing') \cup itemIds' \cup refusedNotes' \cup settled' = Sent,
           \A n \in itemIds' : n \in itemIds \/ Accepts(n)
    PROVE  AimInv'
<1>1. OnceListed' /\ Sent' = Sent /\ active' = active
  BY DEF AimInv, OnceListed, Sent, active
<1>2. ComposingTypeOK'
  BY <1>1 DEF AimInv, ComposingTypeOK, Sent
<1>3. \A n : TrueMark(n)' = TrueMark(n) /\ Gone(aimOf[n])' = Gone(aimOf[n])
  BY <1>1 DEF TrueMark, Gone, active
<1>4. \A n \in itemIds' : TrueMark(n)'
  <2>1. \A n : Accepts(n) => ~Gone(aimOf[n])
    BY DEF Accepts, Gone
  <2>2. itemIds' \subseteq Sent
    OBVIOUS
  <2> QED
    BY <1>3, <2>1, <2>2 DEF AimInv
<1> QED
  BY <1>1, <1>2, <1>3, <1>4 DEF AimInv

\* A device logs in that was on no list, or one goes.
LEMMA ListGrows ==
    ASSUME AimInv, NEW l \in SUBSET Others, lists' = Append(lists, l),
           \A d \in l : d \in active \/ \A k \in 1..Len(lists) : d \notin lists[k],
           UNCHANGED <<composer, shownList, target, signed, sentVars>>
    PROVE  AimInv'
<1>1. /\ lists \in Seq(SUBSET Others) /\ Len(lists) \in Nat /\ Len(lists) >= 1
      /\ shownList \in 0..Len(lists)
  BY DEF AimInv, ComposingTypeOK
<1>2. /\ lists' \in Seq(SUBSET Others) /\ Len(lists') = Len(lists) + 1
      /\ \A k \in 1..Len(lists) : lists'[k] = lists[k] /\ k \in 1..Len(lists')
      /\ \A k \in 1..Len(lists') : k \in 1..Len(lists) \/ k = Len(lists')
      /\ lists'[Len(lists')] = l /\ active' = l
      /\ shownList \in 0..Len(lists') /\ Len(lists') >= 1
  BY <1>1 DEF active
<1>3. OnceListed'
  <2> SUFFICES ASSUME NEW i \in 1..Len(lists'), NEW j \in 1..Len(lists'), NEW k \in 1..Len(lists'),
                      NEW d, i <= j, j <= k, d \in lists'[i], d \in lists'[k]
               PROVE  d \in lists'[j]
    BY DEF OnceListed
  <2>1. CASE k \in 1..Len(lists)
    <3>1. i \in 1..Len(lists) /\ j \in 1..Len(lists)
      BY <1>1, <1>2, <2>1
    <3> QED
      BY <1>2, <2>1, <3>1 DEF AimInv, OnceListed
  <2>2. CASE k = Len(lists') /\ j \in 1..Len(lists)
    <3>1. i \in 1..Len(lists) /\ d \in lists[i] /\ d \in l
      BY <1>1, <1>2, <2>2
    <3>2. d \in lists[Len(lists)] /\ Len(lists) \in 1..Len(lists) /\ j <= Len(lists)
      BY <1>1, <2>2, <3>1 DEF active
    <3>3. d \in lists[j]
      BY <2>2, <3>1, <3>2 DEF AimInv, OnceListed
    <3> QED
      BY <1>2, <2>2, <3>3
  <2> QED
    BY <1>2, <2>1, <2>2
<1>4. \A d : Gone(d) => Gone(d)'
  <2> SUFFICES ASSUME NEW d, Gone(d) PROVE Gone(d)'
    OBVIOUS
  <2>1. PICK k \in 1..Len(lists) : d \in lists[k]
    BY DEF Gone
  <2>2. d # Silent /\ d \notin l
    BY <2>1 DEF Gone
  <2>3. k \in 1..Len(lists') /\ d \in lists'[k]
    BY <1>2, <2>1
  <2> QED
    BY <1>2, <2>2, <2>3 DEF Gone
<1>5. /\ nextNote' = nextNote /\ outgoing' = outgoing /\ leftover' = leftover /\ aimOf' = aimOf
      /\ itemIds' = itemIds /\ refusedNotes' = refusedNotes /\ markedAt' = markedAt
      /\ unmet' = unmet /\ settled' = settled /\ target' = target /\ signed' = signed
      /\ shownList' = shownList /\ Sent' = Sent
  BY DEF sentVars, Sent
<1>6. ComposingTypeOK'
  BY <1>2, <1>5 DEF AimInv, ComposingTypeOK
<1>7. target' # Silent => \E k \in 1..Len(lists') : target' \in lists'[k]
  BY <1>2, <1>5 DEF AimInv
<1>8. /\ \A n \in Sent' : TrueMark(n)' \/ Gone(aimOf[n])'
      /\ \A n \in itemIds' : TrueMark(n)'
  <2>1. \A n : TrueMark(n)' = TrueMark(n)
    BY <1>5 DEF TrueMark
  <2>2. \A n : Gone(aimOf[n]) => Gone(aimOf[n])'
    BY <1>4, <1>5 DEF Gone, active
  <2> QED
    BY <1>5, <2>1, <2>2 DEF AimInv
<1> QED
  BY <1>3, <1>5, <1>6, <1>7, <1>8 DEF AimInv

\* What is known before a step.
LEMMA AimFacts ==
    ASSUME AimInv
    PROVE  /\ ComposingTypeOK /\ outgoing \in Seq(Nat) /\ leftover \in Seq(Nat)
           /\ target \in Chosen /\ Silent \in Chosen /\ Others \subseteq Chosen
           /\ NoChip \notin Chosen
           /\ target # Silent => \E k \in 1..Len(lists) : target \in lists[k]
           /\ chips \subseteq Others /\ \A d \in chips : \E k \in 1..Len(lists) : d \in lists[k]
           /\ shownList \in 0..Len(lists) /\ Len(lists) \in Nat /\ Len(lists) >= 1
           /\ active \subseteq Others
           /\ Range(outgoing) \cup itemIds \cup refusedNotes \cup settled = Sent
           /\ Range(leftover) \subseteq Sent
           /\ \A s \in {outgoing, leftover} : s # <<>> =>
                 /\ Tail(s) \in Seq(Nat) /\ Head(s) \in Range(s)
                 /\ Range(s) = Range(Tail(s)) \cup {Head(s)}
           /\ leftover # <<>> => ~signed /\ outgoing \in {leftover, <<>>}
           /\ <<>> \in Seq(Nat) /\ Range(<<>>) = {}
<1>1. /\ lists \in Seq(SUBSET Others) /\ Len(lists) \in Nat /\ Len(lists) >= 1
      /\ shownList \in 0..Len(lists) /\ outgoing \in Seq(Nat) /\ leftover \in Seq(Nat)
      /\ ComposingTypeOK
  BY DEF AimInv, ComposingTypeOK
<1>2. /\ active \subseteq Others
      /\ chips \subseteq Others /\ \A d \in chips : \E k \in 1..Len(lists) : d \in lists[k]
  <2>1. \A k \in 1..Len(lists) : lists[k] \subseteq Others
    BY <1>1
  <2>2. Len(lists) \in 1..Len(lists) /\ (shownList # 0 => shownList \in 1..Len(lists))
    BY <1>1
  <2> QED
    BY <2>1, <2>2 DEF active, chips
<1>3. \A s \in {outgoing, leftover} : s # <<>> =>
         /\ Tail(s) \in Seq(Nat) /\ Head(s) \in Range(s)
         /\ Range(s) = Range(Tail(s)) \cup {Head(s)}
  BY <1>1, QueueRange
<1>4. <<>> \in Seq(Nat) /\ Range(<<>>) = {}
  BY DEF Range
<1>5. Silent \in Chosen /\ Others \subseteq Chosen /\ NoChip \notin Chosen
  BY ComposingAssumption DEF Chosen
<1> QED
  BY <1>1, <1>2, <1>3, <1>4, <1>5 DEF AimInv, ComposingTypeOK, Sent

\* Marking, sending, retrying, stopping and the changes of the device list keep it.
LEMMA AimStep == ASSUME AimInv, [ComposingNext]_composeVars PROVE AimInv'
<1>1. ASSUME NEW d \in Chosen, Pick(d) PROVE AimInv'
  BY <1>1, AimFacts, NoteMoves DEF Pick, deviceListVars, sentVars
<1>2. ASSUME Press_Send PROVE AimInv'
  <2>1. /\ Enqueue_Note(target, Marked, Unmet(target)) /\ target' = Silent
        /\ composer' = composer /\ lists' = lists /\ shownList' = shownList /\ signed' = signed
        /\ refusedNotes' = refusedNotes /\ settled' = settled
    BY <1>2 DEF Press_Send, deviceListVars
  <2>2. /\ Marked \in Chosen \cup {NoChip} /\ Unmet(target) \in BOOLEAN /\ target \in Chosen
        /\ target = Marked \/ (Unmet(target) /\ Marked = NoChip) \/ Gone(target)
    <3>1. CASE target \in chips \cup {Silent}
      BY <3>1, AimFacts DEF Marked, Unmet
    <3>2. CASE target \notin chips \cup {Silent}
      <4>1. target \in Others /\ target \notin chips /\ Marked = NoChip
        BY <3>2, AimFacts DEF Marked, Chosen
      <4> QED
        BY <3>2, <4>1, AimFacts, WithoutChip DEF Unmet
    <3> QED
      BY <3>1, <3>2
  <2> QED
    BY <2>1, <2>2, NoteSent
<1>3. ASSUME NEW d \in Others, Test_Notification(d) PROVE AimInv'
  BY <1>3, AimFacts, NoteSent DEF Test_Notification, deviceListVars
<1>4. ASSUME NEW d \in Others, Join_Other(d) PROVE AimInv'
  <2>1. /\ lists' = Append(lists, active \cup {d})
        /\ UNCHANGED <<composer, shownList, target, signed, sentVars>>
        /\ \A k \in 1..Len(lists) : d \notin lists[k]
    BY <1>4 DEF Join_Other
  <2>2. /\ active \cup {d} \in SUBSET Others
        /\ \A e \in active \cup {d} : e \in active \/ \A k \in 1..Len(lists) : e \notin lists[k]
    BY <2>1, AimFacts
  <2> QED
    BY <2>1, <2>2, ListGrows
<1>5. ASSUME NEW d \in Others, Revoke_Other(d) PROVE AimInv'
  BY <1>5, AimFacts, ListGrows DEF Revoke_Other
<1>6. ASSUME NEW n \in refusedNotes, Retry_Card(n) PROVE AimInv'
  <2>1. n \in Sent /\ n \in 1..MaxNotes
    BY <1>6, AimFacts, Numbers
  <2>2. /\ aimOf[n] \in Chosen /\ markedAt[n] \in Chosen \cup {NoChip}
        /\ aimOf[n] = markedAt[n] \/ (n \in unmet /\ markedAt[n] = NoChip) \/ Gone(aimOf[n])
    BY <2>1 DEF ComposingTypeOK, AimInv, TrueMark
  <2>3. /\ Enqueue_Note(aimOf[n], markedAt[n], n \in unmet)
        /\ composer' = composer /\ lists' = lists /\ shownList' = shownList /\ signed' = signed
        /\ target' = target
        /\ refusedNotes' = refusedNotes \ {n} /\ settled' = settled \cup {n}
    BY <1>6 DEF Retry_Card, deviceListVars
  <2>4. (n \in unmet) \in BOOLEAN
    OBVIOUS
  <2> QED
    BY <1>6, <2>2, <2>3, <2>4, NoteSent
<1>7. ASSUME Post_Heard \/ Post_Unheard \/ Post_Refused PROVE AimInv'
  BY <1>7, AimFacts, NoteMoves DEF Post_Heard, Post_Unheard, Post_Refused, deviceListVars
<1>8. ASSUME Late_Answer PROVE AimInv'
  <2>1. /\ leftover # <<>> /\ leftover' = <<>> /\ ~signed /\ outgoing \in {leftover, <<>>}
        /\ itemIds' = itemIds \/ (Accepts(Head(leftover)) /\ itemIds' = itemIds \cup {Head(leftover)})
        /\ \/ outgoing' = Tail(leftover) /\ refusedNotes' = refusedNotes /\ Head(leftover) \in itemIds'
           \/ outgoing' = Tail(leftover) /\ refusedNotes' = refusedNotes \cup {Head(leftover)}
           \/ outgoing' \in {outgoing, leftover} /\ refusedNotes' = refusedNotes
        /\ lists' = lists /\ shownList' = shownList /\ target' = target /\ nextNote' = nextNote
        /\ aimOf' = aimOf /\ markedAt' = markedAt /\ unmet' = unmet /\ settled' = settled
    BY <1>8, AimFacts DEF Late_Answer, deviceListVars
  <2>2. /\ outgoing' \in Seq(Nat) /\ leftover' \in Seq(Nat) /\ Range(leftover') \subseteq Sent
        /\ Range(outgoing') \cup itemIds' \cup refusedNotes' \cup settled' = Sent
    BY <2>1, AimFacts
  <2>3. \A n \in itemIds' : n \in itemIds \/ Accepts(n)
    BY <2>1
  <2> QED
    BY <2>1, <2>2, <2>3, AimFacts, NoteMoves
<1>9. ASSUME NEW k \in 0..Len(lists), Chips_Arrive(k) PROVE AimInv'
  BY <1>9, AimFacts, NoteMoves DEF Chips_Arrive, sentVars
<1>10. ASSUME Sleep_Composer PROVE AimInv'
  BY <1>10, AimFacts, NoteMoves DEF Sleep_Composer, Stop_Outbox, deviceListVars
<1>11. ASSUME Wake_Composer \/ Leave_Composer PROVE AimInv'
  BY <1>11, AimFacts, NoteMoves DEF Wake_Composer, Leave_Composer, deviceListVars, sentVars
<1>12. ASSUME Sign_Out PROVE AimInv'
  BY <1>12, AimFacts, NoteMoves DEF Sign_Out, Stop_Outbox
<1>13. ASSUME Kill_Composer PROVE AimInv'
  BY <1>13, AimFacts, NoteMoves DEF Kill_Composer, deviceListVars
<1>14. ASSUME UNCHANGED composeVars PROVE AimInv'
  BY <1>14, AimFacts, NoteMoves DEF composeVars
<1> QED
  BY <1>1, <1>2, <1>3, <1>4, <1>5, <1>6, <1>7, <1>8, <1>9, <1>10, <1>11, <1>12, <1>13, <1>14
     DEF ComposingNext

\* Nothing was composed yet.
LEMMA AimStart == ComposingInit => AimInv
<1> SUFFICES ASSUME ComposingInit PROVE AimInv
  OBVIOUS
<1>1. /\ outgoing = <<>> /\ leftover = <<>> /\ nextNote = 1 /\ itemIds = {} /\ refusedNotes = {}
      /\ settled = {} /\ unmet = {} /\ target = Silent /\ shownList \in {0, 1}
      /\ aimOf = [n \in 1..MaxNotes |-> Silent] /\ markedAt = [n \in 1..MaxNotes |-> Silent]
  BY DEF ComposingInit
<1>2. PICK l \in SUBSET Others : lists = <<l>>
  BY DEF ComposingInit
<1>3. lists \in Seq(SUBSET Others) /\ Len(lists) = 1 /\ shownList \in 0..Len(lists)
  BY <1>1, <1>2
<1>4. Range(outgoing) = {} /\ Range(leftover) = {} /\ outgoing \in Seq(Nat) /\ leftover \in Seq(Nat)
  BY <1>1 DEF Range
<1>5. nextNote \in 1..(MaxNotes + 1) /\ Sent = {}
  BY <1>1, ComposingAssumption DEF Sent
<1>6. ComposingTypeOK
  BY <1>1, <1>3, <1>4, <1>5 DEF ComposingTypeOK, Chosen
<1>7. OnceListed
  BY <1>3 DEF OnceListed
<1> QED
  BY <1>1, <1>4, <1>5, <1>6, <1>7 DEF AimInv

\* AlertsAsShown: an item alerts the device whose chip was marked when it was sent,
\* or one that logged in after the list that was shown, with no chip marked; and
\* whatever was sent waits, is an item or was refused, for any devices and number of
\* entries, although lists overtake each other, a POST outlives its Outbox, and
\* entries are retried (Compose.tsx, TargetChips.tsx, SyncController.ts, items/router.py).
THEOREM AlertsWhoWasMarked == ComposingSpec => []AlertsAsShown
<1>1. AimInv => AlertsAsShown
  BY DEF AimInv, AlertsAsShown, Sent, TrueMark
<1> QED
  BY <1>1, AimStart, AimStep, PTL DEF ComposingSpec

-----------------------------------------------------------------------------
\* The screens of the devices.

\* A call is a record with these fields.
IsCall(c) ==
    /\ c = [id |-> c.id, want |-> c.want, stage |-> c.stage, got |-> c.got, late |-> c.late,
            of |-> c.of]
    /\ c.want \in DeviceNames \cup {Unlisted, "list"}
    /\ c.got \in DeviceNames \cup {Unlisted, "refused"}
    /\ c.stage \in {"asked", "served", "kept"}

\* An answer that nothing has overtaken is what the row holds; the call that made
\* the last change of it is not overtaken.
Honest(c) ==
    /\ IsCall(c)
    /\ c.want # "list" => c.id \in 1..edits /\ c.got \in {c.want, "refused"}
    /\ c.stage = "asked" => ~c.late /\ c.got = "refused"
    /\ c.stage # "asked" /\ c.want = "list" => c.got # "refused"
    /\ c.stage # "asked" /\ ~c.late /\ c.got # "refused" => c.got = device
    /\ c.want # "list" /\ c.id = lastCall => ~c.late

\* The list of the devices is on its way.
ListAsked == \E c \in calls : c.want = "list"

\* The list shows the row as this client left it, or the list is asked for, or
\* another device changed the row meanwhile.
DeviceInv ==
    /\ {device, listShown, listKept} \subseteq DeviceNames \cup {Unlisted}
    /\ edits \in Nat /\ lastCall \in 0..edits
    /\ \A c \in calls : Honest(c)
    /\ \A c, d \in calls : c.want # "list" /\ d.want # "list" /\ c.id = d.id => c = d
    /\ ~outdated /\ listShown = Unlisted => device = Unlisted
    /\ ownLast /\ ~outdated => listShown = device \/ ListAsked

\* The fields of a call that was just made.
LEMMA NewCall ==
    ASSUME NEW id, NEW want \in DeviceNames \cup {Unlisted, "list"}, NEW screen
    PROVE  LET e == Call(id, want, "asked", screen) IN
              /\ IsCall(e) /\ e.id = id /\ e.want = want /\ e.stage = "asked" /\ ~e.late
              /\ e.got = "refused"
BY DEF Call, IsCall

\* The fields of a call of which one or two changed.
LEMMA CallExcept ==
    ASSUME NEW c, IsCall(c), NEW v, NEW u
    PROVE  /\ [c EXCEPT !.of = v]
              = [id |-> c.id, want |-> c.want, stage |-> c.stage, got |-> c.got, late |-> c.late, of |-> v]
           /\ [c EXCEPT !.late = v]
              = [id |-> c.id, want |-> c.want, stage |-> c.stage, got |-> c.got, late |-> v, of |-> c.of]
           /\ [c EXCEPT !.stage = v]
              = [id |-> c.id, want |-> c.want, stage |-> v, got |-> c.got, late |-> c.late, of |-> c.of]
           /\ [c EXCEPT !.stage = v, !.got = u]
              = [id |-> c.id, want |-> c.want, stage |-> v, got |-> u, late |-> c.late, of |-> c.of]
<1>1. c = [id |-> c.id, want |-> c.want, stage |-> c.stage, got |-> c.got, late |-> c.late,
            of |-> c.of]
  BY DEF IsCall
<1> DEFINE i == c.id  w == c.want  s == c.stage  g == c.got  l == c.late  o == c.of
<1>2. c = [id |-> i, want |-> w, stage |-> s, got |-> g, late |-> l, of |-> o]
  BY <1>1
<1> HIDE DEF i, w, s, g, l, o
<1>4. [c EXCEPT !.stage = v, !.got = u] = [[c EXCEPT !.stage = v] EXCEPT !.got = u]
  BY <1>2
<1>5. [[id |-> i, want |-> w, stage |-> v, got |-> g, late |-> l, of |-> o] EXCEPT !.got = u]
      = [id |-> i, want |-> w, stage |-> v, got |-> u, late |-> l, of |-> o]
  OBVIOUS
<1>3.      /\ [c EXCEPT !.of = v]
              = [id |-> i, want |-> w, stage |-> s, got |-> g, late |-> l, of |-> v]
           /\ [c EXCEPT !.late = v]
              = [id |-> i, want |-> w, stage |-> s, got |-> g, late |-> v, of |-> o]
           /\ [c EXCEPT !.stage = v]
              = [id |-> i, want |-> w, stage |-> v, got |-> g, late |-> l, of |-> o]
  BY <1>2
<1> QED
  BY <1>3, <1>4, <1>5 DEF i, w, s, g, l, o

\* A call that belongs to another screen is otherwise the same.
LEMMA CallOf ==
    ASSUME NEW c, IsCall(c), NEW f, NEW e, e = [c EXCEPT !.of = f]
    PROVE  /\ IsCall(e) /\ e.id = c.id /\ e.want = c.want /\ e.stage = c.stage
           /\ e.late = c.late /\ e.got = c.got
<1>1. e = [id |-> c.id, want |-> c.want, stage |-> c.stage, got |-> c.got, late |-> c.late,
           of |-> f]
  BY CallExcept, Zenon
<1>2. c.got \in DeviceNames \cup {Unlisted, "refused"} /\ c.stage \in {"asked", "served", "kept"}
  BY DEF IsCall
<1>3. /\ e.id = c.id /\ e.want = c.want /\ e.stage = c.stage /\ e.late = c.late
      /\ e.got = c.got /\ e.of = f
  BY <1>1
<1>4. e = [id |-> e.id, want |-> e.want, stage |-> e.stage, got |-> e.got, late |-> e.late,
           of |-> e.of]
  BY <1>1, <1>3, Zenon
<1>5. IsCall(e)
  BY <1>2, <1>3, <1>4 DEF IsCall
<1> QED
  BY <1>3, <1>5

\* A call that was overtaken is otherwise the same.
LEMMA CallLate ==
    ASSUME NEW c, IsCall(c), NEW f, NEW e, e = [c EXCEPT !.late = f]
    PROVE  /\ IsCall(e) /\ e.id = c.id /\ e.want = c.want /\ e.stage = c.stage
           /\ e.late = f /\ e.got = c.got
<1>1. e = [id |-> c.id, want |-> c.want, stage |-> c.stage, got |-> c.got, late |-> f,
           of |-> c.of]
  BY CallExcept, Zenon
<1>2. c.got \in DeviceNames \cup {Unlisted, "refused"} /\ c.stage \in {"asked", "served", "kept"}
  BY DEF IsCall
<1>3. /\ e.id = c.id /\ e.want = c.want /\ e.stage = c.stage /\ e.late = f
      /\ e.got = c.got /\ e.of = c.of
  BY <1>1
<1>4. e = [id |-> e.id, want |-> e.want, stage |-> e.stage, got |-> e.got, late |-> e.late,
           of |-> e.of]
  BY <1>1, <1>3, Zenon
<1>5. IsCall(e)
  BY <1>2, <1>3, <1>4 DEF IsCall
<1> QED
  BY <1>3, <1>5

\* A call that goes on is otherwise the same.
LEMMA CallStage ==
    ASSUME NEW c, IsCall(c), NEW f \in {"served", "kept"}, NEW e, e = [c EXCEPT !.stage = f]
    PROVE  /\ IsCall(e) /\ e.id = c.id /\ e.want = c.want /\ e.stage = f
           /\ e.late = c.late /\ e.got = c.got
<1>1. e = [id |-> c.id, want |-> c.want, stage |-> f, got |-> c.got, late |-> c.late,
           of |-> c.of]
  BY CallExcept, Zenon
<1>2. c.got \in DeviceNames \cup {Unlisted, "refused"}
  BY DEF IsCall
<1>3. /\ e.id = c.id /\ e.want = c.want /\ e.stage = f /\ e.late = c.late
      /\ e.got = c.got /\ e.of = c.of
  BY <1>1
<1>4. e = [id |-> e.id, want |-> e.want, stage |-> e.stage, got |-> e.got, late |-> e.late,
           of |-> e.of]
  BY <1>1, <1>3, Zenon
<1>5. IsCall(e)
  BY <1>2, <1>3, <1>4 DEF IsCall
<1> QED
  BY <1>3, <1>5

\* A call with its answer is otherwise the same.
LEMMA CallServed ==
    ASSUME NEW c, IsCall(c), NEW g \in DeviceNames \cup {Unlisted, "refused"}, NEW e,
           e = [id |-> c.id, want |-> c.want, stage |-> "served", got |-> g, late |-> c.late,
                of |-> c.of]
    PROVE  /\ IsCall(e) /\ e.id = c.id /\ e.want = c.want /\ e.stage = "served"
           /\ e.late = c.late /\ e.got = g
<1>1. e = [id |-> c.id, want |-> c.want, stage |-> "served", got |-> g, late |-> c.late,
           of |-> c.of]
  OBVIOUS
<1>2. TRUE
  BY DEF IsCall
<1>3. /\ e.id = c.id /\ e.want = c.want /\ e.stage = "served" /\ e.late = c.late
      /\ e.got = g /\ e.of = c.of
  BY <1>1
<1>4. e = [id |-> e.id, want |-> e.want, stage |-> e.stage, got |-> e.got, late |-> e.late,
           of |-> e.of]
  BY <1>1, <1>3, Zenon
<1>5. IsCall(e)
  BY <1>2, <1>3, <1>4 DEF IsCall
<1> QED
  BY <1>3, <1>5

\* Two of the parts, by name.
Answers == \A c \in calls : Honest(c)
OneEach == \A c, d \in calls : c.want # "list" /\ d.want # "list" /\ c.id = d.id => c = d

\* Nothing was asked for, and nothing is listed.
LEMMA DeviceStart == DeviceScreensInit => DeviceInv
BY DeviceScreensAssumption DEF DeviceScreensInit, DeviceInv

\* One call goes, or is another now, and the row is as it was.
LEMMA OneCall ==
    ASSUME DeviceInv, device' = device, lastCall' = lastCall, edits' = edits,
           NEW e, Honest(e), calls' \subseteq calls \cup {e},
           e.want = "list" \/ \A d \in calls' : d = e \/ d.want = "list" \/ d.id # e.id
    PROVE  Answers' /\ OneEach'
<1>1. \A d : Honest(d) => Honest(d)'
  BY DEF Honest
<1>2. Answers'
  BY <1>1 DEF Answers, DeviceInv
<1>3. OneEach'
  BY DEF OneEach, DeviceInv
<1> QED
  BY <1>2, <1>3

\* What is said of every call is said of those that stay.
LEMMA FewerCalls ==
    ASSUME DeviceInv, device' = device, lastCall' = lastCall, edits' = edits, calls' \subseteq calls
    PROVE  Answers' /\ OneEach'
<1>1. \A d : Honest(d) => Honest(d)'
  BY DEF Honest
<1>2. Answers'
  BY <1>1 DEF Answers, DeviceInv
<1>3. OneEach'
  BY DEF OneEach, DeviceInv
<1> QED
  BY <1>2, <1>3

\* A step of the screens that touches neither the row nor the calls.
LEMMA QuietStep ==
    ASSUME DeviceInv, UNCHANGED <<device, lastCall, edits, calls, listShown, listKept, outdated, ownLast>>
    PROVE  DeviceInv'
<1>1. /\ device' = device /\ lastCall' = lastCall /\ edits' = edits /\ calls' = calls
      /\ listShown' = listShown /\ listKept' = listKept
  BY Zenon
<1>2. (outdated' <=> outdated) /\ (ownLast' <=> ownLast)
  BY Zenon
<1>3. Answers' /\ OneEach'
  BY <1>1, FewerCalls
<1> QED
  BY <1>1, <1>2, <1>3 DEF DeviceInv, Answers, OneEach, ListAsked

\* The screen is left: its calls go on without it.
LEMMA BackStep == DeviceInv /\ Back => DeviceInv'
<1> SUFFICES ASSUME DeviceInv, Back PROVE DeviceInv'
  OBVIOUS
<1>1. /\ device' = device /\ lastCall' = lastCall /\ edits' = edits
      /\ listShown' = listShown /\ listKept' = listKept
      /\ outdated' = outdated /\ ownLast' = ownLast
      /\ calls' = {[c EXCEPT !.of = FALSE] : c \in calls}
  BY Zenon DEF Back, rowVars, listVars
<1>2. \A e \in calls' : \E c \in calls :
         /\ e = [c EXCEPT !.of = FALSE]
         /\ IsCall(e) /\ e.id = c.id /\ e.want = c.want /\ e.stage = c.stage
         /\ e.late = c.late /\ e.got = c.got
  <2> SUFFICES ASSUME NEW c \in calls, NEW e, e = [c EXCEPT !.of = FALSE]
               PROVE  /\ IsCall(e) /\ e.id = c.id /\ e.want = c.want /\ e.stage = c.stage
                      /\ e.late = c.late /\ e.got = c.got
    BY <1>1
  <2> QED
    BY CallOf DEF DeviceInv, Honest
<1>3. Answers'
  <2> SUFFICES ASSUME NEW e \in calls' PROVE Honest(e)'
    BY DEF Answers
  <2>1. PICK c \in calls : /\ IsCall(e) /\ e.id = c.id /\ e.want = c.want /\ e.stage = c.stage
                           /\ e.late = c.late /\ e.got = c.got
    BY <1>2
  <2>2. Honest(c)
    BY DEF DeviceInv
  <2> QED
    BY <1>1, <2>1, <2>2 DEF Honest
<1>4. OneEach'
  <2> SUFFICES ASSUME NEW e \in calls', NEW f \in calls', e.want # "list", f.want # "list",
                      e.id = f.id
               PROVE  e = f
    BY DEF OneEach
  <2>1. PICK c \in calls : e = [c EXCEPT !.of = FALSE] /\ e.id = c.id /\ e.want = c.want
    BY <1>2
  <2>2. PICK d \in calls : f = [d EXCEPT !.of = FALSE] /\ f.id = d.id /\ f.want = d.want
    BY <1>2
  <2>3. c = d
    BY <2>1, <2>2 DEF DeviceInv
  <2> QED
    BY <2>1, <2>2, <2>3, Zenon
<1>5. ListAsked => ListAsked'
  <2> SUFFICES ASSUME NEW c \in calls, c.want = "list" PROVE \E e \in calls' : e.want = "list"
    BY DEF ListAsked
  <2>1. PICK e \in calls' : e = [c EXCEPT !.of = FALSE]
    BY <1>1
  <2>2. e.want = c.want
    BY <2>1, CallOf DEF DeviceInv, Honest
  <2> QED
    BY <2>2
<1> QED
  BY <1>1, <1>3, <1>4, <1>5 DEF DeviceInv, Answers, OneEach

\* A rename or a revocation is asked for, and becomes the last one.
LEMMA EditStep ==
    ASSUME DeviceInv, NEW want \in DeviceNames \cup {Unlisted}, NewEdit(want) PROVE DeviceInv'
<1> DEFINE e == Call(edits + 1, want, "asked", detail)
<1>1. /\ device' = device /\ lastCall' = lastCall /\ edits' = edits + 1
      /\ listShown' = listShown /\ listKept' = listKept
      /\ outdated' = outdated /\ ownLast' = ownLast
      /\ calls' = calls \cup {e}
  BY Zenon DEF NewEdit, Asked, rowVars, listVars
<1>2. /\ IsCall(e) /\ e.id = edits + 1 /\ e.want = want /\ e.stage = "asked" /\ ~e.late
      /\ e.got = "refused" /\ want # "list"
  BY NewCall, DeviceScreensAssumption
<1> HIDE DEF e
<1>3. Answers'
  BY <1>1, <1>2 DEF DeviceInv, Answers, Honest
<1>4. \A c \in calls : c.want # "list" => c.id # edits + 1
  BY DEF DeviceInv, Honest
<1>5. OneEach'
  BY <1>1, <1>2, <1>4 DEF DeviceInv, OneEach
<1>6. ListAsked => ListAsked'
  BY <1>1 DEF ListAsked
<1> QED
  BY <1>1, <1>3, <1>5, <1>6 DEF DeviceInv, Answers, OneEach

\* Another device's change is heard of, and the list is asked for.
LEMMA HearStep == DeviceInv /\ Hear_News => DeviceInv'
<1> SUFFICES ASSUME DeviceInv, Hear_News PROVE DeviceInv'
  OBVIOUS
<1>1. PICK screen :
      /\ device' = device /\ lastCall' = lastCall /\ edits' = edits
      /\ listShown' = listShown /\ listKept' = listKept
      /\ outdated' = outdated /\ ownLast' = ownLast
      /\ calls' = calls \cup {Call(FreeList, "list", "asked", screen)}
  BY Zenon DEF Hear_News, Asked, listVars
<1> DEFINE e == Call(FreeList, "list", "asked", screen)
<1>2. Honest(e) /\ e.want = "list"
  <2>1. /\ IsCall(e) /\ e.want = "list" /\ e.stage = "asked" /\ ~e.late /\ e.got = "refused"
    BY NewCall
  <2> HIDE DEF e
  <2> QED
    BY <2>1 DEF Honest
<1>0. calls' = calls \cup {e}
  BY <1>1
<1> HIDE DEF e
<1>3. Answers' /\ OneEach'
  BY <1>0, <1>1, <1>2, OneCall
<1>4. ListAsked => ListAsked'
  BY <1>0 DEF ListAsked
<1> QED
  BY <1>1, <1>3, <1>4 DEF DeviceInv, Answers, OneEach

\* A call is refused, or a list is served or kept: the row stays as it was.
LEMMA StageStep ==
    ASSUME DeviceInv, NEW c \in calls, Serve_404(c) \/ Serve_List(c) \/ List_Kept(c)
    PROVE  DeviceInv'
<1>1. /\ device' = device /\ lastCall' = lastCall /\ edits' = edits /\ listShown' = listShown
      /\ outdated' = outdated /\ ownLast' = ownLast
  BY Zenon DEF Serve_404, Serve_List, List_Kept, rowVars, listVars
<1>2. /\ IsCall(c) /\ Honest(c) /\ device \in DeviceNames \cup {Unlisted, "refused"}
      /\ device # "refused"
      /\ c.want = "list" /\ c.stage # "asked" => c.got # "refused"
  BY DeviceScreensAssumption DEF DeviceInv, Honest
<1>3. ASSUME NEW e, Honest(e), e.id = c.id, e.want = c.want, calls' = (calls \ {c}) \cup {e},
             listKept' \in DeviceNames \cup {Unlisted}
      PROVE  DeviceInv'
  <2>1. e.want = "list" \/ \A d \in calls' : d = e \/ d.want = "list" \/ d.id # e.id
    BY <1>3 DEF DeviceInv
  <2>2. Answers' /\ OneEach'
    BY <1>1, <1>3, <2>1, OneCall
  <2>3. ListAsked => ListAsked'
    BY <1>3 DEF ListAsked
  <2> QED
    BY <1>1, <1>3, <2>2, <2>3 DEF DeviceInv, Answers, OneEach
<1>4. CASE Serve_404(c)
  <2>1. PICK e : e = [c EXCEPT !.stage = "served"]
    OBVIOUS
  <2>2. /\ c.stage = "asked" /\ c.want # "list" /\ calls' = (calls \ {c}) \cup {e}
        /\ listKept' = listKept
    BY <1>4, <2>1, Zenon DEF Serve_404, listVars
  <2>3. /\ IsCall(e) /\ e.id = c.id /\ e.want = c.want /\ e.stage = "served"
        /\ e.late = c.late /\ e.got = c.got
    BY <1>2, <2>1, CallStage
  <2>4. Honest(e)
    BY <1>2, <2>2, <2>3 DEF Honest
  <2> QED
    BY <1>3, <2>2, <2>3, <2>4 DEF DeviceInv
<1>5. CASE Serve_List(c)
  <2>0. PICK g \in DeviceNames \cup {Unlisted, "refused"} : g = device
    BY <1>2
  <2>1. PICK e : e = [c EXCEPT !.stage = "served", !.got = g]
    OBVIOUS
  <2>2. /\ c.stage = "asked" /\ c.want = "list" /\ calls' = (calls \ {c}) \cup {e}
        /\ listKept' = listKept
    BY <1>5, <2>0, <2>1, Zenon DEF Serve_List, listVars
  <2>3. /\ IsCall(e) /\ e.id = c.id /\ e.want = c.want /\ e.stage = "served"
        /\ e.late = c.late /\ e.got = g
    <3>1. e = [id |-> c.id, want |-> c.want, stage |-> "served", got |-> g, late |-> c.late,
               of |-> c.of]
      BY <1>2, <2>1, CallExcept, Zenon
    <3> QED
      BY <1>2, <2>0, <3>1, CallServed
  <2>4. Honest(e)
    BY <1>2, <2>0, <2>2, <2>3 DEF Honest
  <2> QED
    BY <1>3, <2>2, <2>3, <2>4 DEF DeviceInv
<1>6. CASE List_Kept(c)
  <2>1. PICK e : e = [c EXCEPT !.stage = "kept"]
    OBVIOUS
  <2>2. /\ c.stage = "served" /\ c.want = "list" /\ calls' = (calls \ {c}) \cup {e}
        /\ listKept' = c.got
    BY <1>6, <2>1, Zenon DEF List_Kept
  <2>3. /\ IsCall(e) /\ e.id = c.id /\ e.want = c.want /\ e.stage = "kept"
        /\ e.late = c.late /\ e.got = c.got
    BY <1>2, <2>1, CallStage
  <2>4. Honest(e) /\ c.got \in DeviceNames \cup {Unlisted}
    BY <1>2, <2>2, <2>3 DEF Honest, IsCall
  <2> QED
    BY <1>3, <2>2, <2>3, <2>4
<1> QED
  BY <1>4, <1>5, <1>6

\* The call is done, and the list shown is what it says, or was before.
LEMMA DoneStep ==
    ASSUME DeviceInv, NEW c \in calls,
           Renamed_Mobile(c) \/ Edit_Fails(c) \/ List_Shown(c) \/ List_Fails(c)
    PROVE  DeviceInv'
<1>1. /\ device' = device /\ lastCall' = lastCall /\ edits' = edits /\ calls' = calls \ {c}
  BY Zenon DEF Renamed_Mobile, Edit_Fails, List_Shown, List_Fails, rowVars
<1>2. Answers' /\ OneEach'
  BY <1>1, FewerCalls
<1>3. IsCall(c) /\ Honest(c)
  BY DEF DeviceInv, Honest
<1>4. CASE Edit_Fails(c)
  <2>1. /\ listShown' = listShown /\ listKept' = listKept /\ outdated' = outdated
        /\ ownLast' = ownLast /\ c.want # "list"
    BY <1>4, Zenon DEF Edit_Fails, listVars
  <2>2. ListAsked => ListAsked'
    BY <1>1, <2>1 DEF ListAsked
  <2> QED
    BY <1>1, <1>2, <2>1, <2>2 DEF DeviceInv, Answers, OneEach
<1>5. CASE List_Fails(c)
  <2>1. listShown' = listKept /\ listKept' = listKept /\ outdated'
    BY <1>5 DEF List_Fails
  <2> QED
    BY <1>1, <1>2, <2>1 DEF DeviceInv, Answers, OneEach
<1>6. CASE List_Shown(c)
  <2>1. /\ listShown' = c.got /\ listKept' = listKept /\ outdated' = c.late
        /\ c.want = "list" /\ c.stage = "kept"
    BY <1>6, Zenon DEF List_Shown
  <2>2. c.got \in DeviceNames \cup {Unlisted} /\ (~c.late => c.got = device)
    BY <1>3, <2>1 DEF IsCall, Honest
  <2> QED
    BY <1>1, <1>2, <2>1, <2>2 DEF DeviceInv, Answers, OneEach
<1>7. CASE Renamed_Mobile(c)
  <2>1. /\ c.want \in DeviceNames /\ c.stage = "served" /\ c.got # "refused"
        /\ ownLast' = (ownLast \/ lastCall = c.id) /\ listKept' = listShown'
    BY <1>7 DEF Renamed_Mobile, Answered_Own
  <2>2. /\ c.got = c.want /\ c.want # Unlisted /\ c.want # "list" /\ c.got \in DeviceNames
        /\ ~c.late => c.got = device
        /\ c.id = lastCall => ~c.late
    BY <1>3, <2>1, DeviceScreensAssumption DEF Honest
  <2>3. ListAsked => ListAsked'
    BY <1>1, <2>2 DEF ListAsked
  <2>4. CASE listShown # Unlisted
    <3>1. listShown' = c.got /\ outdated' = c.late
      BY <1>7, <2>4 DEF Renamed_Mobile
    <3> QED
      BY <1>1, <1>2, <2>1, <2>2, <2>3, <3>1 DEF DeviceInv, Answers, OneEach
  <2>5. CASE listShown = Unlisted
    <3>1. listShown' = Unlisted /\ outdated' = outdated
      BY <1>7, <2>5 DEF Renamed_Mobile
    <3> QED
      BY <1>1, <1>2, <2>1, <2>5, <3>1 DEF DeviceInv, Answers, OneEach
  <2> QED
    BY <2>4, <2>5
<1> QED
  BY <1>4, <1>5, <1>6, <1>7

\* The list is asked for, which will show the change.
LEMMA AskStep ==
    ASSUME DeviceInv, NEW c \in calls, Revoked(c) \/ Renamed_Tab(c)
    PROVE  DeviceInv'
<1>1. PICK screen : LET e == Call(FreeList, "list", "asked", screen) IN
      /\ device' = device /\ lastCall' = lastCall /\ edits' = edits
      /\ listShown' = listShown /\ listKept' = listKept /\ outdated' = outdated
      /\ calls' = (calls \ {c}) \cup {e}
  BY Zenon DEF Revoked, Renamed_Tab, rowVars, listVars
<1> DEFINE e == Call(FreeList, "list", "asked", screen)
<1>2. Honest(e) /\ e.want = "list"
  <2>1. /\ IsCall(e) /\ e.want = "list" /\ e.stage = "asked" /\ ~e.late /\ e.got = "refused"
    BY NewCall
  <2> HIDE DEF e
  <2> QED
    BY <2>1 DEF Honest
<1> HIDE DEF e
<1>3. calls' \subseteq calls \cup {e} /\ e \in calls'
  BY <1>1 DEF e
<1>4. Answers' /\ OneEach'
  BY <1>1, <1>2, <1>3, OneCall
<1>5. ListAsked'
  BY <1>2, <1>3 DEF ListAsked
<1> QED
  BY <1>1, <1>4, <1>5 DEF DeviceInv, Answers, OneEach

\* The row changes: every answer that was given is late now.
LEMMA ChangeStep ==
    ASSUME DeviceInv, (\E c \in calls : Serve_Edit(c)) \/
                      (\E v \in DeviceNames \cup {Unlisted} : Elsewhere(v))
    PROVE  DeviceInv'
<1>1. /\ edits' = edits /\ listShown' = listShown /\ listKept' = listKept /\ outdated' = outdated
      /\ ~ownLast' /\ device # Unlisted
  BY DEF Serve_Edit, Elsewhere, Change, listVars
<1> DEFINE LateOf(d) == [d EXCEPT !.late = @ \/ d.stage # "asked"]
<1>2. ASSUME NEW d \in calls, NEW e, e = LateOf(d)
      PROVE  /\ IsCall(e) /\ e.id = d.id /\ e.want = d.want /\ e.stage = d.stage
             /\ e.got = d.got /\ (d.stage = "asked" => ~e.late) /\ (d.stage # "asked" => e.late)
  <2>1. PICK f : f = (d.late \/ d.stage # "asked")
    OBVIOUS
  <2>2. e = [d EXCEPT !.late = f]
    BY <1>2, <2>1, Zenon
  <2>3. IsCall(d) /\ Honest(d)
    BY DEF DeviceInv, Honest
  <2>4. /\ IsCall(e) /\ e.id = d.id /\ e.want = d.want /\ e.stage = d.stage
        /\ e.late = f /\ e.got = d.got
    BY <2>2, <2>3, CallLate
  <2> QED
    BY <2>1, <2>3, <2>4 DEF Honest
<1> HIDE DEF LateOf
<1>3. \A d \in calls : Honest(d)
  BY DEF DeviceInv
<1>4. ASSUME NEW c \in calls, Serve_Edit(c) PROVE DeviceInv'
  <2>1. /\ c.stage = "asked" /\ c.want # "list" /\ device' = c.want /\ lastCall' = c.id
    BY <1>4 DEF Serve_Edit, Change
  <2>2. IsCall(c) /\ Honest(c) /\ c.want \in DeviceNames \cup {Unlisted}
    BY <1>3, <2>1 DEF Honest, IsCall
  <2>3. c.id \in 1..edits /\ ~c.late /\ c.want # "refused"
    BY <2>1, <2>2, DeviceScreensAssumption DEF Honest
  <2>4. PICK g \in DeviceNames \cup {Unlisted, "refused"} : g = c.want
    BY <2>2
  <2>5. PICK s : s = [c EXCEPT !.stage = "served", !.got = g]
    OBVIOUS
  <2>6. /\ IsCall(s) /\ s.id = c.id /\ s.want = c.want /\ s.stage = "served"
        /\ s.late = c.late /\ s.got = g
    <3>1. s = [id |-> c.id, want |-> c.want, stage |-> "served", got |-> g, late |-> c.late,
               of |-> c.of]
      BY <2>2, <2>5, CallExcept, Zenon
    <3> QED
      BY <2>2, <2>4, <3>1, CallServed
  <2>7. calls' = {LateOf(d) : d \in calls \ {c}} \cup {s}
    BY <1>4, <2>4, <2>5, Zenon DEF Serve_Edit, Served, LateOf
  <2>8. Honest(s)'
    BY <1>1, <2>1, <2>2, <2>3, <2>4, <2>6 DEF Honest
  <2>9. ASSUME NEW d \in calls \ {c}, NEW e, e = LateOf(d) PROVE Honest(e)'
    <3>1. /\ IsCall(e) /\ e.id = d.id /\ e.want = d.want /\ e.stage = d.stage
          /\ e.got = d.got /\ (d.stage = "asked" => ~e.late) /\ (d.stage # "asked" => e.late)
      BY <1>2, <2>9
    <3>2. Honest(d)
      BY <1>3
    <3>3. d.want # "list" => d.id # c.id
      BY <2>1 DEF DeviceInv
    <3>4. e.want # "list" /\ e.id = lastCall' => ~e.late
      BY <2>1, <3>1, <3>3
    <3> QED
      BY <1>1, <3>1, <3>2, <3>4 DEF Honest
  <2>10. Answers'
    BY <2>7, <2>8, <2>9 DEF Answers
  <2>11. OneEach'
    <3> SUFFICES ASSUME NEW e \in calls', NEW f \in calls', e.want # "list", f.want # "list",
                        e.id = f.id
                 PROVE  e = f
      BY DEF OneEach
    <3>1. \E d \in calls : /\ e.id = d.id /\ e.want = d.want
                           /\ (d = c /\ e = s) \/ (d # c /\ e = LateOf(d))
      BY <1>2, <2>6, <2>7
    <3>2. \E d \in calls : /\ f.id = d.id /\ f.want = d.want
                           /\ (d = c /\ f = s) \/ (d # c /\ f = LateOf(d))
      BY <1>2, <2>6, <2>7
    <3>3. PICK d1 \in calls : /\ e.id = d1.id /\ e.want = d1.want
                              /\ (d1 = c /\ e = s) \/ (d1 # c /\ e = LateOf(d1))
      BY <3>1
    <3>4. PICK d2 \in calls : /\ f.id = d2.id /\ f.want = d2.want
                              /\ (d2 = c /\ f = s) \/ (d2 # c /\ f = LateOf(d2))
      BY <3>2
    <3>5. d1 = d2
      BY <3>3, <3>4 DEF DeviceInv
    <3> QED
      BY <3>3, <3>4, <3>5
  <2> QED
    BY <1>1, <2>1, <2>2, <2>3, <2>10, <2>11 DEF DeviceInv, Answers, OneEach
<1>5. ASSUME NEW v \in DeviceNames \cup {Unlisted}, Elsewhere(v) PROVE DeviceInv'
  <2>1. device' = v /\ lastCall' = 0 /\ calls' = {LateOf(d) : d \in calls}
    BY <1>5 DEF Elsewhere, Change, LateOf
  <2>2. ASSUME NEW d \in calls, NEW e, e = LateOf(d) PROVE Honest(e)'
    <3>1. /\ IsCall(e) /\ e.id = d.id /\ e.want = d.want /\ e.stage = d.stage
          /\ e.got = d.got /\ (d.stage = "asked" => ~e.late) /\ (d.stage # "asked" => e.late)
      BY <1>2, <2>2
    <3>2. Honest(d)
      BY <1>3
    <3>3. e.want # "list" => e.id # lastCall'
      BY <2>1, <3>1, <3>2 DEF Honest, DeviceInv
    <3> QED
      BY <1>1, <3>1, <3>2, <3>3 DEF Honest
  <2>3. Answers'
    BY <2>1, <2>2 DEF Answers
  <2>4. OneEach'
    <3> SUFFICES ASSUME NEW e \in calls', NEW f \in calls', e.want # "list", f.want # "list",
                        e.id = f.id
                 PROVE  e = f
      BY DEF OneEach
    <3>1. PICK d1 \in calls : e = LateOf(d1)
      BY <2>1
    <3>2. PICK d2 \in calls : f = LateOf(d2)
      BY <2>1
    <3>3. e.id = d1.id /\ e.want = d1.want /\ f.id = d2.id /\ f.want = d2.want
      BY <1>2, <3>1, <3>2
    <3>4. d1 = d2
      BY <3>3 DEF DeviceInv
    <3> QED
      BY <3>1, <3>2, <3>4
  <2> QED
    BY <1>1, <2>1, <2>3, <2>4 DEF DeviceInv, Answers, OneEach
<1> QED
  BY <1>4, <1>5

\* Every step keeps the invariant.
LEMMA DeviceStep == DeviceInv /\ DeviceScreensNext => DeviceInv'
<1> SUFFICES ASSUME DeviceInv, DeviceScreensNext PROVE DeviceInv'
  OBVIOUS
<1>1. ASSUME Open_Device \/ Begin_Rename \/ Ask_Revoke \/ Cancel_Revoke \/ Socket_Device
      PROVE  DeviceInv'
  <2>1. UNCHANGED <<device, lastCall, edits, calls, listShown, listKept, outdated, ownLast>>
    BY <1>1, Zenon DEF Open_Device, Begin_Rename, Ask_Revoke, Cancel_Revoke, Socket_Device,
       rowVars, listVars
  <2> QED
    BY <2>1, QuietStep
<1>2. ASSUME NEW n \in DeviceNames, Submit_Name(n) \/ Enter_Name(n) PROVE DeviceInv'
  BY <1>2, EditStep DEF Submit_Name, Enter_Name
<1>3. Confirm_Revoke => DeviceInv'
  BY EditStep DEF Confirm_Revoke
<1> QED
  BY <1>1, <1>2, <1>3, BackStep, HearStep, ChangeStep, StageStep, DoneStep, AskStep, Zenon
     DEF DeviceScreensNext

\* OwnChangeShown: with nothing under way the list shows this client's own last
\* change of the device, for any names and number of changes, in whatever order
\* answers and messages come, unless the list was shown from an overtaken answer
\* (DevicesTab.tsx, DevicesScreen.tsx, DeviceDetailScreen.tsx).
THEOREM RenameShown == DeviceScreensSpec => []OwnChangeShown
<1>1. DeviceInv /\ UNCHANGED deviceScreenVars => DeviceInv'
  BY QuietStep DEF deviceScreenVars
<1>2. DeviceInv => OwnChangeShown
  BY DEF DeviceInv, OwnChangeShown, ListAsked
<1> QED
  BY <1>1, <1>2, DeviceStart, DeviceStep, PTL DEF DeviceScreensSpec

\* The counters: changes are begun up to their bound, and a message is heard only
\* when there is one.
Counters == edits \in 0..MaxEdits /\ heard \in Nat

LEMMA CountersStep == Counters /\ [DeviceScreensNext]_deviceScreenVars => Counters'
<1> SUFFICES ASSUME Counters, [DeviceScreensNext]_deviceScreenVars PROVE Counters'
  OBVIOUS
<1> USE DeviceScreensAssumption DEF Counters, rowVars
<1>1. ASSUME NEW v, NewEdit(v) PROVE Counters'
  BY <1>1 DEF NewEdit
<1>2. ASSUME NEW v, NEW id, Change(v, id), edits' = edits PROVE Counters'
  BY <1>2 DEF Change
<1>3. CASE Hear_News \/ Socket_Device
  <2>1. edits' = edits /\ (heard' = 0 \/ (heard > 0 /\ heard' = heard - 1))
    BY <1>3, Zenon DEF Hear_News, Socket_Device
  <2> QED
    BY <2>1
<1>4. CASE UNCHANGED <<heard, edits>>
  BY <1>4
<1>5. CASE UNCHANGED deviceScreenVars
  BY <1>4, <1>5 DEF deviceScreenVars
<1>6. CASE Open_Device \/ Back \/ Begin_Rename \/ Ask_Revoke \/ Cancel_Revoke
  BY <1>4, <1>6, Zenon DEF Open_Device, Back, Begin_Rename, Ask_Revoke, Cancel_Revoke
<1>7. ASSUME NEW n, Submit_Name(n) \/ Enter_Name(n) \/ Confirm_Revoke PROVE Counters'
  BY <1>1, <1>7, Zenon DEF Submit_Name, Enter_Name, Confirm_Revoke
<1>8. ASSUME NEW v, Elsewhere(v) PROVE Counters'
  BY <1>2, <1>8, Zenon DEF Elsewhere
<1>9. ASSUME NEW c, Serve_Edit(c) PROVE Counters'
  BY <1>2, <1>9, Zenon DEF Serve_Edit
<1>10. ASSUME NEW c,
              \/ Serve_404(c) \/ Serve_List(c) \/ Renamed_Mobile(c) \/ Revoked(c) \/ Renamed_Tab(c)
              \/ Edit_Fails(c) \/ List_Kept(c) \/ List_Shown(c) \/ List_Fails(c)
       PROVE  Counters'
  BY <1>4, <1>10, Zenon DEF Serve_404, Serve_List, Renamed_Mobile, Revoked, Renamed_Tab,
     Edit_Fails, List_Kept, List_Shown, List_Fails
<1> QED
  BY <1>3, <1>5, <1>6, <1>7, <1>8, <1>9, <1>10, Zenon DEF DeviceScreensNext

-----------------------------------------------------------------------------
\* Sharing from another app.

\* The flags.
ShareFlags ==
    /\ signedIn \in BOOLEAN /\ loose \in BOOLEAN /\ reset \in BOOLEAN
    /\ effect \in BOOLEAN /\ done \in BOOLEAN

\* An id stands for the send under way, and none for the shares to come.  On
\* Android a share that got its sheet is handled for as long as its intent stays,
\* and a sheet that can be sent from is the one under way, which goes with it, or
\* one that nothing was sent from.  On iOS the sheet waits for its send.
ShareInv ==
    /\ os \in {"android", "ios"}
    /\ next \in 0..Len(TextOf)
    /\ intent \in 0..next /\ sheet \in 0..next /\ press \in 0..next
    /\ ids \in [Shares -> 0..MaxIds] /\ excused_share \subseteq Shares
    /\ \A n \in Shares : n > next => ids[n] = 0
    /\ IF press = 0 THEN ~loose ELSE ids[press] >= 1
    /\ SharedOnce
    /\ os = "android" =>
          /\ excused_share = {} /\ ~done /\ intent \in {0, next}
          /\ intent # 0 /\ (ids[intent] > 0 \/ intent \in {sheet, press})
             => handled = TextOf[intent] /\ handled # Blank_Text
          /\ sheet # 0 => IF sheet = press THEN ~loose ELSE ids[sheet] = 0
    /\ os = "ios" =>
          /\ intent = 0 /\ ~effect /\ ~loose /\ press \in {0, sheet}
          /\ sheet # 0 /\ press = 0 /\ ~done => ids[sheet] = 0 \/ sheet \in excused_share

\* The shares are numbered.
LEMMA TheShares == Shares = 1..Len(TextOf) /\ Len(TextOf) \in Nat /\ MaxIds \in Nat
BY ShareAssumption DEF Shares

\* The id of a send that came to nothing was not the last word.
LEMMA IdsGiven ==
    ASSUME MaxIds \in Nat, NEW f \in [Shares -> 0..MaxIds], NEW s \in Shares, f[s] >= 1,
           NEW g, g = f \/ g = [f EXCEPT ![s] = @ - 1]
    PROVE  /\ g \in [Shares -> 0..MaxIds] /\ \A n \in Shares : g[n] <= f[n]
           /\ g[s] = f[s] \/ g[s] = f[s] - 1
<1>1. \A n \in Shares : f[n] \in 0..MaxIds
  OBVIOUS
<1>2. f[s] - 1 \in 0..MaxIds
  BY <1>1
<1> QED
  BY <1>1, <1>2

\* Nothing was shared yet.
LEMMA ShareStart == ShareInit => ShareInv
BY TheShares DEF ShareInit, ShareInv, SharedOnce

\* Intents, sheets, sends, effects and restarts keep it.
LEMMA ShareStep == ShareInv /\ [ShareNext]_shareVars => ShareInv'
<1> SUFFICES ASSUME ShareInv, [ShareNext]_shareVars PROVE ShareInv'
  OBVIOUS
<1> USE TheShares DEF ShareInv, SharedOnce, intentVars
<1>1. CASE Intent
  BY <1>1 DEF Intent
<1>2. CASE RenderTabs
  BY <1>2 DEF RenderTabs
<1>3. CASE RunEffect
  <2>1. CASE Offered = 0
    BY <1>3, <2>1 DEF RunEffect, Offered
  <2>2. CASE Offered # 0
    <3>1. /\ os' = os /\ next' = next /\ intent' = intent /\ ids' = ids /\ press' = press
          /\ loose' = loose /\ excused_share' = excused_share /\ os = "android"
          /\ intent # 0 /\ handled' = TextOf[intent] /\ TextOf[intent] # Blank_Text
      BY <1>3, <2>2 DEF RunEffect, Offered
    <3>2. \/ sheet' = sheet /\ done' = done
          \/ sheet' = intent /\ handled # TextOf[intent] /\ (done' = FALSE \/ done' = done)
      BY <1>3, <2>2 DEF RunEffect, Offered, Handled, OpenSheet
    <3>3. ~done'
      BY <3>1, <3>2
    <3> QED
      BY <3>1, <3>2, <3>3
  <2> QED
    BY <2>1, <2>2
<1>4. CASE StartExtension
  BY <1>4 DEF StartExtension
<1>5. CASE Press
  <2> USE <1>5 DEF Press, CanPress
  <2>1. sheet \in Shares /\ (ids[sheet] = 0 \/ sheet \in excused_share)
    OBVIOUS
  <2>2. ids' \in [Shares -> 0..MaxIds]
    BY <2>1
  <2>3. \A n \in Shares : n # sheet => ids'[n] = ids[n]
    BY <2>1
  <2>4. ids'[sheet] = ids[sheet] + 1
    BY <2>1
  <2>5. SharedOnce'
    BY <2>1, <2>3, <2>4
  <2> QED
    BY <2>1, <2>2, <2>3, <2>4, <2>5
<1>6. CASE AndroidSent
  <2> USE <1>6 DEF AndroidSent
  <2>1. press \in Shares /\ os = "android" /\ os' = "android"
    OBVIOUS
  <2>2. ids' \in [Shares -> 0..MaxIds] /\ \A n \in Shares : ids'[n] <= ids[n]
    BY SMTT(30), <2>1, IdsGiven
  <2> QED
    BY <2>1, <2>2
<1>7. CASE PostedFromExtension \/ LeftForApp
  <2>1. /\ os = "ios" /\ os' = os /\ next' = next /\ intent' = intent /\ sheet' = sheet
        /\ ids' = ids /\ excused_share' = excused_share /\ effect' = effect /\ loose' = loose
        /\ done' = TRUE /\ press' = 0
    BY <1>7 DEF PostedFromExtension, LeftForApp, KeepForApp
  <2> QED
    BY <2>1
<1>8. CASE NotEvenLeft
  <2> USE <1>8 DEF NotEvenLeft
  <2>1. press \in Shares /\ os = "ios" /\ os' = "ios"
    OBVIOUS
  <2>2. ids' \in [Shares -> 0..MaxIds] /\ \A n \in Shares : ids'[n] <= ids[n]
    BY SMTT(30), <2>1, IdsGiven
  <2>3. /\ excused_share \subseteq excused_share'
        /\ ids'[press] = 0 \/ press \in excused_share' \/ ids'[press] = ids[press] - 1
    BY <2>1
  <2> QED
    BY SMTT(30), <2>1, <2>2, <2>3
<1>9. CASE Dismiss_Sheet
  <2>1. /\ os' = os /\ next' = next /\ intent' = intent /\ sheet' = 0 /\ handled' = handled
        /\ ids' = ids /\ excused_share' = excused_share /\ effect' = effect /\ done' = done
        /\ press' = press
        /\ os = "ios" => press = 0
        /\ press = 0 => ~loose'
    BY <1>9, Zenon DEF Dismiss_Sheet
  <2> QED
    BY <2>1
<1>11. CASE SignInOrOut
  BY <1>11 DEF SignInOrOut
<1>10. CASE UNCHANGED shareVars
  BY <1>10 DEF shareVars
<1> QED
  BY <1>1, <1>2, <1>3, <1>4, <1>5, <1>6, <1>7, <1>8, <1>9, <1>10, <1>11 DEF ShareNext

\* SharedOnce: a share is sent under one id, for any number of shares and sends,
\* although its intent is delivered again and its sheet drawn again, unless it could
\* be neither posted nor kept (AndroidShareModal.tsx, ShareSheet.tsx,
\* sendDirect.ts).
THEOREM SharesGoOnce == ShareSpec => []SharedOnce
<1>1. ShareInv => SharedOnce
  BY DEF ShareInv
<1> QED
  BY <1>1, ShareStart, ShareStep, PTL DEF ShareSpec

\* The flags are TRUE or FALSE, and the rest of the types is part of ShareInv.
LEMMA ShareTypesStart == ShareInit => ShareFlags
BY DEF ShareInit, ShareFlags

LEMMA ShareTypesStep == ShareFlags /\ [ShareNext]_shareVars => ShareFlags'
<1> SUFFICES ASSUME ShareFlags, [ShareNext]_shareVars PROVE ShareFlags'
  OBVIOUS
<1> USE DEF ShareFlags, intentVars
<1>1. CASE Intent \/ RenderTabs \/ StartExtension \/ Press \/ Dismiss_Sheet \/ SignInOrOut
  BY <1>1 DEF Intent, RenderTabs, StartExtension, Press, Dismiss_Sheet, SignInOrOut
<1>2. CASE RunEffect
  BY <1>2 DEF RunEffect, OpenSheet
<1>3. CASE AndroidSent
  BY <1>3 DEF AndroidSent
<1>4. CASE PostedFromExtension \/ LeftForApp \/ NotEvenLeft
  BY <1>4 DEF PostedFromExtension, LeftForApp, KeepForApp, NotEvenLeft
<1>5. CASE UNCHANGED shareVars
  BY <1>5 DEF shareVars
<1> QED
  BY <1>1, <1>2, <1>3, <1>4, <1>5 DEF ShareNext

LEMMA ShareTyped == ShareInv /\ ShareFlags => ShareTypeOK
BY DEF ShareInv, ShareFlags, ShareTypeOK

-----------------------------------------------------------------------------
\* The phone's feed.

USE NoCardAssumption

\* The timers of this screen are those Undo can cancel, their items are hidden,
\* and whatever else is hidden is being deleted, was, or was not asked for.
FeedScreenInv ==
    /\ FeedScreenTypeOK
    /\ pending = timers \ orphans /\ pending \subseteq hidden
    /\ hidden \cap onServer \subseteq timers \cup removing \cup unasked
    /\ bar # NoCard => bar \in pending

\* Nothing is hidden at first.
LEMMA FeedScreenStart == FeedScreenInit => FeedScreenInv
BY DEF FeedScreenInit, FeedScreenInv, FeedScreenTypeOK

\* Swipes, timers, Undo and the answers keep it.
LEMMA FeedScreenStep == FeedScreenInv /\ [FeedScreenNext]_feedScreenVars => FeedScreenInv'
<1> SUFFICES ASSUME FeedScreenInv, [FeedScreenNext]_feedScreenVars PROVE FeedScreenInv'
  OBVIOUS
<1> USE DEF FeedScreenInv, FeedScreenTypeOK
<1>1. ASSUME NEW i \in Cards, Swipe(i) PROVE FeedScreenInv'
  BY <1>1 DEF Swipe
<1>2. CASE Undo
  BY <1>2 DEF Undo, BarShown
<1>3. ASSUME NEW i \in Cards, Fire(i) PROVE FeedScreenInv'
  <2>1. CASE i \in orphans
    BY <1>3 DEF Fire, RemoveItem
  <2>2. CASE i \notin orphans
    BY <1>3 DEF Fire, RemoveItem
  <2> QED
    BY <2>1, <2>2
<1>4. ASSUME NEW i \in Cards, Deleted(i) PROVE FeedScreenInv'
  BY <1>4 DEF Deleted
<1>5. ASSUME NEW i \in Cards, DeletedElsewhere(i) \/ Tombstone(i) PROVE FeedScreenInv'
  BY <1>5 DEF DeletedElsewhere, Tombstone
<1>6. CASE Doze
  BY <1>6 DEF Doze
<1>7. CASE Remount
  BY <1>7 DEF Remount
<1>8. CASE UNCHANGED feedScreenVars
  BY <1>8 DEF feedScreenVars
<1> QED
  BY <1>1, <1>2, <1>3, <1>4, <1>5, <1>6, <1>7, <1>8 DEF FeedScreenNext

\* ShownIsKept: for any number of items, whenever the app sleeps, the screen is
\* replaced or a request fails.
THEOREM ShownItemsAreKept ==
    FeedScreenInit /\ [][FeedScreenNext]_feedScreenVars => [](ShownIsKept /\ BarCanUndo)
<1>1. FeedScreenInv => ShownIsKept /\ BarCanUndo
  BY DEF FeedScreenInv, ShownIsKept, BarCanUndo, BarShown, Visible
<1> QED
  BY <1>1, FeedScreenStart, FeedScreenStep, PTL
=============================================================================

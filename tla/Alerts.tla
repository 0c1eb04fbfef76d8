-------------------------------- MODULE Alerts --------------------------------
(***************************************************************************)
(* What a client does with an item the engine hands to it: the stored      *)
(* feed, the watermark that keeps an item from being announced twice, the  *)
(* unread count with the badge (tray icon on the desktop), the banner.     *)
(*                                                                         *)
(* Items are numbered in the order of their ULIDs, which is not the order  *)
(* they arrive in: the ids come from the clocks of several devices.  An    *)
(* item handed out gets a handler; several run at once, and one action is  *)
(* the code between two awaits.  The engine hands an item out once per     *)
(* start, and again after a restart when the cursor was not saved          *)
(* (SyncEngine).  On the phone the pull of an engine that was stopped goes *)
(* on beside the one of the next, so that an item has several handlers.    *)
(***************************************************************************)
EXTENDS Naturals, FiniteSets

CONSTANTS
    LastItem,     \* items are 1 .. LastItem
    MaxItems,     \* length of the stored feed
    MaxHandlers,  \* bound: handlers of an item at one time
    AlertClients, \* the clients to look at
    Aims          \* whose the items may be

ASSUME AlertClientsAssumption == AlertClients \subseteq {"mobile", "extension", "desktop"}
ASSUME AimsAssumption ==
    Aims \subseteq [1..LastItem -> {"own", "here", "elsewhere", "all"}]
ASSUME FeedAssumption == LastItem \in Nat /\ MaxItems \in Nat \ {0}
ASSUME HandlersAssumption == MaxHandlers \in Nat

Items == 1..LastItem

\* An item and the number of its handler.
Handlers == Items \X (1..MaxHandlers)

VARIABLES
    client,
    aim,        \* whose an item is: sent from here, to here, elsewhere, to all
    wants,      \* notifyOnNewItems
    mem,        \* the feed in memory
    kept,       \* the feed as stored
    mark,       \* the watermark, 0 for none
    count,      \* the stored unread count
    text,       \* the number on the badge, Flash for the check mark
    at,         \* where a handler is
    old,        \* the count it read
    seen,       \* items the engine has handed out since it was started
    clearing,   \* clearBadge has stored the zero
    flash,      \* flashBadge: "no", "shown", "read"
    restore,    \* the count flashBadge's timer read
    \* history
    banners,    \* how often the item was announced
    news,       \* items the user was told of by the badge and has not looked at
    raced,      \* badge updates overlapped since the badge was last right
    late,       \* handlers about to store a watermark no higher than one stored since
    sunk,       \* items from such a watermark up to the one it replaced
    lost        \* items that were announced and are not in the feed, or were not

alertVars == <<client, aim, wants, mem, kept, mark, count, text, at, old, seen, clearing,
               flash, restore, banners, news, raced, late, sunk, lost>>

Flash == LastItem + 1

\* The newest that fit.
Newest(S) == {i \in S : Cardinality({j \in S : j > i}) < MaxItems}

Stages == {"none", "persist", "read", "write", "count", "bump", "show", "prefs"}

Move(h, stage) == at' = [at EXCEPT ![h] = stage]

feedVars == <<mem, kept, seen>>
badgeVars == <<count, text, old, clearing, flash, restore, news>>
fixed == <<client, aim, wants>>

-----------------------------------------------------------------------------
\* onEngineEvent: a new item goes to the feed, and only then, except on mobile,
\* to the alerts.
Emit(i, n) ==
    /\ i \notin seen /\ at[<<i, n>>] = "none"
    /\ \A m \in 1..(n - 1) : at[<<i, m>>] # "none"
    /\ seen' = seen \cup {i}
    /\ mem' = Newest(mem \cup {i})
    /\ \/ i \notin mem /\ Move(<<i, n>>, "persist")
       \/ i \in mem /\ client = "mobile" /\ Move(<<i, n>>, "read")
       \/ i \in mem /\ client # "mobile" /\ UNCHANGED at
    /\ UNCHANGED <<fixed, kept, mark, badgeVars, banners>>

Persist(h) ==
    /\ at[h] = "persist"
    /\ kept' = Newest(kept \cup {h[1]})
    /\ Move(h, "read")
    /\ UNCHANGED <<fixed, mem, seen, mark, badgeVars, banners>>

\* Mutant: an item is passed on whatever the watermark says.
ReadNoMark(h) ==
    /\ at[h] = "read"
    /\ Move(h, "write")
    /\ UNCHANGED <<fixed, feedVars, mark, badgeVars, banners>>

\* onItem starts: an item up to the watermark was handled before.
ReadMark(h) ==
    /\ at[h] = "read"
    /\ Move(h, IF h[1] <= mark THEN "none" ELSE "write")
    /\ UNCHANGED <<fixed, feedVars, mark, badgeVars, banners>>

\* The watermark is stored before anything is shown; own items end here.
WriteMark(h) ==
    /\ at[h] = "write"
    /\ mark' = h[1]
    /\ \/ aim[h[1]] = "own" /\ Move(h, "none") /\ UNCHANGED news
       \/ aim[h[1]] # "own" /\ client # "mobile" /\ Move(h, "count") /\ news' = news \cup {h[1]}
       \/ aim[h[1]] # "own" /\ client = "mobile" /\ UNCHANGED news
          /\ Move(h, IF aim[h[1]] = "elsewhere" THEN "none" ELSE "prefs")
    /\ UNCHANGED <<fixed, feedVars, count, text, old, clearing, flash, restore, banners>>

\* The unread count is read, stored one higher, and shown.
ReadCount(h) ==
    /\ at[h] = "count"
    /\ old' = [old EXCEPT ![h] = count]
    /\ Move(h, "bump")
    /\ UNCHANGED <<fixed, feedVars, mark, count, text, clearing, flash, restore, news, banners>>

Bump(h) ==
    /\ at[h] = "bump"
    /\ count' = old[h] + 1
    /\ Move(h, "show")
    /\ UNCHANGED <<fixed, feedVars, mark, text, old, clearing, flash, restore, news, banners>>

Show(h) ==
    /\ at[h] = "show"
    /\ text' = old[h] + 1
    /\ Move(h, IF aim[h[1]] = "elsewhere" THEN "none" ELSE "prefs")
    /\ old' = [old EXCEPT ![h] = 0]
    /\ UNCHANGED <<fixed, feedVars, mark, count, clearing, flash, restore, news, banners>>

\* A banner for an item sent here, and for one sent to all if the user wants it.
Present(h) ==
    /\ at[h] = "prefs"
    /\ banners' = [banners EXCEPT ![h[1]] = @ + IF aim[h[1]] = "here" \/ wants THEN 1 ELSE 0]
    /\ Move(h, "none")
    /\ UNCHANGED <<fixed, feedVars, mark, badgeVars>>

\* clearBadge, when a popup or window opens: the stored count, then the badge.
Clear ==
    /\ client # "mobile" /\ ~clearing
    /\ clearing' = TRUE
    /\ count' = 0
    /\ news' = {}
    /\ UNCHANGED <<fixed, feedVars, mark, text, at, old, flash, restore, banners>>

Cleared ==
    /\ clearing
    /\ clearing' = FALSE
    /\ text' = 0
    /\ UNCHANGED <<fixed, feedVars, mark, count, at, old, flash, restore, news, banners>>

\* flashBadge, after a context menu sent something: a check mark, and after two
\* seconds the stored count again.
FlashOn ==
    /\ client = "extension" /\ flash = "no"
    /\ flash' = "shown"
    /\ text' = Flash
    /\ UNCHANGED <<fixed, feedVars, mark, count, at, old, clearing, restore, news, banners>>

FlashTimer ==
    /\ flash = "shown"
    /\ flash' = "read"
    /\ restore' = count
    /\ UNCHANGED <<fixed, feedVars, mark, count, text, at, old, clearing, news, banners>>

\* Mutant: the badge is emptied.
FlashBlank ==
    /\ flash = "read"
    /\ flash' = "no"
    /\ text' = 0
    /\ restore' = 0
    /\ UNCHANGED <<fixed, feedVars, mark, count, at, old, clearing, news, banners>>

FlashOff ==
    /\ flash = "read"
    /\ flash' = "no"
    /\ text' = restore
    /\ restore' = 0
    /\ UNCHANGED <<fixed, feedVars, mark, count, at, old, clearing, news, banners>>

\* Updates of the badge under way.
Updates == Cardinality({h \in Handlers : at[h] \in {"count", "bump", "show"}})
           + (IF clearing THEN 1 ELSE 0) + (IF flash = "no" THEN 0 ELSE 1)

\* The worker, the app or the desktop program ends and starts again.  The tray
\* icon starts without its mark, whatever the stored count is.
Restart ==
    /\ at' = [h \in Handlers |-> "none"]
    /\ mem' = kept
    /\ seen' = {}
    /\ clearing' = FALSE /\ flash' = "no"
    /\ text' = IF client = "desktop" THEN 0 ELSE text
    /\ raced' = (raced \/ Updates > 0 \/ (client = "desktop" /\ count > 0))
    /\ old' = [h \in Handlers |-> 0] /\ restore' = 0
    /\ UNCHANGED <<fixed, kept, mark, count, banners, news, sunk>>
    /\ late' = {}

\* The engine is started anew in the same process: the mobile app came back.  What
\* the pull of the stopped engine still hands out is an Emit after it.
Reopen ==
    /\ client = "mobile"
    /\ seen' = {}
    /\ UNCHANGED <<fixed, mem, kept, mark, badgeVars, at, banners>>

-----------------------------------------------------------------------------
AlertsInit ==
    /\ client \in AlertClients
    /\ aim \in Aims
    /\ wants \in BOOLEAN
    /\ mem = {} /\ kept = {} /\ mark = 0
    /\ count = 0 /\ text = 0
    /\ at = [h \in Handlers |-> "none"] /\ old = [h \in Handlers |-> 0]
    /\ seen = {}
    /\ clearing = FALSE /\ flash = "no" /\ restore = 0
    /\ banners = [i \in Items |-> 0] /\ news = {} /\ raced = FALSE
    /\ late = {} /\ sunk = {} /\ lost = {}

AlertStep ==
    \/ \E i \in Items, n \in 1..MaxHandlers : Emit(i, n)
    \/ \E h \in Handlers :
          \/ Persist(h) \/ ReadMark(h) \/ WriteMark(h)
          \/ ReadCount(h) \/ Bump(h) \/ Show(h) \/ Present(h)
    \/ Clear \/ Cleared \/ FlashOn \/ FlashTimer \/ FlashOff \/ Reopen

\* An item that the badge counts already is passed on again.
CountedAgain == \E h \in Handlers : h[1] \in news /\ at[h] = "write" /\ at'[h] = "count"

\* A handler stores the watermark, and others are then late with theirs.
Stores(h) == at[h] = "write" /\ at'[h] # "write"

Overtaken(h) == \E g \in Handlers : Stores(g) /\ h[1] <= g[1]

\* The items that a late handler's watermark may let pass again.
SunkNow == {i \in Items : \E h \in late : Stores(h) /\ h[1] <= i /\ i <= mark}

\* A clear that nothing overlaps puts the badge right.
AlertsNext ==
    /\ \/ /\ AlertStep
          /\ raced' = (Updates' > 1 \/ CountedAgain \/ (raced /\ ~(clearing' /\ Updates = 0)))
          /\ late' = {h \in Handlers : at'[h] = "write" /\ (h \in late \/ Overtaken(h))}
          /\ sunk' = sunk \cup SunkNow
       \/ Restart
    /\ lost' = lost \cup {i \in Items : banners'[i] > 0 /\ i \notin mem'}

AlertsSpec == AlertsInit /\ [][AlertsNext]_alertVars

-----------------------------------------------------------------------------
AlertsTypeOK ==
    /\ mem \subseteq Items /\ kept \subseteq Items /\ seen \subseteq Items
    /\ mark \in 0..LastItem /\ count \in Nat /\ text \in Nat
    /\ at \in [Handlers -> Stages] /\ old \in [Handlers -> Nat]
    /\ flash \in {"no", "shown", "read"} /\ restore \in Nat
    /\ banners \in [Items -> Nat] /\ news \subseteq Items

\* Who is announced: no item twice, not even one that the full feed had dropped
\* and that a lost cursor or a restart brings again, and never one's own or one
\* sent elsewhere, nor one to all when the user does not want that.  An item is
\* announced twice only if a handler stored the watermark after another that had
\* read it at the same time stored one as high, and so took it back under the item,
\* or stored the item's own again.  Even then, except in the mobile app, which
\* passes on what it already has, the item was not in the feed any more.
AnnouncedOnce ==
    \A i \in Items :
        /\ banners[i] <= 1 \/ (i \in sunk /\ (client = "mobile" \/ i \in lost))
        /\ banners[i] > 0 => aim[i] = "here" \/ (aim[i] = "all" /\ wants)

\* The badge is the truth: unless updates of it overlapped, or an item was passed
\* on twice, it shows the stored count, and that is the number of items that came
\* since the user last looked.
BadgeTrue ==
    Updates = 0 /\ ~raced
    => count = Cardinality(news) /\ (client = "desktop" \/ text = count)
       /\ (text > 0 <=> count > 0)
===============================================================================

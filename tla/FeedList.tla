-------------------------------- MODULE FeedList --------------------------------
(***************************************************************************)
(* The feed of the popup and of the desktop window, and the short one of   *)
(* the flyout: what was refused and what waits comes first, then the items *)
(* newest first; the rail filters them by device.  While the list is       *)
(* scrolled a pill counts what is new: each time another entry is on top,  *)
(* unless it is one of this device's own.                                  *)
(***************************************************************************)
EXTENDS Integers, Sequences, FiniteSetsExt

CONSTANTS
    Surfaces,   \* among "popup", "window", "flyout"
    LastEntry,  \* bound: ids that are drawn, in this order, here and elsewhere
    FlyoutSize  \* the items that the flyout shows

ASSUME FeedListAssumption ==
    /\ Surfaces \subseteq {"popup", "window", "flyout"}
    /\ LastEntry \in Nat /\ FlyoutSize \in Nat

VARIABLES
    surface,     \* the window
    ownIds,      \* the ids this device has drawn
    drawnIds,    \* how many were drawn
    uploads,     \* the items that were created on the server
    gone,        \* those that were deleted
    listed,      \* state.items
    waitingIds,  \* state.pending: those that wait
    refusedIds,  \* those that failed, which are put before them
    filter,      \* the devices whose entries are shown: "all", "own", "others"
    scrolled, prevTop, newCount,  \* of Feed; no entry is 0
    \* history, since newCount was 0
    arrived,     \* the others' items that were listed
    slid         \* an entry came on top that had been on the list before

feedListVars == <<surface, ownIds, drawnIds, uploads, gone, listed, waitingIds, refusedIds, filter,
                  scrolled, prevTop, newCount, arrived, slid>>

Ids == 1..LastEntry

\* What the rail lets through.
Passes(i, f) ==
    CASE f = "own" -> i \in ownIds' [] f = "others" -> i \notin ownIds' [] OTHER -> TRUE

\* The entry on top of the popup and the window: of what failed or waits the first,
\* else the newest of the items.
Top(l, w, r, f) ==
    LET queue == r \o w
        ahead == {n \in DOMAIN queue : Passes(queue[n], f)}
        items == {i \in l : Passes(i, f)}
    IN  IF ahead # {} THEN queue[Min(ahead)] ELSE IF items # {} THEN Max(items) ELSE 0

\* The flyout shows the newest items only: what waits or failed is there to mark them.
LastFew(l) == {i \in l : Cardinality({j \in l : j > i}) < FlyoutSize}

SendState(i) ==
    IF i \in Range(refusedIds) THEN "failed" ELSE IF i \in Range(waitingIds) THEN "pending" ELSE "sent"

\* What a card offers: one that failed Retry alone, one that waits no Delete.
Buttons(state) ==
    IF state = "failed" THEN {"Retry"} ELSE IF state = "pending" THEN {} ELSE {"Delete"}

\* Mutant: whatever came on top.
CountsAll(top) == TRUE

\* The pill is there for what comes from others.
Counts(top) == top \notin ownIds'

\* The effect of Feed, after a render with other entries.
Render_Feed(l, w, r, f) ==
    LET top == Top(l, w, r, f)
        counts == prevTop # 0 /\ top # 0 /\ top # prevTop /\ scrolled /\ Counts(top)
    IN  IF surface = "flyout" THEN UNCHANGED <<prevTop, newCount, slid, arrived>>
        ELSE /\ prevTop' = top
             /\ newCount' = IF counts THEN newCount + 1 ELSE newCount
             /\ slid' = (slid \/ (counts /\ top \in listed))
             /\ arrived' = IF scrolled THEN arrived \cup ((l \ listed) \ ownIds') ELSE {}

Shown_As(l, w, r, f) ==
    /\ listed' = l /\ waitingIds' = w /\ refusedIds' = r /\ filter' = f
    /\ Render_Feed(l, w, r, f)
    /\ UNCHANGED <<surface, scrolled>>

-----------------------------------------------------------------------------
\* Elsewhere an item is sent; it arrives when it arrives.
Sent_Elsewhere ==
    /\ drawnIds < LastEntry
    /\ drawnIds' = drawnIds + 1
    /\ uploads' = uploads \cup {drawnIds + 1}
    /\ UNCHANGED <<surface, ownIds, gone, listed, waitingIds, refusedIds, filter, scrolled, prevTop,
                   newCount, arrived, slid>>

Item_Arrives(i) ==
    /\ i \in uploads \ (listed \cup gone)
    /\ UNCHANGED <<ownIds, drawnIds, uploads, gone>>
    /\ Shown_As(listed \cup {i}, waitingIds, refusedIds, filter)

\* An own send shows at once.
Own_Send(r) ==
    /\ drawnIds < LastEntry
    /\ drawnIds' = drawnIds + 1
    /\ ownIds' = ownIds \cup {drawnIds + 1}
    /\ UNCHANGED <<uploads, gone>>
    /\ Shown_As(listed, Append(waitingIds, drawnIds + 1), r, filter)

\* It is on the server, and may come back with a pull; then the answer: the item is
\* listed, and the queue is shown without it in a step of its own.
Own_Posted ==
    /\ waitingIds # <<>> /\ Head(waitingIds) \notin uploads
    /\ uploads' = uploads \cup {Head(waitingIds)}
    /\ UNCHANGED <<surface, ownIds, drawnIds, gone, listed, waitingIds, refusedIds, filter,
                   scrolled, prevTop, newCount, arrived, slid>>

Outbox_Changed ==
    /\ waitingIds # <<>> /\ Head(waitingIds) \in listed \cup gone
    /\ UNCHANGED <<ownIds, drawnIds, uploads, gone>>
    /\ Shown_As(listed, Tail(waitingIds), refusedIds, filter)

\* Refused, perhaps on a retry of what the server already has (bound: one failed
\* entry at a time).
Own_Refused ==
    /\ waitingIds # <<>> /\ refusedIds = <<>>
    /\ UNCHANGED <<ownIds, drawnIds, uploads, gone>>
    /\ Shown_As(listed, Tail(waitingIds), Append(refusedIds, Head(waitingIds)), filter)

\* The cards.  Retry sends an entry under a new id; the flyout offers that only on
\* an item.
Card(i) ==
    IF surface = "flyout" THEN i \in LastFew(listed)
    ELSE filter = "all" \/ (filter = "own") = (i \in ownIds)

Retry_Entry(i) ==
    /\ refusedIds = <<i>> /\ Card(i) /\ "Retry" \in Buttons(SendState(i))
    /\ Own_Send(<<>>)

\* An item whose own entry is still shown as waiting has two cards: in the flyout
\* it has one, and no Delete.
Delete_Entry(i) ==
    /\ i \in listed /\ Card(i)
    /\ surface = "flyout" => "Delete" \in Buttons(SendState(i))
    /\ gone' = gone \cup {i}
    /\ UNCHANGED <<ownIds, drawnIds, uploads>>
    /\ Shown_As(listed \ {i}, waitingIds, refusedIds, filter)

Deleted_Elsewhere(i) ==
    /\ i \in listed
    /\ gone' = gone \cup {i}
    /\ UNCHANGED <<ownIds, drawnIds, uploads>>
    /\ Shown_As(listed \ {i}, waitingIds, refusedIds, filter)

\* The rail.  Bound: not once the pill has counted as many as there can be.
Select_Device(f) ==
    /\ surface # "flyout" /\ f # filter /\ newCount < LastEntry
    /\ UNCHANGED <<ownIds, drawnIds, uploads, gone>>
    /\ Shown_As(listed, waitingIds, refusedIds, f)

\* onScroll, away from the top and back; the pill takes one there.
Scroll_Feed ==
    /\ surface # "flyout"
    /\ scrolled' = ~scrolled
    /\ newCount' = IF scrolled THEN 0 ELSE newCount
    /\ arrived' = {} /\ slid' = FALSE
    /\ UNCHANGED <<surface, ownIds, drawnIds, uploads, gone, listed, waitingIds, refusedIds, filter,
                   prevTop>>

Press_Pill ==
    /\ newCount > 0
    /\ newCount' = 0 /\ arrived' = {} /\ slid' = FALSE
    /\ UNCHANGED <<surface, ownIds, drawnIds, uploads, gone, listed, waitingIds, refusedIds, filter,
                   scrolled, prevTop>>

-----------------------------------------------------------------------------
FeedListInit ==
    /\ surface \in Surfaces
    /\ ownIds = {} /\ drawnIds = 0 /\ uploads = {} /\ gone = {} /\ listed = {}
    /\ waitingIds = <<>> /\ refusedIds = <<>> /\ filter = "all"
    /\ scrolled = FALSE /\ prevTop = 0 /\ newCount = 0 /\ arrived = {} /\ slid = FALSE

FeedListNext ==
    \/ Sent_Elsewhere \/ Own_Send(refusedIds) \/ Own_Posted \/ Outbox_Changed \/ Own_Refused
    \/ \E i \in Ids : \/ Item_Arrives(i) \/ Retry_Entry(i) \/ Delete_Entry(i) \/ Deleted_Elsewhere(i)
    \/ \E f \in {"all", "own", "others"} : Select_Device(f)
    \/ Scroll_Feed \/ Press_Pill

FeedListSpec == FeedListInit /\ [][FeedListNext]_feedListVars

FeedListTypeOK ==
    /\ listed \subseteq Ids /\ uploads \subseteq Ids /\ ownIds \subseteq Ids
    /\ prevTop \in Ids \cup {0} /\ newCount \in Nat

\* The pill counts no more than what others sent since the list was scrolled, though
\* own entries wait, fail, are listed twice and change places with the items, unless
\* an entry came on top that was on the list all the time: the one above it was
\* deleted, or delivered and put among the items, or filtered away.
PillTrue ==
    /\ newCount > 0 => scrolled
    /\ newCount <= Cardinality(arrived) \/ slid
===============================================================================

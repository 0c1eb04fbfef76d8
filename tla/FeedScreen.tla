------------------------------ MODULE FeedScreen ------------------------------
(***************************************************************************)
(* Deleting from the mobile feed.  A swipe hides the item at once and sets *)
(* a timer; Undo cancels it; when it fires, the controller asks the server *)
(* and records the tombstone.  The screen is one component: its state goes *)
(* when the app falls back to onboarding, the timers do not.               *)
(***************************************************************************)
EXTENDS FiniteSets

CONSTANTS
    Cards,   \* the items
    NoCard   \* null

ASSUME NoCardAssumption == NoCard \notin Cards

VARIABLES
    list,      \* the controller's feed
    onServer,  \* the items the server has
    awake,     \* the controller has a client
    hidden,    \* deletedIds
    pending,   \* pendingDeletes: items with a timer that Undo can cancel
    timers,    \* timers that run, those of an earlier screen included
    bar,       \* undoItemId
    removing,  \* remove() calls whose request is under way
    \* history
    orphans,   \* timers whose screen is gone
    unasked    \* items that were tombstoned without asking the server, or whose
               \* request failed

feedScreenVars == <<list, onServer, awake, hidden, pending, timers, bar, removing,
                    orphans, unasked>>

Visible == list \ hidden

\* handleDelete, when the row was swiped open.  Bound: an item has one timer at a
\* time, the second that a later screen could give it is left out.
Swipe(i) ==
    /\ i \in Visible
    /\ i \notin timers
    /\ bar' = i
    /\ hidden' = hidden \cup {i}
    /\ pending' = pending \cup {i}
    /\ timers' = timers \cup {i}
    /\ UNCHANGED <<list, onServer, awake, removing, orphans, unasked>>

\* Mutant: the timer goes on.
UndoOnScreen ==
    /\ bar \in pending
    /\ pending' = pending \ {bar}
    /\ hidden' = hidden \ {bar}
    /\ bar' = NoCard
    /\ UNCHANGED <<list, onServer, awake, timers, removing, orphans, unasked>>

\* The Undo bar is on the screen.
BarShown == bar # NoCard

\* handleUndo: for the item of the bar, the last one deleted.
Undo ==
    /\ BarShown /\ bar \in pending
    /\ timers' = timers \ {bar}
    /\ pending' = pending \ {bar}
    /\ hidden' = hidden \ {bar}
    /\ bar' = NoCard
    /\ UNCHANGED <<list, onServer, awake, removing, orphans, unasked>>

\* remove(): a controller that sleeps has no client, asks nobody and records the
\* tombstone at once.
RemoveItem(i) ==
    \/ /\ awake
       /\ removing' = removing \cup {i}
       /\ UNCHANGED <<list, unasked>>
    \/ /\ ~awake
       /\ list' = list \ {i}
       /\ unasked' = unasked \cup {i}
       /\ UNCHANGED removing

\* Five seconds later.  A timer of a screen that is gone changes no state of the
\* present one.
Fire(i) ==
    /\ i \in timers
    /\ timers' = timers \ {i}
    /\ orphans' = orphans \ {i}
    /\ IF i \in orphans THEN UNCHANGED <<pending, bar>>
       ELSE /\ pending' = pending \ {i}
            /\ bar' = IF bar = i THEN NoCard ELSE bar
    /\ RemoveItem(i)
    /\ UNCHANGED <<onServer, awake, hidden>>

\* The request ends: the tombstone is recorded, or nothing is.
Deleted(i) ==
    /\ i \in removing
    /\ removing' = removing \ {i}
    /\ \/ /\ onServer' = onServer \ {i}
          /\ list' = list \ {i}
          /\ UNCHANGED unasked
       \/ /\ unasked' = unasked \cup {i}
          /\ UNCHANGED <<onServer, list>>
    /\ UNCHANGED <<awake, hidden, pending, timers, bar, orphans>>

\* Another device deletes the item, and the engine passes the tombstone on.
DeletedElsewhere(i) ==
    /\ i \in onServer
    /\ onServer' = onServer \ {i}
    /\ UNCHANGED <<list, awake, hidden, pending, timers, bar, removing, orphans, unasked>>

Tombstone(i) ==
    /\ awake /\ i \in list \ onServer
    /\ list' = list \ {i}
    /\ UNCHANGED <<onServer, awake, hidden, pending, timers, bar, removing, orphans, unasked>>

\* The app goes to the background and comes back.
Doze == awake' = ~awake /\ UNCHANGED <<list, onServer, hidden, pending, timers, bar, removing,
                                       orphans, unasked>>

\* A 401 shows onboarding instead of the navigator; after the sign-in there is a
\* new screen.
Remount ==
    /\ hidden' = {} /\ pending' = {} /\ bar' = NoCard
    /\ orphans' = timers
    /\ UNCHANGED <<list, onServer, awake, timers, removing, unasked>>

-----------------------------------------------------------------------------
FeedScreenInit ==
    /\ list = Cards /\ onServer = Cards
    /\ awake = TRUE
    /\ hidden = {} /\ pending = {} /\ timers = {} /\ bar = NoCard
    /\ removing = {} /\ orphans = {} /\ unasked = {}

FeedScreenNext ==
    \/ Undo \/ Doze \/ Remount
    \/ \E i \in Cards : \/ Swipe(i) \/ Fire(i) \/ Deleted(i)
                        \/ DeletedElsewhere(i) \/ Tombstone(i)

FeedScreenTypeOK ==
    /\ list \subseteq Cards /\ onServer \subseteq Cards
    /\ awake \in BOOLEAN
    /\ hidden \subseteq Cards /\ pending \subseteq Cards /\ timers \subseteq Cards
    /\ bar \in Cards \cup {NoCard}
    /\ removing \subseteq Cards /\ orphans \subseteq timers /\ unasked \subseteq Cards

\* What the user sees is safe and what is hidden goes: an item on the screen has
\* no deletion coming, unless an earlier screen began it, and a hidden one that
\* the server keeps is still to be deleted or was not asked for.
ShownIsKept ==
    \A i \in Cards :
        /\ i \in Visible \cap timers => i \in orphans
        /\ i \in hidden /\ i \in onServer => i \in timers \cup removing \cup unasked

\* The bar never offers an Undo that would do nothing.
BarCanUndo == BarShown => bar \in pending /\ bar \in timers \ orphans
===============================================================================

------------------------------- MODULE ShareFlow -------------------------------
(***************************************************************************)
(* Sharing from another app.  On Android the system hands an intent to the *)
(* running app, whose navigator opens a sheet for it: a React effect, run  *)
(* again with every render until the intent is reset.  On iOS the share    *)
(* extension is a program of its own, which posts by itself and, when that *)
(* fails, leaves the entry for the app in the App Group (its way from      *)
(* there is in module Outbox).                                             *)
(***************************************************************************)
EXTENDS Naturals, Sequences

CONSTANTS
    TextOf,   \* the text of each share, in the order they come
    Blank_Text,
    MaxIds    \* bound: ids made for one share

ASSUME ShareAssumption ==
    /\ DOMAIN TextOf = 1..Len(TextOf) /\ Len(TextOf) \in Nat
    /\ MaxIds \in Nat

Shares == DOMAIN TextOf

VARIABLES
    os,        \* "android" or "ios"
    signedIn,  \* authed, or an auth bundle in the App Group
    next,      \* the shares that came
    intent,    \* the share the library holds, 0 for none
    reset,     \* it was told to let it go, and the next render will show that
    effect,    \* the effect of the last render is to run
    handled,   \* handledRef: a text, or Blank_Text
    sheet,     \* the share of the sheet, 0 when none is open
    press,     \* the share being sent, 0 for none
    loose,     \* the sheet it was sent from was dismissed meanwhile
    done,      \* the sheet says "Sent", or that the entry waits for the app
    \* history
    ids,       \* ids made for each share that are, or may be, on the server or
               \* on their way to it
    excused_share \* shares whose first id may have arrived unseen, and was not kept

shareVars == <<os, signedIn, next, intent, reset, effect, handled, sheet, press, loose,
               done, ids, excused_share>>
intentVars == <<os, signedIn, next>>

\* The library offers an intent when it has one with a text in it.
Offered == IF intent # 0 /\ TextOf[intent] # Blank_Text THEN intent ELSE 0

-----------------------------------------------------------------------------
\* Android: the system delivers the next share, over an earlier one not yet reset.
Intent ==
    /\ os = "android" /\ next < Len(TextOf)
    /\ next' = next + 1
    /\ intent' = next'
    /\ reset' = FALSE
    /\ effect' = TRUE
    /\ UNCHANGED <<os, signedIn, handled, sheet, press, loose, done, ids,
                   excused_share>>

\* Any render makes a new `shared` object, so the effect runs again; a render
\* after reset() has none.
RenderTabs ==
    /\ os = "android" /\ ~effect /\ intent # 0
    /\ effect' = TRUE
    /\ intent' = IF reset THEN 0 ELSE intent
    /\ reset' = FALSE
    /\ UNCHANGED <<intentVars, handled, sheet, press, loose, done, ids,
                   excused_share>>

\* The same text is taken for the same share until a render without one.
Handled(n) == handled = TextOf[n]

\* navigate() puts up the sheet; one that is up gets the new share and keeps its state.
OpenSheet(n) ==
    /\ sheet' = n
    /\ done' = IF sheet = 0 THEN FALSE ELSE done

RunEffect ==
    /\ effect
    /\ effect' = FALSE
    /\ IF Offered = 0
       THEN handled' = Blank_Text /\ UNCHANGED <<reset, sheet, done>>
       ELSE /\ reset' = TRUE
            /\ handled' = TextOf[intent]
            /\ IF Handled(intent) \/ ~signedIn THEN UNCHANGED <<sheet, done>>
               ELSE OpenSheet(intent)
    /\ UNCHANGED <<intentVars, intent, press, loose, ids, excused_share>>

-----------------------------------------------------------------------------
\* iOS: the extension starts for one share, reads the bundle, and shows the sheet.
\* What is shared does not reach it yet (index.share.tsx:52 has an empty text): only
\* the ids are looked at here, which do not depend on it.
StartExtension ==
    /\ os = "ios" /\ next < Len(TextOf) /\ sheet = 0 /\ press = 0
    /\ next' = next + 1
    /\ sheet' = IF signedIn THEN next' ELSE 0
    /\ done' = FALSE
    /\ UNCHANGED <<os, signedIn, intent, reset, effect, handled, press, loose, ids,
                   excused_share>>

-----------------------------------------------------------------------------
\* handleSend(): a tile is pressed; nothing while a send is under way or done.
\* Bound: a second sheet waits for the send of the first.
CanPress == sheet # 0 /\ press = 0 /\ ~done

\* sendDirect, or the outbox, makes one id.
Press ==
    /\ CanPress
    /\ press' = sheet
    /\ ids[sheet] < MaxIds /\ ids' = [ids EXCEPT ![sheet] = @ + 1]
    /\ UNCHANGED <<intentVars, intent, reset, effect, handled, sheet, loose, done,
                   excused_share>>

\* Android: the entry is in the outbox, or send() threw because the controller
\* sleeps and nothing was kept.  Either way the sheet goes, whichever share it
\* shows by now; a sheet that the user dismissed is not there to go.
AndroidSent ==
    /\ os = "android" /\ press # 0
    /\ \/ UNCHANGED ids
       \/ ids' = [ids EXCEPT ![press] = @ - 1]
    /\ press' = 0
    /\ IF loose THEN UNCHANGED <<sheet, done>> ELSE sheet' = 0 /\ done' = FALSE
    /\ loose' = FALSE
    /\ UNCHANGED <<intentVars, intent, reset, effect, handled, excused_share>>

\* iOS: the POST is answered; or it fails, perhaps after it arrived, and the entry
\* is kept under the same id; or that fails too, and the tiles are live again.
PostedFromExtension ==
    /\ os = "ios" /\ press # 0
    /\ done' = TRUE /\ press' = 0
    /\ UNCHANGED <<intentVars, intent, reset, effect, handled, sheet, loose, ids,
                   excused_share>>

\* Mutant: the mirrored entry gets an id of its own.
KeepUnderNewId ==
    /\ ids' \in {ids, [ids EXCEPT ![press] = @ + 1]}
    /\ done' = TRUE
    /\ UNCHANGED excused_share

KeepForApp ==
    /\ done' = TRUE
    /\ UNCHANGED <<ids, excused_share>>

LeftForApp ==
    /\ os = "ios" /\ press # 0
    /\ KeepForApp
    /\ press' = 0
    /\ UNCHANGED <<intentVars, intent, reset, effect, handled, sheet, loose>>

NotEvenLeft ==
    /\ os = "ios" /\ press # 0
    /\ \/ ids' = [ids EXCEPT ![press] = @ - 1] /\ UNCHANGED excused_share
       \/ excused_share' = excused_share \cup {press} /\ UNCHANGED ids
    /\ press' = 0
    /\ UNCHANGED <<intentVars, intent, reset, effect, handled, sheet, loose, done>>

\* The user taps beside the sheet, or the extension closes.  A send goes on.
Dismiss_Sheet ==
    /\ sheet # 0
    /\ os = "ios" => press = 0
    /\ sheet' = 0
    /\ loose' = (press # 0)
    /\ UNCHANGED <<intentVars, intent, reset, effect, handled, press, done, ids, excused_share>>

SignInOrOut ==
    /\ signedIn' = ~signedIn
    /\ UNCHANGED <<os, next, intent, reset, effect, handled, sheet, press, loose, done,
                   ids, excused_share>>

-----------------------------------------------------------------------------
ShareInit ==
    /\ os \in {"android", "ios"} /\ signedIn \in BOOLEAN
    /\ next = 0 /\ intent = 0 /\ reset = FALSE /\ effect = FALSE /\ handled = Blank_Text
    /\ sheet = 0 /\ press = 0 /\ loose = FALSE /\ done = FALSE
    /\ ids = [n \in Shares |-> 0] /\ excused_share = {}

ShareNext ==
    \/ Intent \/ RenderTabs \/ RunEffect \/ StartExtension
    \/ Press \/ AndroidSent \/ PostedFromExtension \/ LeftForApp \/ NotEvenLeft
    \/ Dismiss_Sheet \/ SignInOrOut

ShareSpec == ShareInit /\ [][ShareNext]_shareVars

ShareTypeOK ==
    /\ os \in {"android", "ios"} /\ signedIn \in BOOLEAN
    /\ next \in 0..Len(TextOf) /\ {intent, sheet, press} \subseteq 0..next
    /\ loose \in BOOLEAN /\ reset \in BOOLEAN /\ effect \in BOOLEAN /\ done \in BOOLEAN
    /\ ids \in [Shares -> 0..MaxIds] /\ excused_share \subseteq Shares

\* What was shared once is sent once: renders in between do not bring the sheet
\* back, a tile pressed twice sends once, and what the extension could not post
\* goes on under the id it was posted with.  Excused is a share that could neither
\* be posted nor kept: pressed again it goes out under a second id, although the
\* first may have arrived.
SharedOnce == \A n \in Shares \ excused_share : ids[n] <= 1
===============================================================================

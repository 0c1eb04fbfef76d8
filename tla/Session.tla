-------------------------------- MODULE Session --------------------------------
(***************************************************************************)
(* What the three clients put around the engine: the controller's wake-ups *)
(* and sleep, sign-in and sign-out, the answer 401, and the gate that      *)
(* shows onboarding or the app.  The engine and the outbox (modules        *)
(* SyncEngine, Outbox) appear only as "live", their calls as "pulls" and   *)
(* "calls"; a token stands for its account.                                *)
(*                                                                         *)
(* One action is the code between two awaits.  Requests that wait for the  *)
(* same wake-up go on, one after the other, before anything else happens   *)
(* (Calm): they are microtasks of the promise that wake() shares.          *)
(*                                                                         *)
(* The desktop's sign-in never succeeds: its login names a platform that   *)
(* the server refuses, and what it would save is in another file than the  *)
(* controller reads.  The desktop starts signed in, therefore, or never is.*)
(***************************************************************************)
EXTENDS FiniteSets

CONSTANTS
    Tokens,      \* what a login may return
    NoToken,     \* null
    Platforms    \* the clients to look at, among AllPlatforms

AllPlatforms == {"mobile", "extension", "desktop"}

ASSUME PlatformsAssumption == Platforms \subseteq AllPlatforms
ASSUME NoTokenAssumption   == NoToken \notin Tokens
ASSUME TokensAssumption    == Tokens # {}

VARIABLES
    platform,
    valid,        \* tokens the server takes
    used,         \* tokens that were given out
    \* persisted
    disk,         \* cc.auth
    feed,         \* the accounts the stored feed may have items or tombstones of
    keys,         \* the accounts cc.cursor, cc.outbox and cc.devices may speak of
    \* the controller
    auth,         \* this.auth
    engine,       \* the token of this.engine, this.outbox and this.client
    waking,       \* where doWake is, "no" when this.waking is null
    starting,     \* the token of the engine whose start() is awaited
    asks,         \* requests that wait for the wake-up
    wiping,       \* where sign-out is
    \* engines and clients, those the controller has dropped included
    live,         \* tokens of started engines that nobody has stopped
    pulls,        \* tokens of pulls in flight
    calls,        \* tokens of other calls in flight
    \* what the user sees
    window,       \* the app is in front, or the popup open
    ready, authed, authRequired,  \* flags of the snapshot
    gate,         \* the latch of the App component
    step,         \* of onboarding
    saving,       \* the popup's sign-in has saved the auth and not yet told the worker
    \* history
    flew,         \* tokens of pulls and calls in flight at the last sign-out
    untold        \* the popup closed before it told the worker of the saved auth

ctrlVars == <<auth, engine, waking, starting, asks, wiping>>
netVars == <<live, pulls, calls>>
uiVars == <<window, ready, authed, authRequired, gate, step, saving>>
diskVars == <<disk, feed, keys>>
histVars == <<flew, untold>>
sessionVars == <<platform, valid, used, diskVars, ctrlVars, netVars, uiVars, histVars>>

Steps == {"server", "signin", "saved", "appearance", "leaving"}

SessionTypeOK ==
    /\ platform \in Platforms
    /\ valid \subseteq used /\ used \subseteq Tokens
    /\ disk \in Tokens \cup {NoToken}
    /\ feed \subseteq Tokens /\ keys \subseteq Tokens
    /\ auth \in Tokens \cup {NoToken} /\ engine \in Tokens \cup {NoToken}
    /\ waking \in {"no", "feed", "auth", "load", "start"}
    /\ starting \in Tokens \cup {NoToken}
    /\ asks \subseteq {"refresh", "sign_out"}
    /\ wiping \in {"no", "feed", "keys", "done"}
    /\ live \subseteq Tokens /\ pulls \subseteq Tokens /\ calls \subseteq Tokens
    /\ window \in BOOLEAN
    /\ ready \in BOOLEAN /\ authed \in BOOLEAN /\ authRequired \in BOOLEAN
    /\ gate \in {"unset", "onboarding", "app"}
    /\ step \in Steps
    /\ saving \in BOOLEAN
    /\ flew \subseteq Tokens /\ untold \in BOOLEAN

Calm == asks # {} => waking # "no"

\* What the snapshot's flags become, and what App makes of them: it latches at
\* the first resolution, and onboarding starts afresh when it is mounted.
Shows(g, required) == g = "onboarding" \/ required

\* Mutant: the gate follows the flag instead of latching it.
Follow(isReady, isAuthed) ==
    IF isReady THEN IF isAuthed THEN "app" ELSE "onboarding" ELSE gate

Latch(isReady, isAuthed) ==
    IF gate = "unset" /\ isReady THEN IF isAuthed THEN "app" ELSE "onboarding" ELSE gate

Render(isReady, isAuthed, required) ==
    /\ ready' = isReady /\ authed' = isAuthed /\ authRequired' = required
    /\ gate' = Latch(isReady, isAuthed)
    /\ step' = IF ~Shows(gate, authRequired) \/ ~Shows(gate', required)
               THEN IF required THEN "signin" ELSE "server"
               ELSE step

-----------------------------------------------------------------------------
(* The wake-up. *)

\* wake(): one doWake at a time, callers share it.
\* Mutant: every caller starts its own.
WakeAfresh == waking' = "feed"
StartWake == waking' = IF waking = "no" THEN "feed" ELSE waking

\* The feed is loaded: nothing more to do for a controller that has an engine.
WakeFeed ==
    /\ waking = "feed"
    /\ IF engine = NoToken THEN waking' = "auth" /\ UNCHANGED calls
                           ELSE waking' = "no" /\ calls' = calls \cup {engine}
    /\ UNCHANGED <<platform, valid, used, diskVars, auth, engine, starting, asks,
                   wiping, live, pulls, uiVars, histVars>>

\* cc.auth is read: without it the controller stays empty, otherwise it gets a
\* client, an engine and an outbox, whose load() is awaited next.
WakeAuth ==
    /\ waking = "auth"
    /\ auth' = disk
    /\ engine' = disk
    /\ waking' = IF disk = NoToken THEN "no" ELSE "load"
    /\ untold' = FALSE
    /\ IF platform = "mobile" THEN Render(TRUE, disk # NoToken, authRequired)
                              ELSE UNCHANGED <<ready, authed, authRequired, gate, step>>
    /\ UNCHANGED <<platform, valid, used, diskVars, starting, asks, wiping, netVars,
                   window, saving, flew>>

\* The stored queue is loaded, the mirror drained: start the engine.  A sleep
\* meanwhile has taken it away, and doWake fails.
WakeLoad ==
    /\ waking = "load"
    /\ starting' = engine
    /\ waking' = IF engine = NoToken THEN "no" ELSE "start"
    /\ UNCHANGED <<platform, valid, used, diskVars, auth, engine, asks, wiping, netVars,
                   uiVars, histVars>>

\* start() has read the cursor: it connects, also an engine that was stopped
\* meanwhile.
WakeStart ==
    /\ waking = "start"
    /\ live' = live \cup {starting}
    /\ starting' = NoToken
    /\ waking' = "no"
    /\ calls' = IF engine = NoToken THEN calls ELSE calls \cup {engine}
    /\ UNCHANGED <<platform, valid, used, diskVars, auth, engine, asks, wiping, pulls,
                   uiVars, histVars>>

\* The engine and the outbox are stopped and dropped.
\* Mutant: they are dropped only.
DropOnly == engine' = NoToken /\ UNCHANGED live
Drop == engine' = NoToken /\ live' = live \ {engine}

\* AppState: background or inactive, and active again.
Background ==
    /\ Calm
    /\ platform = "mobile" /\ window
    /\ window' = FALSE
    /\ Drop
    /\ UNCHANGED <<platform, valid, used, diskVars, auth, waking, starting, asks, wiping,
                   pulls, calls, ready, authed, authRequired, gate, step, saving,
                   histVars>>

Foreground ==
    /\ Calm
    /\ platform = "mobile" /\ ~window
    /\ window' = TRUE
    /\ StartWake
    /\ UNCHANGED <<platform, valid, used, diskVars, auth, engine, starting, asks, wiping,
                   netVars, ready, authed, authRequired, gate, step, saving, histVars>>

\* The minute alarm of the extension, and whatever else wakes it.
Tick ==
    /\ Calm
    /\ platform = "extension" /\ waking = "no"
    /\ StartWake
    /\ UNCHANGED <<platform, valid, used, diskVars, auth, engine, starting, asks, wiping,
                   netVars, uiVars, histVars>>

\* The browser ends the idle worker, and with it the requests a closed popup has
\* left; its next start wakes it.
Kill ==
    /\ Calm
    /\ platform = "extension" /\ ~window
    /\ auth' = NoToken /\ engine' = NoToken /\ starting' = NoToken
    /\ waking' = "feed"
    /\ wiping' = "no"
    /\ asks' = {}
    /\ live' = {} /\ pulls' = {} /\ calls' = {}
    /\ UNCHANGED <<platform, valid, used, diskVars, uiVars, histVars>>

-----------------------------------------------------------------------------
(* Requests of the popup and the desktop's windows. *)

\* handleRequest wakes first.  The answer of a request is not awaited here.
Ask(r) ==
    /\ Calm
    /\ platform # "mobile" /\ window /\ wiping \in {"no", "done"}
    /\ asks' = asks \cup {r}
    /\ StartWake
    /\ UNCHANGED <<platform, valid, used, diskVars, auth, engine, starting, wiping,
                   netVars, uiVars, histVars>>

\* A snapshot event: useWorker clears authRequired with it.
Snapshot == Render(TRUE, auth' # NoToken, FALSE)

Refresh ==
    /\ waking = "no" /\ "refresh" \in asks
    /\ asks' = asks \ {"refresh"}
    /\ calls' = IF engine = NoToken THEN calls ELSE calls \cup {engine}
    /\ UNCHANGED <<auth, engine, waking, starting, wiping>>
    /\ IF window THEN Snapshot ELSE UNCHANGED <<ready, authed, authRequired, gate, step>>
    /\ UNCHANGED <<platform, valid, used, diskVars, live, pulls, window, saving, histVars>>

\* sign_out: everything is dropped and the writes of the wipe begin.
SignOut ==
    /\ waking = "no" /\ "sign_out" \in asks
    /\ asks' = asks \ {"sign_out"}
    /\ Drop
    /\ auth' = NoToken
    /\ disk' = NoToken
    /\ wiping' = "feed"
    /\ flew' = pulls \cup calls
    /\ UNCHANGED <<platform, valid, used, feed, keys, waking, starting, pulls, calls,
                   uiVars, untold>>

WipeFeed ==
    /\ Calm
    /\ wiping = "feed"
    /\ feed' = {}
    /\ wiping' = "keys"
    /\ UNCHANGED <<platform, valid, used, disk, keys, auth, engine, waking, starting,
                   asks, netVars, uiVars, histVars>>

\* Mutant: the last keys stay.
WipeNoKeys ==
    /\ Calm
    /\ wiping = "keys"
    /\ wiping' = "done"
    /\ UNCHANGED <<auth, engine, waking, starting, asks>>
    /\ IF platform # "mobile" /\ window
       THEN Snapshot ELSE UNCHANGED <<ready, authed, authRequired, gate, step>>
    /\ UNCHANGED <<platform, valid, used, diskVars, netVars, window, saving, histVars>>

\* The last keys, cc.cursor, cc.outbox and cc.devices, are reset, and the other side
\* is told with a snapshot.
WipeKeys ==
    /\ Calm
    /\ wiping = "keys"
    /\ keys' = {}
    /\ wiping' = "done"
    /\ UNCHANGED <<auth, engine, waking, starting, asks>>
    /\ IF platform # "mobile" /\ window
       THEN Snapshot ELSE UNCHANGED <<ready, authed, authRequired, gate, step>>
    /\ UNCHANGED <<platform, valid, used, disk, feed, netVars, window, saving, histVars>>

\* The mobile app's button removes the stored keys, the sign-in first, and does
\* nothing else.
RemoveKeys ==
    /\ platform = "mobile" /\ window /\ gate = "app" /\ ~authRequired
    /\ disk # NoToken /\ wiping \in {"no", "done"}
    /\ disk' = NoToken
    /\ wiping' = "feed"
    /\ flew' = pulls \cup calls
    /\ UNCHANGED <<platform, valid, used, feed, keys, auth, engine, waking, starting,
                   asks, netVars, uiVars, untold>>

\* Mutant: the worker does not wait for the wake-up.
OpenPopupAtOnce ==
    /\ Calm
    /\ platform = "extension" /\ ~window
    /\ window' = TRUE
    /\ StartWake
    /\ UNCHANGED <<auth, engine, starting, asks, wiping>>
    /\ Snapshot
    /\ UNCHANGED <<platform, valid, used, diskVars, netVars, saving, histVars>>

\* The popup opens: the worker posts a snapshot before it wakes; a wake-up that
\* was under way has asked for cc.auth first and has it by then.
OpenPopup ==
    /\ Calm
    /\ platform = "extension" /\ ~window /\ waking \notin {"feed", "auth"}
    /\ window' = TRUE
    /\ StartWake
    /\ UNCHANGED <<auth, engine, starting, asks, wiping>>
    /\ Snapshot
    /\ UNCHANGED <<platform, valid, used, diskVars, netVars, saving, histVars>>

\* It closes, at any time: its state is gone, and so is what its sign-in has yet
\* to do; the requests it has made are with the worker.
ClosePopup ==
    /\ Calm
    /\ platform = "extension" /\ window
    /\ window' = FALSE
    /\ ready' = FALSE /\ authed' = FALSE /\ authRequired' = FALSE
    /\ gate' = "unset" /\ step' = "server"
    /\ saving' = FALSE
    /\ untold' = (untold \/ saving)
    /\ UNCHANGED <<platform, valid, used, diskVars, ctrlVars, netVars, flew>>

-----------------------------------------------------------------------------
(* Onboarding. *)

Onboarding == Calm /\ window /\ Shows(gate, authRequired)

\* The server was probed and is one.
ServerFound ==
    /\ Onboarding
    /\ step = "server"
    /\ step' = "signin"
    /\ UNCHANGED <<platform, valid, used, diskVars, ctrlVars, netVars, window, saving, ready, authed,
                   authRequired, gate, histVars>>

\* A login succeeds and its token is saved.
SignIn(t) ==
    /\ Onboarding
    /\ platform # "desktop"
    /\ wiping \in {"no", "done"}
    /\ step = "signin" /\ ~saving
    /\ t \notin used
    /\ valid' = valid \cup {t} /\ used' = used \cup {t}
    /\ disk' = t
    /\ wiping' = "no"
    /\ IF platform = "mobile" THEN step' = "appearance" /\ UNCHANGED saving
                              ELSE step' = "saved" /\ saving' = TRUE
    /\ UNCHANGED <<platform, feed, keys, auth, engine, waking, starting, asks, netVars,
                   window, ready, authed, authRequired, gate, histVars>>

\* The popup's saveAuth is done: it asks the worker for a refresh, whatever it
\* shows by now.
TellWorker ==
    /\ Calm
    /\ saving
    /\ saving' = FALSE
    /\ asks' = asks \cup {"refresh"}
    /\ StartWake
    /\ UNCHANGED <<platform, valid, used, diskVars, auth, engine, starting, wiping, netVars,
                   window, ready, authed, authRequired, gate, step, histVars>>

\* The refresh is answered: on to the last step.
Answered ==
    /\ Onboarding
    /\ step = "saved" /\ ~saving /\ "refresh" \notin asks
    /\ step' = "appearance"
    /\ UNCHANGED <<platform, valid, used, diskVars, ctrlVars, netVars, window, saving, ready, authed,
                   authRequired, gate, histVars>>

\* The last step is done or skipped: App shows the feed, and the controller is
\* told: refresh in the popup, onSignedIn in the mobile app, which reads cc.auth.
Complete ==
    /\ Onboarding
    /\ step = "appearance"
    /\ gate' = IF gate = "onboarding" THEN "app" ELSE gate
    /\ step' = IF platform = "mobile" THEN "leaving" ELSE "server"
    /\ IF platform = "mobile" THEN UNCHANGED <<asks, waking>>
       ELSE asks' = asks \cup {"refresh"} /\ StartWake
    /\ UNCHANGED <<platform, valid, used, diskVars, auth, engine, starting, wiping, netVars,
                   window, saving, ready, authed, authRequired, histVars>>

\* onSignedIn: sleep() and wake(), which may be the wake-up already under way.
OnSignedIn ==
    /\ step = "leaving"
    /\ auth' = disk
    /\ Drop
    /\ StartWake
    /\ step' = "server"
    /\ IF disk = NoToken THEN UNCHANGED <<authed, authRequired>>
                         ELSE authed' = TRUE /\ authRequired' = FALSE
    /\ UNCHANGED <<platform, valid, used, diskVars, starting, asks, wiping, pulls, calls,
                   window, saving, ready, gate, histVars>>

-----------------------------------------------------------------------------
(* The network. *)

RevokeSession(t) ==
    /\ Calm
    /\ t \in valid
    /\ valid' = valid \ {t}
    /\ UNCHANGED <<platform, used, diskVars, ctrlVars, netVars, uiVars, histVars>>

Pull(t) ==
    /\ Calm
    /\ t \in live \ pulls
    /\ pulls' = pulls \cup {t}
    /\ UNCHANGED <<platform, valid, used, diskVars, ctrlVars, live, calls, uiVars, histVars>>

\* Any 401 asks for a new sign-in: a flag of the mobile controller, an event for
\* the windows that are there elsewhere.
AskAgain ==
    IF platform = "mobile" \/ window THEN Render(ready, authed, TRUE)
    ELSE UNCHANGED <<ready, authed, authRequired, gate, step>>

\* A pull writes what it got, whether or not its engine was stopped; a 401 stops
\* the engine for good.
PullEnds(t) ==
    /\ Calm
    /\ t \in pulls
    /\ pulls' = pulls \ {t}
    /\ \/ /\ t \in valid
          /\ feed' = feed \cup {t}
          /\ keys' = keys \cup {t}
          /\ UNCHANGED <<live, ready, authed, authRequired, gate, step>>
       \/ /\ t \notin valid
          /\ live' = live \ {t}
          /\ AskAgain
          /\ UNCHANGED <<feed, keys>>
    /\ UNCHANGED <<platform, valid, used, disk, ctrlVars, calls, window, saving, histVars>>

\* A send or a retry timer flushes, an event makes the controller fetch the list of
\* devices, or a request calls the server.
Call ==
    /\ Calm
    /\ engine \notin calls \cup {NoToken}
    /\ calls' = calls \cup {engine}
    /\ UNCHANGED <<platform, valid, used, diskVars, ctrlVars, live, pulls, uiVars, histVars>>

\* A call ends, one of several perhaps, and its caller writes, whether or not it was
\* stopped meanwhile.  A POST that is answered writes the queue and the item, one
\* that is refused or fails the queue, a fetch the list of devices, a DELETE the
\* tombstone: every call is taken to write all that any of them may.
CallEnds(t) ==
    /\ Calm
    /\ t \in calls
    /\ calls' \in {calls, calls \ {t}}
    /\ \/ /\ t \in valid
          /\ feed' = feed \cup {t} /\ keys' = keys \cup {t}
          /\ UNCHANGED <<ready, authed, authRequired, gate, step>>
       \/ /\ t \notin valid
          /\ AskAgain
          /\ UNCHANGED <<feed, keys>>
    /\ UNCHANGED <<platform, valid, used, disk, ctrlVars, live, pulls, window, saving,
                   histVars>>

-----------------------------------------------------------------------------
SessionInit ==
    /\ platform \in Platforms
    /\ disk \in {NoToken, CHOOSE t \in Tokens : TRUE}
    /\ valid = {disk} \ {NoToken} /\ used = valid
    /\ feed = {} /\ keys = {}
    /\ auth = NoToken /\ engine = NoToken
    /\ waking = "feed" /\ starting = NoToken
    /\ asks = {} /\ wiping = "no"
    /\ live = {} /\ pulls = {} /\ calls = {}
    /\ window = (platform # "extension")
    /\ ready = FALSE /\ authed = FALSE /\ authRequired = FALSE
    /\ gate = "unset" /\ step = "server"
    /\ saving = FALSE
    /\ flew = {} /\ untold = FALSE

Waking == WakeFeed \/ WakeAuth \/ WakeLoad \/ WakeStart

SessionNext ==
    \/ Waking \/ Background \/ Foreground \/ Tick \/ Kill
    \/ \E r \in {"refresh", "sign_out"} : Ask(r)
    \/ Refresh \/ SignOut \/ WipeFeed \/ WipeKeys \/ RemoveKeys
    \/ OpenPopup \/ ClosePopup
    \/ ServerFound \/ TellWorker \/ Answered \/ Complete \/ OnSignedIn \/ Call
    \/ \E t \in Tokens :
          SignIn(t) \/ RevokeSession(t) \/ Pull(t) \/ PullEnds(t) \/ CallEnds(t)

SessionFairness == WF_sessionVars(Waking) /\ WF_sessionVars(Refresh) /\ WF_sessionVars(SignOut)

SessionSpec == SessionInit /\ [][SessionNext]_sessionVars /\ SessionFairness

-----------------------------------------------------------------------------
(* Properties. *)

\* The controller works for one sign-in: its engine, outbox and client are
\* those of the auth it shows, and away from the mobile app, whose wake-up a
\* sleep may overtake, no other engine runs.
OneSession ==
    /\ engine # NoToken => engine = auth
    /\ platform # "mobile" => live \subseteq {engine}

\* A sign-out leaves nothing running and nothing stored of any account, but what a
\* pull or a call that was in flight when it came has written since.
WipedClean ==
    platform # "mobile" /\ wiping = "done" /\ disk = NoToken
    => live = {} /\ feed \cup keys \subseteq flew

\* A sign-in that finishes behind the onboarding the user is in does not tear it
\* down: while the window stays, only the last step shows the app.
LatchedGate ==
    [][gate = "onboarding" /\ gate' = "app" => step = "appearance"]_sessionVars

\* Who is signed in does not see onboarding when the client starts or its window
\* opens, but for one who closed the popup while it saved the sign-in and opens it
\* before the worker has read it.
NoOnboardingFlash ==
    [][gate = "unset" /\ gate' = "onboarding" => disk = NoToken \/ untold]_sessionVars

\* A request of a window is answered, however many wake-ups it coincides with.
RequestAnswered ==
    \A r \in {"refresh", "sign_out"} : r \in asks ~> r \notin asks
===============================================================================

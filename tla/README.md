# Cross-Clipper in TLA+

Cross-Clipper keeps a feed of short texts and links in step over a user's
devices: a FastAPI server with one item table, and clients (mobile, browser
extension, desktop, command line) built on a shared TypeScript library,
`packages/core`. This directory holds TLA+ models of the code that has to be
right when connections break, processes die and calls overlap, the TLC runs that
check them, and TLAPS proofs of what matters most.

Everything is translated from the source, cited as `path:line`; `PROJECT.json`
maps each definition to the lines it stands for.

1. [The system](#1-the-system)
2. [Modules](#2-modules)
3. [What is abstracted](#3-what-is-abstracted)
4. [Runs](#4-runs)
5. [Disagreements found](#5-disagreements-found)
6. [Fairness](#6-fairness)
7. [Proofs](#7-proofs)
8. [Not modelled](#8-not-modelled)

## 1. The system

| Component | State it keeps | Operations | What makes it correct |
|---|---|---|---|
| Item table and items API (`server/items`) | rows with `sync_seq` and `deleted_at` | create with idempotent replay, list after a cursor, soft delete, prune | every change is numbered past every cursor; a replay creates nothing |
| Hub and WebSocket endpoint (`server/realtime`) | sockets per device | add, remove, broadcast, close_device | a revoked device is closed; presence is the truth; every change is told |
| Devices, accounts, tokens (`server/devices`, `server/auth`) | devices, users, token hashes, limiter windows | register, login, rename, revoke | one account on a closed server; no more attempts than allowed |
| Retention job (`server/main.py`) | - | nightly prune of tombstones and stale devices | a tombstone outlives everybody who still needs it |
| SyncEngine (`core/sync/engine.ts`) | cursor, cache, buffer, `syncing`, `resyncQueued`, retry timer | start, stop, handleMessage, resync, pull | the cursor never passes what was not learnt; a quiet engine shows the account |
| ReconnectingSocket (`core/sync/socket.ts`) | one socket, a timer | connect, stop, reconnect | a live engine is reconnected until stopped |
| ItemCache (`core/cache.ts`) | items, tombstones | upsert, remove | a tombstone wins for ever |
| Outbox (`core/outbox.ts`) | entries, attempts, `flushing`, a retry timer; `cc.outbox` | load, send, enqueue, cancel, flush, stop | nothing sent is lost, sent twice, reordered or wrongly reported |
| Controllers (mobile, extension, desktop) | engine, outbox and client they hold, auth, devices | wake, sleep, sign-in, sign-out, requests of windows | one engine for one sign-in; nothing of an old session stays |
| FeedStore, windows, popup (each client) | items and tombstones, persisted; a view of them | upsert, remove, snapshot, events | a window shows what the controller has |
| Alerts | watermark, unread count, badge | onItem, clear, flash | one alert per item, none for replays; a true badge |
| Feed screen, feed lists, composers | hidden items, timers, pill, chips | swipe, undo, scroll, pick a target, send, retry | what is shown is kept; an item alerts who was marked |
| Share sheet and share extension (mobile) | an intent, an App Group mirror | open, send, keep for the app | a share is one item |
| Onboarding, settings, device screens | addresses, auth, preferences, device list | probe, register, sign in, toggle, rename, revoke | what is saved belongs together and is what was chosen |
| Desktop capture, toast, hotkeys, native windows | pending cancels, registered combinations, pause | capture, undo, register, pause, show, hide | an undone capture goes; nothing is captured unwanted |
| Command line client | one state file | login, send, listen | what was stored is sent |

**How they interact.** A client's controller makes a `SyncEngine` and an `Outbox`
at each wake-up (`SyncController.ts:150-249`) and drops them on sleep. The engine
connects a WebSocket; each time it opens, it pulls `GET /items` pages from its
stored cursor, buffers the socket's events meanwhile, and applies them when the
pull ends. The outbox POSTs entries one by one; the answer goes into the feed
store, the hub's broadcast reaches the other devices' sockets. On the phone the
share extension, another process, POSTs by itself and leaves what failed in a
mirror that the app drains at its next wake-up.

**What is hard.**
- *Nothing is cancelled.* `stop()` clears timers and closes the socket, but a pull
  or POST that is being awaited goes on, with the storage writes that follow it,
  while the next instance works on the same keys.
- *Three sources tell about one item*: pages, events and answers, in any order.
- *Any await may be the last*: mobile and browser processes end without notice.
- *The server forgets*: tombstones are pruned, sockets are dropped, tokens revoked.
- *Awaits split operations*: `start()`, `load()`, the mirror's peek/clear, a save
  of preferences, the badge, a broadcast, a sign-in.
- *A view infers*: the pill, the toast and the gate conclude from what they were
  told last what has happened.

`PROJECT.json` lists these as hazards at the lines where they bite, each with
the properties that would catch it.

## 2. Modules

| Module | What it is | Code |
|---|---|---|
| `ItemStore` | rows of one account, `_next_seq`, create, soft delete, prune, pages | `items/repo.py`, `items/router.py`, `db/models.py` |
| `DeviceFeed` | abstract: what a feed promises | - |
| `SyncEngine` | extends `ItemStore`: engine instances, sockets, hub, feed, controller, faults | `engine.ts`, `socket.ts`, `cache.ts`, `hub.py`, `SyncController.ts` |
| `DeliveryQueue` | abstract: what an outbox promises | - |
| `Outbox` | outbox instances, controller, mirror, server, network, faults | `outbox.ts`, `SyncController.ts`, `sendDirect.ts`, `appGroup.ts`, `client.ts`, `items/router.py` |
| `Presence` | the hub, the endpoints and the requests that change the device list | `hub.py`, `realtime/router.py`, `devices/router.py`, `auth/router.py`, `auth/service.py` |
| `Session` | wake, sleep, sign-in, sign-out, 401, the gate | the three controllers, `useWorker.ts`, the three `App.tsx` |
| `Alerts` | watermark, badge, banner | `AlertManager.ts`, both `alerts.ts`, FeedStores |
| `FeedScreen` | deferred delete with undo | `FeedScreen.tsx`, `UndoBar.tsx`, `SyncController.ts` |
| `DesktopCapture` | capture, toast, undo against delivery | desktop `controller.ts`, `Toast.tsx`, `toast/main.tsx` |
| `Hotkeys` | registration, switch, pause, tray menu | `lib.rs`, `hotkeys.rs`, `tray.rs`, `clipboard.rs` |
| `NativeWindows` | main window and flyout, focus and blur | `lib.rs`, `tray.rs` |
| `Accounts` | rate limiter, first account | `ratelimit.py`, `auth/router.py`, `auth/deps.py`, `db/session.py` |
| `Windows` | how popup and windows keep up with the background | both background `controller.ts`, `useWorker.ts`, `useBridge.ts`, `bridge.ts`, FeedStores |
| `Onboarding` | probe, account, sign-in, saving | `onboarding/` of mobile and extension, `health.py` |
| `ShareFlow` | Android intent and sheet, iOS extension | `useShareIntent.ts`, `RootNavigator.tsx`, `ShareSheet.tsx`, `AndroidShareModal.tsx`, `index.share.tsx`, `sendDirect.ts` |
| `Settings` | preferences and look of the three clients | `settings.ts`, `prefs.ts`, `GeneralTab.tsx`, `CaptureTab.tsx`, `ThemeProvider.tsx`, `menus.ts` |
| `CommandLine` | login, send and listen as processes over one file | `cli/src/main.ts`, `cli/src/storage.ts` |
| `DeviceScreens` | rename and revoke against lists that overlap | `DeviceDetailScreen.tsx`, `DevicesTab.tsx`, controllers, `devices/router.py` |
| `Composing` | target, text, send, retry | `Composer.tsx`, `TargetChips.tsx`, `TargetPicker.tsx`, `Compose.tsx` |
| `FeedList` | order, filter, pill, flyout's list | both `Feed.tsx`, `FeedCard.tsx`, `Flyout.tsx`, `DeviceRail.tsx` |
| `MCSync`, `MCOutbox`, `MCPresence`, `MCClients` | the constants of the runs; the last is also the sum of fourteen parts (4) | - |
| `SyncEngineProofs`, `FeedProofs`, `OutboxProofs`, `PresenceProofs`, `SessionProofs`, and, for the parts of `MCClients`, `DesktopProofs`, `ScreenProofs`, `ClientProofs` | theorems (7) | - |

How they compose: `SyncEngine` extends `ItemStore` and refines `DeviceFeed`,
`Outbox` refines `DeliveryQueue`. The other modules stand on what these promise:
`Session` sees an engine as live or not, `Alerts`, `Windows` and `FeedList` take
items as they may arrive by `DeviceFeed` (once per start, deletions for good),
`DesktopCapture` and `Composing` use an outbox that keeps order and outcome,
`ShareFlow` ends where the mirror of `Outbox` begins.

### SyncEngine

Server state is `rows`; per instance `chan` is what the hub has sent to its socket.
Persisted by the client: `saved` (`cc.cursor`) and `feed`. The controller holds
`current` and awaits `replies`. All else is per engine instance, under the
names of the class's fields; `pull` is where its asynchronous pull stands:
`request` (sent), `answered` (page read by the server, on its way back), `saving`
(awaiting the write of the cursor).

Actions are the code between two awaits. `Wake` runs to the await of the stored
cursor, `Started` is what follows it, including `socket.connect()`, *without* a
look at `stopped`, as in `engine.ts:57-70`. `Open` is `onOpen`, `Resync` is
`resync()` to its first await (also run by `RetryTimer`), `ServeList` the
handler of `GET /items`, `ReadPage`, `ReadLastPage`, `NothingNew`, `CursorSaved`
the turns of the pull loop, `Finish` the drain of the buffer and the queued
follow-up. `Message` is `handleMessage`. The environment: `OtherCreates`,
`OtherDeletes`, `OwnPost`, `OwnDelete`, `RemoveAsleep`, `Prune`, `Revoke`, `Sleep`, `Drop`,
`PullFails`, `ReplyLost`, `Crash`.

Properties:
- `CursorCovers`: no cursor, stored or in memory, is past a change the feed has
  not got. This is the whole of crash recovery: a restart pulls from the cursor.
- `ChangesMoveAhead`: the next change will be numbered past every cursor.
- `QuietMatches`: a live engine with nothing left to do shows exactly the account, less what
  its user removed while the phone slept (`unasked`).
- `NoFlash`: a pull never shows an item whose deletion it has buffered.
- `ImplementsFeed`: refinement of `DeviceFeed`: shows only what was sent, hides
  only what was deleted or so removed (`Dismiss`), never shows again what it has hidden.
- `Converges`: an engine attached for good comes to show the account for good.

### Outbox

Persisted: `stored` (`cc.outbox`) and `mirror` (the App Group key). The controller
holds `holder`. Per instance: `phase` (how far `doWake` is: `made`, `loading`,
`draining` the mirror, `awake`), `entries` and `tried` (entries with
`attempts > 0`), `post` (the flush at work), `calls` (calls of `flush()` that
follow an await), `timer`, `stopped`. `post.at` is `posting` (request on its
way), `accepted`/`rejected`/`denied` (answer on its way back), `shifted`/`failed`
(awaiting the write).

`Send`, `Enqueue`, `Cancel` are the class's methods up to their await, with the
`persist()`; `Called`, `TimerFires`, `Nudge` are the three ways into `flush()`;
`Answer` is `create_item`, with the order of its checks (token, target,
idempotency, insert); `Accepted`, `Rejected`, `Denied`, `PostFails`/`Failed`,
`AnswerCut` are the branches of the `try`/`catch`; `Load`, `Loaded`, `Drained`
the turns of `doWake`. `Share` is `sendDirect` after its failed POST, `Late` a
POST that arrives after its sender gave up.

Properties:
- `NothingLost`: an entry is on disk, in the queue or in the mirror, until the
  server has it, has refused it or the user took it back.
- `NothingForgotten`: weaker, memory of a running instance counts too.
- `ToldTruth`: an entry reported as cancelled or rejected is not in the account,
  unless an answer to it got lost; for a cancelled one only in the two
  ways the outbox keeps no record of (process ended, body cut).
- `UndoneStaysUndone`: the same without exceptions (a comment's claim, see 5).
- `KeepsPromise`: refinement of `DeliveryQueue`: one durable FIFO queue, only its
  head is offered to the server, entries leave in order and with an outcome.
- `Drains`: awake and signed in, everything sent gets its outcome.

### Presence

The server is one asyncio process: tasks (endpoints, named by their socket, and
HTTP requests) run alone until they await. `slot` is a device's set of sockets in
the hub, `set` the sets by identity, as a broadcast holds them by reference while
it awaits sends; `cast[t]` is a task's broadcast (sets to come, sockets of the
present set to come, those that failed, the one left out, broadcasts that
follow). `Check`, `Accept`, `Leave` are the endpoint between its awaits,
`CloseOne` and `Drop` are `close_device`, `Login`, `Rename`, `Revoke` the
requests, `NextSet`, `Send` and `Finish` the broadcast. `stale` and `slipped`
are history: who is owed an event, and who was between token check and
registration when its device was revoked.

- `AllTold`: once no broadcast is under way, every registered socket has been told
  since the last change that it was there for.
- `PresenceTrue`: an open connection is in the hub, an ended one is not.
- `RevokedGone`: a revoked device keeps no open endpoint but the slipped ones.
- `EveryoneTold`: a socket that is owed an event gets it or leaves.

### Session

One module for the three controllers, chosen by `platform`. `waking` is where
`doWake` is; `Calm` says that callers who share its promise go on first, as
microtasks do. `engine`, `live` and `auth` are what the controller holds and which
engines run; `disk` is the stored sign-in, `feed` and `keys` say whose data is stored;
`gate`, `step` are what the user sees. The popup's sign-in is two steps, `SignIn`
(`saveAuth`) and `TellWorker` (the refresh), and the popup may close between them.
`CallEnds` writes what the answer to a POST or to a request for the devices makes the
outbox, the feed or the controller write, stopped or not.

- `OneSession`: the engine at work is the one of the auth that is shown; away from
  the phone, where `sleep()` may overtake a wake-up, none else runs.
- `WipedClean`: after a sign-out no engine runs and nothing of any account is stored (feed,
  cursor, queue, device list), but what a pull or call in flight when it came (`flew`)
  has written since.
- `LatchedGate`, `NoOnboardingFlash`: an onboarding in progress is not torn down by
  the sign-in behind it, and is not shown first to who is signed in, but for one who
  closed the popup while it saved the sign-in (`untold`).
- `RequestAnswered`: a window's request is answered, whatever wake-ups it meets.

### The fourteen parts of MCClients

| Module | State and steps | Property |
|---|---|---|
| `Alerts` | per handler of an item (two on the phone: of a stopped engine's pull and of the next one's), the await it is at (`at`); feed in memory and stored, watermark, count, badge; restarts | `AnnouncedOnce`: no item twice, also after restarts, a lost cursor, an eviction or two handlers, unless a late one stored the watermark over one as high (`sunk`); nothing to who should not hear it. `BadgeTrue`: the badge is the stored count and that is what is new |
| `FeedScreen` | hidden items, timers, the bar, DELETEs under way; `orphans` are timers of an unmounted screen | `ShownIsKept`: nothing on the screen has a deletion coming, nothing hidden is forgotten |
| `DesktopCapture` | outbox queue, POST, toast, delivered ids, pending cancels in memory and stored; restarts | `UndoneGoes`: an undone capture does not stay on the server, whenever Undo came, but where an answer that broke off let the cancel succeed |
| `Hotkeys` | registered combinations, those of the state, switch, pause, menu mark, tray; other programs | `MenuTrue`: the mark is the switch and stands for registered combinations. `NoUnwantedCapture`: none while off or paused |
| `Accounts` | limiter windows per key and address, registrations between insert and commit | `WithinLimit`: in no window more than allowed. `RegistrationCloses`: a second account only by the overlap of the first |
| `Windows` | controller's memory, a FIFO of storage requests each with what follows it, a window's view | `WindowTrue`: with nothing under way a window, opened and closed at any time, shows what the controller has |
| `Onboarding` | typed and probed address, probes under way, a submit with its calls, what is saved | `SavedBelongTogether`: a token is kept with the server that issued it, and steps follow from what was probed |
| `ShareFlow` | intent, reset, sheet, navigator effect, press, ids made per share | `SharedOnce`: one share, one id |
| `Settings` | stored, shown and applied value of each setting, requests with what follows | `PrefsTrue`: at rest, stored, shown and applied are what was last chosen |
| `CommandLine` | the file, per process its memory and the write it is at | `SendKept`: what `send` stored is kept until answered, for the account it was meant for |
| `DeviceScreens` | the row, shown and kept list, calls asked, served or kept, messages to come | `OwnChangeShown`: an own rename or revocation is shown at rest |
| `Composing` | the lists of devices the server has had and the one shown, target, outgoing entries, those of a stopped outbox that still posts, refused ones, `markedAt` | `AlertsAsShown`: an item alerts the device that was marked, unless the list shown was older than its login or none was shown; nothing sent is forgotten |
| `FeedList` | items, uploads, failed entries, scroll, top entry last seen, count | `PillTrue`: the pill counts no more than arrived |
| `NativeWindows` | windows shown, focus, posted events | `FlyoutYields`: at rest the flyout is shown only with the keyboard |

Excused cases are named in the properties' comments and are history variables
(`slipped`, `raced`, `late` and `sunk`, `lost`, `slid`, `clash`, `unheard`, `outdated`,
`crossed`, `flew`, `untold`, `orphans`, `unasked`, `unmet`, `garbled` and `excused`): each is something that the code really does
(section 5, second list); the property says that nothing else goes wrong.

## 3. What is abstracted

SyncEngine and Outbox:
- Bodies, kinds, timestamps, back-off delays and status events are left out.
- A write to storage takes effect when it is issued, its await ends in a later
  step. The cursor's write is a step of its own that may fail; others do not.
- One action is the code between two awaits: JavaScript and asyncio do not
  interleave within it.

SyncEngine:
- A channel is a *set* of events: `Hub.broadcast` awaits each send, so
  concurrent broadcasts overtake each other. This allows more orders than the code.
- `accept`, `hub.add` and the online broadcast are one step; `Presence` splits
  them. `device_changed` events are modelled where they are received
  (`DeviceScreens`, `Windows`).
- A `feed` entry is unknown, shown or gone; the order of a FeedStore's writes is
  in `Windows` and `Alerts`.
- `ActiveAccount`: the newest change is younger than the retention window.
  Without it numbers are reused (see 5). `DeviceReturns`: a device comes back
  within the window, the design's stated limit. `Prune` waits until nothing about
  the item is in flight (seconds against 30 days).

Outbox:
- `attempts` is 0 or not: it decides `cancel()`, its value only the delay.
- `tried` is kept by id, as ids are unique in a queue (proved: `Unique`).
- The answers 4xx are one: 422 for a target that was revoked. The others (bad
  kind, too large, foreign id) depend on the entry only and act alike.
- `clearMainOutbox()` and the re-pushes after it are one step (`Drained`).
- No client both cancels (desktop) and has a mirror (phone): `Cancel` leaves
  `Mirrored` entries alone.
- The share extension's entries are those whose own POST failed; a POST that
  succeeded leaves nothing behind.
- `LateLoad` and `LateShare` switch two hazards on: a `send()` while `load()`
  awaits, a share during the drain. The passing run and the proofs exclude
  them, and overlapping instances, because each breaks the promise (see 5).

The other modules:
- A token stands for its account (`Session`), a note for its text and id
  (`CommandLine`, `Composing`), `TRUE` and `FALSE` for the two values of a setting.
- A storage answers its requests in the order they were made: `Windows`, `Settings`
  and the phone's part of `DeviceScreens` assume this of the platforms (external;
  neither the code nor its docs state it).
- The operating system and libraries (shortcut plugin, window system, SQLite's
  lock, React's effects) appear as what the code relies on, marked external.
- Steps that may repeat for ever are bounded by a guard, each bound named in the
  module's CONSTANTS.

## 4. Runs

| Run | Instance | Asks |
|---|---|---|
| `sync_faults` | 2 items, 1 engine, own POST, DELETE and removal while asleep, 2 faults | `CursorCovers`, `ChangesMoveAhead`, `QuietMatches`, `NoFlash`, `ImplementsFeed`, `Converges` |
| `sync_overlap` | 2 items, 2 engines at once, no faults | stopped instances do no harm: `IndInv` |
| `sync_cold` | fresh device, 1 fault | refutes `NoMissedDeletion` |
| `sync_prune` | `ActiveAccount` off | refutes `ChangesMoveAhead` |
| `sync_revoked` | a revocation, fairness | refutes `RevocationNoticed` |
| `outbox_one` | 3 entries (one mirrored, one targeted), 1 instance, 2 faults of 5 kinds | `NothingLost`, `ToldTruth`, `QueueInv`, `KeepsPromise`, `Drains` |
| `outbox_overlap` | 2 entries, 2 instances, no faults | refutes `NothingForgotten` |
| `outbox_share` | share during the drain | refutes `NothingForgotten` |
| `outbox_undo` | 1 entry, 1 cut answer | refutes `UndoneStaysUndone` |
| `presence` | 2 devices, 3 sockets (two of one device), 1 request | `AllTold`, `PresenceTrue`, `RevokedGone`, `HubInv`, `EveryoneTold` |
| `session` | 2 sign-ins, three platforms | `OneSession`, `WipedClean`, `LatchedGate`, `NoOnboardingFlash`, `RequestAnswered` |
| `clients` | the fourteen parts, one at a time | the properties of the table in section 2 |

`MCClients` is a sum, not a product: the initial state chooses the part that
runs, the other parts' variables keep one initial value. The parts share no state,
so nothing is lost, and one run covers what would else be fourteen.

**Why the bounds are enough to be interesting.** Two items and `PageLimit = 1`
make a pull of several pages during which the other item changes; `SeqCap = 3`
allows creation, creation and deletion with pruning in between. Items
interact through the sequence numbers only, and a pair of items shows each order
of two changes around a cursor. Two engines are a stopped one and its successor;
a third would be a second stopped one, and stopped ones only write the cursor.
Two faults give a failure during the recovery from another (a crash after a lost
connection, a failed pull after a revocation). In the outbox three entries give a
head, an entry behind it and one that is handed over by the mirror while the head
is in flight; two faults give an unanswered POST followed by a revoked
target, or by a crash. The safety properties of the passing runs that matter most
do not rest on the bounds: they are proved (7).

In `presence` three sockets are two of one device, so that one may leave while a
broadcast walks the other, and one of another device that hears of it; one request
is a revocation, login or rename at any point of all that. In `session` two tokens
are an account and the one that comes after it. In `clients`:
- Alerts: two items, a feed that holds one, three choices of whose the items are, two
  handlers of an item at a time (`MaxHandlers`); `notifyOnNewItems` is left open where an
  item is sent to all and the other elsewhere.
- FeedScreen and capture: two items, so that the second swipe or capture comes
  while the first is pending. Hotkeys: three combinations, one for another program.
- Accounts: two events per window of two ticks and three ticks, so that an event
  falls out of the window; two registrations at once.
- Windows: four scenes (two own sends in the extension; in the desktop one own send beside
  another client's item or beside a device list that changes; a send of an earlier run),
  two storage requests at a time.
- Onboarding: a server as old as the minimum, a newer one, one whose version has a
  part that is no number; two probes at a time, one error
  for the three answers of an unusable server. Share: three shares, the last with
  the text of the first, two ids for one share.
- Settings: all three clients, stored values all default or all opposite, two chains
  at a time, followed until a case that `PrefsTrue` excuses and the end of the requests
  then under way. Command line: two processes, two texts, two accounts, followed until
  the two processes cross.
- Device screens: two names, two own changes, one of another client after it,
  one message on its way at a time, on the phone and in the extension (the desktop's
  tab is the extension's).
- Composer: two other devices, one of them listed at the start; two logins or
  revocations and one send, or one and two in the popup (`MaxListsAndNotes`; the phone
  has no retry). An outbox is loaded when the POST that its predecessor left under way has
  ended (guard of `Wake_Composer`; what a late answer does to the queue of the next one is
  `outbox_overlap`).
- Lists: three ids in the popup, whose list the window shares, and in the flyout. Native windows: three posted events.

`SeqCap` and `MaxFaults` bound actions by a guard, and so do the bounds of the parts
(`MaxHeard` and `MaxListsAndNotes` in `MCClients`); no state constraint is used.
Deadlock is not checked: a signed-out or sleeping device with nothing to do
stops, so does a server nobody asks, a part that has shared, sent or captured what
the bound allows, and a command line whose processes have ended.

`SyncOverlap` uses the symmetry of engine names, no liveness property is checked
under it. The inductive invariants `IndInv` (`SyncEngine`), `QueueInv` (`Outbox`) and
`HubInv` (`Presence`) are checked as invariants in the run where they matter, before and
beside their proofs.

**Mutants.** Each property of a passing run is violated when a plausible bug is
put into one definition: a tombstone that keeps its number, a buffer that is
dropped, a mirror that is cleared when read, a retry that is not scheduled, an
attempted head that may be cancelled, and so on. They stand before the
definition they replace, as `<name>...` with the comment "Mutant of".

## 5. Disagreements found

Each is a run that TLC must find violated, with the sentence of the repository
it contradicts.

1. **Cold device keeps a deleted item** (`sync_cold`, `items/router.py:98`). A pull
   without cursor lists no tombstones. A device that has shown an item by
   WebSocket before it ever saved a cursor and misses the deletion shows it for good.
2. **Numbers are reused** (`sync_prune`, `items/repo.py:32`). `max(sync_seq) + 1`
   runs over surviving rows; after the newest, a tombstone, is pruned, the next
   change is numbered at or below existing cursors and never pulled.
3. **A revoked device reconnects for ever** (`sync_revoked`, `socket.ts:63`). The
   close code is ignored, so no pull and no 401 ever happen.
4. **An old outbox overwrites its successor's queue** (`outbox_overlap`,
   `outbox.ts:136`). After sleep and wake the old instance's POST ends, and it
   persists its own entries over what the new one stored. What was sent in between
   is gone once the new instance is stopped before it persists again.
5. **The mirror's clear deletes what it has not peeked** (`outbox_share`,
   `SyncController.ts:236`). The key is removed as a whole.
6. **Undo confirmed for a delivered entry** (`outbox_undo`, `client.ts:71`). A body
   that breaks off throws what is neither `ApiError` nor `NetworkError`: the
   attempt is not counted, nothing is scheduled, and `cancel()` says yes.

Seen while modelling, without a run of their own: the models do these things, and
the properties excuse them by name, or the code stops before the model begins.

*Sync and outbox.* An item that the phone's user removes while the app sleeps gets its
tombstone without a DELETE (`SyncController.ts:294`, `this.client?`): it is hidden on this
device for good and stays in the account (`RemoveAsleep`, `unasked`; `DeviceFeed!Dismiss`).
With `LateLoad = TRUE` in `OutboxOne.cfg` and `NothingForgotten`
as invariant, an entry sent while `load()` awaits is replaced by the loaded queue
(`outbox.ts:50`). A `device_changed` buffered during a failed pull is lost.

*Server.* A socket between its token check and `hub.add` survives the revocation
(`realtime/router.py:22`), and one registered while `close_device` awaits is
dropped from the hub without being closed (`hub.py:61`): both serve a revoked
device, or sit deaf. Two first registrations at once both pass
(`auth/router.py:26`).

*Sessions.* On the phone `sleep()` during `doWake`'s load makes it fail
(`SyncController.ts:205`), the app then being active without an engine until the
next AppState change. Its "Sign out" (`ServerSection.tsx:43`) only removes keys;
`signOut()` has no caller. After a 401 in extension and desktop the new sign-in does
not restart the engine (`doWake` returns early). What is under way at a sign-out still writes: a pull
its items and the cursor, an answered POST the old queue and its item, a request for the
devices their list (`flew`). A popup that closes between saving the sign-in and telling
the worker (`SignInStep.tsx:51`) shows onboarding when it is opened again, until the
worker has read the auth (`untold`).

*Desktop onboarding* cannot pass its first step: `probe.ts:65` requires
`code === "ok"`, which `health.py` does not send; its sign-in would name a platform
the server refuses, and save where the controller does not read. *Other onboardings*:
Enter starts overlapping probes, a late one throws the user back to step 2; an
account that was made but not signed in to is a dead end until reopened.

*Alerts.* Two handlers that overlap both pass the watermark, and the one that writes
last may take it back (`alerts.ts:24`); two of one item, from a stopped engine's pull and
the next one's, store the same one twice (`sunk` has the items that such a write lets
pass). On the phone, which passes on whatever `upsert` returned, the item then has a
second banner; so it has in the extension and the desktop after a restart if
the feed had dropped it meanwhile (the model shows this with three items and
`MaxItems = 1`; the proof of `NoItemTwice` failed there first). Items older than the
watermark are never announced. Two items of one pull read the
same count; a clear or flash that overlaps leaves a stale badge; the desktop's tray
mark is not restored.

*Feed screen and lists.* A timer that fires in the background records a tombstone
without asking the server; a failed DELETE leaves the item hidden until a remount;
the bar offers the latest Undo only. Rejected sends of the phone are shown nowhere. The
pill counts a deletion of the top entry as an arrival, and no arrival below own
entries. The flyout shows synced items only, though its comment (`Flyout.tsx:31`)
says that pending ones are merged.

*Composer.* A selected target stays, unmarked, when its device is revoked; the send
is refused and its retry repeats the target. Answers to requests for the devices are not
sequenced: a list older than the target's login takes its mark away, and the device is
alerted with no chip marked (`unmet`). *Device screens.* Return pressed twice
starts overlapping renames; with a dropped socket an older name may stay.

*Capture and native side.* An answer that breaks off leaves its capture cancellable although
the server has it, as in 6 above (`garbled`, `PostThrows`). A rejected capture's toast stays "queued"; `undefined`
`invoke` in the toast's webview (`toast/main.tsx:12`) means that its Undo is never
sent; a delivery that was undone leaves its entry shown as pending
(`controller.ts:231`). `register_hotkeys` that fails at the second combination
leaves the first registered, and saved combinations are not registered at the next
start. Nothing shows the main window at the first start; a tray click with the
flyout open hides it by its blur and shows it again.

*Settings.* Overlapping `savePrefs` lose a field (`settings.ts:102`); the first start
of the desktop enables the start at login whatever the preference; the appearance step
overwrites a stored look. *Sharing.* Any failure on Android says "queued" though
nothing is; the same text shared again before the reset is dropped; an iOS share that
can neither be posted nor kept goes out under a second id when pressed again; its sheet
has an empty text so far (`index.share.tsx:52`), on which the ids do not depend.
*Command line.* `send` delivers a left-over entry and ends, the new one waits; two
processes at once lose each other's keys; a torn file reads as empty.

## 6. Fairness

`SyncEngine!FairSpec`: weak fairness of each step of an engine instance
(answers, events and timers arrive, storage answers, a lost connection is noticed,
the server accepts and serves) and of the answers to own requests. `Outbox!FairSpec`:
weak fairness of what each instance does on its own, taken together (its awaits
end, its armed timer fires, a POST is answered unless it fails). One continuation
runs per turn and none is starved by the event loop, and `MaxFaults` bounds
failures, which stands for "the network works in the end". Nothing is assumed of
users, of wake-ups, of the prune, of other devices or of faults. Hence the
conditions in the properties: `Converges` speaks of an engine that stays attached,
`Drains` of a client that stays awake and signed in; after a body cut nothing
calls `flush()` again until the next wake-up or refresh, so it is excepted.

`Presence!FairSpec`: every task that is ready runs and a send or close that is awaited
ends (uvicorn ends it with an exception when the peer is gone); nothing is assumed of
clients. `SessionSpec`: the awaits of a wake-up end, a request that was woken goes on;
nothing is assumed of the user, of the browser, which may end the worker, or of the
network. The parts of `MCClients` are checked for safety only.

## 7. Proofs

For every value of the constants that meets the modules' ASSUMEs; the runs show
the same on small instances.

**`SyncEngineProofs`**
- `TypeCorrect`: `Spec => []TypeOK`.
- `Inductive`: `Spec => []IndInv`, for `ActiveAccount`. `CursorCovers` is not
  inductive: a cursor comes from the `from` of a request, that from the `next` of
  a page, and a page may be older than the rows. `IndInv` adds that a page in
  flight still says what the rows it covers say, *or the row has moved past the
  page* (`PageSound`), that requests' cursors are covered too (`CursorsSound`),
  that what an instance caches was passed on to the feed except for hidden items,
  which are deleted (`CachePassedOn`), that buffered deletions are true
  (`DeletionsHold`), that a warm device never pulls without a cursor
  (`WarmCursors`), and that a starting instance does nothing else (`Lifecycle`).
  The proof treats each action; soft deletion is the interesting one: the row
  gets a number past every cursor and page, so nothing claims to cover it.
- `CursorNeverSkips`: `[]CursorCovers`; `NextChangeAhead`: `[]ChangesMoveAhead`,
  both from `Inductive`. `ActiveAccount` is needed: run `sync_prune`.
- `TombstoneWins`: `NoFlash`.

**`FeedProofs`**
- `FeedImplemented`: `Spec => ImplementsFeed`, without any assumption on retention or
  on overlapping engines. The invariant `FeedInv` says that the feed is true of the
  account's history (`FeedTrue`), and that the server has a row for whatever is on its
  way to the feed, a tombstone if it tells of a deletion: events in channels and buffers
  (`EventsTrue`), pages in flight (`AnswersTrue`), answers to own requests
  (`RepliesTrue`). A row is taken away by the prune only, which waits for what is under
  way (`InFlight`). A step is either one of the account (`AccountStep`: `Send`, `Delete`
  or nothing) or one of the device (`DeviceStep`: what it learns was on its way:
  `Update`).
- `FeedSpeaksTruth`: `[]FeedTrue`: shown is what was sent, hidden what the account deleted or
  the user removed while the phone slept.
- `QuietTrue`: `[]QuietMatches`, for `ActiveAccount`, `Warm` and `DeviceReturns`. The
  invariant `OnWay` says for each attentive engine (open socket, not stopped, no retry
  timer) that every item the feed has not got is still to come (`Owed`): its event is in
  the channel; or a pull is under way and the event is in the buffer, another pull is
  queued, or the page in flight or a later one brings it (`ToCome`). It needs both
  `IndInv`, which makes a new pull start before all that is owed and a page say what it
  stands for, and `FeedInv`, by which nothing is on its way that is not so. `Unshown`
  says that an item without a row is not shown, which is where `DeviceReturns` is used;
  `ActiveAccount` and `Warm` are needed by runs `sync_prune` and `sync_cold`.

**`OutboxProofs`**
- `TypeCorrect`: `Spec => []TypeOK`, with any number of overlapping instances.
  `TypeOK` says that no queue holds an id twice, which needs that a new id
  was never sent (`Known`) and `enqueue()`'s check.
- `Inductive`: `Spec => []QueueInv` for `OneAtATime`: one instance, no send while it
  loads, no share while it drains. `NothingLost` is not inductive alone: `shift()`
  takes whatever is the head, so the entry that is POSTed must still be it
  (`HeadPosted`), which needs that memory and disk agree once loaded, and that
  what `load()` is about to return is still what is stored (`QueueOnDisk`), that
  nothing flushes before (`Unborn`), and that what is about to be cleared from the
  mirror is in the queue or done (`HandedOver`).
- `NeverLost`: `[]NothingLost`.
- `PromiseKept`: `Spec => KeepsPromise`: each step is one of `DeliveryQueue` or
  none: `Send` and `Enqueue` put, a flush that starts a POST offers, `Answer` and
  `Late` arrive, `Accepted` and `Rejected` settle, `Cancel` cancels; all
  else, crashes and retries included, stutters on the stored queue.

- `ToldIsTrue`: `[]ToldTruth`. A cancelled entry must not be in the account although its
  POST may have been on the way more than once. `Told` follows the evidence: a POST
  nobody waits for is one whose answer got lost (`WireLost`); an entry with a recorded
  failure stays the head and keeps its mark on disk and in memory, so `cancel()`
  refuses it (`FailedIsHead`); one that the account has and that is queued lost its
  answer or is about to get it (`TakenAnswered`); and what was refused or cancelled
  never comes back (`RefusedLeft`, `CancelledLeft`).

`OneAtATime` is needed: runs `outbox_overlap` and `outbox_share`, and `LateLoad`.

**`PresenceProofs`** (any number of devices, sockets, requests)
- `PresenceInvariant`: `Spec => []HubInv`. `AllTold` says nothing while a broadcast is
  under way; `StaleOwed` says that whoever is owed an event is owed it by some task
  (`Owes`: its set is still to come, or it is among those of the present set, or another
  broadcast will follow). That needs the identity of sets (`SlotsOwn`), the shape of a
  broadcast (`Casting`), that an endpoint registers only what it accepted
  (`Unaccepted`), and what a revocation still closes (`Closing`). The hard steps are
  the two that replace or drop a set which a broadcast holds.
- `EveryChangeTold`, `PresenceIsTrue`, `RevokedAreClosed`: the three invariants.

**`SessionProofs`** (any number of sign-ins)
- `OneSessionHolds`, `WipeHolds`, `GateHolds`, `NoFlashHolds`, from `SessionInv`:
  `SessionTypes`; `OneEngine`, which says for each phase of a wake-up which engines may
  live; `Wiped`, whose data may be left at each stage of a wipe; `Known`, that who is shown as
  signed out has no sign-in on disk.

**The parts of `MCClients`.** Each property of the table in section 2 is a theorem of the
part's own specification, in the module of proofs of its group.

**`DesktopProofs`**
- `WindowsTrue` (`WindowTrue`), any number of items, sends, device lists and requests.
  `WindowTrue` speaks of the moment with no request under way; before it, `Shown` and
  `SendEvents` say that whatever the window lacks is announced by a request that is still
  queued, and `ItemEvents` that the queue is true of the store: an item that was deleted
  before its event was sent has its deletion queued behind it (`InOrder`, which compares
  the storage calls each request still has to make). The hard step is the answer of
  the first request, which goes on at the end of the queue.
- `FlyoutGoes` (`FlyoutYields`), any number of posted events: a flyout without the
  keyboard was refused it, or a `blur` is mailed (`YieldInv`).
- `UndoneCapturesGo` (`UndoneGoes`), any number of captures: a capture is in one place of
  its life (`OnePlace`), the server has it only if a POST reached it (`MaybeThere`), and
  what is delivered is remembered until the program ends (`Remembered`).
- `MenuIsTrue`, `NoCaptureUnwanted`, for any combinations.

**`ScreenProofs`**
- `AlertsTyped`, `NoItemTwice` (`AnnouncedOnce`). Two things make an item pass
  once: the watermark, as a handler that is not `late` stores a higher one (`OnTime`), so
  that of an item which is not `sunk` one handler passes (`PassedOnce`); and off the phone the
  feed, as an item has one handler there and is in the feed or `lost` once it has a banner
  (`HeldOnce`).
- `BadgeIsTrue` (`BadgeTrue`): `BadgeRight` says for the one update of the badge
  that may be under way what it has read and what it is about to write, with cardinalities
  of the set of new items.
- `PillCounts` (`PillTrue`): whatever was counted has arrived, and what arrived is listed
  or deleted, so nothing arrives twice (`Counted`).
- `AlertsWhoWasMarked` (`AlertsAsShown`): a device is on the lists from its login to its
  revocation (`OnceListed`), so a target that an older list had and the one shown has not is
  `Gone`, and what was sent to it unmarked is refused (`AimInv`).
- `RenameShown` (`OwnChangeShown`): an answer that no later change has overtaken is the
  row (`Honest`), and the list shows the row or is asked for.
- `SharesGoOnce` (`SharedOnce`): an id stands for the send under way and for no share to
  come; on Android a share that got its sheet stays handled while its intent does.
- `ShownItemsAreKept` (`ShownIsKept`): the pending deletes are the timers that no remount
  has made orphans.

**`ClientProofs`**
- `LimitHolds` (`WithinLimit`), any limit, window and number of requests: the limiter's
  deque is the end of the sequence of what was let through, and what came `MaxEvents`
  before anything in that sequence is a window older (`Spaced`).
- `OneAccount` (`RegistrationCloses`): a registration that was checked while nobody was
  inserting found no account, and the write lock keeps it so until the commit.
- `SavedTogether` (`SavedBelongTogether`): what the form holds at each stage is of one
  server that fits. That the loop of `semverGte` is the comparison by major, minor and
  patch number is a lemma.
- `SendNotForgotten` (`SendKept`): until two processes cross, each process's memory is the
  file with its own step done (`OwnStep`), and what was entered is in the file or answered
  (`Entered`).
- `ChoicesKept` (`PrefsTrue`): for each setting the last request of its chain that is
  queued asks for what was chosen, or nothing is queued and it is stored (`Saved`); the
  same for the autostart entry (`Started`) and the menu, which is being rebuilt by one
  chain (`MenuMade`). The lemmas `Positions` and `Rotates` carry this over each
  answer, which takes the first request off and may put its continuation at the end.
- `ClientsTyped` (`ClientsTypeOK`), for the specification of the whole run, from all
  three modules: the part that was chosen takes every step (`Turn`), and each part's
  invariant, with what its types need beyond it, is kept by its own steps (`PartInv`).
  Only that the messages heard of at one time are few is the bound of the run.

The constants are assumed to be what the code has: the ASSUMEs of the modules say that
counts and windows are natural numbers, that versions are sequences of numbers and `NaN`,
that each share has a text, that there is an address to register, and name the clients.

**Only model-checked**: liveness (`Converges`, `Drains`, `EveryoneTold`,
`RequestAnswered`), which with ENABLED is out of the prover's reach. Every safety and
action property of the runs is a theorem. What a recursive definition computes is not proved, as the
library's induction theorems take an operator; a least element of a set of numbers, which
three proofs need, comes from its theorems on well-founded relations (lemma `Least`).
Facts on sequences are proved from the definitions where they are needed.

## 8. Not modelled

- *No behaviour to check*: generated types, build and deployment files, styling, icons
  and wording, layout of screens.
- *One outcome stands for several*: validation errors of the server (422, 413, 403
  for foreign ids), the version header's 426 (every client here sends a version that
  passes), `logout` (no client calls it).
- *Libraries*: password hashing, SQLite beyond its write lock, Expo, React, Tauri and
  browser APIs beyond what the code relies on.
- *FeedStore*: the cap of 500 items outside `Alerts`, and a process that ends between
  the writes of items and tombstones (`feedStore.ts:62`).
- *Storage that fails*: other than the cursor's write and the App Group's.
- *Retention of devices*: the nightly removal of stale devices.
- *The desktop's onboarding*, which ends at its first step (5).

What would come next: a FeedStore with its two keys below `SyncEngine`.

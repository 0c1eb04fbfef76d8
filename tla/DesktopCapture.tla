---------------------------- MODULE DesktopCapture ----------------------------
(***************************************************************************)
(* The desktop's capture of the clipboard by hotkey, after the text was    *)
(* read (module Hotkeys): the outbox, the toast, and Undo, which has to    *)
(* find out whether the capture is queued, on its way, or delivered.       *)
(*                                                                         *)
(* Captures are numbered as they are made; the outbox sends in that order. *)
(* Its writes are in module Outbox: here it is stored as it changes.  The  *)
(* program starts with a sign-in in its store (see Session).               *)
(***************************************************************************)
EXTENDS Naturals, FiniteSets

CONSTANT LastCapture

ASSUME CaptureAssumption == LastCapture \in Nat

Captures == 1..LastCapture

VARIABLES
    made,        \* captures made so far
    taking,      \* captures whose result is not out yet
    queue,       \* the outbox
    tried,       \* entries with attempts > 0
    post,        \* the capture whose POST is under way, 0 for none
    landed,      \* the answered one, until its delivered event; flush() goes on
    row,         \* what the server has: "no", "item" or "deleted"
    syncing,     \* delivered ones whose toast_update is to come
    delivered,   \* deliveredIds
    cancels,     \* pendingCancelIds
    saved,       \* cc.pendingCancels
    saving,      \* a write of it is under way
    deletes,     \* DELETE requests under way
    toast,       \* the capture the toast shows, 0 for none
    said,        \* its state: "queued" or "synced"
    told,        \* captures whose result is out, since the program started
    \* history
    undone,      \* captures undone
    garbled,      \* entries the server has, the answer to whose POST broke off
    excused      \* undone, but the DELETE failed, the program ended first, or one
                 \* whose answer broke off was taken out of the outbox

captureVars == <<made, taking, queue, tried, post, landed, row, syncing, delivered, cancels,
                 saved, saving, deletes, toast, said, told, undone, garbled, excused>>
toastVars == <<toast, said, told>>
undoVars == <<delivered, cancels, saved, saving, deletes>>
historyVars == <<undone, garbled, excused>>

First(c) == c \in queue /\ \A d \in queue : c <= d

Flushing == post # 0 \/ landed # {}

\* A toast_update is for the capture it names.
ToastOf(c) == toast = c

\* A capture's result takes the place of whatever the toast shows.
ShowToast(c, state) == toast' = c /\ said' = state

\* Its Undo hides it, unless it shows another capture by then.
HideToast(c) == toast' = IF ToastOf(c) THEN 0 ELSE toast

-----------------------------------------------------------------------------
\* handleCapture: the text goes into the outbox, and when that is stored the
\* result says whether it is still there.
Capture ==
    /\ made < LastCapture
    /\ made' = made + 1
    /\ taking' = taking \cup {made'}
    /\ queue' = queue \cup {made'}
    /\ UNCHANGED <<tried, post, landed, row, syncing, undoVars, toastVars, historyVars>>

CaptureResult(c) ==
    /\ c \in taking
    /\ taking' = taking \ {c}
    /\ ShowToast(c, IF c \in queue THEN "queued" ELSE "synced")
    /\ told' = told \cup {c}
    /\ UNCHANGED <<made, queue, tried, post, landed, row, syncing, undoVars, historyVars>>

\* The outbox.
FlushNext(c) ==
    /\ ~Flushing /\ First(c)
    /\ post' = c
    /\ UNCHANGED <<made, taking, queue, tried, landed, row, syncing, undoVars, toastVars,
                   historyVars>>

Reach ==
    /\ post # 0 /\ row[post] = "no"
    /\ row' = [row EXCEPT ![post] = "item"]
    /\ UNCHANGED <<made, taking, queue, tried, post, landed, syncing, undoVars, toastVars,
                   historyVars>>

Answer ==
    /\ post # 0 /\ row[post] # "no"
    /\ queue' = queue \ {post}
    /\ landed' = {post}
    /\ post' = 0
    /\ UNCHANGED <<made, taking, tried, row, syncing, undoVars, toastVars, historyVars>>

Refuse ==
    /\ post # 0 /\ row[post] = "no"
    /\ queue' = queue \ {post}
    /\ post' = 0
    /\ UNCHANGED <<made, taking, tried, landed, row, syncing, undoVars, toastVars, historyVars>>

PostFails ==
    /\ post # 0
    /\ tried' = tried \cup {post}
    /\ post' = 0
    /\ UNCHANGED <<made, taking, queue, landed, row, syncing, undoVars, toastVars, historyVars>>

\* flush() ends and the attempt is not counted: a 401, or an answer whose body breaks
\* off, so that the server has the entry and cancel() does not know.
PostThrows ==
    /\ post # 0
    /\ post' = 0
    /\ garbled' = IF row[post] = "no" THEN garbled ELSE garbled \cup {post}
    /\ UNCHANGED <<made, taking, queue, tried, landed, row, syncing, undoVars, toastVars, undone,
                   excused>>

-----------------------------------------------------------------------------
\* Mutant: the undo that came before the delivery is forgotten.
DeliverRegardless(c) ==
    /\ c \in landed
    /\ landed' = {}
    /\ delivered' = delivered \cup {c}
    /\ syncing' = syncing \cup {c}
    /\ UNCHANGED <<made, taking, queue, tried, post, row, cancels, saved, saving, deletes,
                   toastVars, historyVars>>

\* onOutboxEvent "delivered": an undo that came first is carried out now, other
\* captures are remembered for an undo to come.
Deliver(c) ==
    /\ c \in landed
    /\ landed' = {}
    /\ IF c \in cancels
       THEN /\ cancels' = cancels \ {c}
            /\ saving' = TRUE
            /\ deletes' = deletes \cup {c}
            /\ UNCHANGED <<delivered, syncing>>
       ELSE /\ delivered' = delivered \cup {c}
            /\ syncing' = syncing \cup {c}
            /\ UNCHANGED <<cancels, saving, deletes>>
    /\ UNCHANGED <<made, taking, queue, tried, post, row, saved, toastVars, historyVars>>

\* The feed has it, and the toast is told.
Synced(c) ==
    /\ c \in syncing
    /\ syncing' = syncing \ {c}
    /\ said' = IF ToastOf(c) THEN "synced" ELSE said
    /\ UNCHANGED <<made, taking, queue, tried, post, landed, row, undoVars, toast, told, historyVars>>

\* The countdown ends, or a later capture's toast replaces it (CaptureResult).
Dismiss ==
    /\ toast # 0 /\ said = "synced"
    /\ toast' = 0
    /\ UNCHANGED <<made, taking, queue, tried, post, landed, row, syncing, undoVars, said,
                   told, historyVars>>

\* undo_capture, once per capture.  The toast offers it when it says "synced"; the
\* request takes any capture whose result is out.  An entry can be taken out of the outbox
\* while nothing is being sent, except a first one that was tried before.
CanCancel(c) == c \in queue /\ ~Flushing /\ ~(First(c) /\ c \in tried)

Undo_Capture(c) ==
    /\ c \in told \ undone
    /\ undone' = undone \cup {c}
    /\ HideToast(c)
    /\ \/ /\ c \in delivered
          /\ delivered' = delivered \ {c}
          /\ deletes' = deletes \cup {c}
          /\ UNCHANGED <<queue, cancels, saving, excused>>
       \/ /\ c \notin delivered /\ CanCancel(c)
          /\ queue' = queue \ {c}
          /\ excused' = excused \cup ({c} \cap garbled)
          /\ UNCHANGED <<delivered, deletes, cancels, saving>>
       \/ /\ c \notin delivered /\ ~CanCancel(c)
          /\ cancels' = cancels \cup {c}
          /\ saving' = TRUE
          /\ UNCHANGED <<queue, delivered, deletes, excused>>
    /\ UNCHANGED <<made, taking, tried, post, landed, row, syncing, saved, said, told,
                   garbled>>

\* deleteItem ends; its failure is swallowed.
DeleteEnds(c) ==
    /\ c \in deletes
    /\ deletes' = deletes \ {c}
    /\ \/ row' = [row EXCEPT ![c] = "deleted"] /\ UNCHANGED excused
       \/ excused' = excused \cup {c} /\ UNCHANGED row
    /\ UNCHANGED <<made, taking, queue, tried, post, landed, syncing, delivered, cancels,
                   saved, saving, toastVars, undone, garbled>>

SaveCancels ==
    /\ saving
    /\ saving' = FALSE
    /\ saved' = cancels
    /\ UNCHANGED <<made, taking, queue, tried, post, landed, row, syncing, delivered, cancels,
                   deletes, toastVars, historyVars>>

\* The program ends and starts again: what was undone meanwhile is carried out
\* if it was stored, or if the outbox still had it.
RestartDesktop ==
    /\ taking' = {} /\ post' = 0 /\ landed' = {} /\ syncing' = {}
    /\ \E left \in SUBSET landed : queue' = queue \cup left
    /\ delivered' = {} /\ deletes' = {} /\ saving' = FALSE
    /\ cancels' = saved
    /\ toast' = 0 /\ told' = {}
    /\ excused' = excused \cup deletes \cup (cancels \ saved) \cup (landed \cap undone)
    /\ UNCHANGED <<made, tried, row, saved, said, undone, garbled>>

-----------------------------------------------------------------------------
CaptureInit ==
    /\ made = 0 /\ taking = {} /\ queue = {} /\ tried = {}
    /\ post = 0 /\ landed = {}
    /\ row = [c \in Captures |-> "no"]
    /\ syncing = {} /\ delivered = {} /\ cancels = {} /\ saved = {} /\ saving = FALSE
    /\ deletes = {} /\ toast = 0 /\ said = "queued" /\ told = {}
    /\ undone = {} /\ garbled = {} /\ excused = {}

CaptureNext ==
    \/ Capture \/ Reach \/ Answer \/ Refuse \/ PostFails \/ PostThrows \/ Dismiss
    \/ SaveCancels \/ RestartDesktop
    \/ \E c \in Captures :
          \/ CaptureResult(c) \/ FlushNext(c) \/ Deliver(c) \/ Synced(c)
          \/ Undo_Capture(c) \/ DeleteEnds(c)

CaptureTypeOK ==
    /\ made \in 0..LastCapture
    /\ \A S \in {taking, queue, tried, landed, syncing, delivered, cancels, saved, deletes,
                 told, undone, garbled, excused} : S \subseteq 1..made
    /\ post \in 0..made /\ toast \in 0..made
    /\ row \in [Captures -> {"no", "item", "deleted"}]
    /\ saving \in BOOLEAN /\ said \in {"queued", "synced"}

\* An undone capture does not stay on the server, whenever in its life Undo
\* came: if the server has it, its deletion is under way or will follow its
\* delivery, across a restart too.  Excused are a DELETE that fails, a program
\* that ends before the undo is stored or in the middle of the delivery, and an
\* undo that takes an entry out of the outbox after the answer to its POST broke
\* off (OutboxUndo).
UndoneGoes ==
    \A c \in undone \ excused :
        row[c] = "item" => c \in deletes \/ (c \in cancels /\ c \in queue \cup landed)

===============================================================================

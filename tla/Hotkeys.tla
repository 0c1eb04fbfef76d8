-------------------------------- MODULE Hotkeys --------------------------------
(***************************************************************************)
(* The desktop's native side: the two global shortcuts, the pause, the     *)
(* tray with its menu, and the capture event.  Its commands, menu events   *)
(* and shortcut handlers all run on the main thread, one after the other.  *)
(*                                                                         *)
(* Whether a combination is free is up to the system: other programs take  *)
(* and release them.  The plugin registers a combination once (external).  *)
(***************************************************************************)
EXTENDS FiniteSets

CONSTANTS
    Combos,          \* the combinations that parse
    BadCombo,        \* one that does not
    CaptureDefault,  \* Ctrl+Alt+C
    FlyoutDefault    \* Ctrl+Alt+V

ASSUME CombosAssumption ==
    /\ {CaptureDefault, FlyoutDefault} \subseteq Combos
    /\ CaptureDefault # FlyoutDefault
    /\ BadCombo \notin Combos

VARIABLES
    capture_combo, flyout_combo, pause, capture_enabled, boot_conflicts,  \* HotkeyState
    grabbed,    \* combinations registered with the system
    taken,      \* those other programs hold
    tray,       \* the tooltip: "Normal", "Paused" or "Pending"
    checked,    \* the mark of the menu item
    sent,       \* the capture event under way to the background, "none" for none
    \* history
    failed      \* a registration failed since boot

hotkeyVars == <<capture_combo, flyout_combo, pause, capture_enabled, boot_conflicts, grabbed,
                taken, tray, checked, sent, failed>>

\* What a read of the clipboard yields: its text, or the reason there is none
\* (empty, marked as sensitive, not text).
ClipboardKinds == {"text", "no_text"}

\* What the system lets be registered, with some combinations held already.
Free(combo, held) == combo \in Combos \ (taken \cup held)

\* PauseState: a deadline that has passed stays until a key press finds it.
is_capture_blocked == ~capture_enabled \/ pause = "until"

\* Everything that shows the state of the tray and of the menu's item sets it here.
set_tray_state(state) == tray' = state

set_capture_check(enabled) == checked' = enabled

parse_accelerator(combo) == combo \in Combos

-----------------------------------------------------------------------------
\* setup: each default that cannot be registered is a conflict for later.
register_default_hotkeys == {CaptureDefault, FlyoutDefault} \ taken

RestartApp ==
    /\ capture_combo' = CaptureDefault /\ flyout_combo' = FlyoutDefault
    /\ pause' = "active" /\ capture_enabled' = TRUE
    /\ tray' = "Normal" /\ checked' = TRUE
    /\ grabbed' = register_default_hotkeys
    /\ boot_conflicts' = {CaptureDefault, FlyoutDefault} \ grabbed'
    /\ failed' = (boot_conflicts' # {})
    /\ sent' = "none"
    /\ UNCHANGED <<taken>>

\* get_boot_conflicts: drained, and told to the user, once the background listens.
get_boot_conflicts ==
    /\ boot_conflicts # {}
    /\ boot_conflicts' = {}
    /\ UNCHANGED <<capture_combo, flyout_combo, pause, capture_enabled, grabbed, taken, tray,
                   checked, sent, failed>>

\* Mutant: the state keeps the old combinations.
RegisterOnly(capture, flyout) ==
    LET held == grabbed \ {capture_combo, flyout_combo}
        ok == Free(capture, held) /\ Free(flyout, held \cup {capture})
    IN /\ grabbed' = held \cup (IF ok THEN {capture, flyout}
                                ELSE {capture} \cap {c \in Combos : Free(c, held)})
       /\ failed' = (failed \/ ~ok)
       /\ UNCHANGED <<capture_combo, flyout_combo, pause, capture_enabled, boot_conflicts,
                      taken, tray, checked, sent>>

\* register_hotkeys, asked for by the settings, which save the combinations if it
\* succeeds but never register what they saved.  The old ones are given up first.
\* A combination that does not parse ends it there; a failure at the second
\* leaves the first registered and unknown to the state.
register_hotkeys(capture, flyout) ==
    LET held == grabbed \ {capture_combo, flyout_combo}
        parsed == parse_accelerator(capture) /\ parse_accelerator(flyout)
        first == parsed /\ Free(capture, held)
        ok == first /\ Free(flyout, held \cup {capture})
    IN /\ grabbed' = held \cup (IF ok THEN {capture, flyout} ELSE IF first THEN {capture} ELSE {})
       /\ failed' = (failed \/ ~ok)
       /\ IF ok THEN capture_combo' = capture /\ flyout_combo' = flyout
          ELSE UNCHANGED <<capture_combo, flyout_combo>>
       /\ UNCHANGED <<pause, capture_enabled, boot_conflicts, taken, tray, checked, sent>>

\* The capture combination follows the switch; what the system says is ignored.
Switch(enabled) ==
    /\ capture_enabled' = enabled
    /\ \/ /\ enabled
          /\ grabbed' = grabbed \cup {c \in {capture_combo} : Free(c, grabbed)}
          /\ failed' = (failed \/ capture_combo \notin grabbed')
       \/ /\ ~enabled
          /\ grabbed' = grabbed \ {capture_combo}
          /\ UNCHANGED failed
    /\ set_capture_check(enabled)

\* set_capture_enabled, of the webviews, minds a pause; the menu's item does not.
set_capture_enabled(enabled) ==
    /\ Switch(enabled)
    /\ set_tray_state(IF enabled /\ pause # "until" THEN "Normal" ELSE "Paused")
    /\ UNCHANGED <<capture_combo, flyout_combo, pause, boot_conflicts, taken, sent>>

toggle_capture ==
    /\ Switch(~capture_enabled)
    /\ set_tray_state(IF capture_enabled' THEN "Normal" ELSE "Paused")
    /\ UNCHANGED <<capture_combo, flyout_combo, pause, boot_conflicts, taken, sent>>

PauseFor(zero) == pause' = IF zero THEN "active" ELSE "until"

pause_capture(zero) ==
    /\ PauseFor(zero)
    /\ set_tray_state(IF zero THEN "Normal" ELSE "Paused")
    /\ UNCHANGED <<capture_combo, flyout_combo, capture_enabled, boot_conflicts, grabbed, taken,
                   checked, sent, failed>>

\* "Pause 1 hour" of the tray's menu.
menu_pause ==
    /\ PauseFor(FALSE)
    /\ set_tray_state("Paused")
    /\ UNCHANGED <<capture_combo, flyout_combo, capture_enabled, boot_conflicts, grabbed, taken,
                   checked, sent, failed>>

Deadline ==
    /\ pause = "until"
    /\ pause' = "over"
    /\ UNCHANGED <<capture_combo, flyout_combo, capture_enabled, boot_conflicts, grabbed, taken,
                   tray, checked, sent, failed>>

\* set_tray_pending, called by the alerts.
set_tray_pending(pending) ==
    /\ set_tray_state(IF pending THEN "Pending" ELSE "Normal")
    /\ UNCHANGED <<capture_combo, flyout_combo, pause, capture_enabled, boot_conflicts, grabbed,
                   taken, checked, sent, failed>>

\* Mutant: a pause that has passed lets the key through.
PressAfterPause ==
    /\ sent = "none" /\ capture_combo \in grabbed
    /\ pause = "over" \/ ~is_capture_blocked
    /\ pause' = "active"
    /\ tray' = tray
    /\ sent' \in ClipboardKinds
    /\ UNCHANGED <<capture_combo, flyout_combo, capture_enabled, boot_conflicts, grabbed,
                   taken, checked, failed>>

\* emit_capture_event, when the combination is pressed: a pause that has passed
\* ends now.  (Whether a combination that register() took, not setup, still has a
\* handler is up to the plugin.)  Bound: one event is under way at a time.
emit_capture_event ==
    /\ sent = "none" /\ capture_combo \in grabbed
    /\ \/ /\ pause = "over"
          /\ pause' = "active"
          /\ tray' = IF capture_enabled THEN "Normal" ELSE "Paused"
          /\ IF capture_enabled THEN sent' \in ClipboardKinds ELSE UNCHANGED sent
       \/ /\ pause # "over" /\ ~is_capture_blocked
          /\ sent' \in ClipboardKinds
          /\ UNCHANGED <<pause, tray>>
    /\ UNCHANGED <<capture_combo, flyout_combo, capture_enabled, boot_conflicts, grabbed,
                   taken, checked, failed>>

\* The background takes the event (DesktopCapture).
TakeCapture ==
    /\ sent # "none"
    /\ sent' = "none"
    /\ UNCHANGED <<capture_combo, flyout_combo, pause, capture_enabled, boot_conflicts, grabbed,
                   taken, tray, checked, failed>>

\* Another program takes a combination that is free, or releases it.
OtherProgram(combo) ==
    /\ combo \notin grabbed
    /\ taken' = IF combo \in taken THEN taken \ {combo} ELSE taken \cup {combo}
    /\ UNCHANGED <<capture_combo, flyout_combo, pause, capture_enabled, boot_conflicts, grabbed,
                   tray, checked, sent, failed>>

-----------------------------------------------------------------------------
HotkeysInit ==
    /\ capture_combo = CaptureDefault /\ flyout_combo = FlyoutDefault
    /\ pause = "active" /\ capture_enabled = TRUE
    /\ taken \in SUBSET Combos
    /\ grabbed = register_default_hotkeys
    /\ boot_conflicts = {CaptureDefault, FlyoutDefault} \ grabbed
    /\ failed = (boot_conflicts # {})
    /\ tray = "Normal" /\ checked = TRUE
    /\ sent = "none"

HotkeysNext ==
    \/ \E capture, flyout \in Combos \cup {BadCombo} : register_hotkeys(capture, flyout)
    \/ \E b \in BOOLEAN : set_capture_enabled(b) \/ pause_capture(b) \/ set_tray_pending(b)
    \/ \E combo \in Combos : OtherProgram(combo)
    \/ RestartApp \/ get_boot_conflicts \/ toggle_capture \/ menu_pause \/ Deadline
    \/ emit_capture_event \/ TakeCapture

HotkeysTypeOK ==
    /\ capture_combo \in Combos /\ flyout_combo \in Combos
    /\ pause \in {"active", "until", "over"} /\ capture_enabled \in BOOLEAN
    /\ boot_conflicts \subseteq Combos
    /\ grabbed \subseteq Combos /\ taken \subseteq Combos \ grabbed
    /\ tray \in {"Normal", "Paused", "Pending"} /\ checked \in BOOLEAN
    /\ sent \in ClipboardKinds \cup {"none"} /\ failed \in BOOLEAN

\* The clipboard is read only when the user wants it: with the hotkey switched
\* off or paused no capture leaves, though a new combination is registered even
\* while the hotkey is off and a pause ends only when a key is pressed.
NoUnwantedCapture ==
    [][sent = "none" /\ sent' # "none" => capture_enabled /\ pause # "until"]_hotkeyVars

\* The menu tells the truth: its mark is the switch, and with the mark set the
\* combinations in force are registered, unless the system refused one.
MenuTrue ==
    /\ checked = capture_enabled
    /\ capture_enabled /\ ~failed => {capture_combo, flyout_combo} \subseteq grabbed
===============================================================================

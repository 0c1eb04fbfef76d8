------------------------------ MODULE NativeWindows ------------------------------
(***************************************************************************)
(* The main window and the flyout of the desktop, as its native side keeps *)
(* them: both are made hidden when the program starts, and are shown and   *)
(* hidden from then on, never closed.  The flyout lies on top of all other *)
(* windows and has no frame: it has to go when it loses the keyboard.      *)
(*                                                                         *)
(* One thread handles what the system posts, in that order (external), and *)
(* the system may refuse a window the keyboard.                            *)
(***************************************************************************)
EXTENDS Naturals, Sequences

CONSTANT MaxPosted  \* bound: events that wait when the user does something

ASSUME PostedAssumption == MaxPosted \in Nat \ {0}

Labels == {"main", "flyout"}

VARIABLES
    shown_windows,
    focus,    \* the window with the keyboard, "other" for none of these two
    mailed,   \* the events that wait
    \* history
    refused   \* the flyout was shown and did not get the keyboard

nativeVars == <<shown_windows, focus, mailed, refused>>

\* The keyboard goes to w: the flyout is told when it loses it.
Blurred(w) == IF focus = "flyout" /\ w # "flyout" THEN <<"blur">> ELSE <<>>

-----------------------------------------------------------------------------
\* The user and the system.
UserPosts(w, events) ==
    /\ Len(mailed) < MaxPosted
    /\ focus' = w
    /\ mailed' = mailed \o Blurred(w) \o events
    /\ UNCHANGED shown_windows

\* A click on another program, or on one of the two.
ClickOn(w) ==
    /\ w \in shown_windows \cup {"other"} /\ w # focus
    /\ UserPosts(w, <<>>)
    /\ refused' = (refused /\ w # "flyout")

\* A click on the tray icon and a choice in its menu take the keyboard first; the
\* shortcut, a second launch and a close button do not.
ClickTray == UserPosts("other", <<"tray">>) /\ UNCHANGED refused

PickMenu == UserPosts("other", <<"menu">>) /\ UNCHANGED refused

PressFlyoutKey == UserPosts(focus, <<"key">>) /\ UNCHANGED refused

LaunchAgain == UserPosts(focus, <<"second">>) /\ UNCHANGED refused

AskClose(w) ==
    /\ w \in shown_windows
    /\ UserPosts(focus, <<w>>)
    /\ UNCHANGED refused

-----------------------------------------------------------------------------
\* show() and set_focus().
ShowAndFocus(w) ==
    /\ shown_windows' = shown_windows \cup {w}
    /\ focus' \in {w, focus}
    /\ mailed' = Tail(mailed) \o Blurred(focus')
    /\ refused' = IF w = "flyout" THEN focus' # "flyout" ELSE refused

Hide(w) ==
    /\ shown_windows' = shown_windows \ {w}
    /\ focus' = IF focus = w THEN "other" ELSE focus
    /\ mailed' = Tail(mailed) \o Blurred(focus')
    /\ refused' = (refused /\ w # "flyout")

\* "Open CrossClipper" and "Settings" of the menu.
show_main == Head(mailed) = "menu" /\ ShowAndFocus("main")

SecondLaunch == Head(mailed) = "second" /\ ShowAndFocus("main")

\* The handler of the flyout's shortcut.
show_flyout == Head(mailed) = "key" /\ ShowAndFocus("flyout")

toggle_flyout ==
    /\ Head(mailed) = "tray"
    /\ IF "flyout" \in shown_windows THEN Hide("flyout") ELSE ShowAndFocus("flyout")

\* Mutant: the flyout stays when it loses the keyboard to the main window.
BlurToOthers == Head(mailed) = "blur" /\ (IF focus = "main" THEN Hide("none") ELSE Hide("flyout"))

\* The flyout goes, even if it has the keyboard again by now.
FlyoutBlurred == Head(mailed) = "blur" /\ Hide("flyout")

\* The close button only hides.
CloseRequested == Head(mailed) \in Labels /\ Hide(Head(mailed))

MainThread ==
    /\ mailed # <<>>
    /\ \/ show_main \/ SecondLaunch \/ show_flyout \/ toggle_flyout
       \/ FlyoutBlurred \/ CloseRequested

\* "Quit", and a start of the program: no window is shown.
StartNative ==
    /\ shown_windows' = {} /\ focus' = "other" /\ mailed' = <<>> /\ refused' = FALSE

-----------------------------------------------------------------------------
NativeInit == shown_windows = {} /\ focus = "other" /\ mailed = <<>> /\ refused = FALSE

NativeNext ==
    \/ \E w \in Labels \cup {"other"} : ClickOn(w)
    \/ \E w \in Labels : AskClose(w)
    \/ ClickTray \/ PickMenu \/ PressFlyoutKey \/ LaunchAgain
    \/ MainThread \/ StartNative

NativeSpec == NativeInit /\ [][NativeNext]_nativeVars

NativeTypeOK ==
    /\ shown_windows \subseteq Labels /\ refused \in BOOLEAN
    /\ focus \in shown_windows \cup {"other"}
    /\ mailed \in Seq({"tray", "menu", "key", "second", "blur"} \cup Labels)

\* The flyout does not stay in the user's way: once everything posted is handled
\* it is on the screen only with the keyboard, in whatever order clicks, shortcut,
\* second launches and the events of earlier shows and hides were handled; unless
\* the system refused it the keyboard when it was shown, of which it is not told.
FlyoutYields ==
    mailed = <<>> /\ "flyout" \in shown_windows => focus = "flyout" \/ refused
===============================================================================

-------------------------------- MODULE Settings --------------------------------
(***************************************************************************)
(* The settings of the three clients: what a tab shows, what is stored,    *)
(* and what follows from it outside the store: the start at login          *)
(* (desktop), the context menu (extension), the copy of the look that is   *)
(* painted before the store can be read (desktop and extension).  A tab    *)
(* shows a change at once, and a chain of awaited requests follows it.     *)
(*                                                                         *)
(* A setting is TRUE or FALSE: a duration or a colour stands for two.      *)
(* Assumed of the platforms: requests are answered in the order made.      *)
(***************************************************************************)
EXTENDS Naturals, Sequences

CONSTANTS
    SettingsClients,  \* of "desktop", "extension", "mobile"
    MaxWaiting        \* bound: requests under way

ASSUME SettingsAssumption ==
    SettingsClients \subseteq {"desktop", "extension", "mobile"} /\ MaxWaiting \in Nat \ {0}

Prefs == {"notify", "toast", "login", "menu"}
Fields == Prefs \cup {"look"}

VARIABLES
    app,      \* the client
    stored,     \* what is kept: cc.prefs and cc.appearanceStored
    applied,  \* what follows from it: the autostart entry, the menu, the mirror
    tab,      \* the settings of the tab that is open
    loaded,   \* it has read them
    shown,    \* what it shows
    waiting,  \* the requests under way, each with what comes after it
    first,    \* the desktop has not yet enabled the start at login by itself
    \* history
    chosen,   \* the last choice for each setting
    clash     \* a case that PrefsTrue excuses has happened

settingsVars == <<app, stored, applied, tab, loaded, shown, waiting, first, chosen, clash>>

DefaultPrefs == [f \in Fields |-> f \in {"toast", "login", "menu"}]

\* The tabs of the settings, each by what it shows.  The phone's look is no tab's:
\* the theme provider around the app holds it.
Tabs == CASE app = "desktop" -> {{"notify"}, {"toast", "login"}, {"look"}}
          [] app = "extension" -> {{"notify", "menu"}, {"look"}}
          [] app = "mobile" -> {{"notify"}}

\* The settings with a follower outside the store.
Followed == CASE app = "desktop" -> {"login", "look"}
              [] app = "extension" -> {"menu", "look"}
              [] app = "mobile" -> {}

\* Stored under a key of its own, as a whole: the look, and the phone's only pref.
Whole(f) == f = "look" \/ app = "mobile"

Request(do, f, v, base) == [do |-> do, field |-> f, value |-> v, base |-> base]

Ask(request) == Len(waiting) < MaxWaiting /\ waiting' = Append(waiting, request)

-----------------------------------------------------------------------------
LoadOf(f) == Request("load", f, FALSE, DefaultPrefs)

\* The tab is mounted and asks for its settings.  The phone draws the defaults
\* until they are read, the other two draw nothing.
Mount_Tab(t) ==
    /\ tab = {}
    /\ tab' = t
    /\ Ask(LoadOf(CHOOSE f \in t : TRUE))
    /\ clash' = (clash \/ waiting # <<>>)
    /\ UNCHANGED <<app, stored, applied, loaded, shown, first, chosen>>

\* savePrefs(patch) reads before it writes; saveAppearance(a) and the phone's
\* savePrefs(prefs) write what they are given.
Save(f, v) == Ask(Request(IF Whole(f) THEN "write" ELSE "read", f, v, DefaultPrefs))

\* A save that another one of the same key overlaps, or the menu made twice at once.
Overlap(f) ==
    \E n \in DOMAIN waiting :
       \/ waiting[n].do \in {"read", "write"} /\ waiting[n].field # f /\ ~Whole(f)
       \/ waiting[n].do \in {"load", "menus", "removeAll", "create"}
       \/ f = "menu" /\ waiting[n].field \in {"notify", "menu"}

Change_Setting(f, v) ==
    /\ shown' = [shown EXCEPT ![f] = v]
    /\ chosen' = [chosen EXCEPT ![f] = v]
    /\ Save(f, v)
    /\ clash' = (clash \/ Overlap(f))
    /\ UNCHANGED <<app, stored, applied, tab, loaded, first>>

\* A switch of the desktop or of the extension, not drawn before the prefs are read;
\* the phone's one switch is.
Toggle_Pref(f) ==
    /\ f \in (tab \ {"look"}) /\ loaded /\ app # "mobile"
    /\ Change_Setting(f, ~shown[f])

Toggle_Notify ==
    /\ app = "mobile" /\ "notify" \in tab
    /\ Change_Setting("notify", ~shown["notify"])

\* A theme, a swatch or a colour of one's own: each tap saves, the same one too.
Pick_Look(v) ==
    /\ app = "mobile" \/ ("look" \in tab /\ loaded)
    /\ Change_Setting("look", v)

\* The last step of onboarding saves a look whatever is stored.
Finish_Appearance(v) ==
    /\ tab = {}
    /\ shown' = IF app = "mobile" THEN [shown EXCEPT !["look"] = v] ELSE shown
    /\ chosen' = [chosen EXCEPT !["look"] = v]
    /\ Save("look", v)
    /\ clash' = (clash \/ Overlap("look"))
    /\ UNCHANGED <<app, stored, applied, tab, loaded, first>>

Blank_Tab ==
    /\ tab' = {} /\ loaded' = FALSE
    /\ shown' = [DefaultPrefs EXCEPT !["look"] = shown["look"] /\ app = "mobile"]

\* Another tab or page takes its place; requests go on.
Unmount_Tab ==
    /\ tab # {} /\ loaded
    /\ Blank_Tab
    /\ UNCHANGED <<app, stored, applied, waiting, first, chosen, clash>>

\* The popup closes and its page ends: requests made are served, but nothing
\* of the page comes after them.
Popup_Gone ==
    /\ app = "extension" /\ tab # {}
    /\ Blank_Tab
    /\ waiting' = [n \in DOMAIN waiting |->
                      IF waiting[n].do \in {"read", "write"}
                      THEN [waiting[n] EXCEPT !.do = IF @ = "read" THEN "nothing" ELSE "written"]
                      ELSE waiting[n]]
    /\ clash' = (clash \/ waiting' # waiting)
    /\ UNCHANGED <<app, stored, applied, first, chosen>>

-----------------------------------------------------------------------------
\* Mutant: the patch is merged with the defaults.
PatchDefaults(f, v) == [DefaultPrefs EXCEPT ![f] = v]

Patch(f, v) == [stored EXCEPT ![f] = v]

\* A write stores the record of its key: the prefs as they were read, or the look.
Written(request) ==
    IF Whole(request.field) THEN [stored EXCEPT ![request.field] = request.value]
    ELSE [request.base EXCEPT !["look"] = stored["look"]]

\* What comes after a write: localStorage and the page; the autostart plugin; in
\* the extension's worker, storage.onChanged.
AfterWrite(request) ==
    /\ IF request.field = "look" /\ request.do = "write" /\ app # "mobile"
       THEN applied' = [applied EXCEPT !["look"] = request.value]
       ELSE UNCHANGED applied
    /\ waiting' = Tail(waiting) \o
          (CASE app = "desktop" /\ request.field = "login" /\ request.do = "write"
                   -> <<[request EXCEPT !.do = "autostart"]>>
             [] app = "extension" /\ request.field # "look" -> <<[request EXCEPT !.do = "menus"]>>
             [] OTHER -> <<>>)

Load_Answered(request) ==
    /\ request.do = "load"
    /\ IF app = "mobile" THEN shown' = [shown EXCEPT ![request.field] = stored[request.field]]
       ELSE shown' = IF tab = {} THEN shown ELSE stored
    /\ loaded' = (loaded \/ request.field \in tab)
    /\ waiting' = Tail(waiting)
    /\ UNCHANGED <<stored, applied, clash>>

Read_Answered(request) ==
    /\ request.do = "read"
    /\ waiting' = Append(Tail(waiting),
                         [request EXCEPT !.do = "write", !.base = Patch(request.field, request.value)])
    /\ UNCHANGED <<stored, applied, shown, loaded, clash>>

Write_Answered(request) ==
    /\ request.do \in {"write", "written"}
    /\ stored' = Written(request)
    /\ AfterWrite(request)
    /\ UNCHANGED <<shown, loaded, clash>>

\* enable() or disable() fails and the page goes on.
Autostart_Answered(request) ==
    /\ request.do = "autostart"
    /\ \/ applied' = [applied EXCEPT !["login"] = request.value] /\ UNCHANGED clash
       \/ UNCHANGED applied /\ clash' = TRUE
    /\ waiting' = Tail(waiting)
    /\ UNCHANGED <<stored, shown, loaded>>

\* syncContextMenus(): the prefs are read, all entries removed, then made.
Menus_Answered(request) ==
    /\ \/ /\ request.do = "menus"
          /\ waiting' = Append(Tail(waiting),
                               [request EXCEPT !.do = "removeAll", !.value = stored["menu"]])
          /\ UNCHANGED applied
       \/ /\ request.do = "removeAll"
          /\ applied' = [applied EXCEPT !["menu"] = FALSE]
          /\ waiting' = Tail(waiting) \o
                           (IF request.value THEN <<[request EXCEPT !.do = "create"]>> ELSE <<>>)
       \/ /\ request.do = "create"
          /\ applied' = [applied EXCEPT !["menu"] = TRUE]
          /\ waiting' = Tail(waiting)
    /\ UNCHANGED <<stored, shown, loaded, clash>>

Nothing_Answered(request) ==
    /\ request.do = "nothing"
    /\ waiting' = Tail(waiting)
    /\ UNCHANGED <<stored, applied, shown, loaded, clash>>

Settings_Answer ==
    /\ waiting # <<>>
    /\ LET request == Head(waiting) IN
          \/ Load_Answered(request) \/ Read_Answered(request) \/ Write_Answered(request)
          \/ Autostart_Answered(request) \/ Menus_Answered(request) \/ Nothing_Answered(request)
    /\ UNCHANGED <<app, tab, first, chosen>>

\* The desktop's first start with a signed-in user enables the start at login,
\* whatever the settings say by then.
First_Autostart ==
    /\ first /\ waiting = <<>>
    /\ first' = FALSE
    /\ applied' = [applied EXCEPT !["login"] = TRUE]
    /\ clash' = (clash \/ ~stored["login"])
    /\ UNCHANGED <<app, stored, tab, loaded, shown, waiting, chosen>>

\* A start of the program, with what an earlier one stored: one of two cases.
SettingsInit ==
    /\ app \in SettingsClients
    /\ stored \in {DefaultPrefs, [f \in Fields |-> ~DefaultPrefs[f]]}
    /\ first = (app = "desktop")
    /\ applied = stored /\ chosen = stored
    /\ tab = {} /\ loaded = FALSE /\ shown = DefaultPrefs /\ clash = FALSE
    /\ waiting = IF app = "mobile" THEN <<LoadOf("look")>> ELSE <<>>

SettingsNext ==
    \/ \E t \in Tabs : Mount_Tab(t)
    \/ \E f \in Prefs : Toggle_Pref(f)
    \/ \E v \in BOOLEAN : Pick_Look(v) \/ Finish_Appearance(v)
    \/ Toggle_Notify \/ Unmount_Tab \/ Popup_Gone \/ Settings_Answer \/ First_Autostart

SettingsSpec == SettingsInit /\ [][SettingsNext]_settingsVars

SettingsTypeOK ==
    /\ app \in SettingsClients /\ tab \subseteq Fields /\ Len(waiting) <= MaxWaiting + 1
    /\ {stored, applied, shown, chosen} \subseteq [Fields -> BOOLEAN]
    /\ loaded \in BOOLEAN /\ first \in BOOLEAN /\ clash \in BOOLEAN

\* When nothing is under way, every setting is what was last chosen for it, as
\* stored, as shown by the tab that is open, and as it has taken effect: a chain
\* of requests ends in the choice it began with, however fast the same switch is
\* turned again, and leaves the other settings alone.  Excused is what the code
\* does lose: two saves of the prefs that overlap, a choice made before the tab
\* has read, a tab that reads during a save, the popup closed in the middle of
\* one, an autostart request that fails, and the first start of the desktop.
PrefsTrue ==
    waiting = <<>> /\ ~clash =>
        /\ stored = chosen
        /\ \A f \in tab : loaded => shown[f] = stored[f]
        /\ app = "mobile" => shown["look"] = stored["look"]
        /\ \A f \in Followed : applied[f] = stored[f]
===============================================================================

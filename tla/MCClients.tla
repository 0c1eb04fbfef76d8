------------------------------- MODULE MCClients -------------------------------
(* One run for the parts of the clients and the server that share no state:   *)
(* an initial state chooses one of them, which then runs alone; the others    *)
(* stay in one initial state.                                                 *)
EXTENDS Alerts, FeedScreen, DesktopCapture, Hotkeys, Accounts, Windows, Onboarding, ShareFlow,
        Settings, CommandLine, DeviceScreens, Composing, FeedList, NativeWindows

CONSTANTS here, away, aged, text1, text2

VARIABLE part

\* Whose the two items may be.
ItemAims == {<<"all", "elsewhere">>, <<"own", "here">>, <<"all", "all">>}

\* Three shares, the last with the text of the first.
SharedTexts == <<text1, text2, text1>>

\* Three servers, and the oldest version the clients take: one server as old as
\* that, one newer, one that is older and calls itself a prerelease.
Minimum == <<1, 2>>
Versions == [s \in {here, away, aged} |->
               CASE s = here -> <<1, 2, 0>> [] s = away -> <<2, 0, 0>> [] s = aged -> <<1, 2, NaN>>]

Parts == {"alerts", "feed_screen", "capture", "hotkeys", "accounts", "windows", "onboarding",
          "share", "settings", "command_line", "device_screens", "composing", "feed_list",
          "native"}

\* The parts with many initial states have one each while another part runs.  Whether
\* the user wants to hear of items to all is left open for one of the three choices.
InitAlerts ==
    /\ AlertsInit
    /\ aim # <<"all", "elsewhere">> => wants
    /\ part # "alerts" => client = "mobile" /\ aim = <<"all", "all">>

InitHotkeys == HotkeysInit /\ (part # "hotkeys" => taken = {})

\* Two sends and nothing else; one send, beside the items of others and a device
\* list; a send of an earlier run that waits for the worker or the webview to start.
Late == entries = {} /\ drawn = {CHOOSE i \in Own : TRUE}

Waits == entries = drawn /\ drawn = {CHOOSE i \in Own : TRUE}

InitWindows ==
    /\ WindowsInit
    /\ IF part = "windows"
       THEN \/ shell = "extension" /\ tombstones = Theirs /\ listSaved = LastVersion /\ drawn = {}
            \/ shell = "desktop" /\ uploaded = {} /\ listSaved = LastVersion /\ Late
            \/ shell = "desktop" /\ tombstones = Theirs /\ listNow = 0 /\ Late
            \/ shell = "extension" /\ tombstones = Theirs /\ listSaved = LastVersion /\ Waits
       ELSE shell = "desktop" /\ uploaded = {} /\ listNow = 0 /\ drawn = {}

InitOnboarding == OnboardingInit /\ (part # "onboarding" => phone)

InitShare == ShareInit /\ (part # "share" => os = "android" /\ signedIn)

InitSettings == SettingsInit /\ (part # "settings" => app = "mobile" /\ stored = DefaultPrefs)

\* Which of the two accounts is logged in first does not matter.
InitCommandLine == CommandLineInit /\ config = CHOOSE a \in Logins : TRUE

\* The name the device has first does not matter, and its socket may be lost at once.
InitDeviceScreens ==
    /\ DeviceScreensInit
    /\ listening /\ device = CHOOSE n \in DeviceNames : TRUE
    /\ part # "device_screens" => onDevice = "mobile" /\ listKept = device

\* One of the two devices is there, and on the list, from the start.
InitComposing ==
    /\ ComposingInit /\ shownList = 1 /\ Cardinality(active) = 1
    /\ \A d \in active : d = CHOOSE e \in Others : TRUE
    /\ part # "composing" => composer = "mobile"

InitFeedList == FeedListInit /\ (part # "feed_list" => surface = "popup")

Init ==
    /\ part \in Parts
    /\ InitAlerts /\ FeedScreenInit /\ CaptureInit /\ InitHotkeys /\ AccountsInit
    /\ InitWindows /\ InitOnboarding /\ InitShare /\ InitSettings
    /\ InitCommandLine /\ InitDeviceScreens /\ InitComposing /\ InitFeedList
    /\ NativeInit

allVars == <<part, alertVars, feedScreenVars, captureVars, hotkeyVars, accountVars, windowVars,
             onboardingVars, shareVars, settingsVars, cliVars, deviceScreenVars, composeVars,
             feedListVars, nativeVars>>

OthersStay ==
    /\ UNCHANGED part
    /\ IF part = "alerts" THEN TRUE ELSE UNCHANGED alertVars
    /\ IF part = "feed_screen" THEN TRUE ELSE UNCHANGED feedScreenVars
    /\ IF part = "capture" THEN TRUE ELSE UNCHANGED captureVars
    /\ IF part = "hotkeys" THEN TRUE ELSE UNCHANGED hotkeyVars
    /\ IF part = "accounts" THEN TRUE ELSE UNCHANGED accountVars
    /\ IF part = "windows" THEN TRUE ELSE UNCHANGED windowVars
    /\ IF part = "onboarding" THEN TRUE ELSE UNCHANGED onboardingVars
    /\ IF part = "share" THEN TRUE ELSE UNCHANGED shareVars
    /\ IF part = "settings" THEN TRUE ELSE UNCHANGED settingsVars
    /\ IF part = "command_line" THEN TRUE ELSE UNCHANGED cliVars
    /\ IF part = "device_screens" THEN TRUE ELSE UNCHANGED deviceScreenVars
    /\ IF part = "composing" THEN TRUE ELSE UNCHANGED composeVars
    /\ IF part = "feed_list" THEN TRUE ELSE UNCHANGED feedListVars
    /\ IF part = "native" THEN TRUE ELSE UNCHANGED nativeVars

\* Bound: device_changed messages on their way at one time.
MaxHeard == 1

\* Bounds: the lists of devices that the server has, one after another, and the items
\* that are sent, three and one or two and two; one item from the phone, which has no
\* retry.
MaxListsAndNotes == 4
FewNotes ==
    /\ Len(lists') + (nextNote' - 1) <= MaxListsAndNotes
    /\ composer = "mobile" => nextNote' <= 2

\* The settings are followed up to a case that PrefsTrue excuses, and the requests
\* under way to their end: what comes after such a case stays excused.
Next ==
    \/ part = "alerts" /\ AlertsNext /\ OthersStay
    \/ part = "feed_screen" /\ FeedScreenNext /\ OthersStay
    \/ part = "capture" /\ CaptureNext /\ OthersStay
    \/ part = "hotkeys" /\ HotkeysNext /\ OthersStay
    \/ part = "accounts" /\ AccountsNext /\ OthersStay
    \/ part = "windows" /\ WindowsNext /\ OthersStay
    \/ part = "onboarding" /\ OnboardingNext /\ OthersStay
    \/ part = "share" /\ ShareNext /\ OthersStay
    \/ part = "settings" /\ (IF clash THEN Settings_Answer ELSE SettingsNext) /\ OthersStay
    \/ part = "command_line" /\ CommandLineNext /\ OthersStay
    \/ part = "device_screens" /\ DeviceScreensNext /\ heard' <= MaxHeard /\ OthersStay
    \/ part = "composing" /\ ComposingNext /\ FewNotes /\ OthersStay
    \/ part = "feed_list" /\ FeedListNext /\ OthersStay
    \/ part = "native" /\ NativeNext /\ OthersStay

Spec == Init /\ [][Next]_allVars

\* What each part's variables hold, checked while it runs: every part has its turn.
ClientsTypeOK ==
    /\ part = "alerts" => AlertsTypeOK
    /\ part = "feed_screen" => FeedScreenTypeOK
    /\ part = "capture" => CaptureTypeOK
    /\ part = "hotkeys" => HotkeysTypeOK
    /\ part = "accounts" => AccountsTypeOK
    /\ part = "windows" => WindowsTypeOK
    /\ part = "onboarding" => OnboardingTypeOK
    /\ part = "share" => ShareTypeOK
    /\ part = "settings" => SettingsTypeOK
    /\ part = "command_line" => CommandLineTypeOK
    /\ part = "device_screens" => DeviceScreensTypeOK
    /\ part = "composing" => ComposingTypeOK
    /\ part = "feed_list" => FeedListTypeOK
    /\ part = "native" => NativeTypeOK
===============================================================================

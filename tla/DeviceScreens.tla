----------------------------- MODULE DeviceScreens -----------------------------
(***************************************************************************)
(* Renaming and revoking a device from another one's device list: the row  *)
(* of the server, the list that the client shows and the one it keeps      *)
(* (cc.devices), the calls that are under way, whose answers may come in   *)
(* any order, and the device_changed messages, which a client receives     *)
(* while its socket is open and answers by asking for the list.  The phone *)
(* has a screen for a device and puts the answer of a rename into its list *)
(* at once; the popup and the window have a tab and ask for the list.      *)
(***************************************************************************)
EXTENDS Naturals, FiniteSets

CONSTANTS
    DeviceClients, \* among "mobile", "extension", "desktop"
    DeviceNames,   \* the names the device may have
    Unlisted,      \* not among the devices: revoked, or not on a list of earlier
    MaxEdits,      \* bound: renames and revocations, of the user's own
    MaxUnderWay    \* bound: calls under way at a time

ASSUME DeviceScreensAssumption ==
    /\ DeviceClients \subseteq {"mobile", "extension", "desktop"}
    /\ Unlisted \notin DeviceNames /\ {"list", "refused"} \cap (DeviceNames \cup {Unlisted}) = {}
    /\ MaxEdits \in Nat /\ MaxUnderWay \in Nat

VARIABLES
    onDevice,  \* the client
    device,    \* the row: the device's name, Unlisted once it is revoked
    listening, \* the client's socket is open
    heard,     \* device_changed messages on their way
    listShown, \* what the list on the screen says of the device
    listKept,  \* what cc.devices says
    edits,     \* renames and revocations that were begun
    calls,     \* the calls under way
    detail,      \* mobile: the device's screen is open
    asking,    \* "Confirm revoke" is offered
    renaming,  \* tabs: the input is there
    busy,      \* mobile: of the screen that is open
    \* history
    ownLast,   \* the last change of the row is the user's own, and was answered
    lastCall,  \* the call that made it, 0 when another client did
    outdated   \* what is shown comes from an answer older than the row, or from
               \* the list that is kept

deviceScreenVars == <<onDevice, device, listening, heard, listShown, listKept, edits, calls, detail,
                asking, renaming, busy, ownLast, lastCall, outdated>>
rowVars == <<device, heard, lastCall>>
screenVars == <<detail, asking, renaming, busy>>
listVars == <<listShown, listKept, outdated>>

Mobile == onDevice = "mobile"

\* A call.  want: a name, Unlisted to revoke, "list"; got: what the row was when it
\* was served, "refused" for a 404; late: the row has changed since; of: the
\* screen on the phone that asked is open.
Call(id, want, stage, screen) ==
    [id |-> id, want |-> want, stage |-> stage, got |-> "refused", late |-> FALSE, of |-> screen]

Asked(id, want, screen) == calls' = calls \cup {Call(id, want, "asked", screen)}

\* The calls for the list have numbers of their own.
FreeList == CHOOSE n \in (MaxEdits + 1)..(MaxEdits + MaxUnderWay) : \A c \in calls : c.id # n

Room == Cardinality(calls) < MaxUnderWay

-----------------------------------------------------------------------------
\* The screens.

Open_Device ==
    /\ Mobile /\ ~detail /\ listShown # Unlisted
    /\ detail' = TRUE /\ asking' = FALSE /\ busy' = FALSE
    /\ UNCHANGED <<onDevice, rowVars, listening, listVars, edits, calls, renaming, ownLast>>

\* The screen is unmounted; what it waits for goes on without it.
Back ==
    /\ detail
    /\ detail' = FALSE /\ asking' = FALSE /\ busy' = FALSE
    /\ calls' = {[c EXCEPT !.of = FALSE] : c \in calls}
    /\ UNCHANGED <<onDevice, rowVars, listening, listVars, edits, renaming, ownLast>>

\* A device that is not on the list has a screen with nothing on it, and no row.
Offered_Device == listShown # Unlisted /\ (Mobile => detail)

NewEdit(want) ==
    /\ edits < MaxEdits /\ Room
    /\ edits' = edits + 1
    /\ Asked(edits + 1, want, detail)
    /\ UNCHANGED <<onDevice, rowVars, listening, listVars, ownLast>>

\* Return submits the name though a call is under way, the button does not.
Submit_Name(n) ==
    /\ Mobile /\ Offered_Device
    /\ NewEdit(n)
    /\ busy' = TRUE
    /\ UNCHANGED <<detail, asking, renaming>>

Begin_Rename ==
    /\ ~Mobile /\ Offered_Device /\ ~renaming
    /\ renaming' = TRUE
    /\ UNCHANGED <<onDevice, rowVars, listening, listVars, edits, calls, detail, asking, busy, ownLast>>

Enter_Name(n) ==
    /\ ~Mobile /\ Offered_Device /\ renaming
    /\ NewEdit(n)
    /\ renaming' = FALSE
    /\ UNCHANGED <<detail, asking, busy>>

\* The first press only asks; the question of a tab stays.
Ask_Revoke ==
    /\ Offered_Device /\ ~asking /\ ~busy
    /\ asking' = TRUE
    /\ UNCHANGED <<onDevice, rowVars, listening, listVars, edits, calls, detail, renaming, busy, ownLast>>

Cancel_Revoke ==
    /\ Mobile /\ Offered_Device /\ asking
    /\ asking' = FALSE
    /\ UNCHANGED <<onDevice, rowVars, listening, listVars, edits, calls, detail, renaming, busy, ownLast>>

Confirm_Revoke ==
    /\ Offered_Device /\ asking /\ ~busy
    /\ NewEdit(Unlisted)
    /\ busy' = Mobile
    /\ UNCHANGED <<detail, asking, renaming>>

-----------------------------------------------------------------------------
\* The server.

\* A change of the row, by call id (0: another client's): everyone is told.
Change(value, id) ==
    /\ device' = value
    /\ heard' = IF listening THEN heard + 1 ELSE heard
    /\ lastCall' = id
    /\ ownLast' = FALSE

Served(c, value) ==
    {[d EXCEPT !.late = @ \/ d.stage # "asked"] : d \in calls \ {c}}
        \cup {[c EXCEPT !.stage = "served", !.got = value]}

Serve_Edit(c) ==
    /\ c.stage = "asked" /\ c.want # "list" /\ device # Unlisted
    /\ Change(c.want, c.id)
    /\ calls' = Served(c, c.want)
    /\ UNCHANGED <<onDevice, listening, listVars, edits, screenVars>>

Serve_404(c) ==
    /\ c.stage = "asked" /\ c.want # "list" /\ device = Unlisted
    /\ calls' = (calls \ {c}) \cup {[c EXCEPT !.stage = "served"]}
    /\ UNCHANGED <<onDevice, rowVars, listening, listVars, edits, screenVars, ownLast>>

Serve_List(c) ==
    /\ c.stage = "asked" /\ c.want = "list"
    /\ calls' = (calls \ {c}) \cup {[c EXCEPT !.stage = "served", !.got = device]}
    /\ UNCHANGED <<onDevice, rowVars, listening, listVars, edits, screenVars, ownLast>>

\* Another client renames the device, or revokes it (bound: after a change of the
\* user's own, and once).
Elsewhere(value) ==
    /\ device # Unlisted /\ lastCall # 0 /\ value # device
    /\ Change(value, 0)
    /\ calls' = {[d EXCEPT !.late = @ \/ d.stage # "asked"] : d \in calls}
    /\ UNCHANGED <<onDevice, listening, listVars, edits, screenVars>>

-----------------------------------------------------------------------------
\* The answers.

\* What a finished call does to the screen that waits for it.
ScreenAfter(c, leaves) ==
    /\ busy' = (busy /\ ~c.of)
    /\ detail' = (detail /\ ~(leaves /\ c.of))
    /\ asking' = (asking /\ (c.want \in DeviceNames \/ ~c.of))
    /\ UNCHANGED renaming

Answered_Own(c) == ownLast' = (ownLast \/ lastCall = c.id)

\* The phone puts the device that was answered into its list, if it is there.
Renamed_Mobile(c) ==
    /\ Mobile /\ c.stage = "served" /\ c.want \in DeviceNames /\ c.got # "refused"
    /\ LET found == listShown # Unlisted IN
          /\ listShown' = IF found THEN c.got ELSE Unlisted
          /\ listKept' = listShown'
          /\ outdated' = IF found THEN c.late ELSE outdated
    /\ calls' = calls \ {c}
    /\ Answered_Own(c)
    /\ ScreenAfter(c, FALSE)
    /\ UNCHANGED <<onDevice, rowVars, listening, edits>>

\* Mutant: it is left to the message.
RevokedUnasked(c) ==
    /\ c.stage = "served" /\ c.want = Unlisted /\ c.got # "refused"
    /\ calls' = calls \ {c}
    /\ Answered_Own(c)
    /\ UNCHANGED <<onDevice, rowVars, listening, listVars, edits, screenVars>>

\* The others, and a revocation: the list is fetched, for the screen that waits.
Revoked(c) ==
    /\ c.stage = "served" /\ c.want = Unlisted /\ c.got # "refused"
    /\ calls' = (calls \ {c}) \cup {Call(FreeList, "list", "asked", c.of)}
    /\ Answered_Own(c)
    /\ UNCHANGED <<onDevice, rowVars, listening, listVars, edits, screenVars>>

Renamed_Tab(c) ==
    /\ ~Mobile /\ c.stage = "served" /\ c.want \in DeviceNames /\ c.got # "refused"
    /\ calls' = (calls \ {c}) \cup {Call(FreeList, "list", "asked", FALSE)}
    /\ Answered_Own(c)
    /\ UNCHANGED <<onDevice, rowVars, listening, listVars, edits, screenVars>>

\* A 404, or an answer that is lost: an alert on the phone, nothing elsewhere.
Edit_Fails(c) ==
    /\ c.want # "list" /\ (c.got = "refused" \/ c.stage = "served")
    /\ calls' = calls \ {c}
    /\ ScreenAfter(c, FALSE)
    /\ UNCHANGED <<onDevice, rowVars, listening, listVars, edits, ownLast>>

\* A device_changed message.
Hear_News ==
    /\ heard > 0 /\ Room
    /\ heard' = heard - 1
    /\ Asked(FreeList, "list", FALSE)
    /\ UNCHANGED <<onDevice, device, lastCall, listening, listVars, edits, screenVars, ownLast>>

\* fetchDevices: the list is kept, and then returned.
List_Kept(c) ==
    /\ c.want = "list" /\ c.stage = "served"
    /\ listKept' = c.got
    /\ calls' = (calls \ {c}) \cup {[c EXCEPT !.stage = "kept"]}
    /\ UNCHANGED <<onDevice, rowVars, listening, listShown, outdated, edits, screenVars, ownLast>>

List_Shown(c) ==
    /\ c.want = "list" /\ c.stage = "kept"
    /\ listShown' = c.got
    /\ outdated' = c.late
    /\ calls' = calls \ {c}
    /\ ScreenAfter(c, TRUE)
    /\ UNCHANGED <<onDevice, rowVars, listening, listKept, edits, ownLast>>

\* No answer: the list that is kept.
List_Fails(c) ==
    /\ c.want = "list" /\ c.stage \in {"asked", "served"}
    /\ listShown' = listKept
    /\ outdated' = TRUE
    /\ calls' = calls \ {c}
    /\ ScreenAfter(c, TRUE)
    /\ UNCHANGED <<onDevice, rowVars, listening, listKept, edits, ownLast>>

\* The socket is lost, with what was on its way, and opens again; the list is not
\* fetched then.
Socket_Device ==
    /\ listening' = ~listening /\ heard' = 0
    /\ UNCHANGED <<onDevice, device, lastCall, listVars, edits, calls, screenVars, ownLast>>

-----------------------------------------------------------------------------
DeviceScreensInit ==
    /\ onDevice \in DeviceClients
    /\ device \in DeviceNames /\ listKept \in {device, Unlisted} /\ listShown = listKept
    /\ listening \in BOOLEAN /\ heard = 0 /\ edits = 0 /\ calls = {}
    /\ detail = FALSE /\ asking = FALSE /\ renaming = FALSE /\ busy = FALSE
    /\ ownLast = FALSE /\ lastCall = 0 /\ outdated = TRUE

DeviceScreensNext ==
    \/ Open_Device \/ Back \/ Begin_Rename \/ Ask_Revoke \/ Cancel_Revoke \/ Confirm_Revoke
    \/ \E n \in DeviceNames : Submit_Name(n) \/ Enter_Name(n)
    \/ \E v \in DeviceNames \cup {Unlisted} : Elsewhere(v)
    \/ Hear_News \/ Socket_Device
    \/ \E c \in calls :
          \/ Serve_Edit(c) \/ Serve_404(c) \/ Serve_List(c)
          \/ Renamed_Mobile(c) \/ Revoked(c) \/ Renamed_Tab(c) \/ Edit_Fails(c)
          \/ List_Kept(c) \/ List_Shown(c) \/ List_Fails(c)

DeviceScreensSpec == DeviceScreensInit /\ [][DeviceScreensNext]_deviceScreenVars

DeviceScreensTypeOK ==
    /\ {device, listShown, listKept} \subseteq DeviceNames \cup {Unlisted}
    /\ heard \in 0..(2 * MaxEdits + 1) /\ edits \in 0..MaxEdits
    /\ \A c \in calls : /\ c.want \in DeviceNames \cup {Unlisted, "list"}
                        /\ c.got \in DeviceNames \cup {Unlisted, "refused"}
                        /\ c.stage \in {"asked", "served", "kept"}

\* Once the user's own rename or revocation was answered, the list shows it as
\* soon as nothing is under way, whatever was pressed twice and in whatever order
\* answers and messages came, and though no message may come.  Excused is a list
\* that was shown from an answer overtaken by a later change, or from the kept one.
OwnChangeShown ==
    calls = {} /\ heard = 0 /\ ownLast /\ ~outdated => listShown = device
===============================================================================

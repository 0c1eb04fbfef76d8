------------------------------ MODULE DeviceFeed ------------------------------
(***************************************************************************)
(* What a device's feed promises, without cursors, sockets or caches: the  *)
(* account's items are sent and deleted, and the device comes to know of   *)
(* each of them, in any order and several at a time.  It shows only what   *)
(* was sent, hides only what was deleted or what its own user dismissed,   *)
(* and a hidden item stays hidden.                                         *)
(***************************************************************************)
CONSTANT Items

VARIABLES
    status,     \* the account: "none", "live" or "deleted"
    view,       \* the device: "unknown", "shown" or "gone"
    dismissed   \* what its user made it hide, whatever the account says

vars == <<status, view, dismissed>>

Init ==
    /\ status \in [Items -> {"none", "live"}]
    /\ view \in [Items -> {"unknown", "shown"}]
    /\ \A x \in Items : view[x] = "shown" => status[x] = "live"
    /\ dismissed = {}

Send(x) ==
    /\ status[x] = "none"
    /\ status' = [status EXCEPT ![x] = "live"]
    /\ UNCHANGED <<view, dismissed>>

Delete(x) ==
    /\ status[x] = "live"
    /\ status' = [status EXCEPT ![x] = "deleted"]
    /\ UNCHANGED <<view, dismissed>>

Show(x) == view[x] = "unknown" /\ view'[x] = "shown" /\ status[x] # "none"
Hide(x) == view[x] # "gone" /\ view'[x] = "gone" /\ status[x] = "deleted"

Update ==
    /\ view' \in [Items -> {"unknown", "shown", "gone"}]
    /\ \A x \in Items : Show(x) \/ Hide(x) \/ view'[x] = view[x]
    /\ UNCHANGED <<status, dismissed>>

Dismiss(x) ==
    /\ view[x] = "shown"
    /\ view' = [view EXCEPT ![x] = "gone"]
    /\ dismissed' = dismissed \cup {x}
    /\ UNCHANGED status

Next == (\E x \in Items : Send(x) \/ Delete(x) \/ Dismiss(x)) \/ Update

Spec == Init /\ [][Next]_vars
===============================================================================

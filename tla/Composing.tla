------------------------------- MODULE Composing -------------------------------
(***************************************************************************)
(* Composing an item: the chips with the devices that one of them may be   *)
(* alerted, and what becomes of an item that was sent.  The chip that is   *)
(* selected and the list of chips are kept apart: a chip that is no longer *)
(* on the list stays selected, without a mark.  The lists that a client    *)
(* asks for are not numbered: an older one may take the place of a newer   *)
(* one.  The text is left out: any may have been typed or pasted.          *)
(***************************************************************************)
EXTENDS Naturals, Sequences, Functions

CONSTANTS
    Composers, \* among "mobile", "popup"
    Others,    \* the other devices of the account, those that log in later included
    Silent,    \* the chip that alerts nobody
    NoChip,    \* no chip is marked
    MaxNotes   \* bound: items that are sent, retries among them

ASSUME ComposingAssumption ==
    /\ Composers \subseteq {"mobile", "popup"} /\ MaxNotes \in Nat
    /\ Silent \notin Others /\ NoChip \notin Others \cup {Silent}

VARIABLES
    composer, \* the client
    lists,    \* the sets of devices that the server has had, the last one now
    shownList, \* which of them the client shows; 0: none
    target,   \* the chip that is selected
    signed,   \* the client has an Outbox (not asleep, not signed out)
    nextNote, \* the id of the next entry
    outgoing, \* Outbox.entries: their ids
    leftover, \* the entries of an Outbox that was stopped while it posted the first
    aimOf,    \* the target of each entry
    itemIds,  \* the ids of the items on the server
    refusedNotes, \* the entries of `failed`
    \* history
    markedAt, \* what was marked when an entry was sent
    unmet,    \* entries sent, on no list up to the one shown was their target
    settled   \* entries retried, forgotten with the process, or wiped

composeVars == <<composer, lists, shownList, target, signed, nextNote, outgoing, leftover, aimOf,
                 itemIds, refusedNotes, markedAt, unmet, settled>>
deviceListVars == <<lists, shownList>>
sentVars == <<nextNote, outgoing, leftover, aimOf, itemIds, refusedNotes, markedAt, unmet, settled>>

Chosen == Others \cup {Silent}

-----------------------------------------------------------------------------
\* The devices that are not revoked, and those of the list that is shown.
active == lists[Len(lists)]
chips == IF shownList = 0 THEN {} ELSE lists[shownList]

\* Every list up to the one shown lacks d.
Unmet(d) == d \in Others /\ \A k \in 1..shownList : d \notin lists[k]

\* The chips: Silent, and one for each device on the list.  The marked one.
Marked == IF target \in chips \cup {Silent} THEN target ELSE NoChip

Pick(d) ==
    /\ d \in chips \cup {Silent} /\ d # target
    /\ target' = d
    /\ UNCHANGED <<composer, deviceListVars, signed, sentVars>>

-----------------------------------------------------------------------------
\* Outbox.send, by the controller: refused, and so forgotten, without an Outbox.
Enqueue_Note(aim, sight, missed) ==
    IF signed
    THEN /\ nextNote <= MaxNotes
         /\ nextNote' = nextNote + 1
         /\ outgoing' = Append(outgoing, nextNote)
         /\ aimOf' = [aimOf EXCEPT ![nextNote] = aim]
         /\ markedAt' = [markedAt EXCEPT ![nextNote] = sight]
         /\ unmet' = IF missed THEN unmet \cup {nextNote} ELSE unmet
         /\ UNCHANGED <<leftover, itemIds>>
    ELSE UNCHANGED <<nextNote, outgoing, leftover, aimOf, itemIds, markedAt, unmet>>

\* The send button and the return key: the text is handed over, and the target goes
\* back to Silent.
Press_Send ==
    /\ Enqueue_Note(target, Marked, Unmet(target))
    /\ target' = Silent
    /\ UNCHANGED <<composer, deviceListVars, signed, refusedNotes, settled>>

\* The button on a device's screen.
Test_Notification(d) ==
    /\ composer = "mobile" /\ d \in chips
    /\ Enqueue_Note(d, d, FALSE)
    /\ UNCHANGED <<composer, deviceListVars, target, signed, refusedNotes, settled>>

\* "Not sent -- tap to retry": the same text with the same target, under a new id.
\* The phone has no such card.
Retry_Card(n) ==
    /\ composer = "popup" /\ n \in refusedNotes /\ signed
    /\ refusedNotes' = refusedNotes \ {n}
    /\ settled' = settled \cup {n}
    /\ Enqueue_Note(aimOf[n], markedAt[n], n \in unmet)
    /\ UNCHANGED <<composer, deviceListVars, target, signed>>

-----------------------------------------------------------------------------
\* The server: the target is looked at before the id is, so a device that was
\* revoked meanwhile makes it refuse an item it has.
\* Mutant: a device that was revoked will do.
AcceptsAnyone(n) == TRUE

Accepts(n) == aimOf[n] = Silent \/ aimOf[n] \in active

\* The first entry is posted: it is accepted; it is accepted and nobody hears of
\* it; it is refused, for its target or for what it says.
Post_Heard ==
    /\ signed /\ outgoing # <<>> /\ Accepts(Head(outgoing))
    /\ itemIds' = itemIds \cup {Head(outgoing)}
    /\ outgoing' = Tail(outgoing)
    /\ UNCHANGED <<composer, deviceListVars, target, signed, nextNote, leftover, aimOf,
                   refusedNotes, markedAt, unmet, settled>>

Post_Unheard ==
    /\ signed /\ outgoing # <<>> /\ Accepts(Head(outgoing)) /\ Head(outgoing) \notin itemIds
    /\ itemIds' = itemIds \cup {Head(outgoing)}
    /\ UNCHANGED <<composer, deviceListVars, target, signed, nextNote, outgoing, leftover,
                   aimOf, refusedNotes, markedAt, unmet, settled>>

\* A refused entry leaves the queue for `failed`, which is in memory only.
Post_Refused ==
    /\ signed /\ outgoing # <<>>
    /\ refusedNotes' = refusedNotes \cup {Head(outgoing)}
    /\ outgoing' = Tail(outgoing)
    /\ UNCHANGED <<composer, deviceListVars, target, signed, nextNote, leftover, aimOf, itemIds,
                   markedAt, unmet, settled>>

\* The POST that an Outbox had under way when it was stopped: it is accepted, or
\* refused, and what is left of that Outbox's queue is stored; or it fails, with or
\* without the server having the item, and the queue is stored as it was (an
\* attempt is counted) or not at all (the session is over, the answer breaks off).
Late_Answer ==
    /\ leftover # <<>> /\ leftover' = <<>>
    /\ \/ UNCHANGED itemIds
       \/ Accepts(Head(leftover)) /\ itemIds' = itemIds \cup {Head(leftover)}
    /\ \/ Head(leftover) \in itemIds' /\ outgoing' = Tail(leftover) /\ UNCHANGED refusedNotes
       \/ /\ itemIds' = itemIds
          /\ outgoing' = Tail(leftover) /\ refusedNotes' = refusedNotes \cup {Head(leftover)}
       \/ outgoing' \in {outgoing, leftover} /\ UNCHANGED refusedNotes
    /\ UNCHANGED <<composer, deviceListVars, target, signed, nextNote, aimOf, markedAt, unmet,
                   settled>>

-----------------------------------------------------------------------------
\* A device logs in, or is revoked, and never comes back.
Join_Other(d) ==
    /\ d \in Others /\ \A k \in 1..Len(lists) : d \notin lists[k]
    /\ lists' = Append(lists, active \cup {d})
    /\ UNCHANGED <<composer, shownList, target, signed, sentVars>>

Revoke_Other(d) ==
    /\ d \in active
    /\ lists' = Append(lists, active \ {d})
    /\ UNCHANGED <<composer, shownList, target, signed, sentVars>>

\* A list is shown: the answer to any request so far, for the requests are not
\* sequenced; what is stored, when a request fails; nothing, when nothing is.
Chips_Arrive(k) ==
    /\ k # shownList
    /\ shownList' = k
    /\ UNCHANGED <<composer, lists, target, signed, sentVars>>

\* Outbox.stop: a POST under way is not ended.
Stop_Outbox == leftover' = leftover \/ (signed /\ leftover' = outgoing)

\* The phone goes to the background: `failed` stays.
Sleep_Composer ==
    /\ composer = "mobile" /\ signed
    /\ Stop_Outbox /\ signed' = FALSE
    /\ UNCHANGED <<composer, deviceListVars, target, nextNote, outgoing, aimOf, itemIds,
                   refusedNotes, markedAt, unmet, settled>>

\* An Outbox is loaded.  Bound: not before the last one has its answer; what a
\* late answer does to the queue of an Outbox loaded since is module Outbox's.
Wake_Composer ==
    /\ ~signed /\ leftover = <<>>
    /\ signed' = TRUE
    /\ UNCHANGED <<composer, deviceListVars, target, sentVars>>

\* The popup is closed, or shows its settings: what was being written is gone.
Leave_Composer ==
    /\ composer = "popup"
    /\ target' = Silent
    /\ UNCHANGED <<composer, deviceListVars, signed, sentVars>>

\* sign_out, from the popup's settings: `failed`, the queue and the list are wiped.
Sign_Out ==
    /\ composer = "popup" /\ signed
    /\ Stop_Outbox /\ signed' = FALSE
    /\ refusedNotes' = {} /\ outgoing' = <<>> /\ shownList' = 0
    /\ settled' = settled \cup refusedNotes \cup Range(outgoing)
    /\ target' = Silent
    /\ UNCHANGED <<composer, lists, nextNote, aimOf, itemIds, markedAt, unmet>>

\* The process ends: what was refused is forgotten, the queue is not.
Kill_Composer ==
    /\ refusedNotes' = {} /\ settled' = settled \cup refusedNotes /\ leftover' = <<>>
    /\ target' = Silent /\ signed' = FALSE
    /\ UNCHANGED <<composer, deviceListVars, nextNote, outgoing, aimOf, itemIds, markedAt, unmet>>

-----------------------------------------------------------------------------
ComposingInit ==
    /\ composer \in Composers
    /\ \E l \in SUBSET Others : lists = <<l>>
    /\ shownList \in {0, 1}
    /\ target = Silent /\ signed = FALSE
    /\ nextNote = 1 /\ outgoing = <<>> /\ leftover = <<>>
    /\ aimOf = [n \in 1..MaxNotes |-> Silent] /\ markedAt = [n \in 1..MaxNotes |-> Silent]
    /\ itemIds = {} /\ refusedNotes = {} /\ unmet = {} /\ settled = {}

ComposingNext ==
    \/ \E d \in Chosen : Pick(d)
    \/ Press_Send
    \/ \E d \in Others : Test_Notification(d) \/ Join_Other(d) \/ Revoke_Other(d)
    \/ \E n \in refusedNotes : Retry_Card(n)
    \/ Post_Heard \/ Post_Unheard \/ Post_Refused \/ Late_Answer
    \/ \E k \in 0..Len(lists) : Chips_Arrive(k)
    \/ Sleep_Composer \/ Wake_Composer \/ Leave_Composer \/ Sign_Out \/ Kill_Composer

ComposingSpec == ComposingInit /\ [][ComposingNext]_composeVars

ComposingTypeOK ==
    /\ lists \in Seq(SUBSET Others) /\ Len(lists) >= 1 /\ shownList \in 0..Len(lists)
    /\ target \in Chosen
    /\ nextNote \in 1..(MaxNotes + 1)
    /\ Range(outgoing) \cup Range(leftover) \cup itemIds \cup refusedNotes \cup unmet \cup settled
          \subseteq 1..(nextNote - 1)
    /\ aimOf \in [1..MaxNotes -> Chosen] /\ markedAt \in [1..MaxNotes -> Chosen \cup {NoChip}]

\* An item alerts the device whose chip was marked when it was sent, though the
\* list of devices changes, and an older one may be shown again, while the item is
\* written, while it waits and before it is retried.  Only where the list that was
\* shown was older than the target's login, or none was shown, was no chip marked at
\* all.  What was sent
\* waits, is an item, or is among what was refused, until it is retried, the process
\* ends or the user signs out.
AlertsAsShown ==
    /\ \A n \in itemIds :
          aimOf[n] = markedAt[n] \/ (n \in unmet /\ markedAt[n] = NoChip)
    /\ \A n \in 1..(nextNote - 1) :
          n \in Range(outgoing) \cup itemIds \cup refusedNotes \cup settled
===============================================================================

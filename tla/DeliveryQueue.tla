---------------------------- MODULE DeliveryQueue ----------------------------
(***************************************************************************)
(* What an outbox promises its user: entries wait in one durable queue,    *)
(* are offered to the server from its head only, and leave it only with an *)
(* outcome: the account has the entry, the server refused it, or the user  *)
(* cancelled it.  Nothing here knows of instances, retries or crashes.     *)
(***************************************************************************)
EXTENDS Naturals, Sequences, Functions

CONSTANTS
    Entries,    \* the ids that may ever be sent
    Mirrored    \* ids another process of the device offers first and hands over

VARIABLES
    pending,    \* the durable queue
    sent,       \* ids that were ever put into it
    posted,     \* ids that were ever offered to the server
    account,    \* ids the server has taken
    refused,    \* ids given up because the server refused them
    cancelled   \* ids the user took back

vars == <<pending, sent, posted, account, refused, cancelled>>

Init ==
    /\ pending = <<>>
    /\ sent = {}
    /\ posted = {}
    /\ account = {}
    /\ refused = {}
    /\ cancelled = {}

\* An entry is put into the queue once; a handed-over one possibly again after
\* it left, when the hand-over is repeated.
Put(x) ==
    /\ x \notin Range(pending)
    /\ x \in sent => x \in Mirrored
    /\ pending' = Append(pending, x)
    /\ sent' = sent \cup {x}
    /\ UNCHANGED <<posted, account, refused, cancelled>>

\* Only the head is offered to the server.
Offer ==
    /\ pending # <<>>
    /\ posted' = posted \cup {Head(pending)}
    /\ UNCHANGED <<pending, sent, account, refused, cancelled>>

\* The other process offers a new entry itself.
OfferElsewhere(x) ==
    /\ x \in Mirrored
    /\ posted' = posted \cup {x}
    /\ UNCHANGED <<pending, sent, account, refused, cancelled>>

\* The server takes an entry that was offered to it, perhaps much later.
Arrive(x) ==
    /\ x \in posted
    /\ account' = account \cup {x}
    /\ UNCHANGED <<pending, sent, posted, refused, cancelled>>

\* The head leaves: the account has it, or the server refused it.
Settle ==
    /\ pending # <<>>
    /\ pending' = Tail(pending)
    /\ \/ Head(pending) \in account /\ UNCHANGED refused
       \/ Head(pending) \in posted /\ refused' = refused \cup {Head(pending)}
    /\ UNCHANGED <<sent, posted, account, cancelled>>

\* The user takes one entry back; the others keep their order.
Cancel(i) ==
    /\ pending' = SubSeq(pending, 1, i - 1) \o SubSeq(pending, i + 1, Len(pending))
    /\ cancelled' = cancelled \cup {pending[i]}
    /\ UNCHANGED <<sent, posted, account, refused>>

Next ==
    \/ \E x \in Entries : Put(x) \/ OfferElsewhere(x) \/ Arrive(x)
    \/ Offer
    \/ Settle
    \/ \E i \in DOMAIN pending : Cancel(i)

Spec == Init /\ [][Next]_vars
==============================================================================

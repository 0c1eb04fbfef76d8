------------------------------ MODULE ItemStore ------------------------------
(***************************************************************************)
(* One user's rows of the server's item table and the operations of        *)
(* ItemRepo (server/src/crossclipper/items/repo.py) on them.  A row keeps  *)
(* what synchronisation depends on: whether the item is live or a          *)
(* tombstone, and the modification sequence number sync_seq.  Bodies,      *)
(* kinds, targets and timestamps do not influence it and are left out.     *)
(*                                                                         *)
(* The handlers are coroutines that run without awaiting between reading   *)
(* the session and committing it, so each operation is one step.           *)
(***************************************************************************)
EXTENDS Integers, FiniteSets

CONSTANTS
    Items,          \* the ids (client-generated ULIDs) that may ever be used
    PageLimit,      \* rows per page of GET /items (the engine asks for 100)
    SeqCap,         \* bound: no change is made once sync_seq reached it
    ActiveAccount   \* TRUE: assume the account's newest change is always
                    \* younger than the tombstone retention window

ASSUME ItemsAssumption     == Items # {}
ASSUME PageLimitAssumption == PageLimit \in Nat \ {0}
ASSUME SeqCapAssumption    == SeqCap \in Nat
ASSUME ActiveAssumption    == ActiveAccount \in BOOLEAN

VARIABLE rows   \* [Items -> Row]

Row == [st : {"none", "live", "tomb"}, seq : Nat]

\* The table holds no row for this id.
NoRow == [st |-> "none", seq |-> 0]

-----------------------------------------------------------------------------

\* Mutant of IsNextSeq: the rows are counted.
IsRowCount(s) == s = Cardinality({y \in Items : rows[y].st # "none"}) + 1

\* max(sync_seq) + 1 over the rows that exist now, 1 for an empty table.
IsNextSeq(s) ==
    /\ s \in {rows[y].seq + 1 : y \in Items}
    /\ \A y \in Items : rows[y].seq < s

\* ItemRepo.create for an id without a row.
Insert(x) ==
    /\ rows[x].st = "none"
    /\ \E s \in {rows[y].seq + 1 : y \in Items} :
          /\ IsNextSeq(s)
          /\ s <= SeqCap
          /\ rows' = [rows EXCEPT ![x] = [st |-> "live", seq |-> s]]

\* Mutant of SoftDelete: the tombstone keeps the sequence number of the item.
SoftDeleteInPlace(x) ==
    \/ /\ rows[x].st = "live"
       /\ rows' = [rows EXCEPT ![x].st = "tomb"]
    \/ /\ rows[x].st = "tomb"
       /\ UNCHANGED rows

\* ItemRepo.soft_delete: a live row becomes a tombstone with a new sequence
\* number; a tombstone is left as it is.
SoftDelete(x) ==
    \/ /\ rows[x].st = "live"
       /\ \E s \in {rows[y].seq + 1 : y \in Items} :
             /\ IsNextSeq(s)
             /\ s <= SeqCap
             /\ rows' = [rows EXCEPT ![x] = [st |-> "tomb", seq |-> s]]
    \/ /\ rows[x].st = "tomb"
       /\ UNCHANGED rows

\* The tombstones deleted at or before the change numbered s.
Expired(s) == {x \in Items : rows[x].st = "tomb" /\ rows[x].seq <= s}

\* ItemRepo.prune_tombstones with a cutoff between the change numbered s and
\* the next one: tombstones are re-sequenced when they are deleted, so those
\* older than the cutoff are those numbered up to s.
PruneUpTo(s) ==
    /\ Expired(s) # {}
    /\ ActiveAccount => \E y \in Items : rows[y].seq > s
    /\ rows' = [x \in Items |-> IF x \in Expired(s) THEN NoRow ELSE rows[x]]

-----------------------------------------------------------------------------
\* ItemRepo.list_page.  A cursor of 0 stands for "no cursor": sequence numbers
\* start at 1, and only a pull without a cursor leaves the tombstones out.

Listed(cursor) ==
    {x \in Items : /\ rows[x].st # "none"
                   /\ rows[x].seq > cursor
                   /\ cursor = 0 => rows[x].st = "live"}

\* n is the sequence number of the last row of the page after cursor: the page
\* is full, or it holds every row that is left.
IsPageEnd(cursor, n) ==
    LET upTo == {x \in Listed(cursor) : rows[x].seq <= n} IN
    /\ \E x \in Listed(cursor) : rows[x].seq = n
    /\ \/ Cardinality(upTo) = PageLimit
       \/ Cardinality(upTo) < PageLimit /\ upTo = Listed(cursor)

\* What the page says of each item.
Page(cursor, n) ==
    [x \in Items |-> IF x \in Listed(cursor) /\ rows[x].seq <= n
                     THEN rows[x].st ELSE "none"]

EmptyPage == [x \in Items |-> "none"]
=============================================================================

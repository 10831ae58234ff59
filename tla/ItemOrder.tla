----------------------------- MODULE ItemOrder -----------------------------
(***************************************************************************)
(* The order of a scale's items: editor pages, each with a list of its own *)
(* and several requests under way, over the position column.               *)
(*                                                                         *)
(* Reordering is the only transaction of the store.  SQLite lets one       *)
(* transaction write at a time; others read what was committed.            *)
(***************************************************************************)
EXTENDS Naturals, Sequences, FiniteSets

CONSTANTS
    Item,           \* ids, compared as ids are; each is generated once,
                    \* bound: there are no more
    Editor,
    Imported,       \* positions a CSV file may give
    MaxPosition,    \* bound: no larger position is written
    MaxCalls,       \* bound: requests a page has under way
    NULL

ASSUME OrderAssumption ==
    /\ Item \subseteq Nat /\ IsFiniteSet(Item) /\ NULL \notin Nat
    /\ MaxPosition \in Nat /\ MaxCalls \in Nat
    /\ Imported \subseteq 1..MaxPosition

VARIABLES
    rowid,          \* of each item; 0 when it has no row
    position,       \* column position
    tx,             \* the transaction of a reorder, or NULL
    page,           \* the items each editor sees
    calls,          \* each editor's requests
    used,           \* ids generated
    saved           \* pairs of rows the last reorder put in this order,
                    \* neither of them edited since

table == <<rowid, position>>
vars == <<table, tx, page, calls, used, saved>>

rows == {i \in Item : rowid[i] > 0}

(* ORDER BY position, id *)
Before(at, i, j) == at[i] < at[j] \/ (at[i] = at[j] /\ i < j)

Listing ==
    [n \in 1..Cardinality(rows) |->
        CHOOSE i \in rows :
            Cardinality({j \in rows : Before(position, j, i)}) = n - 1]

(* The items a list shows, and what is left of it without one of them.      *)
Shown(list) == {list[k] : k \in DOMAIN list}

Without(list, i) ==
    LET kept == {k \in DOMAIN list : list[k] # i}
    IN  [n \in 1..Cardinality(kept) |->
            list[CHOOSE k \in kept : Cardinality({l \in kept : l < k}) = n - 1]]

Op == {"save", "remove", "add", "import", "list", "reorder"}

Call == [op : Op, item : Item \cup {NULL}, seen : Seq(Item),
         pos : 0..MaxPosition, done : BOOLEAN]

NewCall == [op |-> "list", item |-> NULL, seen |-> <<>>, pos |-> 0, done |-> FALSE]

Init ==
    /\ rowid = [i \in Item |-> 0] /\ position = [i \in Item |-> 0]
    /\ tx = NULL
    /\ page = [e \in Editor |-> <<>>] /\ calls = [e \in Editor |-> {}]
    /\ used = {} /\ saved = {}

Send(e, c) ==
    /\ Cardinality(calls[e]) < MaxCalls
    /\ calls' = [calls EXCEPT ![e] = @ \cup {c}]

Becomes(e, c, new) == calls' = [calls EXCEPT ![e] = (@ \ {c}) \cup {new}]

(* Of an answered request the page keeps what its callback reads. *)
Answered(e, c) ==
    Becomes(e, c, [NewCall EXCEPT !.op = c.op, !.item = c.item, !.done = TRUE,
                                  !.seen = IF c.op = "save" THEN c.seen ELSE <<>>])
Dropped(e, c) == calls' = [calls EXCEPT ![e] = @ \ {c}]

-----------------------------------------------------------------------------
(* What an editor does on the page *)

Load(e) ==
    /\ Send(e, NewCall)
    /\ UNCHANGED <<table, tx, page, used, saved>>

(* saveItem and its callback keep the list the page shows at the click.     *)
SaveItem(e) ==
    /\ \E i \in Shown(page[e]) :
          Send(e, [NewCall EXCEPT !.op = "save", !.item = i, !.seen = page[e]])
    /\ UNCHANGED <<table, tx, page, used, saved>>

RemoveItem(e) ==
    /\ \E i \in Shown(page[e]) :
          Send(e, [NewCall EXCEPT !.op = "remove", !.item = i])
    /\ UNCHANGED <<table, tx, page, used, saved>>

(* A form sends no position, a row of a CSV file may. *)
AddItem(e) ==
    /\ \E i \in Item \ used :
        /\ used' = used \cup {i}
        /\ \/ Send(e, [NewCall EXCEPT !.op = "add", !.item = i])
           \/ \E p \in {0} \cup Imported :
                 Send(e, [NewCall EXCEPT !.op = "import", !.item = i, !.pos = p])
    /\ UNCHANGED <<table, tx, page, saved>>

MoveItem(e) ==
    /\ \E k \in 1..(Len(page[e]) - 1) :
          page' = [page EXCEPT ![e] = [@ EXCEPT ![k] = page[e][k + 1],
                                                ![k + 1] = page[e][k]]]
    /\ UNCHANGED <<table, tx, calls, used, saved>>

SaveOrder(e) ==
    /\ page[e] # <<>>
    /\ Send(e, [NewCall EXCEPT !.op = "reorder", !.seen = page[e]])
    /\ UNCHANGED <<table, tx, page, used, saved>>

-----------------------------------------------------------------------------
(* The server *)

(* A query that fails is answered with an empty list. *)
ListItems(e, c) ==
    /\ c.op = "list" /\ ~c.done
    /\ \E list \in {Listing, <<>>} :
          Becomes(e, c, [c EXCEPT !.seen = list, !.done = TRUE])
    /\ UNCHANGED <<table, tx, page, used, saved>>

(* The order of an item that is edited is no longer the saved one.          *)
Edited(i) == saved' = {pair \in saved : i \notin {pair[1], pair[2]}}

(* The page sends no order: the item gets position 0. *)
UpdateItem(e, c) ==
    /\ c.op = "save" /\ ~c.done /\ tx = NULL
    /\ position' = IF c.item \in rows THEN [position EXCEPT ![c.item] = 0]
                   ELSE position
    /\ Edited(c.item)
    /\ Answered(e, c)
    /\ UNCHANGED <<rowid, tx, page, used>>

(* Mutant of DeleteItem: it does not wait for a reorder to commit. *)
DeleteAtOnce(e, c) ==
    /\ c.op = "remove" /\ ~c.done
    /\ rowid' = [rowid EXCEPT ![c.item] = 0]
    /\ position' = [position EXCEPT ![c.item] = 0]
    /\ Edited(c.item)
    /\ Answered(e, c)
    /\ UNCHANGED <<tx, page, used>>

DeleteItem(e, c) ==
    /\ c.op = "remove" /\ ~c.done /\ tx = NULL
    /\ rowid' = [rowid EXCEPT ![c.item] = 0]
    /\ position' = [position EXCEPT ![c.item] = 0]
    /\ Edited(c.item)
    /\ Answered(e, c)
    /\ UNCHANGED <<tx, page, used>>

(* The one number in it is MAX(column) + 1, of a scale without items 1.     *)
Following(column) ==
    {n \in {1} \cup {column[i] + 1 : i \in rows} : \A i \in rows : column[i] < n}

(* A query that fails gives position 1. *)
NextItemPosition(e, c) ==
    /\ c.op \in {"add", "import"} /\ c.pos = 0 /\ ~c.done
    /\ \E p \in {1} \cup Following(position) :
        p <= MaxPosition /\ Becomes(e, c, [c EXCEPT !.pos = p])
    /\ UNCHANGED <<table, tx, page, used, saved>>

InsertItem(e, c) ==
    /\ c.op \in {"add", "import"} /\ c.pos > 0 /\ ~c.done /\ tx = NULL
    /\ \E n \in Following(rowid) : rowid' = [rowid EXCEPT ![c.item] = n]
    /\ position' = [position EXCEPT ![c.item] = c.pos]
    /\ Answered(e, c)
    /\ UNCHANGED <<tx, page, used, saved>>

(* The reorder whose transaction is open. *)
Begun(e, c) == tx # NULL /\ c.op = "reorder" /\ tx.editor = e /\ tx.list = c.seen

(* A write that finds the lock taken, or fails.  An INSERT that failed is   *)
(* answered like one that did not.                                          *)
Failed(e, c) ==
    /\ ~c.done
    /\ \/ c.op \in {"save", "remove", "reorder"} /\ ~Begun(e, c) /\ Dropped(e, c)
       \/ c.op \in {"add", "import"} /\ c.pos > 0 /\ Answered(e, c)
    /\ UNCHANGED <<table, tx, page, used, saved>>

-----------------------------------------------------------------------------
(* ReorderItems *)

Listed == Shown(tx.list)

(* The listed ids, each the first time it is met, get 1, 2, ...             *)
FirstMet(list, i) == CHOOSE k \in DOMAIN list :
    list[k] = i /\ \A l \in 1..(k - 1) : list[l] # i

(* Mutant of Place: an id that is met again is counted again. *)
PlaceAgain(list, i) == CHOOSE k \in DOMAIN list :
    list[k] = i /\ \A l \in (k + 1)..Len(list) : list[l] # i

Place(list, i) == Cardinality(Shown(SubSeq(list, 1, FirstMet(list, i))))

(* The row with the least position of some, and among those rowid.          *)
Foremost(at, some) ==
    IF some = {} THEN NULL
    ELSE CHOOSE i \in some : \A j \in some \ {i} :
            at[i] < at[j] \/ (at[i] = at[j] /\ rowid[i] < rowid[j])

Cursor(at, first) == IF first = NULL THEN 0 ELSE at[first]

BeginReorder(e, c) ==
    /\ c.op = "reorder" /\ ~c.done /\ tx = NULL
    /\ Cardinality(Shown(c.seen)) <= MaxPosition
    /\ LET list == c.seen
           at == [i \in Item |-> IF i \in rows \cap Shown(list)
                                 THEN Place(list, i) ELSE position[i]]
           first == Foremost(at, rows)
       IN  tx' = [editor |-> e, list |-> list, at |-> at, first |-> first,
                  key |-> Cursor(at, first), next |-> 1 + Cardinality(Shown(list))]
    /\ UNCHANGED <<table, page, calls, used, saved>>

(* The SELECT reads along the index of scale and position and sorts rows of *)
(* equal position by id, once it has read ahead to the next position; the   *)
(* UPDATEs move rows in that index, behind or ahead of it.                  *)
ScanGroup ==
    /\ tx # NULL /\ tx.first # NULL
    /\ LET group == {i \in rows : /\ i = tx.first \/ tx.at[i] = tx.key
                                  /\ rowid[i] >= rowid[tx.first]}
           rest == group \ Listed
           first == Foremost(tx.at, {i \in rows : tx.at[i] > tx.key})
       IN  /\ tx.next + Cardinality(rest) <= MaxPosition + 1
           /\ tx' = [tx EXCEPT
                !.at = [i \in Item |->
                          IF i \in rest
                          THEN tx.next + Cardinality({j \in rest : j < i})
                          ELSE tx.at[i]],
                !.first = first,
                !.key = Cursor(tx.at, first),
                !.next = @ + Cardinality(rest)]
    /\ UNCHANGED <<table, page, calls, used, saved>>

(* The transaction is over; the page does nothing with the answer.          *)
EndReorder ==
    /\ tx # NULL /\ tx' = NULL
    /\ \E c \in calls[tx.editor] :
          Begun(tx.editor, c) /\ ~c.done /\ Dropped(tx.editor, c)
    /\ UNCHANGED <<rowid, page, used>>

Commit ==
    /\ EndReorder /\ tx.first = NULL
    /\ position' = tx.at
    /\ saved' = {pair \in (rows \cap Listed) \X (rows \cap Listed) :
                    FirstMet(tx.list, pair[1]) < FirstMet(tx.list, pair[2])}

(* A statement fails on the way, or the COMMIT does: that is logged after   *)
(* the method has returned true.                                            *)
Rollback ==
    /\ EndReorder
    /\ UNCHANGED <<position, saved>>

-----------------------------------------------------------------------------
(* Answers, which may get lost *)

Show(e, c, list) ==
    /\ page' = [page EXCEPT ![e] = list]
    /\ Dropped(e, c)

Reply(e, c) ==
    /\ c.done
    /\ \/ c.op \in {"save", "list"} /\ Show(e, c, c.seen)
       \/ c.op = "remove" /\ Show(e, c, Without(page[e], c.item))
       \/ c.op = "add" /\ Show(e, c, Append(page[e], c.item))
       \/ c.op = "import" /\ Becomes(e, c, NewCall) /\ UNCHANGED page
    /\ UNCHANGED <<table, tx, used, saved>>

Lost(e, c) ==
    /\ c.done /\ Dropped(e, c)
    /\ UNCHANGED <<table, tx, page, used, saved>>

-----------------------------------------------------------------------------
Click(e) ==
    \/ Load(e) \/ SaveItem(e) \/ RemoveItem(e) \/ AddItem(e)
    \/ MoveItem(e) \/ SaveOrder(e)

Handle(e, c) ==
    \/ ListItems(e, c) \/ UpdateItem(e, c) \/ DeleteItem(e, c)
    \/ NextItemPosition(e, c) \/ InsertItem(e, c) \/ Failed(e, c)
    \/ BeginReorder(e, c) \/ Reply(e, c) \/ Lost(e, c)

Next ==
    \/ \E e \in Editor : Click(e) \/ \E c \in calls[e] : Handle(e, c)
    \/ ScanGroup \/ Commit \/ Rollback

Spec == Init /\ [][Next]_vars
-----------------------------------------------------------------------------
TxOK == tx \in [editor : Editor, list : Seq(Item), at : [Item -> 0..MaxPosition],
                first : rows \cup {NULL}, key : 0..MaxPosition,
                next : 1..(MaxPosition + 1)]

(* Rows have positions and rowids of their own, and the cursor of a reorder *)
(* is on a row that is still there.                                         *)
TypeOK ==
    /\ rowid \in [Item -> Nat] /\ position \in [Item -> 0..MaxPosition]
    /\ \A i, j \in rows : rowid[i] = rowid[j] => i = j
    /\ page \in [Editor -> Seq(Item)] /\ calls \in [Editor -> SUBSET Call]
    /\ rows \subseteq used /\ used \subseteq Item /\ saved \subseteq rows \X rows
    /\ tx # NULL => TxOK

(* The items of a saved order stay in that order, whatever is added,        *)
(* imported, removed, or edited meanwhile, but for the edited item itself.  *)
(* Pages may list an item twice, or one that is gone.                       *)
OrderKept == \A pair \in saved : Before(position, pair[1], pair[2])
=============================================================================

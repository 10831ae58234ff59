---------------------------- MODULE MCItemOrder ----------------------------
(* ItemOrder on small sets; the editors are interchangeable. *)
EXTENDS ItemOrder, TLC

Symmetry == Permutations(Editor)

(* Bound: once every id is generated, a second request is under way only    *)
(* beside one that adds an item.                                            *)
Beside ==
    used = Item => \A e \in Editor :
        \/ Cardinality(calls[e]) <= 1
        \/ \E c \in calls[e] : c.op \in {"add", "import"} /\ ~c.done

(* Bound: what a page lists.                                                *)
Short == \A e \in Editor : Len(page[e]) <= Cardinality(Item)
=============================================================================

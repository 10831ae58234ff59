-------------------------- MODULE ItemOrderProofs --------------------------
(* The order saved last outlives the other edits of the editors, for any    *)
(* number of items, editors and requests.                                   *)
EXTENDS ItemOrder, FiniteSetTheorems, TLAPS

USE OrderAssumption

-----------------------------------------------------------------------------
(* Why they hold: an inductive invariant.                                   *)

Pending(c) == c.op \in {"add", "import"} /\ ~c.done

(* A request about an item names it; an item that is being added has no row *)
(* and no other request adds it.                                            *)
Fresh ==
    \A e \in Editor : \A c \in calls[e] :
        /\ c.op \in {"save", "remove", "add", "import"} => c.item \in Item
        /\ Pending(c) =>
              /\ c.item \in used \ rows
              /\ \A f \in Editor : \A d \in calls[f] :
                    Pending(d) /\ d.item = c.item => e = f /\ c = d

(* What a reorder gave the listed rows it does not take back.               *)
PlacesKept == tx # NULL => \A i \in rows \cap Listed : tx.at[i] = Place(tx.list, i)

-----------------------------------------------------------------------------
(* Ranks in a finite set, places in a list.                                 *)

(* R is a strict total order of S.                                          *)
Orders(R, S) ==
    /\ \A i, j \in S : i # j => <<i, j>> \in R \/ <<j, i>> \in R
    /\ \A i \in S : <<i, i>> \notin R
    /\ \A i, j, k \in S : <<i, j>> \in R /\ <<j, k>> \in R => <<i, k>> \in R

Ahead(R, S, i) == {j \in S : <<j, i>> \in R}

(* In a finite set with a strict total order, every rank is somebody's.     *)
LEMMA Ranked ==
    ASSUME NEW S, IsFiniteSet(S), NEW R, Orders(R, S)
    PROVE  \A n \in 1..Cardinality(S) :
              \E i \in S : Cardinality(Ahead(R, S, i)) = n - 1
  <1> DEFINE T == 0 .. (Cardinality(S) - 1)
             r == [i \in S |-> Cardinality(Ahead(R, S, i))]
  <1>1. Cardinality(S) \in Nat
    BY FS_CardinalityType
  <1>2. \A i \in S : IsFiniteSet(Ahead(R, S, i)) /\ Cardinality(Ahead(R, S, i)) \in Nat
    BY FS_Subset, FS_CardinalityType DEF Ahead
  <1>3. ASSUME NEW i \in S
        PROVE  Cardinality(Ahead(R, S, i)) < Cardinality(S)
    <2>1. Ahead(R, S, i) \in SUBSET S /\ Ahead(R, S, i) # S
      BY DEF Orders, Ahead
    <2>2. /\ Cardinality(Ahead(R, S, i)) =< Cardinality(S)
          /\ Cardinality(Ahead(R, S, i)) # Cardinality(S)
      BY <2>1, FS_Subset
    <2>3. QED
      BY <1>1, <1>2, <2>2
  <1>4. ASSUME NEW i \in S, NEW k \in S, <<i, k>> \in R
        PROVE  Cardinality(Ahead(R, S, i)) < Cardinality(Ahead(R, S, k))
    <2>1. Ahead(R, S, i) \in SUBSET Ahead(R, S, k) /\ i \in Ahead(R, S, k) /\ i \notin Ahead(R, S, i)
      BY <1>4 DEF Orders, Ahead
    <2>2. /\ Cardinality(Ahead(R, S, i)) =< Cardinality(Ahead(R, S, k))
          /\ Cardinality(Ahead(R, S, i)) # Cardinality(Ahead(R, S, k))
      BY <1>2, <2>1, FS_Subset
    <2>3. QED
      BY <1>2, <2>2
  <1>5. r \in [S -> T]
    BY <1>1, <1>2, <1>3
  <1>6. ASSUME NEW i \in S, NEW k \in S, r[i] = r[k]
        PROVE  i = k
    <2>1. Cardinality(Ahead(R, S, i)) = Cardinality(Ahead(R, S, k))
      BY <1>6
    <2>2. Cardinality(Ahead(R, S, i)) \in Nat
      BY <1>2
    <2>3. <<i, k>> \notin R /\ <<k, i>> \notin R
      BY <1>4, <2>1, <2>2
    <2>4. QED
      BY <2>3 DEF Orders
  <1>7. r \in Injection(S, T)
    BY <1>5, <1>6 DEF Injection, IsInjective
  <1>8. IsFiniteSet(T) /\ Cardinality(T) = Cardinality(S)
    <2>1. \A b \in Int : /\ IsFiniteSet(0..b)
                          /\ Cardinality(0..b) = IF 0 > b THEN 0 ELSE b + 1
      BY FS_Interval
    <2>2. Cardinality(S) - 1 \in Int
      BY <1>1
    <2>3. /\ IsFiniteSet(T)
          /\ Cardinality(T) = IF 0 > Cardinality(S) - 1 THEN 0
                              ELSE Cardinality(S) - 1 + 1
      BY <2>1, <2>2
    <2>4. QED
      BY <1>1, <2>3
  <1>9. r \in Surjection(S, T)
    BY <1>7, <1>8, FS_Injection
  <1>10. ASSUME NEW n \in 1..Cardinality(S)
         PROVE  \E i \in S : Cardinality(Ahead(R, S, i)) = n - 1
    <2>1. n - 1 \in T
      BY <1>1
    <2>2. PICK i \in S : r[i] = n - 1
      BY <1>9, <2>1 DEF Surjection
    <2>3. QED
      BY <2>2
  <1>11. QED
    BY <1>10

(* Of finitely many in a strict total order, one is before all the others.  *)
LEMMA OneIsFirst ==
    ASSUME NEW S, IsFiniteSet(S), S # {}, NEW R, Orders(R, S)
    PROVE  \E i \in S : \A j \in S \ {i} : <<i, j>> \in R
  <1>1. Cardinality(S) \in Nat /\ Cardinality(S) # 0
    BY FS_CardinalityType, FS_EmptySet
  <1>2. 1 \in 1..Cardinality(S)
    BY <1>1
  <1>3. PICK i \in S : Cardinality(Ahead(R, S, i)) = 1 - 1
    BY <1>2, Ranked
  <1>4. IsFiniteSet(Ahead(R, S, i))
    BY FS_Subset DEF Ahead
  <1>5. Ahead(R, S, i) = {}
    BY <1>3, <1>4, FS_EmptySet
  <1>6. QED
    BY <1>5 DEF Ahead, Orders

(* A list, its items and their number.                                      *)
LEMMA ListItemsFinite ==
    ASSUME NEW T, NEW list \in Seq(T)
    PROVE  /\ IsFiniteSet(DOMAIN list) /\ IsFiniteSet(Shown(list))
           /\ Shown(list) \subseteq T
           /\ DOMAIN list = 1..Len(list) /\ Len(list) \in Nat
  <1>1. DOMAIN list = 1..Len(list) /\ Len(list) \in Nat
    OBVIOUS
  <1>2. IsFiniteSet(DOMAIN list)
    BY <1>1, FS_Interval
  <1>3. list \in Surjection(DOMAIN list, Shown(list))
    BY <1>1 DEF Surjection, Shown
  <1>4. IsFiniteSet(Shown(list))
    BY <1>2, <1>3, FS_Surjection
  <1>5. QED
    BY <1>1, <1>2, <1>4 DEF Shown

LEMMA FunctionIsList ==
    ASSUME NEW T, NEW n \in Nat, NEW f \in [1..n -> T]
    PROVE  f \in Seq(T) /\ Len(f) = n
  OBVIOUS

(* What is left of a list is a list of its other items.                     *)
LEMMA WithoutIsList ==
    ASSUME NEW T, NEW list \in Seq(T), NEW i
    PROVE  Without(list, i) \in Seq(T)
  <1> DEFINE kept == {k \in DOMAIN list : list[k] # i}
             R == {p \in kept \X kept : p[1] < p[2]}
  <1>1. IsFiniteSet(kept) /\ kept \subseteq Nat
    BY ListItemsFinite, FS_Subset
  <1>2. Cardinality(kept) \in Nat
    BY <1>1, FS_CardinalityType
  <1>3. ASSUME NEW n \in 1..Cardinality(kept)
        PROVE  \E k \in kept : Cardinality({l \in kept : l < k}) = n - 1
    <2>1. \A k, l \in kept : <<k, l>> \in R <=> k < l
      OBVIOUS
    <2> HIDE DEF R, kept
    <2>2. PICK k \in kept : Cardinality(Ahead(R, kept, k)) = n - 1
      <3>1. Orders(R, kept)
        BY <1>1, <2>1 DEF Orders
      <3>2. \A m \in 1..Cardinality(kept) :
               \E k \in kept : Cardinality(Ahead(R, kept, k)) = m - 1
        BY <1>1, <3>1, Ranked
      <3>3. QED
        BY <3>2
    <2>3. Ahead(R, kept, k) = {l \in kept : l < k}
      BY <2>1 DEF Ahead
    <2>4. QED
      BY <2>2, <2>3
  <1>4. \A n \in 1..Cardinality(kept) :
           list[CHOOSE k \in kept : Cardinality({l \in kept : l < k}) = n - 1] \in T
    <2>1. \A k \in kept : list[k] \in T
      OBVIOUS
    <2> HIDE DEF kept
    <2>2. QED
      BY <1>3, <2>1
  <1>5. [n \in 1..Cardinality(kept) |->
            list[CHOOSE k \in kept : Cardinality({l \in kept : l < k}) = n - 1]]
           \in Seq(T)
    <2> HIDE DEF kept
    <2>1. [n \in 1..Cardinality(kept) |->
              list[CHOOSE k \in kept : Cardinality({l \in kept : l < k}) = n - 1]]
             \in [1..Cardinality(kept) -> T]
      BY <1>4
    <2>2. QED
      BY <1>2, <2>1, FunctionIsList
  <1>6. QED
    BY <1>5 DEF Without

(* ListItems answers with a list of the rows, for any number of items.      *)
LEMMA ListingIsList ==
    ASSUME rowid \in [Item -> Nat], position \in [Item -> 0..MaxPosition]
    PROVE  /\ Listing \in Seq(rows) /\ Len(Listing) = Cardinality(rows)
           /\ \A n \in 1..Cardinality(rows) :
                 Cardinality({j \in rows : Before(position, j, Listing[n])}) = n - 1
  <1> DEFINE R == {p \in rows \X rows : Before(position, p[1], p[2])}
  <1>1. IsFiniteSet(rows) /\ rows \subseteq Nat
    BY FS_Subset DEF rows
  <1>2. Cardinality(rows) \in Nat
    BY <1>1, FS_CardinalityType
  <1>3. \A i, j \in rows : <<i, j>> \in R <=> Before(position, i, j)
    OBVIOUS
  <1>4. \A i \in rows : position[i] \in Nat
    BY DEF rows
  <1> HIDE DEF R
  <1>5. Orders(R, rows)
    BY <1>1, <1>3, <1>4 DEF Before, Orders
  <1>6. ASSUME NEW n \in 1..Cardinality(rows)
        PROVE  \E i \in rows :
                  Cardinality({j \in rows : Before(position, j, i)}) = n - 1
    <2>1. PICK i \in rows : Cardinality(Ahead(R, rows, i)) = n - 1
      <3>1. \A m \in 1..Cardinality(rows) :
               \E k \in rows : Cardinality(Ahead(R, rows, k)) = m - 1
        BY <1>1, <1>5, Ranked
      <3>2. QED
        BY <3>1
    <2>2. Ahead(R, rows, i) = {j \in rows : Before(position, j, i)}
      BY <1>3 DEF Ahead
    <2>3. QED
      BY <2>1, <2>2
  <1>7. /\ DOMAIN Listing = 1..Cardinality(rows)
        /\ \A n \in 1..Cardinality(rows) :
              /\ Listing[n] \in rows
              /\ Cardinality({j \in rows : Before(position, j, Listing[n])}) = n - 1
    BY <1>6 DEF Listing
  <1>8. Listing \in [1..Cardinality(rows) -> rows]
    BY <1>7 DEF Listing
  <1>9. QED
    BY <1>2, <1>7, <1>8

-----------------------------------------------------------------------------
(* What ReorderItems gives the listed rows.                                 *)

LEMMA LeastNat ==
    ASSUME NEW S \in SUBSET Nat, S # {}
    PROVE  \E m \in S : \A n \in S : m =< n
  <1>1. PICK m \in S : \A n \in S : <<n, m>> \notin OpToRel(<, Nat)
    BY NatLessThanWellFounded, WFMin
  <1>2. \A n \in S : ~(n < m)
    BY <1>1 DEF OpToRel
  <1>3. QED
    BY <1>2

LEMMA FirstMetIsFirst ==
    ASSUME NEW T, NEW list \in Seq(T), NEW i \in Shown(list)
    PROVE  /\ FirstMet(list, i) \in 1..Len(list) /\ list[FirstMet(list, i)] = i
           /\ \A l \in 1..(FirstMet(list, i) - 1) : list[l] # i
  <1> DEFINE K == {k \in DOMAIN list : list[k] = i}
  <1>1. DOMAIN list = 1..Len(list) /\ Len(list) \in Nat
    OBVIOUS
  <1>2. K \in SUBSET Nat /\ K # {}
    BY <1>1 DEF Shown
  <1>3. PICK m \in K : \A k \in K : m =< k
    BY <1>2, LeastNat
  <1>4. m \in DOMAIN list /\ list[m] = i /\ \A l \in 1..(m - 1) : list[l] # i
    BY <1>1, <1>3
  <1>5. QED
    BY <1>1, <1>4 DEF FirstMet

LEMMA PrefixShown ==
    ASSUME NEW T, NEW list \in Seq(T), NEW k \in 1..Len(list)
    PROVE  /\ SubSeq(list, 1, k) \in Seq(T)
           /\ Shown(SubSeq(list, 1, k)) = {list[l] : l \in 1..k}
  <1>1. /\ SubSeq(list, 1, k) \in Seq(T) /\ Len(SubSeq(list, 1, k)) = k
        /\ \A l \in 1..k : SubSeq(list, 1, k)[l] = list[l]
    OBVIOUS
  <1>2. DOMAIN SubSeq(list, 1, k) = 1..k
    BY <1>1
  <1> DEFINE q == SubSeq(list, 1, k)
  <1> HIDE DEF q
  <1>3. {q[l] : l \in 1..k} = {list[l] : l \in 1..k}
    BY <1>1 DEF q
  <1>4. QED
    BY <1>1, <1>2, <1>3 DEF Shown, q

(* The places of listed ids are the first ones, in the order of the list.   *)
LEMMA Places ==
    ASSUME NEW T, NEW list \in Seq(T), NEW i \in Shown(list)
    PROVE  /\ Place(list, i) \in Nat
           /\ Place(list, i) =< Cardinality(Shown(list))
           /\ Cardinality(Shown(list)) \in Nat
           /\ \A j \in Shown(list) :
                 FirstMet(list, i) < FirstMet(list, j) =>
                    Place(list, i) < Place(list, j)
  <1> DEFINE Seen(j) == Shown(SubSeq(list, 1, FirstMet(list, j)))
  <1>1. \A j \in Shown(list) :
           Seen(j) = {list[l] : l \in 1..FirstMet(list, j)}
    BY FirstMetIsFirst, PrefixShown
  <1>2. IsFiniteSet(Shown(list))
    BY ListItemsFinite
  <1>3. \A j \in Shown(list) : Seen(j) \in SUBSET Shown(list)
    BY <1>1, FirstMetIsFirst DEF Shown
  <1> HIDE DEF Seen
  <1>4. \A j \in Shown(list) :
           /\ IsFiniteSet(Seen(j)) /\ Cardinality(Seen(j)) \in Nat
           /\ Cardinality(Seen(j)) =< Cardinality(Shown(list))
    BY <1>2, <1>3, FS_Subset, FS_CardinalityType
  <1>5. ASSUME NEW j \in Shown(list), FirstMet(list, i) < FirstMet(list, j)
        PROVE  Cardinality(Seen(i)) < Cardinality(Seen(j))
    <2>1. /\ FirstMet(list, i) \in 1..Len(list) /\ FirstMet(list, j) \in 1..Len(list)
          /\ list[FirstMet(list, j)] = j
          /\ \A l \in 1..(FirstMet(list, j) - 1) : list[l] # j
      BY FirstMetIsFirst
    <2>2. j \in Seen(j)
      BY <1>1, <2>1
    <2>3. j \notin Seen(i)
      BY <1>1, <1>5, <2>1
    <2>4. Seen(i) \in SUBSET Seen(j)
      BY <1>1, <1>5, <2>1
    <2>5. /\ Cardinality(Seen(i)) =< Cardinality(Seen(j))
          /\ Cardinality(Seen(i)) # Cardinality(Seen(j))
      BY <1>4, <2>2, <2>3, <2>4, FS_Subset
    <2>6. QED
      BY <1>4, <2>5
  <1>6. QED
    BY <1>2, <1>4, <1>5, FS_CardinalityType DEF Place, Seen

(* The cursor goes to a row, if there is any.                               *)
LEMMA ForemostIsRow ==
    ASSUME rowid \in [Item -> Nat], \A i, j \in rows : rowid[i] = rowid[j] => i = j,
           NEW at \in [Item -> Nat], NEW some \in SUBSET rows
    PROVE  /\ Foremost(at, some) \in some \cup {NULL}
           /\ Foremost(at, some) # NULL => Foremost(at, some) \in some
  <1>1. CASE some = {}
    BY <1>1 DEF Foremost
  <1>2. CASE some # {}
    <2> DEFINE R == {p \in some \X some :
                        \/ at[p[1]] < at[p[2]]
                        \/ at[p[1]] = at[p[2]] /\ rowid[p[1]] < rowid[p[2]]}
    <2>1. \A i, j \in some : <<i, j>> \in R <=>
             at[i] < at[j] \/ (at[i] = at[j] /\ rowid[i] < rowid[j])
      OBVIOUS
    <2>2. \A i \in some : i \in rows /\ at[i] \in Nat /\ rowid[i] \in Nat
      BY DEF rows
    <2>3. IsFiniteSet(some)
      BY FS_Subset DEF rows
    <2> HIDE DEF R
    <2>4. Orders(R, some)
      <3>1. \A i, j \in some : i # j => <<i, j>> \in R \/ <<j, i>> \in R
        BY <2>1, <2>2
      <3>2. \A i \in some : <<i, i>> \notin R
        BY <2>1, <2>2
      <3>3. \A i, j, k \in some : <<i, j>> \in R /\ <<j, k>> \in R => <<i, k>> \in R
        BY <2>1, <2>2
      <3>4. QED
        BY <3>1, <3>2, <3>3 DEF Orders
    <2>5. \E i \in some : \A j \in some \ {i} : <<i, j>> \in R
      BY <1>2, <2>3, <2>4, OneIsFirst
    <2>6. \E i \in some : \A j \in some \ {i} :
             at[i] < at[j] \/ (at[i] = at[j] /\ rowid[i] < rowid[j])
      BY <2>1, <2>5
    <2>7. QED
      BY <1>2, <2>6 DEF Foremost
  <1>3. QED
    BY <1>1, <1>2

-----------------------------------------------------------------------------
(* Types.                                                                   *)

LEMMA CallsAfter ==
    ASSUME calls \in [Editor -> SUBSET Call], NEW e \in Editor, NEW D,
           D \subseteq Call, calls' = [calls EXCEPT ![e] = D]
    PROVE  /\ calls' \in [Editor -> SUBSET Call] /\ calls'[e] = D
           /\ \A f \in Editor \ {e} : calls'[f] = calls[f]
  OBVIOUS

AnswerOf(c) == [NewCall EXCEPT !.op = c.op, !.item = c.item, !.done = TRUE,
                             !.seen = IF c.op = "save" THEN c.seen ELSE <<>>]

LEMMA AnswerTypes ==
    ASSUME NEW c \in Call
    PROVE  /\ AnswerOf(c) \in Call /\ AnswerOf(c).done
           /\ AnswerOf(c).op = c.op /\ AnswerOf(c).item = c.item
           /\ \A p \in 0..MaxPosition :
                 /\ [c EXCEPT !.pos = p] \in Call
                 /\ [c EXCEPT !.pos = p].op = c.op
                 /\ [c EXCEPT !.pos = p].item = c.item
           /\ \A list \in Seq(Item) :
                 /\ [c EXCEPT !.seen = list, !.done = TRUE] \in Call
                 /\ [c EXCEPT !.seen = list, !.done = TRUE].done
                 /\ [c EXCEPT !.seen = list, !.done = TRUE].op = c.op
  <1>1. <<>> \in Seq(Item) /\ 0 \in 0..MaxPosition
    OBVIOUS
  <1>2. /\ AnswerOf(c) \in Call /\ AnswerOf(c).done
        /\ AnswerOf(c).op = c.op /\ AnswerOf(c).item = c.item
    BY <1>1 DEF NewCall, Call, Op, AnswerOf
  <1>3. QED
    BY <1>2 DEF Call

(* What each kind of step does to the calls of one page.                    *)
LEMMA Sent ==
    ASSUME TypeOK, NEW e \in Editor, NEW new \in Call, Send(e, new)
    PROVE  /\ calls' \in [Editor -> SUBSET Call]
           /\ \A f \in Editor : \A d \in calls'[f] :
                 d \in calls[f] \/ (f = e /\ d = new)
  <1>1. calls' = [calls EXCEPT ![e] = calls[e] \cup {new}]
    BY DEF Send
  <1>2. calls[e] \cup {new} \subseteq Call
    BY DEF TypeOK
  <1>3. QED
    BY <1>1, <1>2, CallsAfter DEF TypeOK

LEMMA Became ==
    ASSUME TypeOK, NEW e \in Editor, NEW c, NEW new \in Call, Becomes(e, c, new)
    PROVE  /\ calls' \in [Editor -> SUBSET Call]
           /\ \A f \in Editor : \A d \in calls'[f] :
                 \/ d \in calls[f] /\ ~(f = e /\ d = c)
                 \/ f = e /\ d = new
  <1>1. calls' = [calls EXCEPT ![e] = (calls[e] \ {c}) \cup {new}]
    BY DEF Becomes
  <1>2. (calls[e] \ {c}) \cup {new} \subseteq Call
    BY DEF TypeOK
  <1>3. QED
    BY <1>1, <1>2, CallsAfter DEF TypeOK

LEMMA Gone ==
    ASSUME TypeOK, NEW e \in Editor, NEW c, Dropped(e, c)
    PROVE  /\ calls' \in [Editor -> SUBSET Call]
           /\ \A f \in Editor : \A d \in calls'[f] : d \in calls[f]
  <1>1. calls' = [calls EXCEPT ![e] = calls[e] \ {c}]
    BY DEF Dropped
  <1>2. calls[e] \ {c} \subseteq Call
    BY DEF TypeOK
  <1>3. QED
    BY <1>1, <1>2, CallsAfter DEF TypeOK

LEMMA GotAnswer ==
    ASSUME TypeOK, NEW e \in Editor, NEW c \in calls[e], Answered(e, c)
    PROVE  /\ calls' \in [Editor -> SUBSET Call]
           /\ \A f \in Editor : \A d \in calls'[f] :
                 \/ d \in calls[f] /\ ~(f = e /\ d = c)
                 \/ d.done /\ d.op = c.op /\ d.item = c.item
  <1>1. c \in Call
    BY DEF TypeOK
  <1>2. Becomes(e, c, AnswerOf(c)) /\ AnswerOf(c) \in Call
    BY <1>1, AnswerTypes DEF Answered, AnswerOf
  <1>3. AnswerOf(c).done /\ AnswerOf(c).op = c.op /\ AnswerOf(c).item = c.item
    BY <1>1, AnswerTypes
  <1>4. QED
    BY <1>2, <1>3, Became

(* Pages and calls change, the table does not.                              *)
LEMMA PagesOnly ==
    ASSUME TypeOK, UNCHANGED <<table, tx, used, saved>>,
           page' \in [Editor -> Seq(Item)], calls' \in [Editor -> SUBSET Call]
    PROVE  TypeOK'
  BY DEF TypeOK, TxOK, rows, table

(* An edit of a row, while no transaction writes. *)
LEMMA TypeUpdate ==
    ASSUME TypeOK, Fresh, NEW e \in Editor, NEW c \in calls[e], UpdateItem(e, c)
    PROVE  TypeOK'
  <1>1. calls' \in [Editor -> SUBSET Call]
    BY GotAnswer DEF UpdateItem
  <1>2. position' \in [Item -> 0..MaxPosition] /\ rows' = rows
    BY DEF UpdateItem, TypeOK, rows
  <1>3. saved' \subseteq saved
    BY DEF UpdateItem, Edited
  <1>4. tx' = NULL /\ UNCHANGED <<rowid, page, used>>
    BY DEF UpdateItem
  <1>5. QED
    BY <1>1, <1>2, <1>3, <1>4 DEF TypeOK

LEMMA TypeDelete ==
    ASSUME TypeOK, Fresh, NEW e \in Editor, NEW c \in calls[e], DeleteItem(e, c)
    PROVE  TypeOK' /\ rows' = rows \ {c.item}
  <1>1. calls' \in [Editor -> SUBSET Call]
    BY GotAnswer DEF DeleteItem
  <1>2. c.item \in Item
    BY DEF DeleteItem, Fresh
  <1>3. /\ position' \in [Item -> 0..MaxPosition] /\ rowid' \in [Item -> Nat]
        /\ rowid'[c.item] = 0 /\ \A i \in Item \ {c.item} : rowid'[i] = rowid[i]
    BY <1>2 DEF DeleteItem, TypeOK
  <1>4. rows' = rows \ {c.item}
    <2>1. \A i \in Item : rowid'[i] > 0 <=> (rowid[i] > 0 /\ i # c.item)
      BY <1>2, <1>3
    <2>2. QED
      BY <2>1 DEF rows
  <1>5. saved' \subseteq rows' \X rows'
    <2>1. ASSUME NEW pair \in saved'
          PROVE  pair \in rows' \X rows'
      <3>1. pair \in saved /\ c.item \notin {pair[1], pair[2]}
        BY DEF DeleteItem, Edited
      <3>2. pair \in rows \X rows
        BY <3>1 DEF TypeOK
      <3>3. QED
        BY <1>4, <3>1, <3>2
    <2>2. QED
      BY <2>1
  <1>6. tx' = NULL /\ UNCHANGED <<page, used>>
    BY DEF DeleteItem
  <1>7. \A i, j \in rows' : rowid'[i] = rowid'[j] => i = j
    BY <1>3, <1>4 DEF TypeOK, rows
  <1>8. QED
    BY <1>1, <1>3, <1>4, <1>5, <1>6, <1>7 DEF TypeOK

LEMMA FollowingIsNew ==
    ASSUME NEW column \in [Item -> Nat], NEW n \in Following(column)
    PROVE  n \in Nat /\ n > 0 /\ \A i \in rows : column[i] < n
  BY DEF Following, rows

LEMMA TypeInsert ==
    ASSUME TypeOK, Fresh, NEW e \in Editor, NEW c \in calls[e], InsertItem(e, c)
    PROVE  TypeOK' /\ rows' = rows \cup {c.item}
  <1>1. calls' \in [Editor -> SUBSET Call]
    BY GotAnswer DEF InsertItem
  <1>2. c.item \in Item /\ c.item \in used \ rows /\ c.pos \in 0..MaxPosition
    BY DEF InsertItem, Fresh, Pending, TypeOK, Call
  <1>3. PICK n \in Following(rowid) : rowid' = [rowid EXCEPT ![c.item] = n]
    BY DEF InsertItem
  <1>4. n \in Nat /\ n > 0 /\ \A i \in rows : rowid[i] < n
    BY FollowingIsNew DEF TypeOK
  <1>5. /\ position' \in [Item -> 0..MaxPosition] /\ rowid' \in [Item -> Nat]
        /\ rowid'[c.item] = n /\ \A i \in Item \ {c.item} : rowid'[i] = rowid[i]
    BY <1>2, <1>3, <1>4 DEF InsertItem, TypeOK
  <1>6. rows' = rows \cup {c.item}
    BY <1>2, <1>4, <1>5 DEF rows
  <1>7. saved' \subseteq rows' \X rows'
    BY <1>6 DEF InsertItem, TypeOK
  <1>8. tx' = NULL /\ UNCHANGED <<page, used>>
    BY DEF InsertItem
  <1>9. \A i, j \in rows' : rowid'[i] = rowid'[j] => i = j
    <2>1. \A i \in rows : rowid[i] \in Nat /\ rowid'[i] = rowid[i]
      BY <1>2, <1>5 DEF TypeOK, rows
    <2>2. QED
      BY <1>4, <1>5, <1>6, <2>1 DEF TypeOK
  <1>10. QED
    BY <1>1, <1>2, <1>5, <1>6, <1>7, <1>8, <1>9 DEF TypeOK

LEMMA TypeBegin ==
    ASSUME TypeOK, NEW e \in Editor, NEW c \in calls[e], BeginReorder(e, c)
    PROVE  /\ TypeOK' /\ UNCHANGED <<table, page, calls, used, saved>>
           /\ tx'.list \in Seq(Item)
           /\ \A i \in rows \cap Shown(tx'.list) : tx'.at[i] = Place(tx'.list, i)
  <1> DEFINE list == c.seen
             at == [i \in Item |-> IF i \in rows \cap Shown(list)
                                   THEN Place(list, i) ELSE position[i]]
             first == Foremost(at, rows)
  <1>1. list \in Seq(Item) /\ rows \subseteq Item
    BY DEF TypeOK, Call, rows
  <1>2. /\ Cardinality(Shown(list)) \in Nat /\ Cardinality(Shown(list)) <= MaxPosition
        /\ \A i \in Shown(list) : Place(list, i) \in 0..MaxPosition
    <2>1. Cardinality(Shown(list)) \in Nat
      BY <1>1, ListItemsFinite, FS_CardinalityType
    <2>2. Cardinality(Shown(list)) <= MaxPosition
      BY DEF BeginReorder
    <2>3. QED
      BY <1>1, <2>1, <2>2, Places
  <1>3. /\ at \in [Item -> 0..MaxPosition]
        /\ \A i \in rows \cap Shown(list) : at[i] = Place(list, i)
    BY <1>1, <1>2 DEF TypeOK
  <1>4. tx' = [editor |-> e, list |-> list, at |-> at, first |-> first,
               key |-> Cursor(at, first), next |-> 1 + Cardinality(Shown(list))]
    BY DEF BeginReorder
  <1> HIDE DEF at
  <1>5. first \in rows \cup {NULL}
    <2>1. at \in [Item -> Nat] /\ rows \in SUBSET rows
      BY <1>3
    <2>2. QED
      BY <2>1, ForemostIsRow DEF TypeOK
  <1> HIDE DEF list, first
  <1>6. Cursor(at, first) \in 0..MaxPosition
    BY <1>1, <1>3, <1>5 DEF Cursor
  <1>7. /\ tx' \in [editor : Editor, list : Seq(Item), at : [Item -> 0..MaxPosition],
                    first : rows \cup {NULL}, key : 0..MaxPosition,
                    next : 1..(MaxPosition + 1)]
        /\ tx'.list = list /\ tx'.at = at
    BY <1>1, <1>2, <1>3, <1>4, <1>5, <1>6
  <1>8. UNCHANGED <<table, page, calls, used, saved>> /\ rows' = rows
    BY DEF BeginReorder, rows, table
  <1>9. TypeOK'
    BY <1>7, <1>8 DEF TypeOK, TxOK, table
  <1>10. QED
    BY <1>1, <1>3, <1>7, <1>8, <1>9

LEMMA TypeScan ==
    ASSUME TypeOK, ScanGroup
    PROVE  /\ TypeOK' /\ UNCHANGED <<table, page, calls, used, saved>>
           /\ tx'.list = tx.list
           /\ \A i \in rows \cap Listed : tx'.at[i] = tx.at[i]
  <1> DEFINE group == {i \in rows : /\ i = tx.first \/ tx.at[i] = tx.key
                                    /\ rowid[i] >= rowid[tx.first]}
             rest == group \ Listed
             first == Foremost(tx.at, {i \in rows : tx.at[i] > tx.key})
             at == [i \in Item |-> IF i \in rest
                                   THEN tx.next + Cardinality({j \in rest : j < i})
                                   ELSE tx.at[i]]
  <1>1. /\ tx.next + Cardinality(rest) <= MaxPosition + 1
        /\ tx' = [tx EXCEPT !.at = at, !.first = first, !.key = Cursor(tx.at, first),
                            !.next = @ + Cardinality(rest)]
    BY DEF ScanGroup
  <1>2. /\ tx \in [editor : Editor, list : Seq(Item), at : [Item -> 0..MaxPosition],
                   first : rows \cup {NULL}, key : 0..MaxPosition,
                   next : 1..(MaxPosition + 1)]
        /\ rows \subseteq Item
    BY DEF ScanGroup, TypeOK, TxOK, rows
  <1>3. rest \subseteq rows /\ rest \cap Listed = {}
    OBVIOUS
  <1>4. first \in rows \cup {NULL}
    <2>1. tx.at \in [Item -> Nat]
      BY <1>2
    <2>2. {i \in rows : tx.at[i] > tx.key} \in SUBSET rows
      OBVIOUS
    <2>3. QED
      BY <2>1, <2>2, ForemostIsRow DEF TypeOK
  <1> HIDE DEF first, rest
  <1>5. IsFiniteSet(rest) /\ Cardinality(rest) \in Nat
    BY <1>2, <1>3, FS_Subset, FS_CardinalityType
  <1>6. ASSUME NEW i \in rest
        PROVE  tx.next + Cardinality({j \in rest : j < i}) \in 0..MaxPosition
    <2> DEFINE less == {j \in rest : j < i}
    <2>1. less \in SUBSET rest /\ i \notin less
      BY <1>2, <1>3
    <2> HIDE DEF less
    <2>2. /\ IsFiniteSet(less) /\ Cardinality(less) \in Nat
          /\ Cardinality(less) =< Cardinality(rest)
          /\ Cardinality(less) # Cardinality(rest)
      BY <1>5, <2>1, FS_Subset, FS_CardinalityType
    <2>3. tx.next \in Nat
      BY <1>2
    <2>4. tx.next + Cardinality(less) \in 0..MaxPosition
      BY <1>1, <1>5, <2>2, <2>3
    <2>5. QED
      BY <2>4 DEF less
  <1>7. /\ at \in [Item -> 0..MaxPosition]
        /\ \A i \in rows \cap Listed : at[i] = tx.at[i]
    BY <1>2, <1>3, <1>6
  <1> HIDE DEF at
  <1>8. Cursor(tx.at, first) \in 0..MaxPosition
    BY <1>2, <1>4 DEF Cursor
  <1>9. tx.next + Cardinality(rest) \in 1..(MaxPosition + 1)
    BY <1>1, <1>2, <1>5
  <1>10. /\ tx' \in [editor : Editor, list : Seq(Item), at : [Item -> 0..MaxPosition],
                     first : rows \cup {NULL}, key : 0..MaxPosition,
                     next : 1..(MaxPosition + 1)]
         /\ tx'.list = tx.list /\ tx'.at = at
    BY <1>1, <1>2, <1>4, <1>7, <1>8, <1>9
  <1>11. UNCHANGED <<table, page, calls, used, saved>> /\ rows' = rows
    BY DEF ScanGroup, rows, table
  <1>12. TypeOK'
    BY <1>10, <1>11 DEF TypeOK, TxOK, table
  <1>13. QED
    BY <1>7, <1>10, <1>11, <1>12

LEMMA TypeEnd ==
    ASSUME TypeOK, Commit \/ Rollback
    PROVE  /\ TypeOK' /\ UNCHANGED <<rowid, page, used>> /\ tx' = NULL
           /\ \A f \in Editor : \A d \in calls'[f] : d \in calls[f]
  <1>1. /\ tx \in [editor : Editor, list : Seq(Item), at : [Item -> 0..MaxPosition],
                   first : rows \cup {NULL}, key : 0..MaxPosition,
                   next : 1..(MaxPosition + 1)]
        /\ tx' = NULL /\ UNCHANGED <<rowid, page, used>>
    BY DEF Commit, Rollback, EndReorder, TypeOK, TxOK
  <1>2. PICK c \in calls[tx.editor] : Dropped(tx.editor, c)
    BY DEF Commit, Rollback, EndReorder
  <1>3. /\ calls' \in [Editor -> SUBSET Call]
        /\ \A f \in Editor : \A d \in calls'[f] : d \in calls[f]
    BY <1>1, <1>2, Gone
  <1>4. rows' = rows
    BY <1>1 DEF rows
  <1>5. saved' \subseteq rows \X rows /\ position' \in [Item -> 0..MaxPosition]
    BY <1>1 DEF Commit, Rollback, TypeOK
  <1>6. TypeOK'
    BY <1>1, <1>3, <1>4, <1>5 DEF TypeOK
  <1>7. QED
    BY <1>1, <1>3, <1>6

-----------------------------------------------------------------------------
(* Every step, seen from the requests: none is added but by a click.        *)

(* A request that names no item being added. *)
Settled(d) == /\ ~Pending(d)
              /\ d.op \in {"save", "remove", "add", "import"} => d.item \in Item

(* Steps that add no item leave what is being added alone.                  *)
LEMMA NothingAdded ==
    ASSUME Fresh, used' = used, rows' \subseteq rows,
           \A f \in Editor : \A d \in calls'[f] : d \in calls[f] \/ Settled(d)
    PROVE  Fresh'
  <1>1. SUFFICES ASSUME NEW e \in Editor, NEW c \in calls'[e]
                 PROVE  /\ c.op \in {"save", "remove", "add", "import"} => c.item \in Item
                        /\ Pending(c) =>
                              /\ c.item \in used' \ rows'
                              /\ \A f \in Editor : \A d \in calls'[f] :
                                    Pending(d) /\ d.item = c.item => e = f /\ c = d
    BY DEF Fresh, Pending
  <1>2. c.op \in {"save", "remove", "add", "import"} => c.item \in Item
    BY DEF Fresh, Settled
  <1>3. ASSUME Pending(c)
        PROVE  c.item \in used' \ rows'
    BY <1>3 DEF Fresh, Settled
  <1>4. ASSUME Pending(c), NEW f \in Editor, NEW d \in calls'[f],
               Pending(d), d.item = c.item
        PROVE  e = f /\ c = d
    BY <1>4 DEF Fresh, Settled
  <1>5. QED
    BY <1>2, <1>3, <1>4

(* What the clicks of an editor, the reads of the server and the answers    *)
(* have in common.                                                          *)
Quiet ==
    /\ UNCHANGED <<table, tx, used, saved>>
    /\ page' \in [Editor -> Seq(Item)] /\ calls' \in [Editor -> SUBSET Call]
    /\ \A f \in Editor : \A d \in calls'[f] : d \in calls[f] \/ Settled(d)

LEMMA ShownItems ==
    ASSUME TypeOK, NEW e \in Editor
    PROVE  page[e] \in Seq(Item) /\ Shown(page[e]) \subseteq Item
  BY ListItemsFinite DEF TypeOK

LEMMA QuietClick ==
    ASSUME TypeOK, NEW e \in Editor,
           \/ Load(e) \/ SaveItem(e) \/ RemoveItem(e) \/ MoveItem(e) \/ SaveOrder(e)
    PROVE  Quiet
  <1>1. page[e] \in Seq(Item) /\ Shown(page[e]) \subseteq Item
    BY ShownItems
  <1>0. /\ \A i \in Item : \A list \in Seq(Item) :
              /\ [NewCall EXCEPT !.op = "save", !.item = i, !.seen = list] \in Call
              /\ [NewCall EXCEPT !.op = "remove", !.item = i] \in Call
        /\ \A list \in Seq(Item) : [NewCall EXCEPT !.op = "reorder", !.seen = list] \in Call
    <2>1. 0 \in 0..MaxPosition /\ <<>> \in Seq(Item)
      OBVIOUS
    <2>2. QED
      BY <2>1 DEF NewCall, Call, Op
  <1>2. ASSUME NEW new \in Call, Settled(new), Send(e, new),
               UNCHANGED <<table, tx, page, used, saved>>
        PROVE  Quiet
    BY <1>2, Sent DEF Quiet, TypeOK
  <1>3. CASE Load(e)
    <2>1. NewCall \in Call /\ Settled(NewCall)
      BY DEF NewCall, Call, Op, Settled, Pending
    <2>2. QED
      BY <1>2, <1>3, <2>1 DEF Load
  <1>4. CASE SaveItem(e)
    <2>1. PICK i \in Shown(page[e]) :
             Send(e, [NewCall EXCEPT !.op = "save", !.item = i, !.seen = page[e]])
      BY <1>4 DEF SaveItem
    <2> DEFINE new == [NewCall EXCEPT !.op = "save", !.item = i, !.seen = page[e]]
    <2>2. new \in Call /\ Settled(new)
      <3>1. new \in Call
        BY <1>1, <1>0
      <3>2. new.op = "save" /\ new.item = i
        BY DEF NewCall
      <3>3. QED
        BY <1>1, <3>1, <3>2 DEF Settled, Pending
    <2>3. QED
      BY <1>2, <1>4, <2>1, <2>2 DEF SaveItem
  <1>5. CASE RemoveItem(e)
    <2>1. PICK i \in Shown(page[e]) :
             Send(e, [NewCall EXCEPT !.op = "remove", !.item = i])
      BY <1>5 DEF RemoveItem
    <2> DEFINE new == [NewCall EXCEPT !.op = "remove", !.item = i]
    <2>2. new \in Call /\ Settled(new)
      <3>1. new \in Call
        BY <1>1, <1>0
      <3>2. new.op = "remove" /\ new.item = i
        BY DEF NewCall
      <3>3. QED
        BY <1>1, <3>1, <3>2 DEF Settled, Pending
    <2>3. QED
      BY <1>2, <1>5, <2>1, <2>2 DEF RemoveItem
  <1>6. CASE MoveItem(e)
    <2>1. PICK k \in 1..(Len(page[e]) - 1) :
             page' = [page EXCEPT ![e] = [page[e] EXCEPT ![k] = page[e][k + 1],
                                                         ![k + 1] = page[e][k]]]
      BY <1>6 DEF MoveItem
    <2>2. [page[e] EXCEPT ![k] = page[e][k + 1], ![k + 1] = page[e][k]] \in Seq(Item)
      <3>1. Len(page[e]) \in Nat /\ page[e] \in [1..Len(page[e]) -> Item]
        BY <1>1
      <3>2. k \in 1..Len(page[e]) /\ k + 1 \in 1..Len(page[e])
        BY <3>1
      <3>3. [page[e] EXCEPT ![k] = page[e][k + 1], ![k + 1] = page[e][k]]
               \in [1..Len(page[e]) -> Item]
        BY <3>1, <3>2
      <3>4. QED
        BY <3>1, <3>3, FunctionIsList
    <2>3. page' \in [Editor -> Seq(Item)]
      BY <2>1, <2>2 DEF TypeOK
    <2>4. QED
      BY <1>6, <2>3 DEF MoveItem, Quiet, TypeOK
  <1>7. CASE SaveOrder(e)
    <2> DEFINE new == [NewCall EXCEPT !.op = "reorder", !.seen = page[e]]
    <2>1. new \in Call /\ Settled(new)
      <3>1. new \in Call
        BY <1>1, <1>0
      <3>2. new.op = "reorder"
        BY DEF NewCall
      <3>3. QED
        BY <3>1, <3>2 DEF Settled, Pending
    <2>2. QED
      BY <1>2, <1>7, <2>1 DEF SaveOrder
  <1>8. QED
    BY <1>3, <1>4, <1>5, <1>6, <1>7

(* Of an answer nothing is pending.                                         *)
LEMMA AnsweredSettles ==
    ASSUME TypeOK, Fresh, NEW e \in Editor, NEW c \in calls[e], Answered(e, c)
    PROVE  /\ calls' \in [Editor -> SUBSET Call]
           /\ \A f \in Editor : \A d \in calls'[f] :
                 \/ d \in calls[f] /\ ~(f = e /\ d = c)
                 \/ Settled(d)
  <1>1. c.op \in {"save", "remove", "add", "import"} => c.item \in Item
    BY DEF Fresh
  <1>2. \A d : d.done /\ d.op = c.op /\ d.item = c.item => Settled(d)
    BY <1>1 DEF Settled, Pending
  <1>3. QED
    BY <1>2, GotAnswer

LEMMA QuietServer ==
    ASSUME TypeOK, Fresh, NEW e \in Editor, NEW c \in calls[e],
           ListItems(e, c) \/ Failed(e, c) \/ Reply(e, c) \/ Lost(e, c)
    PROVE  Quiet
  <1>1. c \in Call /\ page \in [Editor -> Seq(Item)] /\ page[e] \in Seq(Item)
    BY DEF TypeOK
  <1>2. CASE ListItems(e, c)
    <2>1. PICK list \in {Listing, <<>>} :
             Becomes(e, c, [c EXCEPT !.seen = list, !.done = TRUE])
      BY <1>2 DEF ListItems
    <2>2. list \in Seq(Item)
      <3>1. Listing \in Seq(Item)
        BY ListingIsList DEF TypeOK, rows
      <3>2. <<>> \in Seq(Item)
        OBVIOUS
      <3>3. QED
        BY <2>1, <3>1, <3>2
    <2> DEFINE new == [c EXCEPT !.seen = list, !.done = TRUE]
    <2>3. new \in Call /\ new.done /\ new.op = "list"
      BY <1>1, <1>2, <2>2, AnswerTypes DEF ListItems
    <2>4. Settled(new)
      BY <2>3 DEF Settled, Pending
    <2>5. Becomes(e, c, new) /\ UNCHANGED <<table, tx, page, used, saved>>
      BY <1>2, <2>1 DEF ListItems
    <2> HIDE DEF new
    <2>6. QED
      BY <1>1, <2>3, <2>4, <2>5, Became DEF Quiet
  <1>3. CASE Failed(e, c)
    <2>1. /\ Dropped(e, c) \/ Answered(e, c)
          /\ UNCHANGED <<table, tx, page, used, saved>>
      BY <1>3 DEF Failed
    <2>2. QED
      BY <1>1, <2>1, Gone, AnsweredSettles DEF Quiet
  <1>4. CASE Reply(e, c)
    <2>1. UNCHANGED <<table, tx, used, saved>>
      BY <1>4 DEF Reply
    <2>2. ASSUME NEW list \in Seq(Item), Show(e, c, list)
          PROVE  Quiet
      <3>1. page' \in [Editor -> Seq(Item)]
        BY <1>1, <2>2 DEF Show
      <3>2. QED
        BY <2>1, <2>2, <3>1, Gone DEF Show, Quiet
    <2>3. CASE c.op \in {"save", "list"} /\ Show(e, c, c.seen)
      <3>1. c.seen \in Seq(Item)
        BY <1>1 DEF Call
      <3>2. QED
        BY <2>2, <2>3, <3>1
    <2>4. CASE c.op = "remove" /\ Show(e, c, Without(page[e], c.item))
      BY <1>1, <2>2, <2>4, WithoutIsList
    <2>5. CASE c.op = "add" /\ Show(e, c, Append(page[e], c.item))
      <3>1. c.item \in Item
        BY <2>5 DEF Fresh
      <3>2. Append(page[e], c.item) \in Seq(Item)
        BY <1>1, <3>1
      <3>3. QED
        BY <2>2, <2>5, <3>2
    <2>6. CASE Becomes(e, c, NewCall) /\ UNCHANGED page
      <3>1. NewCall \in Call /\ Settled(NewCall)
        BY DEF NewCall, Call, Op, Settled, Pending
      <3>2. QED
        BY <1>1, <2>1, <2>6, <3>1, Became DEF Quiet
    <2>7. QED
      BY <1>4, <2>3, <2>4, <2>5, <2>6 DEF Reply
  <1>5. CASE Lost(e, c)
    BY <1>1, <1>5, Gone DEF Lost, Quiet
  <1>6. QED
    BY <1>2, <1>3, <1>4, <1>5

(* A form or a row of a CSV file: the id is a new one.                      *)
LEMMA AddStep ==
    ASSUME TypeOK, Fresh, NEW e \in Editor, AddItem(e)
    PROVE  TypeOK' /\ Fresh'
  <1>1. PICK i \in Item \ used :
           /\ used' = used \cup {i}
           /\ \/ Send(e, [NewCall EXCEPT !.op = "add", !.item = i])
              \/ \E p \in {0} \cup Imported :
                    Send(e, [NewCall EXCEPT !.op = "import", !.item = i, !.pos = p])
    BY DEF AddItem
  <1>2. PICK new \in Call : /\ Send(e, new) /\ new.item = i
    <2>1. CASE Send(e, [NewCall EXCEPT !.op = "add", !.item = i])
      <3>1. [NewCall EXCEPT !.op = "add", !.item = i] \in Call
        <4>1. 0 \in 0..MaxPosition /\ <<>> \in Seq(Item)
          OBVIOUS
        <4>2. QED
          BY <4>1 DEF NewCall, Call, Op
      <3>2. [NewCall EXCEPT !.op = "add", !.item = i].item = i
        BY DEF NewCall
      <3>3. QED
        BY <2>1, <3>1, <3>2
    <2>2. CASE \E p \in {0} \cup Imported :
                  Send(e, [NewCall EXCEPT !.op = "import", !.item = i, !.pos = p])
      <3>1. PICK p \in {0} \cup Imported :
               Send(e, [NewCall EXCEPT !.op = "import", !.item = i, !.pos = p])
        BY <2>2
      <3>2. [NewCall EXCEPT !.op = "import", !.item = i, !.pos = p] \in Call
        <4>1. p \in 0..MaxPosition /\ <<>> \in Seq(Item)
          OBVIOUS
        <4>2. QED
          BY <4>1 DEF NewCall, Call, Op
      <3>3. [NewCall EXCEPT !.op = "import", !.item = i, !.pos = p].item = i
        BY DEF NewCall
      <3>4. QED
        BY <3>1, <3>2, <3>3
    <2>3. QED
      BY <1>1, <2>1, <2>2
  <1>3. /\ calls' \in [Editor -> SUBSET Call]
        /\ \A f \in Editor : \A d \in calls'[f] :
              d \in calls[f] \/ (f = e /\ d = new)
    BY <1>2, Sent
  <1>4. UNCHANGED <<table, tx, page, saved>> /\ rows' = rows
    BY DEF AddItem, rows, table
  <1>5. TypeOK'
    BY <1>1, <1>3, <1>4 DEF TypeOK, TxOK, table
  <1>6. rows \subseteq used /\ i \notin rows
    BY <1>1 DEF TypeOK
  <1>7. \A f \in Editor : \A d \in calls'[f] :
           d.op \in {"save", "remove", "add", "import"} => d.item \in Item
    BY <1>2, <1>3 DEF Fresh
  <1>8. \A f \in Editor : \A d \in calls'[f] :
           Pending(d) => /\ d.item \in used' \ rows'
                         /\ d.item = i => f = e /\ d = new
    BY <1>1, <1>2, <1>3, <1>4, <1>6 DEF Fresh
  <1>9. ASSUME NEW f \in Editor, NEW d \in calls'[f], NEW g \in Editor,
               NEW b \in calls'[g], Pending(d), Pending(b), b.item = d.item
        PROVE  f = g /\ d = b
    <2>1. CASE d.item = i
      BY <1>8, <1>9, <2>1
    <2>2. CASE d.item # i
      <3>1. d \in calls[f] /\ b \in calls[g]
        BY <1>2, <1>3, <1>9, <2>2
      <3>2. QED
        BY <1>9, <3>1 DEF Fresh
    <2>3. QED
      BY <2>1, <2>2
  <1>10. Fresh'
    BY <1>7, <1>8, <1>9 DEF Fresh, Pending
  <1>11. QED
    BY <1>5, <1>10

(* The position is read before the row is written.                          *)
LEMMA PositionStep ==
    ASSUME TypeOK, Fresh, NEW e \in Editor, NEW c \in calls[e],
           NextItemPosition(e, c)
    PROVE  TypeOK' /\ Fresh'
  <1>1. PICK p \in {1} \cup Following(position) :
           p <= MaxPosition /\ Becomes(e, c, [c EXCEPT !.pos = p])
    BY DEF NextItemPosition
  <1> DEFINE new == [c EXCEPT !.pos = p]
  <1>2. c \in Call /\ Pending(c) /\ c.item \in Item
    BY DEF NextItemPosition, TypeOK, Fresh, Pending
  <1>3. p \in 0..MaxPosition
    <2>1. position \in [Item -> Nat]
      BY DEF TypeOK
    <2>2. p \in Nat
      BY <2>1, FollowingIsNew
    <2>3. QED
      BY <1>1, <2>2
  <1>4. new \in Call /\ new.item = c.item
    BY <1>2, <1>3, AnswerTypes
  <1> HIDE DEF new
  <1>5. /\ calls' \in [Editor -> SUBSET Call]
        /\ \A f \in Editor : \A d \in calls'[f] :
              \/ d \in calls[f] /\ ~(f = e /\ d = c)
              \/ f = e /\ d = new
    BY <1>1, <1>4, Became DEF new
  <1>6. UNCHANGED <<table, tx, page, used, saved>> /\ rows' = rows
    BY DEF NextItemPosition, rows, table
  <1>7. TypeOK'
    BY <1>5, <1>6, PagesOnly DEF TypeOK
  <1>8. \A f \in Editor : \A d \in calls'[f] :
           d.op \in {"save", "remove", "add", "import"} => d.item \in Item
    BY <1>2, <1>4, <1>5 DEF Fresh
  <1>9. \A f \in Editor : \A d \in calls'[f] :
           Pending(d) => /\ d.item \in used' \ rows'
                         /\ d.item = c.item => f = e /\ d = new
    <2>1. SUFFICES ASSUME NEW f \in Editor, NEW d \in calls'[f], Pending(d)
                   PROVE  /\ d.item \in used \ rows
                          /\ d.item = c.item => f = e /\ d = new
      BY <1>6
    <2>2. CASE d \in calls[f] /\ ~(f = e /\ d = c)
      BY <1>2, <2>1, <2>2 DEF Fresh
    <2>3. CASE f = e /\ d = new
      BY <1>2, <1>4, <2>3 DEF Fresh
    <2>4. QED
      BY <1>5, <2>2, <2>3
  <1>10. ASSUME NEW f \in Editor, NEW d \in calls'[f], NEW g \in Editor,
                NEW b \in calls'[g], Pending(d), Pending(b), b.item = d.item
         PROVE  f = g /\ d = b
    <2>1. CASE d.item = c.item
      BY <1>9, <1>10, <2>1
    <2>2. CASE d.item # c.item
      <3>1. d \in calls[f] /\ b \in calls[g]
        BY <1>4, <1>5, <1>10, <2>2
      <3>2. QED
        BY <1>10, <3>1 DEF Fresh
    <2>3. QED
      BY <2>1, <2>2
  <1>11. Fresh'
    BY <1>8, <1>9, <1>10 DEF Fresh, Pending
  <1>12. QED
    BY <1>7, <1>11

LEMMA InsertStep ==
    ASSUME TypeOK, Fresh, NEW e \in Editor, NEW c \in calls[e], InsertItem(e, c)
    PROVE  Fresh'
  <1>1. /\ \A f \in Editor : \A d \in calls'[f] :
              (d \in calls[f] /\ ~(f = e /\ d = c)) \/ Settled(d)
        /\ rows' = rows \cup {c.item} /\ used' = used
    BY AnsweredSettles, TypeInsert DEF InsertItem
  <1>2. Pending(c)
    BY DEF InsertItem, Pending
  <1>3. \A f \in Editor : \A d \in calls'[f] :
           d.op \in {"save", "remove", "add", "import"} => d.item \in Item
    BY <1>1 DEF Fresh, Settled
  <1>4. \A f \in Editor : \A d \in calls'[f] :
           Pending(d) => d \in calls[f] /\ d.item # c.item
    BY <1>1, <1>2 DEF Fresh, Settled
  <1>5. \A f \in Editor : \A d \in calls'[f] :
           Pending(d) => d.item \in used' \ rows'
    BY <1>1, <1>4 DEF Fresh
  <1>6. \A f, g \in Editor : \A d \in calls'[f] : \A b \in calls'[g] :
           Pending(d) /\ Pending(b) /\ b.item = d.item => f = g /\ d = b
    BY <1>4 DEF Fresh
  <1>7. QED
    BY <1>3, <1>5, <1>6 DEF Fresh, Pending

-----------------------------------------------------------------------------
(* The steps of a page and the server are quiet or one of a few.            *)
LEMMA StepCases ==
    ASSUME TypeOK, Fresh, [Next]_vars
    PROVE  \/ Quiet
           \/ \E e \in Editor : AddItem(e)
           \/ \E e \in Editor : \E c \in calls[e] :
                 \/ UpdateItem(e, c) \/ DeleteItem(e, c) \/ InsertItem(e, c)
                 \/ NextItemPosition(e, c) \/ BeginReorder(e, c)
           \/ ScanGroup
           \/ Commit
           \/ Rollback
  <1>1. CASE UNCHANGED vars
    BY <1>1 DEF vars, Quiet, TypeOK, table
  <1>2. ASSUME NEW e \in Editor, Click(e)
        PROVE  Quiet \/ AddItem(e)
    BY <1>2, QuietClick DEF Click
  <1>3. ASSUME NEW e \in Editor, NEW c \in calls[e], Handle(e, c)
        PROVE  \/ Quiet \/ UpdateItem(e, c) \/ DeleteItem(e, c) \/ InsertItem(e, c)
               \/ NextItemPosition(e, c) \/ BeginReorder(e, c)
    BY <1>3, QuietServer DEF Handle
  <1>4. QED
    BY <1>1, <1>2, <1>3 DEF Next

LEMMA TypesFreshStep ==
    ASSUME TypeOK, Fresh, [Next]_vars
    PROVE  TypeOK' /\ Fresh'
  <1>1. CASE Quiet
    <2>1. TypeOK' /\ rows' = rows /\ used' = used
      BY <1>1, PagesOnly DEF Quiet, rows, table
    <2>2. QED
      BY <1>1, <2>1, NothingAdded DEF Quiet
  <1>2. ASSUME NEW e \in Editor, AddItem(e)
        PROVE  TypeOK' /\ Fresh'
    BY <1>2, AddStep
  <1>3. ASSUME NEW e \in Editor, NEW c \in calls[e], UpdateItem(e, c)
        PROVE  TypeOK' /\ Fresh'
    <2>1. TypeOK' /\ used' = used /\ rows' = rows /\ Answered(e, c)
      BY <1>3, TypeUpdate DEF UpdateItem, rows
    <2>2. QED
      BY <2>1, AnsweredSettles, NothingAdded
  <1>4. ASSUME NEW e \in Editor, NEW c \in calls[e], DeleteItem(e, c)
        PROVE  TypeOK' /\ Fresh'
    <2>1. TypeOK' /\ used' = used /\ rows' \subseteq rows /\ Answered(e, c)
      BY <1>4, TypeDelete DEF DeleteItem
    <2>2. QED
      BY <2>1, AnsweredSettles, NothingAdded
  <1>5. ASSUME NEW e \in Editor, NEW c \in calls[e], InsertItem(e, c)
        PROVE  TypeOK' /\ Fresh'
    BY <1>5, TypeInsert, InsertStep
  <1>6. ASSUME NEW e \in Editor, NEW c \in calls[e], NextItemPosition(e, c)
        PROVE  TypeOK' /\ Fresh'
    BY <1>6, PositionStep
  <1>7. ASSUME NEW e \in Editor, NEW c \in calls[e], BeginReorder(e, c)
        PROVE  TypeOK' /\ Fresh'
    <2>1. TypeOK' /\ UNCHANGED <<table, calls, used>>
      BY <1>7, TypeBegin
    <2>2. QED
      BY <2>1 DEF Fresh, Pending, rows, table
  <1>8. CASE ScanGroup
    <2>1. TypeOK' /\ UNCHANGED <<table, calls, used>>
      BY <1>8, TypeScan
    <2>2. QED
      BY <2>1 DEF Fresh, Pending, rows, table
  <1>9. CASE Commit \/ Rollback
    <2>1. /\ TypeOK' /\ UNCHANGED <<rowid, used>>
          /\ \A f \in Editor : \A d \in calls'[f] : d \in calls[f]
      BY <1>9, TypeEnd
    <2>2. rows' = rows
      BY <2>1 DEF rows
    <2>3. QED
      BY <2>1, <2>2, NothingAdded
  <1>10. QED
    BY <1>1, <1>2, <1>3, <1>4, <1>5, <1>6, <1>7, <1>8, <1>9, StepCases

(* TypeOK of run item_order for any number of items, editors and requests:  *)
(* rows have rowids of their own, and no row goes while a reorder reads it, *)
(* since UpdateItem, DeleteItem and AddItem wait for its commit.            *)
THEOREM ItemsTyped == Spec => [](TypeOK /\ Fresh)
  <1>1. Init => TypeOK /\ Fresh
    <2>1. SUFFICES ASSUME Init
                   PROVE  TypeOK /\ Fresh
      OBVIOUS
    <2>2. rows = {}
      BY <2>1 DEF Init, rows
    <2>3. <<>> \in Seq(Item) /\ 0 \in 0..MaxPosition
      OBVIOUS
    <2>4. QED
      BY <2>1, <2>2, <2>3 DEF Init, TypeOK, Fresh
  <1>2. TypeOK /\ Fresh /\ [Next]_vars => (TypeOK /\ Fresh)'
    BY TypesFreshStep
  <1>3. QED
    BY <1>1, <1>2, PTL DEF Spec

-----------------------------------------------------------------------------
(* The saved order.                                                         *)

(* A reorder gives the listed rows their places and leaves them there.      *)
LEMMA PlacesStep ==
    ASSUME TypeOK, Fresh, PlacesKept, [Next]_vars
    PROVE  PlacesKept'
  <1>1. ASSUME UNCHANGED <<table, tx>>
        PROVE  PlacesKept'
    BY <1>1 DEF PlacesKept, Listed, rows, table
  <1>2. ASSUME tx' = NULL
        PROVE  PlacesKept'
    BY <1>2 DEF PlacesKept
  <1>3. CASE Quiet
    BY <1>1, <1>3 DEF Quiet
  <1>4. ASSUME NEW e \in Editor, AddItem(e)
        PROVE  PlacesKept'
    BY <1>1, <1>4 DEF AddItem
  <1>5. ASSUME NEW e \in Editor, NEW c \in calls[e],
               UpdateItem(e, c) \/ DeleteItem(e, c) \/ InsertItem(e, c)
        PROVE  PlacesKept'
    BY <1>2, <1>5 DEF UpdateItem, DeleteItem, InsertItem
  <1>6. ASSUME NEW e \in Editor, NEW c \in calls[e], NextItemPosition(e, c)
        PROVE  PlacesKept'
    BY <1>1, <1>6 DEF NextItemPosition
  <1>7. ASSUME NEW e \in Editor, NEW c \in calls[e], BeginReorder(e, c)
        PROVE  PlacesKept'
    <2>1. /\ UNCHANGED table
          /\ \A i \in rows \cap Shown(tx'.list) : tx'.at[i] = Place(tx'.list, i)
      BY <1>7, TypeBegin
    <2>2. rows' = rows /\ Listed' = Shown(tx'.list)
      BY <2>1 DEF rows, Listed, table
    <2>3. QED
      BY <2>1, <2>2 DEF PlacesKept
  <1>8. CASE ScanGroup
    <2>1. /\ UNCHANGED table /\ tx'.list = tx.list /\ tx # NULL
          /\ \A i \in rows \cap Listed : tx'.at[i] = tx.at[i]
      BY <1>8, TypeScan DEF ScanGroup
    <2>2. rows' = rows /\ Listed' = Listed
      BY <2>1 DEF rows, Listed, table
    <2>3. QED
      BY <2>1, <2>2 DEF PlacesKept
  <1>9. CASE Commit \/ Rollback
    BY <1>2, <1>9 DEF Commit, Rollback, EndReorder
  <1>10. QED
    BY <1>3, <1>4, <1>5, <1>6, <1>7, <1>8, <1>9, StepCases

LEMMA OrderStep ==
    ASSUME TypeOK, Fresh, PlacesKept, OrderKept, [Next]_vars
    PROVE  OrderKept'
  <1>1. ASSUME UNCHANGED <<position, saved>>
        PROVE  OrderKept'
    BY <1>1 DEF OrderKept, Before
  <1>2. ASSUME saved' \subseteq saved,
               \A pair \in saved' : /\ position'[pair[1]] = position[pair[1]]
                                    /\ position'[pair[2]] = position[pair[2]]
        PROVE  OrderKept'
    BY <1>2 DEF OrderKept, Before
  <1>3. CASE Quiet
    BY <1>1, <1>3 DEF Quiet, table
  <1>4. ASSUME NEW e \in Editor, AddItem(e)
        PROVE  OrderKept'
    BY <1>1, <1>4 DEF AddItem, table
  <1>5. ASSUME NEW e \in Editor, NEW c \in calls[e],
               UpdateItem(e, c) \/ DeleteItem(e, c)
        PROVE  OrderKept'
    <2>1. saved' \subseteq saved
          /\ \A pair \in saved' : c.item # pair[1] /\ c.item # pair[2]
      BY <1>5 DEF UpdateItem, DeleteItem, Edited
    <2>2. \A i \in Item : i # c.item => position'[i] = position[i]
      BY <1>5 DEF UpdateItem, DeleteItem, TypeOK
    <2>3. \A pair \in saved : pair[1] \in Item /\ pair[2] \in Item
      BY DEF TypeOK, rows
    <2>4. QED
      BY <1>2, <2>1, <2>2, <2>3
  <1>6. ASSUME NEW e \in Editor, NEW c \in calls[e], InsertItem(e, c)
        PROVE  OrderKept'
    <2>1. c.item \in Item /\ c.item \notin rows /\ saved' = saved
      BY <1>6 DEF InsertItem, Fresh, Pending
    <2>2. \A i \in rows : position'[i] = position[i]
      BY <1>6, <2>1 DEF InsertItem, TypeOK, rows
    <2>3. \A pair \in saved : pair[1] \in rows /\ pair[2] \in rows
      BY DEF TypeOK
    <2>4. QED
      BY <1>2, <2>1, <2>2, <2>3
  <1>7. ASSUME NEW e \in Editor, NEW c \in calls[e],
               NextItemPosition(e, c) \/ BeginReorder(e, c)
        PROVE  OrderKept'
    BY <1>1, <1>7 DEF NextItemPosition, BeginReorder, table
  <1>8. CASE ScanGroup
    BY <1>1, <1>8 DEF ScanGroup, table
  <1>9. CASE Commit
    <2>1. /\ tx # NULL /\ tx.list \in Seq(Item) /\ position' = tx.at
          /\ saved' = {pair \in (rows \cap Listed) \X (rows \cap Listed) :
                          FirstMet(tx.list, pair[1]) < FirstMet(tx.list, pair[2])}
      BY <1>9 DEF Commit, EndReorder, TypeOK, TxOK
    <2>2. SUFFICES ASSUME NEW pair \in saved'
                   PROVE  position'[pair[1]] < position'[pair[2]]
      BY DEF OrderKept, Before
    <2>3. /\ pair[1] \in rows \cap Listed /\ pair[2] \in rows \cap Listed
          /\ FirstMet(tx.list, pair[1]) < FirstMet(tx.list, pair[2])
      BY <2>1
    <2>4. Place(tx.list, pair[1]) < Place(tx.list, pair[2])
      BY <2>1, <2>3, Places DEF Listed
    <2>5. QED
      BY <2>1, <2>3, <2>4 DEF PlacesKept
  <1>10. CASE Rollback
    BY <1>1, <1>10 DEF Rollback
  <1>11. QED
    BY <1>3, <1>4, <1>5, <1>6, <1>7, <1>8, <1>9, <1>10, StepCases

(* OrderKept of run item_order for any number of items, editors and         *)
(* requests, and lists with repeated or missing ids: what ReorderItems put  *)
(* in order stays in that order until one of the two items is edited or     *)
(* removed, whatever the scan does to the rows that were not listed.        *)
THEOREM SavedOrderKept == Spec => []OrderKept
  <1>1. Init => PlacesKept /\ OrderKept
    BY DEF Init, PlacesKept, OrderKept
  <1>2. TypeOK /\ Fresh /\ PlacesKept /\ OrderKept /\ [Next]_vars
           => PlacesKept' /\ OrderKept'
    BY PlacesStep, OrderStep
  <1>3. QED
    BY <1>1, <1>2, ItemsTyped, PTL DEF Spec
=============================================================================

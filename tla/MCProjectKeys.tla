---------------------------- MODULE MCProjectKeys ----------------------------
(* ProjectKeys on small sets; valid keys, tabs and forms are interchangeable.*)
EXTENDS ProjectKeys, Naturals, TLC

Symmetry == Permutations(Key \ BadKey) \cup Permutations(Tab)
            \cup Permutations(Form) \cup Permutations(Id)
            \cup Permutations(Scale) \cup Permutations(Dek) \cup Permutations(Rewrap)

(* A bound on what goes on at once: open tabs, re-wraps and the data keys    *)
(* generated so far; one item in a re-wrap, one private key in localStorage. *)
Load ==
    /\ Cardinality({t \in Tab : tab[t].at # "idle"})
       + Cardinality({w \in Rewrap : rewrap[w].at # "idle"})
       + Cardinality(used \cap Dek) <= 3
    /\ \A w \in Rewrap : Cardinality(rewrap[w].left) <= 1
    /\ Cardinality({e \in Entry : storage[e] # NULL}) <= 1
=============================================================================

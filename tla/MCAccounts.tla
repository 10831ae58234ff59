----------------------------- MODULE MCAccounts -----------------------------
(* Accounts on small sets.  Generated ids and addresses are interchangeable:*)
(* the run starts in one of the initial states, the others permute it.      *)
EXTENDS Accounts, TLC

CONSTANTS t1, u1, s1, ann, lower

FoundedInit ==
    /\ Init
    /\ tenants = {t1} /\ scales = {[id |-> s1, tenant |-> t1]}
    /\ \A u \in users : u.id = u1 /\ u.email = [address |-> ann, spelling |-> lower]

FoundedSpec == FoundedInit /\ [][Next]_vars

Requests == Permutations(Slot)
=============================================================================

---------------------------- MODULE MCExportJobs ----------------------------
(* ExportJobs with scales of several tenants.                               *)
EXTENDS ExportJobs, TLC

Owners == CHOOSE f \in [Scale -> Tenant] : \A t \in Tenant : \E s \in Scale : f[s] = t

Symmetry == Permutations(Ip) \cup Permutations(Slot)
=============================================================================

------------------------------ MODULE MCTenancy ------------------------------
(* Instances of the tenancy controllers and caches for TLC.                *)
EXTENDS TenancyController

\* A server without a self pool follows all pools, the inactive one too.
CONSTANT s1
AllPools == s1 :> Pool

Symmetry == Permutations(Path) \cup Permutations(Admin) \cup Permutations(Database) \cup Permutations(ActivePool)

=============================================================================

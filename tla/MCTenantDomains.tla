--------------------------- MODULE MCTenantDomains ---------------------------
EXTENDS TenantDomains, TLC

(* One name without and with www.                                          *)
CONSTANTS shop, wwwShop
SampleTwin == (shop :> wwwShop) @@ (wwwShop :> shop)
SampleDomains == {shop, wwwShop}

(* A fourth change is tried where nothing has been lost before.            *)
FewLosses == edits = MaxEdits => overlapped \cup unmarked \cup raced \cup stale = {}

(* Neither the two names nor two handlers differ.                          *)
Symmetry == {names @@ handlers : names \in Permutations(Domains), handlers \in Permutations(Calls)}
=============================================================================

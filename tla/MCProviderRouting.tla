------------------------- MODULE MCProviderRouting -------------------------
(* Instances of ProviderRouting for TLC. *)
EXTENDS ProviderRouting, TLC

\* Tenants, requests and administrators only differ by name.
Symmetries == Permutations(Tenants) \cup Permutations(Requests) \cup Permutations(Admins)
============================================================================

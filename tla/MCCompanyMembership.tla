------------------------ MODULE MCCompanyMembership ------------------------
(***************************************************************************)
(* Instances of CompanyMembership for TLC.                                 *)
(***************************************************************************)
EXTENDS CompanyMembership, TLC

\* Promotion, demotion and each change of status.
OneField == {[role |-> "OWNER", status |-> Keep], [role |-> "ADMIN", status |-> Keep],
             [role |-> Keep, status |-> "disabled"], [role |-> Keep, status |-> "invited"]}

Symmetry == Permutations(Requests) \cup Permutations(Invitations)
=============================================================================

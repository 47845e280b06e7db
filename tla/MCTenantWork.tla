---------------------------- MODULE MCTenantWork ----------------------------
(***************************************************************************)
(* A small instance of every part of TenantWork, for one run of TLC.       *)
(***************************************************************************)
EXTENDS TenantWork, TLC

MCNames == {[slug |-> "depot", style |-> 1], [slug |-> "depot", style |-> 2], [slug |-> "yard", style |-> 1]}

MCCorners == {<<2, 2>>}

(* One tenant's rows suffice for the comparisons, and the fleets of a      *)
(* browser are alike.                                                      *)
MCInit ==
  /\ SubjectInit
  /\ subject = "comparisons" => s3[2, "w"].role # "member"
  /\ subject = "lists" => s2 = "mine"

MCSpec == MCInit /\ [][SubjectNext]_allVars

MCSymmetry == Permutations(Jobs) \union Permutations(Goroutines)
=============================================================================

------------------------ MODULE MCMemberWriteThrough ------------------------
(* Small instances of MemberWriteThrough for TLC. *)
EXTENDS MemberWriteThrough, TLC

MCSymmetry == Permutations(Editors)
=============================================================================

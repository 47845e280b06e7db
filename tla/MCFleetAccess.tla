---------------------------- MODULE MCFleetAccess ----------------------------
(***************************************************************************)
(* A small instance of every part of FleetAccess, for one run of TLC.      *)
(***************************************************************************)
EXTENDS FleetAccess, TLC

MCAsks == [left  |-> {"latest", "timeseries", "segments", "route", "replay", "download"},
           right |-> {"behavior"}]

MCOwner  == [via |-> "direct", limited |-> FALSE, scope |-> {}, manage |-> TRUE]
MCMember == [via |-> "direct", limited |-> TRUE, scope |-> Groups, manage |-> FALSE]

(* Everybody reaches every vehicle, until something changes. *)
MCInit ==
  /\ SubjectInit
  /\ Truth("authz") = IF managed THEN MCOwner ELSE MCMember
  /\ Truth("active") = [enforced |-> TRUE, tokens |-> Vehicles]
  /\ Truth("index") = [g \in Groups |-> Vehicles]

MCSpec == MCInit /\ [][SubjectNext]_allVars

MCSymmetry == Permutations(Requests)
=============================================================================

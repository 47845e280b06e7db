--------------------------- MODULE ChargingLedger ---------------------------
(***************************************************************************)
(* What the charging cache of one vehicle promises, with no requests, no   *)
(* locks and no telemetry in it: a set of stored sessions and the time     *)
(* recorded as scanned, both behind a settle margin, changed by one atomic *)
(* step per scanned gap.  ChargingScan implements it.                      *)
(***************************************************************************)
EXTENDS TimeCells

CONSTANTS
  Margin,        \* rechargeSettleMargin
  MaxInstant     \* gaps lie in 0 .. MaxInstant

VARIABLES
  clock,         \* wall-clock time
  stored,        \* charging_sessions rows of the vehicle: [from, to]
  covered        \* cells charging_scan_coverage records as scanned

vars == <<clock, stored, covered>>

(* Nothing that ended within the margin of now can be relied on. *)
Settled(instant) == instant + Margin <= clock

Init ==
  /\ clock \in Nat
  /\ stored = {}
  /\ covered = {}

Advance ==
  /\ clock' = clock + 1
  /\ UNCHANGED <<stored, covered>>

(***************************************************************************)
(* One scanned gap.  The sessions starting in it are replaced: what is new *)
(* lies in the gap, is settled, and lies in time now recorded as scanned;  *)
(* what is gone started in the gap.  Scanned time is never forgotten and   *)
(* only grows by settled time of the gap.                                  *)
(***************************************************************************)
Record(gap) ==
  /\ \A r \in stored' \ stored :
       /\ gap.from <= r.from /\ r.to <= gap.to
       /\ Settled(r.to)
       /\ CellsOf(r) \subseteq covered'
  /\ \A r \in stored \ stored' : gap.from <= r.from /\ r.from <= gap.to
  /\ covered \subseteq covered'
  /\ \A c \in covered' \ covered : c \in CellsOf(gap) /\ Settled(c + 1)
  /\ UNCHANGED clock

Next ==
  \/ Advance
  \/ \E from, to \in 0 .. MaxInstant : Record([from |-> from, to |-> to])

Spec == Init /\ [][Next]_vars

=============================================================================

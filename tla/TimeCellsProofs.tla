--------------------------- MODULE TimeCellsProofs ---------------------------
(***************************************************************************)
(* What computeGaps and coalesce promise whoever scans: a window's gaps    *)
(* and what is scanned of it make up the window, for windows of any length *)
(* and any scanned time.                                                   *)
(***************************************************************************)
EXTENDS TimeCells, WellFoundedInduction, TLAPS

-----------------------------------------------------------------------------
(* The ends of a non-empty set of instants. *)

LEMMA EarliestExists ==
  ASSUME NEW S \in SUBSET Nat, S # {}
  PROVE  \E x \in S : \A y \in S : x <= y
<1>1. PICK x \in S : \A y \in S : ~(<<y, x>> \in OpToRel(<, Nat))
  BY NatLessThanWellFounded, WFMin
<1>2. \A y \in S : ~(y < x)
  BY <1>1 DEF OpToRel
<1> QED
  BY <1>2

LEMMA LatestExists ==
  ASSUME NEW S \in SUBSET Nat, S # {}, NEW n \in Nat, \A x \in S : x <= n
  PROVE  \E x \in S : \A y \in S : y <= x
<1> DEFINE below == { d \in Nat : n - d \in S }
<1>1. below # {}
  <2>1. PICK x \in S : TRUE
    OBVIOUS
  <2>2. n - x \in Nat /\ n - (n - x) = x
    BY <2>1
  <2> QED
    BY <2>1, <2>2
<1>2. PICK d \in below : \A e \in below : d <= e
  BY <1>1, EarliestExists
<1>3. \A y \in S : n - y \in below
  OBVIOUS
<1> QED
  BY <1>2, <1>3

-----------------------------------------------------------------------------
(* Gaps lie in their window, so they are intervals of positive length. *)
LEMMA GapsWithin ==
  ASSUME NEW scanned, NEW w, w.from \in Nat, w.to \in Nat, NEW g \in Gaps(scanned, w)
  PROVE  /\ g.from \in Nat /\ g.to \in Nat /\ w.from <= g.from /\ g.from < g.to /\ g.to <= w.to
         /\ g = [from |-> g.from, to |-> g.to]
         /\ CellsOf(g) \subseteq CellsOf(w)
         /\ \A c \in CellsOf(g) : c \notin scanned
BY DEF Gaps, CellsOf

(* What is not scanned of a window is in one of its gaps: computeGaps overlooks nothing. *)
LEMMA GapsOverlookNothing ==
  ASSUME NEW scanned, NEW w, w.from \in Nat, w.to \in Nat, NEW c \in CellsOf(w), c \notin scanned
  PROVE  \E g \in Gaps(scanned, w) : c \in CellsOf(g)
<1> DEFINE starts == { a \in w.from .. c : \A d \in a .. c : d \notin scanned }
           ends   == { b \in (c + 1) .. w.to : \A d \in c .. (b - 1) : d \notin scanned }
<1>1. c \in Nat /\ w.from <= c /\ c < w.to
  BY DEF CellsOf
<1>2. c \in starts /\ starts \in SUBSET Nat
  BY <1>1
<1>3. c + 1 \in ends /\ ends \in SUBSET Nat /\ \A b \in ends : b <= w.to
  BY <1>1
<1>4. PICK a \in starts : \A x \in starts : a <= x
  BY <1>2, EarliestExists
<1>5. PICK b \in ends : \A y \in ends : y <= b
  BY <1>3, LatestExists
<1> DEFINE g == [from |-> a, to |-> b]
<1>6. a \in Nat /\ b \in Nat /\ w.from <= a /\ a <= c /\ c < b /\ b <= w.to
  BY <1>1
<1>7. \A d \in CellsOf(g) : d \notin scanned
  BY <1>1, <1>6 DEF CellsOf
<1>8. a = w.from \/ (a - 1) \in scanned
  <2>1. SUFFICES ASSUME a # w.from, (a - 1) \notin scanned
                 PROVE  FALSE
    OBVIOUS
  <2>2. a - 1 \in w.from .. c /\ \A d \in (a - 1) .. c : d = a - 1 \/ d \in a .. c
    BY <1>1, <1>6, <2>1
  <2>3. a - 1 \in starts
    BY <2>1, <2>2
  <2> QED
    BY <1>4, <1>6, <2>3
<1>9. b = w.to \/ b \in scanned
  <2>1. SUFFICES ASSUME b # w.to, b \notin scanned
                 PROVE  FALSE
    OBVIOUS
  <2>2. b + 1 \in (c + 1) .. w.to /\ \A d \in c .. b : d = b \/ d \in c .. (b - 1)
    BY <1>1, <1>6, <2>1
  <2>3. b + 1 \in ends
    BY <1>6, <2>1, <2>2
  <2> QED
    BY <1>5, <1>6, <2>3
<1>10. g \in Gaps(scanned, w)
  BY <1>1, <1>6, <1>7, <1>8, <1>9 DEF Gaps
<1>11. c \in CellsOf(g)
  BY <1>1, <1>6 DEF CellsOf
<1> QED
  BY <1>10, <1>11

=============================================================================

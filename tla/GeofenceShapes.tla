--------------------------- MODULE GeofenceShapes ---------------------------
(***************************************************************************)
(* The polygon of a geofence and the sweep of a vehicle's samples over it  *)
(* (geofence.go, geofence_detection.go).  A polygon is stored after        *)
(* polygonAreaM2 has measured it and used after parsePolygonRings has read *)
(* it again; the sweep asks of every sample whether it is inside and keeps *)
(* of each run of those a pass, with its speed and its engine time.        *)
(*                                                                         *)
(* Positions are those of a small grid, near the equator and with an earth *)
(* of radius 1, so that a sine is its angle; a sample's place in the       *)
(* sequence is its time.                                                   *)
(***************************************************************************)
EXTENDS Integers, FiniteSets, SequencesExt

CONSTANTS
  Grid,        \* coordinates of corners
  Probes,      \* coordinates of samples
  Corners,     \* where a polygon of four corners begins
  MaxSamples   \* bound: samples of a sweep

VARIABLES
  geometry,    \* what a request carries: [type, rings]
  samples      \* the fixes, each [at, speed, obd], 0 for a missing reading

shapeVars == <<geometry, samples>>

Position(p) == Len(p) >= 2

(* The edge that ends in corner i; the first one begins in the last. *)
Edge(ring, i) == [from |-> ring[IF i = 1 THEN Len(ring) ELSE i - 1], to |-> ring[i]]

-----------------------------------------------------------------------------
(* polygonAreaM2: what it refuses, and the area it stores. *)

(* Mutant: the positions of holes are not looked at. *)
OuterWellFormed(g) ==
  /\ g.type = "Polygon" /\ g.rings # <<>>
  /\ Len(g.rings[1]) >= 4
  /\ \A i \in DOMAIN g.rings[1] : Position(g.rings[1][i])

WellFormed(g) ==
  /\ g.type = "Polygon" /\ g.rings # <<>>
  /\ Len(g.rings[1]) >= 4
  /\ \A r \in DOMAIN g.rings : \A i \in DOMAIN g.rings[r] : Position(g.rings[r][i])

(* Twice the area, signed by the direction; each edge counts its width     *)
(* times the sines of both of its latitudes.                               *)
ringAreaM2(ring) ==
  IF Len(ring) < 3 THEN 0
  ELSE FoldFunction(+, 0, [i \in DOMAIN ring |->
         LET e == Edge(ring, i) IN (e.to[1] - e.from[1]) * (2 + e.from[2] + e.to[2])])

Absolute(n) == IF n < 0 THEN -n ELSE n

polygonAreaM2(g) ==
  Absolute(ringAreaM2(Head(g.rings)) - FoldFunction(+, 0, [i \in DOMAIN Tail(g.rings) |-> ringAreaM2(Tail(g.rings)[i])]))

-----------------------------------------------------------------------------
(* pointInPolygon, by rays to the east. *)

Readable(g) == g.type = "Polygon" /\ g.rings # <<>> /\ Len(g.rings[1]) >= 4

parsePolygonRings(g) == IF Readable(g) THEN g.rings ELSE <<>>

(* Mutant: an edge takes both of its ends. *)
CrossesBothEnds(p, e) ==
  LET rise == e.to[2] - e.from[2]
      left == (p[1] - e.from[1]) * rise
      line == (e.to[1] - e.from[1]) * (p[2] - e.from[2])
  IN  \/ e.from[2] >= p[2] /\ p[2] >= e.to[2] /\ left > line
      \/ e.from[2] <= p[2] /\ p[2] <= e.to[2] /\ left < line

(* One end is above the point, the other is not, and the edge is east of   *)
(* it; the quotient of the code is multiplied out.                         *)
Crosses(p, e) ==
  LET rise == e.to[2] - e.from[2]
      left == (p[1] - e.from[1]) * rise
      line == (e.to[1] - e.from[1]) * (p[2] - e.from[2])
  IN  \/ e.from[2] > p[2] /\ p[2] >= e.to[2] /\ left > line
      \/ e.from[2] <= p[2] /\ p[2] < e.to[2] /\ left < line

rayCast(p, ring) == Cardinality({ i \in DOMAIN ring : Crosses(p, Edge(ring, i)) }) % 2 = 1

pointInPolygon(p, rings) ==
  /\ rings # <<>> /\ rayCast(p, rings[1])
  /\ \A i \in DOMAIN rings \ {1} : ~rayCast(p, rings[i])

-----------------------------------------------------------------------------
(* detectPasses: a sweep that keeps the pass it is in, if any. *)

Fresh(t) == [entered |-> t, exited |-> t, count |-> 0, top |-> 0, topAt |-> 0,
             first |-> 0, last |-> 0, readings |-> 0]

(* Mutant: the latest of the readings is the pass's speed. *)
TakesLast(pass, t, s) ==
  [pass EXCEPT !.exited = t, !.count = @ + 1,
     !.top = IF s.speed > 0 THEN s.speed ELSE @, !.topAt = IF s.speed > 0 THEN t ELSE @,
     !.first = IF @ = 0 THEN s.obd ELSE @, !.last = IF s.obd > 0 THEN s.obd ELSE @,
     !.readings = @ + (IF s.obd > 0 THEN 1 ELSE 0)]

Takes(pass, t, s) ==
  [pass EXCEPT !.exited = t, !.count = @ + 1,
     !.top = IF s.speed > @ THEN s.speed ELSE @, !.topAt = IF s.speed > pass.top THEN t ELSE @,
     !.first = IF @ = 0 THEN s.obd ELSE @, !.last = IF s.obd > 0 THEN s.obd ELSE @,
     !.readings = @ + (IF s.obd > 0 THEN 1 ELSE 0)]

Sweep(walk, t, s, rings) ==
  IF pointInPolygon(s.at, rings)
  THEN [walk EXCEPT !.in = TRUE, !.now = Takes(IF walk.in THEN @ ELSE Fresh(t), t, s)]
  ELSE [in |-> FALSE, now |-> walk.now, done |-> IF walk.in THEN Append(walk.done, walk.now) ELSE walk.done]

detectPasses(fixes, rings) ==
  LET walk == FoldLeftDomain(LAMBDA w, t : Sweep(w, t, fixes[t], rings),
                             [in |-> FALSE, now |-> Fresh(0), done |-> <<>>], fixes)
  IN  IF walk.in THEN Append(walk.done, walk.now) ELSE walk.done

(* None of fewer than two readings, or if the last is below the first. *)
engineRuntimeS(pass) ==
  IF pass.readings < 2 \/ pass.last < pass.first THEN {} ELSE {pass.last - pass.first}

(* What is listed for a window: the passes that touch it, and of each      *)
(* whether it broke the limit there is now, 0 being none.                  *)
speedExceeded(pass, limit) == limit > 0 /\ pass.top > 0 /\ pass.top > limit

Summary(pass, limit) == [pass |-> pass, exceeded |-> speedExceeded(pass, limit)]

readCrossings(rows, limit, from, to) ==
  { Summary(rows[i], limit) : i \in { j \in DOMAIN rows : rows[j].entered <= to /\ rows[j].exited >= from } }

-----------------------------------------------------------------------------
Spots == Probes \X Probes
At(x, y) == <<x, y>>

Triangles == { <<a, b, c, a>> : a, b, c \in Grid \X Grid }
Quads     == { <<a, b, c, d, a>> : a \in Corners, b, c, d \in Grid \X Grid }
Big == LET hi == CHOOSE x \in Grid : \A y \in Grid : y <= x
       IN  <<At(0, 0), At(hi, 0), At(hi, hi), At(0, hi), At(0, 0)>>

(* Also no polygons, too few positions, and positions of one coordinate. *)
Rings == Triangles \union Quads
Requests ==
  [type : {"Polygon"}, rings : { <<r>> : r \in Rings } \union { <<Big, r>> : r \in Triangles }]
    \union [type : {"Polygon", "Point"},
            rings : {<<>>, <<Big>>, <<Tail(Tail(Big))>>, <<Big, << <<1>> >> >>, <<Big, <<>> >>}]

Driven == [type |-> "Polygon", rings |-> <<Big>>]

Init == geometry \in Requests /\ samples = <<>>

Sample ==
  /\ geometry = Driven /\ Len(samples) < MaxSamples
  /\ \E at \in {At(1, 1), At(-1, 1)}, speed, obd \in 0..2 :
       samples' = Append(samples, [at |-> at, speed |-> speed, obd |-> obd])
  /\ UNCHANGED geometry

Next == Sample

Spec == Init /\ [][Next]_shapeVars

-----------------------------------------------------------------------------
(* Types. *)
TypeOK == Len(samples) <= MaxSamples /\ geometry.type \in {"Polygon", "Point"}

Turn(a, b, p) == (b[1] - a[1]) * (p[2] - a[2]) - (b[2] - a[2]) * (p[1] - a[1])
Within(p, t) == \A i \in 2..4 : Turn(t[i-1], t[i], p) * Turn(t[1], t[2], t[3]) > 0
OnEdge(p, ring) == \E i \in 2..Len(ring) : Turn(ring[i-1], ring[i], p) = 0

(* Whatever is stored can be used: what polygonAreaM2 lets through,        *)
(* parsePolygonRings reads, with two coordinates in every position; and    *)
(* its area is the half of the turns of its outer ring, less, for a hole   *)
(* that runs the same way, those of the hole.                              *)
StoredIsUsable ==
  WellFormed(geometry) =>
    LET rings == parsePolygonRings(geometry)
        Turns(r) == FoldFunction(+, 0, [i \in 2..Len(r) |-> Turn(r[1], r[i-1], r[i])])
    IN  /\ rings # <<>>
        /\ \A r \in DOMAIN rings : \A i \in DOMAIN rings[r] : Position(rings[r][i])
        /\ Len(rings) = 1 => polygonAreaM2(geometry) = Absolute(Turns(rings[1]))
        /\ Len(rings) = 2 /\ Turns(rings[1]) * Turns(rings[2]) >= 0 =>
             polygonAreaM2(geometry) = Absolute(Absolute(Turns(rings[1])) - Absolute(Turns(rings[2])))

(* A triangle holds just what is on the same side of all its edges; and    *)
(* fences that share an edge share no sample and lose none: a polygon cut  *)
(* in two by a diagonal has in it what exactly one of its parts has, also  *)
(* on the cut and at the corners; a hole takes out what it holds.          *)
EveryFixIsInOne ==
  WellFormed(geometry) =>
    \A p \in Spots :
      LET rings == geometry.rings
          q     == rings[1]
      IN  /\ Len(q) = 4 /\ ~OnEdge(p, q) => rayCast(p, q) = Within(p, q)
          /\ Len(q) = 5 =>
               rayCast(p, q) = (rayCast(p, <<q[1], q[2], q[3], q[1]>>) # rayCast(p, <<q[1], q[3], q[4], q[1]>>))
          /\ Len(rings) = 2 =>
               pointInPolygon(p, rings) = (rayCast(p, q) /\ ~rayCast(p, rings[2]))

(* The passes are the maximal runs inside, in order, each with the samples *)
(* it has and the place of its top speed; a listed pass exceeds the limit  *)
(* if one of its samples does, a window lists the passes of all samples in *)
(* it and none that it does not touch, and an engine time comes of two     *)
(* readings at least and is never negative.                                *)
PassesAreRuns ==
  samples # <<>> =>
    LET times  == DOMAIN samples
        found  == detectPasses(samples, parsePolygonRings(geometry))
        In(t)  == pointInPolygon(samples[t].at, geometry.rings)
        Of(p)  == p.entered .. p.exited
    IN  /\ \A t \in times : Cardinality({ i \in DOMAIN found : t \in Of(found[i]) }) = (IF In(t) THEN 1 ELSE 0)
        /\ \A i \in DOMAIN found :
             LET p == found[i]
             IN  /\ ~(p.entered - 1 \in times /\ In(p.entered - 1))
                 /\ p.count = Cardinality(Of(p))
                 /\ \A t \in Of(p) : samples[t].speed <= p.top
                 /\ p.top > 0 => p.topAt \in Of(p) /\ samples[p.topAt].speed = p.top
                 /\ i > 1 => found[i-1].exited < p.entered
                 /\ \A d \in engineRuntimeS(p) :
                      d >= 0 /\ Cardinality({ t \in Of(p) : samples[t].obd > 0 }) >= 2
        /\ \A from, to \in times, limit \in 0..1 : from <= to =>
             LET listed == readCrossings(found, limit, from, to)
             IN  /\ \A t \in from..to : In(t) => \E c \in listed : t \in Of(c.pass)
                 /\ \A c \in listed :
                      /\ Of(c.pass) \intersect (from..to) # {}
                      /\ c.exceeded = (limit > 0 /\ \E t \in Of(c.pass) : samples[t].speed > limit)
=============================================================================

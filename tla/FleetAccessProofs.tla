-------------------------- MODULE FleetAccessProofs --------------------------
(***************************************************************************)
(* Proofs about FleetAccess, for any vehicles, groups, requests, members,  *)
(* lifetimes and changes of the truth.  The first part is about its subject *)
(* "reach", which is FleetScope: a request is judged when it replies, by   *)
(* answers it took at different times from caches filled by others; the    *)
(* inductive invariant says at every step why what it has found out so far *)
(* was true recently: how old an answer can be that is held or under way,  *)
(* and, leg by leg, which recent answer allows what is left of the set.    *)
(* The other parts are about one instance each, and the last one about the *)
(* composition: a step of one part leaves the others' state alone.         *)
(***************************************************************************)
EXTENDS FleetAccess, FiniteSetTheorems, WellFoundedInduction, TLAPS

AnyValue == UNION { ValuesOf(leg) : leg \in Legs }

Asking == [kind : Kinds \union {"none"}, v : Vehicles \union {"none"}, g : Groups \union {"none"},
           set : SUBSET Vehicles, limited : BOOLEAN, scope : SUBSET Groups,
           ver : Nat, owes : Nat]

(* Versions and ticks are numbers, in the places the module gives them. *)
Running ==
  /\ pc \in [Requests -> Stages]
  /\ fetch \in [Requests -> [ver : Nat, age : 0..FetchTime]]
  /\ req \in [Requests -> Asking]
  /\ low \in [Requests -> [Legs -> Nat]]

Shapes ==
  /\ managed \in BOOLEAN
  /\ log \in [Legs -> Seq(AnyValue)] /\ since \in [Legs -> Seq(0..Window)]
  /\ cache \in [Legs -> [ver : Nat, left : 0..TTL]]
  /\ Running
  /\ owed \in Nat /\ changes \in Nat /\ overlap \in 0..1

(* Each leg has values of its own, and a time for each; the last one is true. *)
LogHolds ==
  \A leg \in Legs :
    /\ Len(log[leg]) >= 1 /\ Len(since[leg]) = Len(log[leg])
    /\ since[leg][Len(log[leg])] = 0
    /\ \A i \in 1..Len(log[leg]) : log[leg][i] \in ValuesOf(leg)

(* A held answer is no older than the call and the ticks it was kept, and  *)
(* the index no older than what is owed to a new request.                  *)
HeldIsFresh ==
  \A leg \in Legs :
    LET held == cache[leg]
    IN  /\ held.ver <= Now(leg)
        /\ held.left > 0 =>
             /\ held.ver >= 1
             /\ held.ver = Now(leg) \/ since[leg][held.ver] + held.left <= Window
             /\ leg = "index" => held.ver >= owed

OwedIsKnown == owed >= 1 /\ owed <= Now("index")

(* An answer under way is no older than the call. *)
CallIsFresh(r) ==
  LET leg == Leg(pc[r])
      ver == fetch[r].ver
  IN  ver > 0 =>
        /\ pc[r] \in Consults /\ ver <= Now(leg)
        /\ ver = Now(leg) \/ since[leg][ver] <= fetch[r].age
        /\ leg = "index" => ver >= owed
        /\ pc[r] = "view" => ver >= req[r].owes

(* What a request may not go by is out of the window for good. *)
LowIsLow(r) ==
  \A leg \in Legs :
    /\ low[r][leg] >= 1 /\ low[r][leg] <= Now(leg)
    /\ \A i \in 1..Now(leg) : i < low[r][leg] => since[leg][i] = Window

(* The kind of a request, and of its tenant, says which stages it comes through. *)
KindFits(r) ==
  /\ pc[r] = "rows" => ~managed
  /\ pc[r] # "idle" => req[r].kind \in Kinds
  /\ pc[r] \in {"entitled", "active", "index", "rows", "chips"} => req[r].kind = "list"
  /\ pc[r] = "view" => req[r].kind = "groups"
  /\ pc[r] = "existed" => req[r].kind = "assign"
  /\ pc[r] \in {"write", "invalidate"} => req[r].kind \in {"assign", "rename", "drop"}
  /\ pc[r] = "readback" => req[r].kind = "rename"
  /\ req[r].kind = "assign" => req[r].v \in Vehicles
  /\ req[r].kind \in {"assign", "rename", "drop"} => req[r].g \in Groups

(* The authz answer a request has gone by since. *)
WasAdmitted(r) ==
  pc[r] \notin {"idle", "authz"} =>
    \E i \in 1..Now("authz") :
      LET a == log["authz"][i]
      IN  /\ i >= low[r]["authz"] /\ Admitted(req[r].kind, a)
          /\ req[r].limited = a.limited /\ req[r].scope = a.scope

(* The set of a list is within what the legs it has consulted allow. *)
WithinEntitled(r) ==
  req[r].kind = "list" /\ (pc[r] \in {"chips", "reply"} \/ (managed /\ pc[r] \in {"active", "index"})) =>
    \E i \in 1..Now("entitled") :
      i >= low[r]["entitled"] /\ req[r].set \subseteq log["entitled"][i]

WithinActive(r) ==
  req[r].kind = "list" /\ pc[r] \in {"index", "rows", "chips", "reply"} =>
    \E i \in 1..Now("active") :
      LET m == log["active"][i]
      IN  i >= low[r]["active"] /\ (m.enforced => req[r].set \subseteq m.tokens)

WithinScope(r) ==
  req[r].kind = "list" /\ req[r].limited /\ pc[r] \in {"rows", "chips", "reply"} =>
    \E i \in 1..Now("index") :
      /\ i >= low[r]["index"]
      /\ req[r].set \subseteq TokenIDsForGroups(log["index"][i], req[r].scope)

(* What a request was served is what it is owed, but for a read back. *)
ServedInOrder(r) ==
  /\ req[r].ver <= Now("index") /\ req[r].owes <= Now("index")
  /\ req[r].kind # "groups" => req[r].owes <= owed
  /\ pc[r] # "readback" /\ req[r].ver > 0 => req[r].ver >= req[r].owes

Fits(r) ==
  /\ CallIsFresh(r) /\ LowIsLow(r) /\ KindFits(r)
  /\ WasAdmitted(r) /\ WithinEntitled(r) /\ WithinActive(r) /\ WithinScope(r)
  /\ ServedInOrder(r)

IInv ==
  /\ Shapes /\ LogHolds /\ OwedIsKnown /\ HeldIsFresh
  /\ \A r \in Requests : Fits(r)

-----------------------------------------------------------------------------
(* Operators *)

(* A nonempty set of numbers has a least one. *)
LEMMA LeastExists ==
  ASSUME NEW S, S \subseteq Nat, S # {}
  PROVE  \E m \in S : \A k \in S : m <= k
<1>1. PICK m \in S : \A k \in S : ~ <<k, m>> \in OpToRel(<, Nat)
  BY NatLessThanWellFounded, WFMin
<1>2. \A k \in S : ~(k < m)
  BY <1>1 DEF OpToRel
<1>. QED
  BY <1>2

(* Oldest names a version, and everything before it is out of the window. *)
LEMMA OldestIs ==
  ASSUME Shapes, LogHolds, NEW leg \in Legs
  PROVE  /\ Oldest(leg) \in 1..Now(leg)
         /\ \A i \in 1..Now(leg) : i < Oldest(leg) => since[leg][i] >= Window
<1>. DEFINE S == { i \in 1..Now(leg) : i = Now(leg) \/ since[leg][i] < Window }
            P(i) == /\ i = Now(leg) \/ since[leg][i] < Window
                    /\ \A j \in 1..(i - 1) : since[leg][j] >= Window
<1>1. Now(leg) \in Nat /\ Now(leg) >= 1
  BY DEF Shapes, Running, LogHolds, Now
<1>2. Window \in Nat /\ \A i \in 1..Now(leg) : since[leg][i] \in 0..Window
  BY TicksAssumption DEF Shapes, Running, LogHolds, Now, Window
<1>3. PICK m \in S : \A k \in S : m <= k
  <2>1. Now(leg) \in S /\ S \subseteq Nat
    BY <1>1
  <2>. QED
    BY <2>1, LeastExists
<1>4. m \in 1..Now(leg) /\ P(m)
  <2>1. \A j \in 1..(m - 1) : j \in 1..Now(leg) /\ j # Now(leg) /\ j \notin S
    BY <1>1, <1>3
  <2>2. \A j \in 1..(m - 1) : since[leg][j] >= Window
    BY <2>1, <1>2
  <2>. QED
    BY <1>3, <2>2
<1>5. Oldest(leg) = CHOOSE i \in 1..Now(leg) : P(i)
  BY DEF Oldest
<1>6. Oldest(leg) \in 1..Now(leg) /\ P(Oldest(leg))
  BY <1>4, <1>5
<1>. QED
  BY <1>1, <1>6

LEMMA LegIsLeg == \A stage \in Consults : Leg(stage) \in Legs
BY DEF Leg, Consults, Legs

LEMMA ValuesAre ==
  /\ ValuesOf("authz") = Answers /\ ValuesOf("entitled") = SUBSET Vehicles
  /\ ValuesOf("active") = Memberships /\ ValuesOf("index") = [Groups -> SUBSET Vehicles]
BY DEF ValuesOf

LEMMA AnswerFields ==
  \A a \in Answers : a.limited \in BOOLEAN /\ a.scope \in SUBSET Groups /\ (~a.limited => a.scope = {})
BY DEF Answers

-----------------------------------------------------------------------------
(* Steps that leave a request alone *)

(* The truth may have moved on; what it was, and when, stands. *)
Grown ==
  /\ managed' = managed
  /\ \A leg \in Legs :
       /\ Len(log[leg]) <= Len(log'[leg])
       /\ \A i \in 1..Len(log[leg]) : log'[leg][i] = log[leg][i] /\ since'[leg][i] = since[leg][i]

Alone(r) == pc'[r] = pc[r] /\ fetch'[r] = fetch[r] /\ req'[r] = req[r] /\ low'[r] = low[r]

Others(r) == \A s \in Requests : s # r => Alone(s)

(* The numbers the leaves below are about. *)
LEMMA Numbers ==
  ASSUME Shapes, LogHolds
  PROVE  /\ TTL \in Nat /\ TTL > 0 /\ FetchTime \in Nat /\ Window \in Nat
         /\ TTL <= Window /\ FetchTime < Window /\ Window = TTL + FetchTime
         /\ \A leg \in Legs :
              /\ Now(leg) = Len(log[leg]) /\ Now(leg) \in Nat /\ Now(leg) >= 1
              /\ since[leg][Now(leg)] = 0
              /\ \A i \in 1..Now(leg) : since[leg][i] \in 0..Window
              /\ \A i \in 1..Now(leg) : since[leg][i] \in Int /\ since[leg][i] >= 0 /\ since[leg][i] <= Window
         /\ "index" \in Legs /\ "authz" \in Legs /\ "entitled" \in Legs /\ "active" \in Legs
<1>1. \A leg \in Legs : Len(log[leg]) \in Nat /\ \A i \in 1..Len(since[leg]) : since[leg][i] \in 0..Window
  <2>1. ASSUME NEW S, NEW s \in Seq(S)
        PROVE  Len(s) \in Nat /\ \A i \in 1..Len(s) : s[i] \in S
    OBVIOUS
  <2>2. \A leg \in Legs : log[leg] \in Seq(AnyValue) /\ since[leg] \in Seq(0..Window)
    BY DEF Shapes, Running
  <2>. QED
    BY <2>1, <2>2
<1>. QED
  BY <1>1, TicksAssumption DEF LogHolds, Now, Window, Legs

LEMMA NowGrows ==
  ASSUME Shapes, LogHolds, Shapes', Grown, NEW leg \in Legs
  PROVE  /\ Now(leg)' \in Nat /\ Now(leg) <= Now(leg)'
         /\ \A i \in 1..Now(leg) :
              i \in 1..Now(leg)' /\ log'[leg][i] = log[leg][i] /\ since'[leg][i] = since[leg][i]
<1>1. Len(log[leg]) \in Nat /\ Len(log'[leg]) \in Nat
  BY DEF Shapes, Running
<1>. QED
  BY <1>1 DEF Grown, Now

LEMMA HeldKept ==
  ASSUME IInv, Shapes', Grown, cache' = cache, owed' = owed
  PROVE  HeldIsFresh'
<1>. SUFFICES ASSUME NEW leg \in Legs
              PROVE  /\ cache[leg].ver <= Now(leg)'
                     /\ cache[leg].left > 0 =>
                          /\ cache[leg].ver >= 1
                          /\ cache[leg].ver = Now(leg)' \/ since'[leg][cache[leg].ver] + cache[leg].left <= Window
                          /\ leg = "index" => cache[leg].ver >= owed
  BY DEF HeldIsFresh, Now, Window
<1>1. Shapes /\ LogHolds /\ HeldIsFresh
  BY DEF IInv
<1>2. cache[leg].ver \in Nat /\ cache[leg].left \in 0..TTL
  BY <1>1 DEF Shapes, Running
<1>3. /\ cache[leg].ver <= Now(leg)
      /\ cache[leg].left > 0 =>
           /\ cache[leg].ver >= 1
           /\ cache[leg].ver = Now(leg) \/ since[leg][cache[leg].ver] + cache[leg].left <= Window
           /\ leg = "index" => cache[leg].ver >= owed
  BY <1>1 DEF HeldIsFresh
<1>4. since[leg][Now(leg)] = 0 /\ Now(leg) \in Nat /\ Now(leg) >= 1 /\ TTL <= Window /\ Window \in Nat
  BY <1>1, Numbers
<1>5. /\ Now(leg)' \in Nat /\ Now(leg) <= Now(leg)'
      /\ \A i \in 1..Now(leg) : since'[leg][i] = since[leg][i]
  BY <1>1, NowGrows
<1>. QED
  BY <1>2, <1>3, <1>4, <1>5, TicksAssumption

LEMMA CallKept ==
  ASSUME IInv, Shapes', Grown, owed' = owed, NEW r \in Requests,
         fetch'[r] = fetch[r], pc'[r] = pc[r], req'[r].owes = req[r].owes
  PROVE  CallIsFresh(r)'
<1>1. Shapes /\ LogHolds /\ CallIsFresh(r)
  BY DEF IInv, Fits
<1>2. fetch[r].ver \in Nat /\ fetch[r].age \in 0..FetchTime
  BY <1>1 DEF Shapes, Running
<1>3. CASE ~(fetch[r].ver > 0)
  BY <1>3 DEF CallIsFresh
<1>4. CASE fetch[r].ver > 0
  <2>1. pc[r] \in Consults
    BY <1>1, <1>4 DEF CallIsFresh
  <2>2. PICK leg \in Legs : leg = Leg(pc[r])
    BY <2>1, LegIsLeg
  <2>3. /\ fetch[r].ver <= Now(leg)
        /\ fetch[r].ver = Now(leg) \/ since[leg][fetch[r].ver] <= fetch[r].age
        /\ leg = "index" => fetch[r].ver >= owed
        /\ pc[r] = "view" => fetch[r].ver >= req[r].owes
    BY <1>1, <1>4, <2>2 DEF CallIsFresh
  <2>4. since[leg][Now(leg)] = 0 /\ Now(leg) \in Nat /\ Now(leg) >= 1
    BY <1>1, Numbers
  <2>5. /\ Now(leg)' \in Nat /\ Now(leg) <= Now(leg)'
        /\ \A i \in 1..Now(leg) : since'[leg][i] = since[leg][i]
    BY <1>1, NowGrows
  <2>6. fetch[r].ver <= Now(leg)' /\ (fetch[r].ver = Now(leg)' \/ since'[leg][fetch[r].ver] <= fetch[r].age)
    BY <1>2, <1>4, <2>3, <2>4, <2>5, TicksAssumption
  <2>7. leg = Leg(pc[r])'
    BY <2>2 DEF Leg
  <2>. QED
    BY <2>1, <2>3, <2>6, <2>7 DEF CallIsFresh
<1>. QED
  BY <1>3, <1>4

LEMMA LowKept ==
  ASSUME IInv, Shapes', Grown, NEW r \in Requests, low'[r] = low[r]
  PROVE  LowIsLow(r)'
<1>1. Shapes /\ LogHolds /\ LowIsLow(r)
  BY DEF IInv, Fits
<1>2. SUFFICES ASSUME NEW leg \in Legs
               PROVE  /\ low[r][leg] >= 1 /\ low[r][leg] <= Now(leg)'
                      /\ \A i \in 1..Now(leg)' : i < low[r][leg] => since'[leg][i] = Window
  BY DEF LowIsLow, Now, Window
<1>3. /\ low[r][leg] \in Nat /\ low[r][leg] >= 1 /\ low[r][leg] <= Now(leg)
      /\ \A i \in 1..Now(leg) : i < low[r][leg] => since[leg][i] = Window
  BY <1>1 DEF LowIsLow, Shapes, Running
<1>4. Now(leg) \in Nat /\ Now(leg) >= 1
  BY <1>1, Numbers
<1>5. /\ Now(leg)' \in Nat /\ Now(leg) <= Now(leg)'
      /\ \A i \in 1..Now(leg) : since'[leg][i] = since[leg][i]
  BY <1>1, NowGrows
<1>. QED
  BY <1>3, <1>4, <1>5

(* What a request found out stays true recently. *)
LEMMA FoundKept ==
  ASSUME IInv, Shapes', Grown, owed <= owed', NEW r \in Requests,
         pc'[r] = pc[r], req'[r] = req[r], low'[r] = low[r]
  PROVE  /\ KindFits(r)' /\ WasAdmitted(r)' /\ WithinEntitled(r)'
         /\ WithinActive(r)' /\ WithinScope(r)' /\ ServedInOrder(r)'
<1>1. Shapes /\ LogHolds /\ Fits(r)
  BY DEF IInv
<1>2. \A leg \in Legs : \A i \in 1..Now(leg) : i \in 1..Now(leg)' /\ log'[leg][i] = log[leg][i]
  BY <1>1, NowGrows
<1>3. "index" \in Legs /\ "authz" \in Legs /\ "entitled" \in Legs /\ "active" \in Legs
  BY DEF Legs
<1>4. managed' = managed
  BY DEF Grown
<1>5. KindFits(r)'
  BY <1>1, <1>4 DEF KindFits, Fits
<1>6. WasAdmitted(r)'
  BY <1>1, <1>2, <1>3 DEF WasAdmitted, Fits
<1>7. WithinEntitled(r)'
  BY <1>1, <1>2, <1>3, <1>4 DEF WithinEntitled, Fits
<1>8. WithinActive(r)'
  BY <1>1, <1>2, <1>3 DEF WithinActive, Fits
<1>9. WithinScope(r)'
  BY <1>1, <1>2, <1>3 DEF WithinScope, Fits
<1>10. ServedInOrder(r)'
  <2>1. Now("index") \in Nat /\ Now("index")' \in Nat /\ Now("index") <= Now("index")'
    BY <1>1, <1>3, NowGrows, Numbers
  <2>2. req[r].ver \in Nat /\ req[r].owes \in Nat /\ owed \in Nat /\ owed' \in Nat
    BY <1>1 DEF Shapes, Running, Asking
  <2>. QED
    BY <1>1, <2>1, <2>2 DEF ServedInOrder, Fits
<1>. QED
  BY <1>5, <1>6, <1>7, <1>8, <1>9, <1>10

LEMMA OthersKept ==
  ASSUME IInv, Shapes', Grown, owed' = owed, NEW r \in Requests, Alone(r)
  PROVE  Fits(r)'
<1>1. owed \in Nat /\ owed <= owed'
  BY DEF IInv, Shapes, Running
<1>. QED
  BY <1>1, CallKept, LowKept, FoundKept DEF Alone, Fits

(* A request that ended knows nothing and is owed nothing. *)
LEMMA EndedFits ==
  ASSUME \A leg \in Legs : Now(leg)' \in Nat /\ Now(leg)' >= 1,
         owed' >= 0, NEW r \in Requests,
         pc'[r] = "idle", req'[r] = Idle, fetch'[r] = NoFetch, low'[r] = First
  PROVE  Fits(r)'
<1>2. CallIsFresh(r)'
  BY DEF CallIsFresh, NoFetch
<1>3. LowIsLow(r)'
  BY DEF LowIsLow, First
<1>4. ServedInOrder(r)'
  BY DEF ServedInOrder, Idle, Legs
<1>. QED
  BY <1>2, <1>3, <1>4
  DEF Fits, KindFits, WasAdmitted, WithinEntitled, WithinActive, WithinScope, Idle

-----------------------------------------------------------------------------
(* What an answer does to a request *)

LEMMA LearnIs ==
  ASSUME NEW q \in Asking, NEW stage \in Consults, NEW ver \in Nat, NEW a \in ValuesOf(Leg(stage))
  PROVE  LET l == Learn(q, stage, ver, a)
         IN  /\ l \in Asking
             /\ l.kind = q.kind /\ l.v = q.v /\ l.g = q.g /\ l.owes = q.owes
             /\ stage = "authz" => l.limited = a.limited /\ l.scope = a.scope /\ l.set = q.set
             /\ stage # "authz" => l.limited = q.limited /\ l.scope = q.scope
             /\ stage = "entitled" => l.set = a
             /\ stage = "active" => l.set = NarrowToActive(q, a)
             /\ stage = "index" => l.set = NarrowToScope(q, a)
             /\ stage \in {"view", "existed", "chips", "readback"} => l.set = q.set
             /\ stage \in {"authz", "entitled", "active"} => l.ver = q.ver
             /\ Leg(stage) = "index" => l.ver = ver
<1>1. CASE stage = "authz"
  <2>1. Learn(q, stage, ver, a) = TakeScope(q, a)
    BY <1>1 DEF Learn
  <2>2. a \in Answers
    BY <1>1, ValuesAre DEF Leg
  <2>3. a.limited \in BOOLEAN /\ a.scope \in SUBSET Groups
    BY <2>2, AnswerFields
  <2>. QED
    BY <1>1, <2>1, <2>3 DEF TakeScope, Asking, Leg
<1>2. CASE stage = "entitled"
  <2>1. Learn(q, stage, ver, a) = [q EXCEPT !.set = a]
    BY <1>2 DEF Learn
  <2>2. a \in SUBSET Vehicles
    BY <1>2, ValuesAre DEF Leg
  <2>. QED
    BY <1>2, <2>1, <2>2 DEF Asking, Leg
<1>3. CASE stage = "active"
  <2>1. Learn(q, stage, ver, a) = [q EXCEPT !.set = NarrowToActive(q, a)]
    BY <1>3 DEF Learn
  <2>2. NarrowToActive(q, a) \in SUBSET Vehicles
    BY DEF NarrowToActive, Asking
  <2>. QED
    BY <1>3, <2>1, <2>2 DEF Asking, Leg
<1>4. CASE stage = "index"
  <2>1. Learn(q, stage, ver, a) = [q EXCEPT !.set = NarrowToScope(q, a), !.ver = ver]
    BY <1>4 DEF Learn
  <2>2. NarrowToScope(q, a) \in SUBSET Vehicles
    BY DEF NarrowToScope, Asking
  <2>. QED
    BY <1>4, <2>1, <2>2 DEF Asking, Leg
<1>5. CASE stage \in {"view", "existed", "chips", "readback"}
  <2>1. Learn(q, stage, ver, a) = [q EXCEPT !.ver = ver]
    BY <1>5 DEF Learn
  <2>. QED
    BY <1>5, <2>1 DEF Asking, Leg
<1>. QED
  BY <1>1, <1>2, <1>3, <1>4, <1>5 DEF Consults

(* Where a request can be once it consulted a leg. *)
LEMMA AfterIs ==
  ASSUME NEW q \in Asking, NEW stage \in Consults
  PROVE  /\ After(q, stage) \in Stages
         /\ stage = "authz" =>
              /\ q.kind = "list" => After(q, stage) = IF managed THEN "entitled" ELSE "active"
              /\ q.kind = "groups" => After(q, stage) = "view"
              /\ q.kind = "assign" => After(q, stage) \in {"existed", "idle"}
              /\ q.kind = "settings" => After(q, stage) = "reply"
              /\ q.kind \in {"rename", "drop"} => After(q, stage) = "write"
         /\ stage = "entitled" => After(q, stage) = "active"
         /\ stage = "active" /\ q.limited => After(q, stage) = "index"
         /\ stage = "active" /\ ~q.limited => After(q, stage) = IF managed THEN "chips" ELSE "rows"
         /\ stage = "index" => After(q, stage) = IF managed THEN "chips" ELSE "rows"
         /\ stage = "existed" => After(q, stage) = "write"
         /\ stage \in {"view", "chips", "readback"} => After(q, stage) = "reply"
<1>1. CASE stage = "authz"
  <2>1. After(q, stage) = CASE q.kind = "list"     -> IF managed THEN "entitled" ELSE "active"
                            [] q.kind = "groups"   -> "view"
                            [] q.kind = "assign"   -> IF q.v \in Rows THEN "existed" ELSE "idle"
                            [] q.kind = "settings" -> "reply"
                            [] OTHER               -> "write"
    BY <1>1 DEF After
  <2>. QED
    BY <1>1, <2>1 DEF Stages
<1>2. CASE stage = "entitled"
  BY <1>2 DEF After, Stages
<1>3. CASE stage \in {"active", "index"}
  <2>1. After(q, stage) = IF stage = "active" /\ q.limited THEN "index"
                          ELSE IF managed THEN "chips" ELSE "rows"
    BY <1>3 DEF After
  <2>. QED
    BY <1>3, <2>1 DEF Stages
<1>4. CASE stage = "existed"
  BY <1>4 DEF After, Stages
<1>5. CASE stage \in {"view", "chips", "readback"}
  BY <1>5 DEF After, Stages
<1>. QED
  BY <1>1, <1>2, <1>3, <1>4, <1>5 DEF Consults

LEMMA EndIs ==
  ASSUME Running, NEW r \in Requests, End(r)
  PROVE  /\ Running' /\ Others(r)
         /\ pc'[r] = "idle" /\ req'[r] = Idle /\ fetch'[r] = NoFetch /\ low'[r] = First
<1>1. /\ Idle \in Asking /\ "idle" \in Stages /\ First \in [Legs -> Nat]
      /\ NoFetch \in [ver : Nat, age : 0..FetchTime]
  BY TicksAssumption DEF Idle, Asking, Stages, First, NoFetch
<1>. QED
  BY <1>1 DEF Running, End, Others, Alone

(* An answer a request may take: it was true since its window opened, and  *)
(* is the index it is owed.                                                *)
Takes(r, ver) ==
  /\ ver \in 1..Now(Leg(pc[r])) /\ ver >= low[r][Leg(pc[r])]
  /\ Leg(pc[r]) = "index" => ver >= owed
  /\ pc[r] = "view" => ver >= req[r].owes

LEMMA TakeIs ==
  ASSUME IInv, NEW r \in Requests, pc[r] \in Consults, NEW ver, Takes(r, ver), Take(r, ver)
  PROVE  \/ End(r)
         \/ LET a == log[Leg(pc[r])][ver]
                q == Learn(req[r], pc[r], ver, a)
            IN  /\ pc[r] = "authz" => Admitted(req[r].kind, a)
                /\ After(q, pc[r]) # "idle"
                /\ Running' /\ Others(r)
                /\ pc'[r] = After(q, pc[r]) /\ req'[r] = q /\ fetch'[r] = NoFetch /\ low'[r] = low[r]
<1>. DEFINE a == log[Leg(pc[r])][ver]
            q == Learn(req[r], pc[r], ver, a)
<1>1. Running /\ Shapes /\ LogHolds
  BY DEF IInv, Shapes
<1>2. Leg(pc[r]) \in Legs
  BY LegIsLeg
<1>3. ver \in Nat /\ a \in ValuesOf(Leg(pc[r]))
  BY <1>1, <1>2, Numbers DEF Takes, LogHolds
<1>4. req[r] \in Asking
  BY <1>1 DEF Running
<1>5. q \in Asking /\ After(q, pc[r]) \in Stages
  <2>1. q \in Asking
    BY <1>3, <1>4, LearnIs
  <2>. QED
    BY <2>1, AfterIs
<1>6. NoFetch \in [ver : Nat, age : 0..FetchTime]
  BY TicksAssumption DEF NoFetch
<1>7. CASE End(r)
  BY <1>7
<1>8. CASE ~End(r)
  <2>1. /\ pc[r] = "authz" => Admitted(req[r].kind, a)
        /\ After(q, pc[r]) # "idle"
        /\ pc' = [pc EXCEPT ![r] = After(q, pc[r])] /\ req' = [req EXCEPT ![r] = q]
        /\ fetch' = [fetch EXCEPT ![r] = NoFetch] /\ low' = low
    BY <1>8 DEF Take
  <2>. HIDE DEF a, q
  <2>2. Running' /\ Others(r) /\ pc'[r] = After(q, pc[r]) /\ req'[r] = q /\ fetch'[r] = NoFetch /\ low'[r] = low[r]
    BY <1>1, <1>5, <1>6, <2>1 DEF Running, Others, Alone
  <2>. QED
    BY <2>1, <2>2 DEF a, q
<1>. QED
  BY <1>7, <1>8

(* Going on with an answer: the leg just consulted allows what is left. *)
LEMMA TakeFits ==
  ASSUME IInv, NEW r \in Requests, pc[r] \in Consults, NEW ver, Takes(r, ver), Take(r, ver),
         UNCHANGED truth, owed' = owed
  PROVE  Running' /\ Others(r) /\ Fits(r)'
<1>. DEFINE stage == pc[r]
            a == log[Leg(stage)][ver]
            q == Learn(req[r], stage, ver, a)
<1>1. Running /\ Shapes /\ LogHolds /\ Fits(r)
  BY DEF IInv, Shapes
<1>2. CASE End(r)
  <2>1. \A leg \in Legs : Now(leg)' \in Nat /\ Now(leg)' >= 1
    BY <1>1, Numbers DEF truth, Now
  <2>2. owed' >= 0
    BY <1>1 DEF Shapes
  <2>. QED
    BY <1>1, <1>2, <2>1, <2>2, EndIs, EndedFits
<1>3. CASE ~End(r)
  <2>1. /\ stage = "authz" => Admitted(req[r].kind, a)
        /\ After(q, stage) # "idle"
        /\ Running' /\ Others(r)
        /\ pc'[r] = After(q, stage) /\ req'[r] = q /\ fetch'[r] = NoFetch /\ low'[r] = low[r]
    BY <1>3, TakeIs
  <2>2. Leg(stage) \in Legs /\ req[r] \in Asking /\ stage \in Consults
    BY <1>1, LegIsLeg DEF Running
  <2>3. ver \in Nat /\ ver \in 1..Now(Leg(stage)) /\ ver >= low[r][Leg(stage)] /\ a \in ValuesOf(Leg(stage))
    BY <1>1, <2>2, Numbers DEF Takes, LogHolds
  <2>4. /\ q \in Asking
        /\ q.kind = req[r].kind /\ q.v = req[r].v /\ q.g = req[r].g /\ q.owes = req[r].owes
        /\ stage = "authz" => q.limited = a.limited /\ q.scope = a.scope /\ q.set = req[r].set
        /\ stage # "authz" => q.limited = req[r].limited /\ q.scope = req[r].scope
        /\ stage = "entitled" => q.set = a
        /\ stage = "active" => q.set = NarrowToActive(req[r], a)
        /\ stage = "index" => q.set = NarrowToScope(req[r], a)
        /\ stage \in {"view", "existed", "chips", "readback"} => q.set = req[r].set
        /\ stage \in {"authz", "entitled", "active"} => q.ver = req[r].ver
        /\ Leg(stage) = "index" => q.ver = ver
    BY <2>2, <2>3, LearnIs
  <2>. DEFINE next == After(q, stage)
  <2>5. /\ stage = "authz" =>
             /\ q.kind = "list" => next = IF managed THEN "entitled" ELSE "active"
             /\ q.kind = "groups" => next = "view"
             /\ q.kind = "assign" => next \in {"existed", "idle"}
             /\ q.kind = "settings" => next = "reply"
             /\ q.kind \in {"rename", "drop"} => next = "write"
        /\ stage = "entitled" => next = "active"
        /\ stage = "active" /\ q.limited => next = "index"
        /\ stage = "active" /\ ~q.limited => next = IF managed THEN "chips" ELSE "rows"
        /\ stage = "index" => next = IF managed THEN "chips" ELSE "rows"
        /\ stage = "existed" => next = "write"
        /\ stage \in {"view", "chips", "readback"} => next = "reply"
    BY <2>2, <2>4, AfterIs
  <2>6. /\ log' = log /\ since' = since /\ managed' = managed
        /\ Now("index")' = Now("index") /\ Now("authz")' = Now("authz")
        /\ Now("entitled")' = Now("entitled") /\ Now("active")' = Now("active")
    BY DEF truth, Now
  <2>. HIDE DEF a, q, next
  <2>7. CallIsFresh(r)'
    BY <2>1 DEF CallIsFresh, NoFetch
  <2>8. LowIsLow(r)'
    BY <1>1, <2>1, <2>6 DEF LowIsLow, Now, Fits, Window
  <2>9. stage \in Consults /\ stage # "idle" /\ req[r].kind \in Kinds
    BY <1>1, <2>2 DEF Fits, KindFits, Consults
  <2>10. KindFits(r)'
    BY <1>1, <2>1, <2>4, <2>5, <2>6, <2>9 DEF Fits, KindFits, Consults, Kinds, next
  <2>11. WasAdmitted(r)'
    <3>1. CASE stage = "authz"
      BY <2>1, <2>3, <2>4, <2>6, <3>1 DEF WasAdmitted, Leg, a
    <3>2. CASE stage # "authz"
      <4>1. PICK i \in 1..Now("authz") :
              /\ i >= low[r]["authz"] /\ Admitted(req[r].kind, log["authz"][i])
              /\ req[r].limited = log["authz"][i].limited /\ req[r].scope = log["authz"][i].scope
        BY <1>1, <2>9, <3>2 DEF Fits, WasAdmitted
      <4>. QED
        BY <2>1, <2>4, <2>6, <3>2, <4>1 DEF WasAdmitted
    <3>. QED
      BY <3>1, <3>2
  <2>12. NarrowToActive(req[r], a) \subseteq req[r].set /\ NarrowToScope(req[r], a) \subseteq req[r].set
    BY DEF NarrowToActive, NarrowToScope
  <2>13. WithinEntitled(r)'
    <3>1. CASE stage = "entitled"
      BY <2>1, <2>3, <2>4, <2>6, <3>1 DEF WithinEntitled, Leg, a
    <3>2. CASE stage # "entitled" /\ req[r].kind = "list"
               /\ (next \in {"chips", "reply"} \/ (managed /\ next \in {"active", "index"}))
      <4>1. stage = "chips" \/ (managed /\ stage \in {"active", "index"})
        BY <1>1, <2>4, <2>5, <2>9, <3>2 DEF Consults, Fits, KindFits
      <4>2. PICK i \in 1..Now("entitled") :
              i >= low[r]["entitled"] /\ req[r].set \subseteq log["entitled"][i]
        BY <1>1, <3>2, <4>1 DEF Fits, WithinEntitled
      <4>3. q.set \subseteq req[r].set
        BY <2>4, <2>12, <4>1
      <4>. QED
        BY <2>1, <2>6, <4>2, <4>3 DEF WithinEntitled
    <3>. QED
      BY <2>1, <2>4, <2>6, <3>1, <3>2 DEF WithinEntitled, next
  <2>14. WithinActive(r)'
    <3>1. CASE stage = "active"
      <4>1. a.enforced => q.set \subseteq a.tokens
        BY <2>4, <3>1 DEF NarrowToActive
      <4>. QED
        BY <2>1, <2>3, <2>6, <3>1, <4>1 DEF WithinActive, Leg, a
    <3>2. CASE stage # "active" /\ req[r].kind = "list" /\ next \in {"index", "rows", "chips", "reply"}
      <4>1. stage \in {"index", "chips"}
        BY <1>1, <2>4, <2>5, <2>9, <3>2 DEF Consults, Fits, KindFits
      <4>2. PICK i \in 1..Now("active") :
              /\ i >= low[r]["active"]
              /\ log["active"][i].enforced => req[r].set \subseteq log["active"][i].tokens
        BY <1>1, <3>2, <4>1 DEF Fits, WithinActive
      <4>3. q.set \subseteq req[r].set
        BY <2>4, <2>12, <4>1
      <4>. QED
        BY <2>1, <2>6, <4>2, <4>3 DEF WithinActive
    <3>. QED
      BY <2>1, <2>4, <2>6, <3>1, <3>2 DEF WithinActive, next
  <2>15. WithinScope(r)'
    <3>1. CASE stage = "index" /\ req[r].limited
      <4>1. q.set \subseteq TokenIDsForGroups(a, q.scope)
        BY <2>4, <3>1 DEF NarrowToScope
      <4>. QED
        BY <2>1, <2>3, <2>6, <3>1, <4>1 DEF WithinScope, Leg, a
    <3>2. CASE stage # "index" /\ req[r].kind = "list" /\ q.limited /\ next \in {"rows", "chips", "reply"}
      <4>1. stage = "chips"
        BY <1>1, <2>4, <2>5, <2>9, <3>2 DEF Consults, Fits, KindFits
      <4>2. PICK i \in 1..Now("index") :
              /\ i >= low[r]["index"]
              /\ req[r].set \subseteq TokenIDsForGroups(log["index"][i], req[r].scope)
        BY <1>1, <2>4, <3>2, <4>1 DEF Fits, WithinScope
      <4>. QED
        BY <2>1, <2>4, <2>6, <4>1, <4>2 DEF WithinScope
    <3>. QED
      BY <2>1, <2>4, <2>6, <3>1, <3>2 DEF WithinScope, next
  <2>16. ServedInOrder(r)'
    <3>1. /\ req[r].ver \in Nat /\ req[r].owes \in Nat /\ owed \in Nat /\ Now("index") \in Nat
          /\ req[r].ver <= Now("index") /\ req[r].owes <= Now("index")
          /\ req[r].kind # "groups" => req[r].owes <= owed
          /\ stage # "readback" /\ req[r].ver > 0 => req[r].ver >= req[r].owes
      BY <1>1, Numbers DEF Fits, ServedInOrder, Shapes, Running, Asking
    <3>2. q.owes <= Now("index") /\ (q.kind # "groups" => q.owes <= owed)
      BY <2>4, <3>1
    <3>3. CASE Leg(stage) = "index"
      <4>1. q.ver = ver /\ ver >= owed /\ ver <= Now("index") /\ (stage = "view" => ver >= req[r].owes)
        BY <2>3, <2>4, <3>3 DEF Takes
      <4>2. stage # "view" => req[r].kind # "groups"
        BY <1>1, <2>9, <3>3 DEF Fits, KindFits, Consults, Leg
      <4>. QED
        BY <2>1, <2>3, <2>4, <2>6, <3>1, <3>2, <4>1, <4>2 DEF ServedInOrder
    <3>4. CASE Leg(stage) # "index"
      <4>1. stage \in {"authz", "entitled", "active"}
        BY <2>9, <3>4 DEF Consults, Leg
      <4>. QED
        BY <2>1, <2>4, <2>6, <3>1, <3>2, <4>1 DEF ServedInOrder
    <3>. QED
      BY <3>3, <3>4
  <2>. QED
    BY <2>1, <2>7, <2>8, <2>10, <2>11, <2>13, <2>14, <2>15, <2>16 DEF Fits
<1>. QED
  BY <1>2, <1>3

-----------------------------------------------------------------------------
(* The steps *)

LEMMA TruthStays ==
  ASSUME Shapes, LogHolds, UNCHANGED truth
  PROVE  /\ Grown /\ LogHolds' /\ \A leg \in Legs : Now(leg)' = Now(leg)
         /\ managed' \in BOOLEAN /\ log' \in [Legs -> Seq(AnyValue)] /\ since' \in [Legs -> Seq(0..Window)]
         /\ changes' \in Nat /\ overlap' \in 0..1
<1>1. managed' = managed /\ log' = log /\ since' = since /\ changes' = changes /\ overlap' = overlap
  BY DEF truth
<1>2. \A leg \in Legs : Len(log[leg]) \in Nat
  BY DEF Shapes
<1>. QED
  BY <1>1, <1>2 DEF Shapes, LogHolds, Grown, Now

(* A step of one request: what it leaves alone still fits. *)
LEMMA StepFits ==
  ASSUME IInv, Shapes', Grown, LogHolds', HeldIsFresh', owed' = owed,
         NEW r \in Requests, Others(r), Fits(r)'
  PROVE  IInv'
<1>1. \A s \in Requests : Fits(s)'
  <2>1. ASSUME NEW s \in Requests, s # r
        PROVE  Fits(s)'
    BY <2>1, OthersKept DEF Others
  <2>. QED
    BY <2>1
<1>2. OwedIsKnown'
  <2>1. Now("index") \in Nat /\ Now("index")' \in Nat /\ Now("index") <= Now("index")'
    BY Numbers, NowGrows DEF IInv, Legs
  <2>. QED
    BY <2>1 DEF IInv, OwedIsKnown, Shapes
<1>. QED
  BY <1>1, <1>2 DEF IInv

LEMMA FreshIsRecent ==
  ASSUME IInv, NEW r \in Requests, NEW leg \in Legs, NEW ver \in 1..Now(leg),
         ver = Now(leg) \/ since[leg][ver] < Window
  PROVE  ver >= low[r][leg]
<1>1. Shapes /\ LogHolds /\ LowIsLow(r) /\ low[r][leg] \in Nat
  BY DEF IInv, Fits, Shapes, Running
<1>2. Now(leg) \in Nat /\ Window \in Nat
  BY <1>1, Numbers
<1>. QED
  BY <1>1, <1>2 DEF LowIsLow

LEMMA BeginKeeps ==
  ASSUME IInv, NEW r \in Requests, NEW kind \in Kinds,
         NEW v \in Vehicles \union {"none"}, NEW g \in Groups \union {"none"},
         kind = "assign" => v \in Vehicles, kind \in {"assign", "rename", "drop"} => g \in Groups,
         Begin(r, kind, v, g)
  PROVE  IInv'
<1>. DEFINE q == [Idle EXCEPT !.kind = kind, !.v = v, !.g = g, !.set = Vehicles,
                              !.owes = IF kind = "groups" THEN Now("index") ELSE owed]
            oldest == [leg \in Legs |-> Oldest(leg)]
<1>1. Shapes /\ Running /\ LogHolds /\ OwedIsKnown /\ Fits(r)
  BY DEF IInv, Shapes
<1>2. /\ log' = log /\ since' = since /\ managed' = managed /\ changes' = changes
      /\ cache' = cache /\ owed' = owed /\ fetch' = fetch /\ pc[r] = "idle"
      /\ pc' = [pc EXCEPT ![r] = "authz"] /\ req' = [req EXCEPT ![r] = q]
      /\ low' = [low EXCEPT ![r] = oldest] /\ overlap' \in 0..1
  BY <1>1 DEF Begin, memory, Shapes
<1>3. Now("index") \in Nat /\ owed \in Nat /\ owed <= Now("index") /\ owed >= 1
  BY <1>1, Numbers DEF OwedIsKnown, Shapes
<1>4. /\ q \in Asking /\ q.kind = kind /\ q.v = v /\ q.g = g /\ q.ver = 0
      /\ q.owes = IF kind = "groups" THEN Now("index") ELSE owed
  BY <1>3 DEF Idle, Asking
<1>5. /\ oldest \in [Legs -> Nat]
      /\ \A leg \in Legs :
           /\ oldest[leg] \in 1..Now(leg)
           /\ \A i \in 1..Now(leg) : i < oldest[leg] => since[leg][i] = Window
  <2>1. ASSUME NEW leg \in Legs
        PROVE  /\ oldest[leg] \in Nat /\ oldest[leg] \in 1..Now(leg)
               /\ \A i \in 1..Now(leg) : i < oldest[leg] => since[leg][i] = Window
    <3>1. /\ Oldest(leg) \in 1..Now(leg)
          /\ \A i \in 1..Now(leg) : i < Oldest(leg) => since[leg][i] >= Window
      BY <1>1, OldestIs
    <3>2. Now(leg) \in Nat /\ Window \in Nat /\ \A i \in 1..Now(leg) : since[leg][i] \in 0..Window
      BY <1>1, Numbers
    <3>. QED
      BY <3>1, <3>2
  <2>. QED
    BY <2>1
<1>. HIDE DEF q, oldest
<1>6. Running' /\ Others(r) /\ pc'[r] = "authz" /\ req'[r] = q /\ low'[r] = oldest /\ fetch'[r] = fetch[r]
  BY <1>1, <1>2, <1>4, <1>5 DEF Running, Others, Alone, Stages
<1>7. Shapes' /\ Grown /\ LogHolds'
  BY <1>1, <1>2, <1>6 DEF Shapes, LogHolds, Grown
<1>8. HeldIsFresh'
  BY <1>2, <1>7, HeldKept
<1>9. Fits(r)'
  <2>1. CallIsFresh(r)'
    <3>1. ~(fetch[r].ver > 0)
      BY <1>1, <1>2 DEF Fits, CallIsFresh, Consults
    <3>. QED
      BY <1>2, <3>1 DEF CallIsFresh
  <2>2. LowIsLow(r)'
    <3>1. \A leg \in Legs : Now(leg)' = Now(leg) /\ Now(leg) \in Nat
      BY <1>1, <1>2, Numbers DEF Now
    <3>2. Window' = Window
      BY DEF Window
    <3>. QED
      BY <1>2, <1>5, <1>6, <3>1, <3>2 DEF LowIsLow
  <2>3. KindFits(r)'
    BY <1>4, <1>6 DEF KindFits
  <2>4. ServedInOrder(r)'
    <3>1. Now("index")' = Now("index")
      BY <1>2 DEF Now
    <3>. QED
      BY <1>2, <1>3, <1>4, <1>6, <3>1 DEF ServedInOrder
  <2>. QED
    BY <1>6, <2>1, <2>2, <2>3, <2>4
    DEF Fits, WasAdmitted, WithinEntitled, WithinActive, WithinScope
<1>. QED
  BY <1>2, <1>6, <1>7, <1>8, <1>9, StepFits

(* An answer held since a little while may be taken. *)
LEMMA HitKeeps ==
  ASSUME IInv, NEW r \in Requests, Hit(r)
  PROVE  IInv'
<1>. DEFINE leg == Leg(pc[r])
            ver == cache[Leg(pc[r])].ver
<1>1. Shapes /\ Running /\ LogHolds /\ HeldIsFresh
  BY DEF IInv, Shapes
<1>2. pc[r] \in Consults /\ cache[leg].left > 0 /\ pc[r] # "view" /\ Take(r, ver)
      /\ UNCHANGED truth /\ cache' = cache /\ owed' = owed
  BY DEF Hit, Cached, memory
<1>3. leg \in Legs
  BY <1>2, LegIsLeg
<1>4. ver \in Nat /\ cache[leg].left \in Nat
  BY <1>1, <1>3, TicksAssumption DEF Shapes
<1>5. /\ ver >= 1 /\ ver <= Now(leg)
      /\ ver = Now(leg) \/ since[leg][ver] + cache[leg].left <= Window
      /\ leg = "index" => ver >= owed
  BY <1>1, <1>2, <1>3 DEF HeldIsFresh
<1>6. Takes(r, ver)
  <2>1. Now(leg) \in Nat /\ Window \in Nat
    BY <1>1, <1>3, Numbers
  <2>2. ver \in 1..Now(leg)
    BY <1>4, <1>5, <2>1
  <2>3. since[leg][ver] \in Int
    BY <1>1, <1>3, <2>2, Numbers
  <2>4. ver = Now(leg) \/ since[leg][ver] < Window
    BY <1>2, <1>4, <1>5, <2>1, <2>3
  <2>5. ver >= low[r][leg]
    BY <1>3, <2>2, <2>4, FreshIsRecent
  <2>. QED
    BY <1>2, <1>5, <2>2, <2>5 DEF Takes
<1>. HIDE DEF ver
<1>7. Running' /\ Others(r) /\ Fits(r)'
  BY <1>2, <1>6, TakeFits
<1>8. Shapes' /\ Grown /\ LogHolds'
  BY <1>1, <1>2, <1>7, TruthStays DEF Shapes
<1>9. HeldIsFresh'
  BY <1>2, <1>8, HeldKept
<1>. QED
  BY <1>2, <1>7, <1>8, <1>9, StepFits

(* An answer that has just arrived may be taken, and kept for a while. *)
LEMMA FillKeeps ==
  ASSUME IInv, NEW r \in Requests, Fill(r)
  PROVE  IInv'
<1>1. Shapes /\ Running /\ LogHolds /\ HeldIsFresh /\ Fits(r)
  BY DEF IInv, Shapes
<1>2. /\ fetch[r].ver > 0 /\ Take(r, fetch[r].ver)
      /\ cache' = [cache EXCEPT ![Leg(pc[r])] = Kept(fetch[r].ver)]
      /\ UNCHANGED truth /\ owed' = owed
  BY DEF Fill
<1>3. pc[r] \in Consults
  BY <1>1, <1>2 DEF Fits, CallIsFresh
<1>4. PICK leg \in Legs : leg = Leg(pc[r])
  BY <1>3, LegIsLeg
<1>5. PICK ver \in Nat : ver = fetch[r].ver
  BY <1>1 DEF Running
<1>6. fetch[r].age \in 0..FetchTime
  BY <1>1 DEF Running
<1>7. /\ ver >= 1 /\ ver <= Now(leg)
      /\ ver = Now(leg) \/ since[leg][ver] <= fetch[r].age
      /\ leg = "index" => ver >= owed
      /\ pc[r] = "view" => ver >= req[r].owes
  BY <1>1, <1>2, <1>4, <1>5 DEF Fits, CallIsFresh
<1>8. /\ Now(leg) \in Nat /\ Window \in Nat /\ TTL \in Nat /\ TTL > 0 /\ FetchTime \in Nat
      /\ Window = TTL + FetchTime
  BY <1>1, Numbers
<1>9. ver \in 1..Now(leg)
  BY <1>7, <1>8
<1>10. since[leg][ver] \in Int
  BY <1>1, <1>9, Numbers
<1>11. Takes(r, ver)
  <2>1. ver = Now(leg) \/ since[leg][ver] < Window
    BY <1>6, <1>7, <1>8, <1>10
  <2>2. ver >= low[r][leg]
    BY <1>9, <2>1, FreshIsRecent
  <2>. QED
    BY <1>4, <1>7, <1>9, <2>2 DEF Takes
<1>12. Running' /\ Others(r) /\ Fits(r)'
  BY <1>2, <1>3, <1>5, <1>11, TakeFits
<1>13. cache' = [cache EXCEPT ![leg] = [ver |-> ver, left |-> TTL]]
  BY <1>2, <1>4, <1>5 DEF Kept
<1>14. cache' \in [Legs -> [ver : Nat, left : 0..TTL]]
  BY <1>1, <1>8, <1>13 DEF Shapes
<1>15. Shapes' /\ Grown /\ LogHolds' /\ \A l \in Legs : Now(l)' = Now(l)
  <2>1. owed' \in Nat
    BY <1>1, <1>2 DEF Shapes
  <2>. QED
    BY <1>1, <1>2, <1>12, <1>14, <2>1, TruthStays DEF Shapes
<1>16. HeldIsFresh'
  <2>1. since' = since /\ Window' = Window
    BY <1>2 DEF truth, Window
  <2>2. ASSUME NEW l \in Legs
        PROVE  /\ cache'[l].ver <= Now(l)'
               /\ cache'[l].left > 0 =>
                    /\ cache'[l].ver >= 1
                    /\ cache'[l].ver = Now(l)' \/ since'[l][cache'[l].ver] + cache'[l].left <= Window
                    /\ l = "index" => cache'[l].ver >= owed'
    <3>1. CASE l = leg
      <4>1. cache'[l].ver = ver /\ cache'[l].left = TTL
        BY <1>1, <1>13, <3>1 DEF Shapes
      <4>2. ver = Now(leg) \/ since[leg][ver] + TTL <= Window
        BY <1>6, <1>7, <1>8, <1>10
      <4>. QED
        BY <1>2, <1>7, <1>15, <2>1, <3>1, <4>1, <4>2
    <3>2. CASE l # leg
      <4>1. cache'[l] = cache[l]
        BY <1>1, <1>13, <3>2 DEF Shapes
      <4>. QED
        BY <1>1, <1>2, <1>15, <2>1, <4>1 DEF HeldIsFresh
    <3>. QED
      BY <3>1, <3>2
  <2>. QED
    BY <2>1, <2>2 DEF HeldIsFresh
<1>. QED
  BY <1>2, <1>12, <1>15, <1>16, StepFits

LEMMA AskKeeps ==
  ASSUME IInv, NEW r \in Requests, Ask(r)
  PROVE  IInv'
<1>1. Shapes /\ Running /\ LogHolds /\ Fits(r) /\ OwedIsKnown
  BY DEF IInv, Shapes
<1>2. /\ pc[r] \in Consults /\ UNCHANGED truth /\ cache' = cache /\ owed' = owed
      /\ fetch' = [fetch EXCEPT ![r] = [ver |-> Now(Leg(pc[r])), age |-> 0]]
      /\ pc' = pc /\ req' = req /\ low' = low
  BY DEF Ask, memory
<1>3. PICK leg \in Legs : leg = Leg(pc[r])
  BY <1>2, LegIsLeg
<1>4. Now(leg) \in Nat /\ Now(leg) >= 1 /\ FetchTime \in Nat
  BY <1>1, Numbers
<1>5. Running' /\ Others(r) /\ fetch'[r].ver = Now(leg)
  BY <1>1, <1>2, <1>3, <1>4 DEF Running, Others, Alone
<1>6. Shapes' /\ Grown /\ LogHolds' /\ Now(leg)' = Now(leg)
  BY <1>1, <1>2, <1>5, TruthStays DEF Shapes
<1>7. HeldIsFresh'
  BY <1>2, <1>6, HeldKept
<1>8. Fits(r)'
  <2>1. pc[r] = "view" => Now("index") >= req[r].owes
    BY <1>1 DEF Fits, ServedInOrder, Running, Asking, Shapes
  <2>2. leg = "index" => Now(leg) >= owed
    BY <1>1 DEF OwedIsKnown
  <2>3. pc[r] = "view" => leg = "index"
    BY <1>3 DEF Leg
  <2>4. Leg(pc[r])' = leg
    BY <1>2, <1>3 DEF Leg
  <2>5. CallIsFresh(r)'
    BY <1>2, <1>4, <1>5, <1>6, <2>1, <2>2, <2>3, <2>4 DEF CallIsFresh
  <2>6. owed <= owed' /\ pc'[r] = pc[r] /\ req'[r] = req[r] /\ low'[r] = low[r]
    BY <1>1, <1>2 DEF Shapes
  <2>. QED
    BY <1>6, <2>5, <2>6, FoundKept, LowKept DEF Fits
<1>. QED
  BY <1>2, <1>5, <1>6, <1>7, <1>8, StepFits

(* A request that ends, whatever the truth did meanwhile. *)
LEMMA EndKeeps ==
  ASSUME IInv, NEW r \in Requests, End(r), Shapes', Grown, LogHolds', cache' = cache, owed' = owed
  PROVE  IInv'
<1>1. Running
  BY DEF IInv, Shapes
<1>2. Others(r) /\ pc'[r] = "idle" /\ req'[r] = Idle /\ fetch'[r] = NoFetch /\ low'[r] = First
  BY <1>1, EndIs
<1>3. \A leg \in Legs : Now(leg)' \in Nat /\ Now(leg)' >= 1
  <2>1. \A leg \in Legs : Len(log'[leg]) \in Nat
    BY DEF Shapes
  <2>. QED
    BY <2>1 DEF LogHolds, Now
<1>4. owed' >= 0
  BY DEF Shapes
<1>5. HeldIsFresh'
  BY HeldKept
<1>6. Fits(r)'
  BY <1>2, <1>3, <1>4, EndedFits
<1>. QED
  BY <1>2, <1>5, <1>6, StepFits

LEMMA FetchFailsKeeps ==
  ASSUME IInv, NEW r \in Requests, FetchFails(r)
  PROVE  IInv'
<1>1. Shapes /\ Running /\ LogHolds /\ Fits(r)
  BY DEF IInv, Shapes
<1>2. UNCHANGED truth /\ cache' = cache /\ owed' = owed
  BY DEF FetchFails, memory
<1>3. CASE End(r)
  <2>1. Running'
    BY <1>1, <1>3, EndIs
  <2>2. Shapes' /\ Grown /\ LogHolds'
    BY <1>1, <1>2, <2>1, TruthStays DEF Shapes
  <2>. QED
    BY <1>2, <1>3, <2>2, EndKeeps
<1>4. CASE pc[r] = "chips" /\ CarryOn(r)
  <2>1. After(req[r], pc[r]) = "reply"
    <3>1. req[r] \in Asking /\ pc[r] \in Consults
      BY <1>1, <1>4 DEF Running, Consults
    <3>. QED
      BY <1>4, <3>1, AfterIs
  <2>2. NoFetch \in [ver : Nat, age : 0..FetchTime] /\ NoFetch.ver = 0
    BY TicksAssumption DEF NoFetch
  <2>3. /\ Running' /\ Others(r) /\ pc'[r] = "reply" /\ fetch'[r].ver = 0
        /\ req'[r] = req[r] /\ low'[r] = low[r]
    BY <1>1, <1>4, <2>1, <2>2 DEF CarryOn, Running, Others, Alone, Stages
  <2>4. Shapes' /\ Grown /\ LogHolds' /\ \A leg \in Legs : Now(leg)' = Now(leg)
    BY <1>1, <1>2, <2>3, TruthStays DEF Shapes
  <2>5. HeldIsFresh'
    BY <1>2, <2>4, HeldKept
  <2>6. CallIsFresh(r)' /\ LowIsLow(r)'
    BY <2>3, <2>4, LowKept DEF CallIsFresh
  <2>7. log' = log /\ managed' = managed
    BY <1>2 DEF truth
  <2>8. KindFits(r)' /\ WasAdmitted(r)' /\ WithinEntitled(r)' /\ WithinActive(r)' /\ WithinScope(r)' /\ ServedInOrder(r)'
    BY <1>1, <1>2, <1>4, <2>3, <2>4, <2>7
    DEF Fits, KindFits, WasAdmitted, WithinEntitled, WithinActive, WithinScope, ServedInOrder, Legs
  <2>. QED
    BY <1>2, <2>3, <2>4, <2>5, <2>6, <2>8, StepFits DEF Fits
<1>. QED
  BY <1>3, <1>4 DEF FetchFails, WithoutAnswer

LEMMA ReadRowsKeeps ==
  ASSUME IInv, NEW r \in Requests, ReadRows(r)
  PROVE  IInv'
<1>1. Shapes /\ Running /\ LogHolds /\ Fits(r)
  BY DEF IInv, Shapes
<1>2. /\ UNCHANGED truth /\ cache' = cache /\ owed' = owed /\ fetch' = fetch /\ low' = low
      /\ pc[r] = "rows" /\ pc' = [pc EXCEPT ![r] = "chips"]
      /\ req' = [req EXCEPT ![r].set = req[r].set \intersect Rows]
  BY DEF ReadRows, memory
<1>3. req[r] \in Asking
  BY <1>1 DEF Running
<1>. DEFINE q == [req[r] EXCEPT !.set = req[r].set \intersect Rows]
<1>4. /\ q \in Asking /\ q.kind = req[r].kind /\ q.v = req[r].v /\ q.g = req[r].g
      /\ q.set = req[r].set \intersect Rows /\ q.limited = req[r].limited /\ q.scope = req[r].scope
      /\ q.ver = req[r].ver /\ q.owes = req[r].owes
  BY <1>3 DEF Asking
<1>5. req' = [req EXCEPT ![r] = q]
  BY <1>1, <1>2 DEF Running
<1>. HIDE DEF q
<1>6. Running' /\ Others(r) /\ pc'[r] = "chips" /\ req'[r] = q /\ low'[r] = low[r] /\ fetch'[r] = fetch[r]
  BY <1>1, <1>2, <1>4, <1>5 DEF Running, Others, Alone, Stages
<1>7. Shapes' /\ Grown /\ LogHolds' /\ \A leg \in Legs : Now(leg)' = Now(leg)
  BY <1>1, <1>2, <1>6, TruthStays DEF Shapes
<1>8. HeldIsFresh'
  BY <1>2, <1>7, HeldKept
<1>9. Fits(r)'
  <2>1. CallIsFresh(r)' /\ LowIsLow(r)'
    <3>1. ~(fetch[r].ver > 0)
      BY <1>1, <1>2 DEF Fits, CallIsFresh, Consults
    <3>. QED
      BY <1>6, <1>7, <3>1, LowKept DEF CallIsFresh
  <2>2. log' = log /\ managed' = managed
    BY <1>2 DEF truth
  <2>3. q.set \subseteq req[r].set
    BY <1>4
  <2>4. KindFits(r)' /\ WasAdmitted(r)' /\ ServedInOrder(r)'
    BY <1>1, <1>2, <1>4, <1>6, <1>7, <2>2
    DEF Fits, KindFits, WasAdmitted, ServedInOrder, Legs
  <2>5. WithinActive(r)' /\ WithinScope(r)'
    BY <1>1, <1>2, <1>4, <1>6, <1>7, <2>2, <2>3
    DEF Fits, WithinActive, WithinScope, Legs
  <2>6. WithinEntitled(r)'
    <3>1. q.set \subseteq log["entitled"][Now("entitled")]
      BY <1>1, <1>2, <1>4 DEF Fits, KindFits, Rows, Truth
    <3>2. /\ Now("entitled") \in 1..Now("entitled") /\ Now("entitled") >= low[r]["entitled"]
          /\ "entitled" \in Legs
      BY <1>1, Numbers DEF Fits, LowIsLow
    <3>. QED
      BY <1>6, <1>7, <2>2, <3>1, <3>2 DEF WithinEntitled
  <2>. QED
    BY <2>1, <2>4, <2>5, <2>6 DEF Fits
<1>. QED
  BY <1>2, <1>6, <1>7, <1>8, <1>9, StepFits

(* A change of the truth: what it was before stays in the log. *)
LEMMA ReplaceGrows ==
  ASSUME Shapes, LogHolds, NEW leg \in Legs, NEW value \in ValuesOf(leg), Replace(leg, value)
  PROVE  /\ Grown /\ LogHolds' /\ Now(leg)' = Now(leg) + 1
         /\ managed' \in BOOLEAN /\ log' \in [Legs -> Seq(AnyValue)] /\ since' \in [Legs -> Seq(0..Window)]
         /\ changes' \in Nat /\ overlap' \in 0..1
<1>1. /\ log' = [log EXCEPT ![leg] = Append(log[leg], value)]
      /\ since' = [since EXCEPT ![leg] = Append(since[leg], 0)]
      /\ changes' = changes + 1 /\ managed' = managed /\ overlap' = overlap
  BY DEF Replace, Shapes
<1>2. value \in AnyValue /\ 0 \in 0..Window
  BY TicksAssumption DEF AnyValue, Window
<1>3. ASSUME NEW S, NEW s \in Seq(S), NEW e \in S
      PROVE  /\ Len(s) \in Nat /\ Append(s, e) \in Seq(S) /\ Len(Append(s, e)) = Len(s) + 1
             /\ \A i \in 1..Len(s) : Append(s, e)[i] = s[i]
             /\ Append(s, e)[Len(s) + 1] = e
  OBVIOUS
<1>4. \A l \in Legs : log[l] \in Seq(AnyValue) /\ since[l] \in Seq(0..Window)
  BY DEF Shapes
<1>5. /\ log' \in [Legs -> Seq(AnyValue)] /\ since' \in [Legs -> Seq(0..Window)]
      /\ managed' \in BOOLEAN /\ changes' \in Nat /\ overlap' \in 0..1
  BY <1>1, <1>2, <1>3, <1>4 DEF Shapes
<1>6. /\ Len(log[leg]) \in Nat /\ Len(log'[leg]) = Len(log[leg]) + 1 /\ Len(since'[leg]) = Len(since[leg]) + 1
      /\ \A i \in 1..Len(log[leg]) : log'[leg][i] = log[leg][i]
      /\ \A i \in 1..Len(since[leg]) : since'[leg][i] = since[leg][i]
      /\ log'[leg][Len(log[leg]) + 1] = value /\ since'[leg][Len(since[leg]) + 1] = 0
  BY <1>1, <1>2, <1>3, <1>4 DEF Shapes
<1>7. \A l \in Legs : l # leg => log'[l] = log[l] /\ since'[l] = since[l] /\ Len(log[l]) \in Nat
  BY <1>1, <1>3, <1>4 DEF Shapes
<1>8. Grown
  BY <1>1, <1>6, <1>7 DEF Grown, LogHolds
<1>9. LogHolds'
  <2>1. ASSUME NEW l \in Legs
        PROVE  /\ Len(log'[l]) >= 1 /\ Len(since'[l]) = Len(log'[l])
               /\ since'[l][Len(log'[l])] = 0
               /\ \A i \in 1..Len(log'[l]) : log'[l][i] \in ValuesOf(l)
    <3>1. CASE l = leg
      <4>1. Len(log[leg]) >= 1 /\ Len(since[leg]) = Len(log[leg]) /\ \A i \in 1..Len(log[leg]) : log[leg][i] \in ValuesOf(leg)
        BY DEF LogHolds
      <4>2. ASSUME NEW i \in 1..Len(log'[leg])
            PROVE  log'[leg][i] \in ValuesOf(leg)
        <5>1. i \in 1..Len(log[leg]) \/ i = Len(log[leg]) + 1
          BY <1>6
        <5>. QED
          BY <1>6, <4>1, <5>1
      <4>. QED
        BY <1>6, <3>1, <4>1, <4>2
    <3>2. CASE l # leg
      BY <1>7, <3>2 DEF LogHolds
    <3>. QED
      BY <3>1, <3>2
  <2>2. \A l : ValuesOf(l)' = ValuesOf(l)
    BY DEF ValuesOf
  <2>. QED
    BY <2>1, <2>2 DEF LogHolds
<1>. QED
  BY <1>5, <1>6, <1>8, <1>9 DEF Now

LEMMA NewIndexIs ==
  ASSUME IInv, NEW r \in Requests, pc[r] = "write", NEW index \in NewIndex(req[r])
  PROVE  index \in ValuesOf("index")
<1>1. Shapes /\ LogHolds /\ KindFits(r)
  BY DEF IInv, Fits
<1>2. Truth("index") \in [Groups -> SUBSET Vehicles]
  <2>1. Now("index") \in 1..Len(log["index"]) /\ "index" \in Legs
    BY <1>1, Numbers
  <2>2. log["index"][Now("index")] \in ValuesOf("index")
    BY <1>1, <2>1 DEF LogHolds
  <2>. QED
    BY <2>2, ValuesAre DEF Truth
<1>3. CASE req[r].kind = "assign"
  <2>1. req[r].v \in Vehicles /\ req[r].g \in Groups
    BY <1>1, <1>3 DEF KindFits
  <2>2. index \in { [Truth("index") EXCEPT ![req[r].g] = @ \union {req[r].v}],
                    [Truth("index") EXCEPT ![req[r].g] = @ \ {req[r].v}] }
    BY <1>3 DEF NewIndex
  <2>. QED
    BY <1>2, <2>1, <2>2, ValuesAre
<1>4. CASE req[r].kind = "drop"
  <2>1. req[r].g \in Groups
    BY <1>1, <1>4 DEF KindFits
  <2>2. index = [Truth("index") EXCEPT ![req[r].g] = {}]
    BY <1>4 DEF NewIndex
  <2>. QED
    BY <1>2, <2>1, <2>2, ValuesAre
<1>5. CASE req[r].kind = "rename"
  <2>1. index = Truth("index")
    BY <1>5 DEF NewIndex
  <2>. QED
    BY <1>2, <2>1, ValuesAre
<1>. QED
  BY <1>1, <1>3, <1>4, <1>5 DEF KindFits

LEMMA WriteKeeps ==
  ASSUME IInv, NEW r \in Requests, Write(r)
  PROVE  IInv'
<1>1. Shapes /\ Running /\ LogHolds /\ Fits(r)
  BY DEF IInv, Shapes
<1>2. PICK index \in NewIndex(req[r]) : Replace("index", index)
  BY DEF Write
<1>3. /\ cache' = cache /\ owed' = owed /\ fetch' = fetch /\ low' = low
      /\ pc[r] = "write" /\ pc' = [pc EXCEPT ![r] = "invalidate"]
      /\ req' = [req EXCEPT ![r].ver = Now("index")']
  BY DEF Write, memory
<1>4. "index" \in Legs /\ index \in ValuesOf("index")
  BY <1>3, NewIndexIs DEF Legs
<1>5. /\ Grown /\ LogHolds' /\ Now("index")' = Now("index") + 1 /\ Now("index") \in Nat
      /\ managed' \in BOOLEAN /\ log' \in [Legs -> Seq(AnyValue)] /\ since' \in [Legs -> Seq(0..Window)]
      /\ changes' \in Nat /\ overlap' \in 0..1
  BY <1>1, <1>2, <1>4, ReplaceGrows, Numbers
<1>6. req[r] \in Asking
  BY <1>1 DEF Running
<1>. PICK n \in Nat : n = Now("index") + 1
  BY <1>5
<1>. DEFINE q == [req[r] EXCEPT !.ver = n]
<1>7. /\ q \in Asking /\ q.kind = req[r].kind /\ q.v = req[r].v /\ q.g = req[r].g
      /\ q.set = req[r].set /\ q.limited = req[r].limited /\ q.scope = req[r].scope
      /\ q.ver = Now("index") + 1 /\ q.owes = req[r].owes
  BY <1>5, <1>6 DEF Asking
<1>8. req' = [req EXCEPT ![r] = q]
  BY <1>1, <1>3, <1>5 DEF Running
<1>. HIDE DEF q
<1>9. Running' /\ Others(r) /\ pc'[r] = "invalidate" /\ req'[r] = q /\ low'[r] = low[r] /\ fetch'[r] = fetch[r]
  BY <1>1, <1>3, <1>7, <1>8 DEF Running, Others, Alone, Stages
<1>10. Shapes'
  BY <1>1, <1>3, <1>5, <1>9 DEF Shapes
<1>11. HeldIsFresh'
  BY <1>3, <1>5, <1>10, HeldKept
<1>12. Fits(r)'
  <2>1. CallIsFresh(r)' /\ LowIsLow(r)'
    <3>1. ~(fetch[r].ver > 0)
      BY <1>1, <1>3 DEF Fits, CallIsFresh, Consults
    <3>. QED
      BY <1>5, <1>9, <1>10, <3>1, LowKept DEF CallIsFresh
  <2>2. KindFits(r)' /\ WithinEntitled(r)' /\ WithinActive(r)' /\ WithinScope(r)'
    BY <1>1, <1>3, <1>7, <1>9 DEF Fits, KindFits, WithinEntitled, WithinActive, WithinScope
  <2>3. WasAdmitted(r)'
    <3>1. PICK i \in 1..Now("authz") :
            /\ i >= low[r]["authz"] /\ Admitted(req[r].kind, log["authz"][i])
            /\ req[r].limited = log["authz"][i].limited /\ req[r].scope = log["authz"][i].scope
      BY <1>1, <1>3 DEF Fits, WasAdmitted
    <3>2. i \in 1..Now("authz")' /\ log'["authz"][i] = log["authz"][i]
      BY <1>1, <1>5, <1>10, NowGrows DEF Legs
    <3>. QED
      BY <1>7, <1>9, <3>1, <3>2 DEF WasAdmitted
  <2>4. ServedInOrder(r)'
    <3>1. /\ req[r].owes \in Nat /\ req[r].owes <= Now("index")
          /\ req[r].kind # "groups" => req[r].owes <= owed
      BY <1>1, <1>6 DEF Fits, ServedInOrder, Asking
    <3>. QED
      BY <1>3, <1>5, <1>7, <1>9, <3>1 DEF ServedInOrder
  <2>. QED
    BY <2>1, <2>2, <2>3, <2>4 DEF Fits
<1>. QED
  BY <1>3, <1>5, <1>9, <1>10, <1>11, <1>12, StepFits

LEMMA WriteFailsKeeps ==
  ASSUME IInv, NEW r \in Requests, WriteFails(r)
  PROVE  IInv'
<1>1. Shapes /\ Running /\ LogHolds /\ Fits(r)
  BY DEF IInv, Shapes
<1>2. End(r) /\ cache' = cache /\ owed' = owed /\ pc[r] = "write"
  BY DEF WriteFails, memory
<1>3. Running'
  BY <1>1, <1>2, EndIs
<1>4. CASE UNCHANGED truth
  <2>1. Shapes' /\ Grown /\ LogHolds'
    BY <1>1, <1>2, <1>3, <1>4, TruthStays DEF Shapes
  <2>. QED
    BY <1>2, <2>1, EndKeeps
<1>5. ASSUME NEW index \in NewIndex(req[r]), Replace("index", index)
      PROVE  IInv'
  <2>1. "index" \in Legs /\ index \in ValuesOf("index")
    BY <1>2, NewIndexIs DEF Legs
  <2>2. Shapes' /\ Grown /\ LogHolds'
    BY <1>1, <1>2, <1>3, <1>5, <2>1, ReplaceGrows DEF Shapes
  <2>. QED
    BY <1>2, <2>2, EndKeeps
<1>. QED
  BY <1>4, <1>5 DEF WriteFails

LEMMA ElsewhereKeeps ==
  ASSUME IInv, NEW leg \in Legs, Elsewhere(leg)
  PROVE  IInv'
<1>1. Shapes /\ Running /\ LogHolds /\ OwedIsKnown
  BY DEF IInv, Shapes
<1>2. PICK value \in ValuesOf(leg) : Replace(leg, value)
  BY DEF Elsewhere
<1>3. cache' = cache /\ owed' = owed /\ pc' = pc /\ fetch' = fetch /\ req' = req /\ low' = low
  BY DEF Elsewhere, memory
<1>4. Shapes' /\ Grown /\ LogHolds'
  BY <1>1, <1>2, <1>3, ReplaceGrows DEF Shapes, Running
<1>5. HeldIsFresh'
  BY <1>3, <1>4, HeldKept
<1>6. \A r \in Requests : Fits(r)'
  BY <1>3, <1>4, OthersKept DEF Alone
<1>7. OwedIsKnown'
  <2>1. Now("index") \in Nat /\ Now("index")' \in Nat /\ Now("index") <= Now("index")'
    BY <1>1, <1>4, Numbers, NowGrows DEF Legs
  <2>. QED
    BY <1>1, <1>3, <2>1 DEF OwedIsKnown, Shapes
<1>. QED
  BY <1>4, <1>5, <1>6, <1>7 DEF IInv

LEMMA ReplyKeeps ==
  ASSUME IInv, NEW r \in Requests, Reply(r)
  PROVE  IInv'
<1>1. Shapes /\ Running /\ LogHolds
  BY DEF IInv, Shapes
<1>2. End(r) /\ UNCHANGED truth /\ cache' = cache /\ owed' = owed
  BY DEF Reply, memory
<1>3. Running'
  BY <1>1, <1>2, EndIs
<1>4. Shapes' /\ Grown /\ LogHolds'
  BY <1>1, <1>2, <1>3, TruthStays DEF Shapes
<1>. QED
  BY <1>2, <1>4, EndKeeps

(* A write that is answered: the entry is gone, and what is filled from    *)
(* now on is no older, unless a call under way was made before the write.  *)
LEMMA InvalidateKeeps ==
  ASSUME IInv, NEW r \in Requests, invalidateGroupIndex(r)
  PROVE  IInv'
<1>1. Shapes /\ Running /\ LogHolds /\ HeldIsFresh /\ OwedIsKnown /\ Fits(r)
  BY DEF IInv, Shapes
<1>2. /\ pc[r] = "invalidate" /\ cache' = DropEntry(cache)
      /\ owed' = IF Overtaken(r) THEN owed ELSE Larger(owed, req[r].ver)
      /\ pc' = [pc EXCEPT ![r] = IF req[r].kind = "rename" THEN "readback" ELSE "reply"]
      /\ UNCHANGED truth /\ fetch' = fetch /\ low' = low
  BY DEF invalidateGroupIndex
<1>3. req[r] \in Asking /\ req[r].ver \in Nat /\ req[r].owes \in Nat /\ owed \in Nat /\ Now("index") \in Nat
  BY <1>1, Numbers DEF Running, Asking, Shapes
<1>4. /\ req[r].ver <= Now("index") /\ req[r].owes <= Now("index") /\ req[r].owes <= owed
      /\ req[r].kind \in {"assign", "rename", "drop"}
      /\ req[r].ver > 0 => req[r].ver >= req[r].owes
  BY <1>1, <1>2 DEF Fits, ServedInOrder, KindFits
<1>5. owed' \in Nat /\ owed <= owed' /\ owed' <= Now("index") /\ owed >= 1
  BY <1>1, <1>2, <1>3, <1>4 DEF Larger, OwedIsKnown
<1>6. PICK n \in Nat : n = IF req[r].kind = "rename" THEN owed' ELSE req[r].owes
  BY <1>3, <1>5
<1>. DEFINE q == [req[r] EXCEPT !.owes = n]
<1>7. /\ q \in Asking /\ q.kind = req[r].kind /\ q.v = req[r].v /\ q.g = req[r].g
      /\ q.set = req[r].set /\ q.limited = req[r].limited /\ q.scope = req[r].scope
      /\ q.ver = req[r].ver /\ q.owes = n
  BY <1>3 DEF Asking
<1>8. req' = [req EXCEPT ![r] = q]
  BY <1>1, <1>6 DEF invalidateGroupIndex, Running
<1>. HIDE DEF q
<1>9. /\ Running' /\ Others(r) /\ req'[r] = q /\ low'[r] = low[r] /\ fetch'[r] = fetch[r]
      /\ pc'[r] = IF req[r].kind = "rename" THEN "readback" ELSE "reply"
  BY <1>1, <1>2, <1>7, <1>8 DEF Running, Others, Alone, Stages
<1>10. /\ cache' \in [Legs -> [ver : Nat, left : 0..TTL]]
       /\ cache'["index"].left = 0 /\ cache'["index"].ver = 0
       /\ \A leg \in Legs : leg # "index" => cache'[leg] = cache[leg]
  <2>1. Empty \in [ver : Nat, left : 0..TTL] /\ Empty.left = 0 /\ Empty.ver = 0
    BY TicksAssumption DEF Empty
  <2>2. PICK c \in [Legs -> [ver : Nat, left : 0..TTL]] : c = cache
    BY <1>1 DEF Shapes
  <2>3. PICK e \in [ver : Nat, left : 0..TTL] : e = Empty
    BY <2>1
  <2>4. cache' = [c EXCEPT !["index"] = e] /\ "index" \in Legs
    BY <1>2, <2>2, <2>3 DEF DropEntry, Legs
  <2> QED
    BY <2>1, <2>2, <2>3, <2>4
<1>11. Shapes' /\ Grown /\ LogHolds' /\ \A leg \in Legs : Now(leg)' = Now(leg)
  BY <1>1, <1>2, <1>5, <1>9, <1>10, TruthStays DEF Shapes
<1>12. log' = log /\ since' = since /\ managed' = managed
  BY <1>2 DEF truth
<1>13. HeldIsFresh'
  <2>1. Now("index")' >= 0 /\ "index" \in Legs
    BY <1>3, <1>11 DEF Legs
  <2>. QED
    BY <1>1, <1>10, <1>11, <1>12, <2>1 DEF HeldIsFresh, Window
<1>14. OwedIsKnown'
  BY <1>3, <1>5, <1>11 DEF OwedIsKnown, Legs
(* Every call for the index that is under way is for what is owed. *)
<1>15. ASSUME NEW s \in Requests, fetch[s].ver > 0, Leg(pc[s]) = "index"
       PROVE  fetch[s].ver >= owed'
  <2>1. fetch[s].ver \in Nat /\ fetch[s].ver >= owed
    BY <1>1, <1>15 DEF IInv, Fits, CallIsFresh, Running
  <2>2. CASE Overtaken(r)
    BY <1>2, <2>1, <2>2
  <2>3. CASE ~Overtaken(r)
    <3>1. fetch[s].ver >= req[r].ver
      BY <1>3, <1>15, <2>1, <2>3 DEF Overtaken
    <3>. QED
      BY <1>2, <1>3, <2>1, <2>3, <3>1 DEF Larger
  <2>. QED
    BY <2>2, <2>3
<1>16. ASSUME NEW s \in Requests, s # r
       PROVE  Fits(s)'
  <2>1. pc'[s] = pc[s] /\ fetch'[s] = fetch[s] /\ req'[s] = req[s] /\ low'[s] = low[s]
    BY <1>9, <1>16 DEF Others, Alone
  <2>2. CallIsFresh(s)
    BY DEF IInv, Fits
  <2>3. CallIsFresh(s)'
    <3>1. CASE ~(fetch[s].ver > 0)
      BY <2>1, <3>1 DEF CallIsFresh
    <3>2. CASE fetch[s].ver > 0
      <4>1. PICK leg \in Legs : leg = Leg(pc[s])
        BY <2>2, <3>2, LegIsLeg DEF CallIsFresh
      <4>2. leg = Leg(pc[s])'
        BY <2>1, <4>1 DEF Leg
      <4>3. Now(leg)' = Now(leg)
        BY <1>11
      <4>. QED
        BY <1>12, <1>15, <2>1, <2>2, <3>2, <4>1, <4>2, <4>3 DEF CallIsFresh
    <3>. QED
      BY <3>1, <3>2
  <2>. QED
    BY <1>5, <1>11, <2>1, <2>3, FoundKept, LowKept DEF Fits
<1>17. Fits(r)'
  <2>1. CallIsFresh(r)' /\ LowIsLow(r)'
    <3>1. ~(fetch[r].ver > 0)
      BY <1>1, <1>2 DEF Fits, CallIsFresh, Consults
    <3>. QED
      BY <1>9, <1>11, <3>1, LowKept DEF CallIsFresh
  <2>2. KindFits(r)' /\ WithinEntitled(r)' /\ WithinActive(r)' /\ WithinScope(r)'
    BY <1>1, <1>4, <1>7, <1>9 DEF Fits, KindFits, WithinEntitled, WithinActive, WithinScope, Kinds
  <2>3. WasAdmitted(r)'
    BY <1>1, <1>2, <1>7, <1>9, <1>11, <1>12 DEF Fits, WasAdmitted, Legs
  <2>4. ServedInOrder(r)'
    <3>1. Now("index")' = Now("index")
      BY <1>11 DEF Legs
    <3>. QED
      BY <1>3, <1>4, <1>5, <1>6, <1>7, <1>9, <3>1 DEF ServedInOrder
  <2>. QED
    BY <2>1, <2>2, <2>3, <2>4 DEF Fits
<1>. QED
  BY <1>11, <1>13, <1>14, <1>16, <1>17 DEF IInv

(* Time passes for what is held and for the calls alike. *)
LEMMA TickKeeps ==
  ASSUME IInv, Tick
  PROVE  IInv'
<1>1. Shapes /\ Running /\ LogHolds /\ HeldIsFresh /\ OwedIsKnown
  BY DEF IInv, Shapes
<1>2. /\ log' = log /\ managed' = managed /\ changes' = changes /\ overlap' = overlap
      /\ pc' = pc /\ req' = req /\ low' = low /\ owed' = owed
      /\ \A leg \in Legs : Now(leg)' = Now(leg)
  BY DEF Tick, Now
<1>3. /\ TTL \in Nat /\ FetchTime \in Nat /\ Window \in Nat /\ Window' = Window
      /\ \A leg \in Legs : Now(leg) \in Nat /\ Now(leg) >= 1 /\ Len(log[leg]) = Now(leg)
  BY <1>1, Numbers DEF Window
<1>4. ASSUME NEW leg \in Legs
      PROVE  /\ since'[leg] \in Seq(0..Window) /\ Len(since'[leg]) = Now(leg)
             /\ since'[leg][Now(leg)] = 0
             /\ \A i \in 1..Now(leg) :
                  /\ since[leg][i] \in 0..Window
                  /\ since'[leg][i] = IF i = Now(leg) \/ since[leg][i] = Window
                                      THEN since[leg][i] ELSE since[leg][i] + 1
  <2>1. \A i \in 1..Now(leg) : since[leg][i] \in 0..Window
    BY <1>1, Numbers
  <2>2. since[leg] \in Seq(0..Window) /\ Len(since[leg]) = Now(leg) /\ since[leg][Now(leg)] = 0
    BY <1>1, <1>3 DEF Shapes, LogHolds
  <2>3. DOMAIN since[leg] = 1..Now(leg)
    BY <2>2
  <2>4. since'[leg] = [i \in 1..Now(leg) |->
                        IF i = Now(leg) \/ since[leg][i] = Window THEN since[leg][i] ELSE since[leg][i] + 1]
    BY <2>3 DEF Tick
  <2>5. \A i \in 1..Now(leg) : since'[leg][i] \in 0..Window
    BY <1>3, <2>1, <2>4
  <2>6. since'[leg] \in [1..Now(leg) -> 0..Window]
    BY <2>4, <2>5
  <2>7. ASSUME NEW S, NEW n \in Nat, NEW f \in [1..n -> S]
        PROVE  f \in Seq(S) /\ Len(f) = n
    OBVIOUS
  <2>. QED
    BY <1>3, <2>1, <2>2, <2>4, <2>6, <2>7
<1>5. ASSUME NEW leg \in Legs
      PROVE  /\ cache'[leg] \in [ver : Nat, left : 0..TTL]
             /\ cache'[leg].ver <= Now(leg)
             /\ cache'[leg].left > 0 => cache'[leg].ver = cache[leg].ver /\ cache'[leg].left = cache[leg].left - 1
                                        /\ cache[leg].left > 0
  <2>1. cache[leg] \in [ver : Nat, left : 0..TTL] /\ cache[leg].ver <= Now(leg)
    BY <1>1 DEF Shapes, HeldIsFresh
  <2>2. cache'[leg] = IF cache[leg].left <= 1 THEN Empty ELSE [cache[leg] EXCEPT !.left = cache[leg].left - 1]
    BY <1>1 DEF Tick, Shapes
  <2>. QED
    BY <1>3, <2>1, <2>2 DEF Empty
<1>6. ASSUME NEW r \in Requests
      PROVE  /\ fetch'[r] \in [ver : Nat, age : 0..FetchTime]
             /\ fetch'[r].ver = fetch[r].ver
             /\ fetch[r].ver > 0 => fetch'[r].age = fetch[r].age + 1
  <2>1. fetch[r] \in [ver : Nat, age : 0..FetchTime] /\ (fetch[r].ver > 0 => pc[r] # "idle")
    BY <1>1 DEF Running, IInv, Fits, CallIsFresh, Consults
  <2>2. fetch'[r] = IF fetch[r].ver = 0 THEN NoFetch ELSE [fetch[r] EXCEPT !.age = fetch[r].age + 1]
    BY <1>1 DEF Tick, Running
  <2>3. fetch[r].ver > 0 => fetch[r].age < FetchTime
    BY <2>1 DEF Tick
  <2>. QED
    BY <1>3, <2>1, <2>2, <2>3 DEF NoFetch
<1>7. Running'
  <2>1. DOMAIN fetch' = Requests /\ fetch' = [r \in Requests |-> fetch'[r]]
    BY DEF Tick
  <2>. QED
    BY <1>1, <1>2, <1>6, <2>1 DEF Running
<1>8. Shapes'
  <2>1. since' = [leg \in Legs |-> since'[leg]] /\ cache' = [leg \in Legs |-> cache'[leg]]
    BY DEF Tick
  <2>2. since' \in [Legs -> Seq(0..Window)] /\ cache' \in [Legs -> [ver : Nat, left : 0..TTL]]
    BY <1>4, <1>5, <2>1
  <2>. QED
    BY <1>1, <1>2, <1>3, <1>7, <2>2 DEF Shapes
<1>9. LogHolds'
  <2>1. \A leg : ValuesOf(leg)' = ValuesOf(leg)
    BY DEF ValuesOf
  <2>. QED
    BY <1>1, <1>2, <1>3, <1>4, <2>1 DEF LogHolds
<1>10. HeldIsFresh'
  <2>1. ASSUME NEW leg \in Legs, cache'[leg].left > 0
        PROVE  /\ cache'[leg].ver >= 1
               /\ cache'[leg].ver = Now(leg) \/ since'[leg][cache'[leg].ver] + cache'[leg].left <= Window
               /\ leg = "index" => cache'[leg].ver >= owed
    <3>1. /\ cache[leg].ver \in Nat /\ cache[leg].left \in Nat /\ cache[leg].ver <= Now(leg)
          /\ cache[leg].ver >= 1
          /\ cache[leg].ver = Now(leg) \/ since[leg][cache[leg].ver] + cache[leg].left <= Window
          /\ leg = "index" => cache[leg].ver >= owed
          /\ cache'[leg].ver = cache[leg].ver /\ cache'[leg].left = cache[leg].left - 1
      BY <1>1, <1>3, <1>5, <2>1 DEF Shapes, HeldIsFresh
    <3>2. cache[leg].ver \in 1..Now(leg)
      BY <1>3, <3>1
    <3>3. cache[leg].ver = Now(leg) \/ since'[leg][cache[leg].ver] + (cache[leg].left - 1) <= Window
      <4>1. /\ since[leg][cache[leg].ver] \in Int /\ since'[leg][cache[leg].ver] \in Int
            /\ since'[leg][cache[leg].ver] <= since[leg][cache[leg].ver] + 1
        <5>1. PICK i \in 1..Now(leg) : i = cache[leg].ver
          BY <3>2
        <5>2. /\ since[leg][i] \in 0..Window
              /\ since'[leg][i] = IF i = Now(leg) \/ since[leg][i] = Window
                                  THEN since[leg][i] ELSE since[leg][i] + 1
          BY <1>4
        <5>. QED
          BY <1>3, <5>1, <5>2
      <4>2. cache[leg].left \in Int /\ Window \in Int
        BY <1>3, <3>1
      <4>. QED
        BY <3>1, <4>1, <4>2
    <3>. QED
      BY <3>1, <3>3
  <2>. QED
    BY <1>2, <1>3, <1>5, <2>1 DEF HeldIsFresh
<1>11. ASSUME NEW r \in Requests
       PROVE  Fits(r)'
  <2>1. Fits(r)
    BY DEF IInv
  <2>2. CallIsFresh(r)'
    <3>1. CASE ~(fetch[r].ver > 0)
      BY <1>6, <3>1 DEF CallIsFresh
    <3>2. CASE fetch[r].ver > 0
      <4>1. PICK leg \in Legs : leg = Leg(pc[r])
        BY <2>1, <3>2, LegIsLeg DEF Fits, CallIsFresh
      <4>2. /\ fetch[r].ver \in Nat /\ fetch[r].age \in Nat /\ fetch[r].ver <= Now(leg)
            /\ fetch[r].ver = Now(leg) \/ since[leg][fetch[r].ver] <= fetch[r].age
        BY <1>1, <1>3, <2>1, <3>2, <4>1 DEF Running, Fits, CallIsFresh
      <4>3. fetch[r].ver \in 1..Now(leg)
        BY <1>3, <3>2, <4>2
      <4>4. fetch[r].ver = Now(leg) \/ since'[leg][fetch[r].ver] <= fetch'[r].age
        <5>1. /\ since[leg][fetch[r].ver] \in Int /\ since'[leg][fetch[r].ver] \in Int
              /\ since'[leg][fetch[r].ver] <= since[leg][fetch[r].ver] + 1
          <6>1. PICK i \in 1..Now(leg) : i = fetch[r].ver
            BY <4>3
          <6>2. /\ since[leg][i] \in 0..Window
                /\ since'[leg][i] = IF i = Now(leg) \/ since[leg][i] = Window
                                    THEN since[leg][i] ELSE since[leg][i] + 1
            BY <1>4
          <6>. QED
            BY <1>3, <6>1, <6>2
        <5>2. fetch'[r].age = fetch[r].age + 1
          BY <1>6, <3>2
        <5>. QED
          BY <4>2, <5>1, <5>2
      <4>5. leg = Leg(pc[r])'
        BY <1>2, <4>1 DEF Leg
      <4>. QED
        BY <1>2, <1>6, <2>1, <3>2, <4>1, <4>4, <4>5 DEF Fits, CallIsFresh
    <3>. QED
      BY <3>1, <3>2
  <2>3. LowIsLow(r)'
    <3>1. ASSUME NEW leg \in Legs
          PROVE  /\ low[r][leg] >= 1 /\ low[r][leg] <= Now(leg)
                 /\ \A i \in 1..Now(leg) : i < low[r][leg] => since'[leg][i] = Window
      <4>1. /\ low[r][leg] >= 1 /\ low[r][leg] <= Now(leg)
            /\ \A i \in 1..Now(leg) : i < low[r][leg] => since[leg][i] = Window
        BY <2>1 DEF Fits, LowIsLow
      <4>. QED
        BY <1>4, <4>1
    <3>. QED
      BY <1>2, <1>3, <3>1 DEF LowIsLow
  <2>4. KindFits(r)' /\ WasAdmitted(r)' /\ WithinEntitled(r)' /\ WithinActive(r)' /\ WithinScope(r)' /\ ServedInOrder(r)'
    BY <1>2, <2>1
    DEF Fits, KindFits, WasAdmitted, WithinEntitled, WithinActive, WithinScope, ServedInOrder, Legs
  <2>. QED
    BY <2>2, <2>3, <2>4 DEF Fits
<1>12. OwedIsKnown'
  BY <1>1, <1>2 DEF OwedIsKnown, Legs
<1>. QED
  BY <1>8, <1>9, <1>10, <1>11, <1>12 DEF IInv

-----------------------------------------------------------------------------
(* The theorems *)

LEMMA InitEstablishes == Init => IInv
<1>. SUFFICES ASSUME Init PROVE IInv
  OBVIOUS
<1>1. PICK a \in Answers, active \in Memberships, index \in [Groups -> SUBSET Vehicles] :
        log = [leg \in Legs |-> CASE leg = "authz"    -> <<a>>
                                  [] leg = "entitled" -> <<Vehicles>>
                                  [] leg = "active"   -> <<active>>
                                  [] leg = "index"    -> <<index>>]
  BY DEF Init
<1>2. "index" \in Legs /\ "authz" \in Legs /\ "entitled" \in Legs /\ "active" \in Legs
  BY DEF Legs
<1>3. log["authz"] = <<a>> /\ log["entitled"] = <<Vehicles>> /\ log["active"] = <<active>> /\ log["index"] = <<index>>
  BY <1>1, <1>2
<1>4. ASSUME NEW leg \in Legs
      PROVE  \E value \in ValuesOf(leg) : log[leg] = <<value>>
  <2>1. leg \in {"authz", "entitled", "active", "index"}
    BY DEF Legs
  <2>. QED
    BY <1>3, <2>1, ValuesAre
<1>5. ASSUME NEW leg \in Legs
      PROVE  /\ log[leg] \in Seq(AnyValue) /\ Len(log[leg]) = 1
             /\ \A i \in 1..Len(log[leg]) : log[leg][i] \in ValuesOf(leg)
             /\ since[leg] \in Seq(0..Window) /\ Len(since[leg]) = 1 /\ since[leg][1] = 0
  <2>1. PICK value \in ValuesOf(leg) : log[leg] = <<value>>
    BY <1>4
  <2>2. value \in AnyValue
    BY DEF AnyValue
  <2>3. since[leg] = <<0>> /\ 0 \in 0..Window
    BY TicksAssumption DEF Init, Window
  <2>4. ASSUME NEW S, NEW e \in S
        PROVE  <<e>> \in Seq(S) /\ Len(<<e>>) = 1 /\ <<e>>[1] = e
    OBVIOUS
  <2>. QED
    BY <2>1, <2>2, <2>3, <2>4
<1>6. log \in [Legs -> Seq(AnyValue)] /\ since \in [Legs -> Seq(0..Window)]
  <2>1. log = [leg \in Legs |-> log[leg]] /\ since = [leg \in Legs |-> since[leg]]
    BY <1>1 DEF Init
  <2>. QED
    BY <1>5, <2>1
<1>7. /\ NoFetch \in [ver : Nat, age : 0..FetchTime] /\ Idle \in Asking /\ "idle" \in Stages
      /\ First \in [Legs -> Nat] /\ Empty \in [ver : Nat, left : 0..TTL]
  BY TicksAssumption DEF NoFetch, Idle, Asking, Stages, First, Empty
<1>8. Shapes
  <2>1. Running
    BY <1>7 DEF Init, Running
  <2>2. cache \in [Legs -> [ver : Nat, left : 0..TTL]]
    BY <1>7 DEF Init
  <2>3. managed \in BOOLEAN /\ owed \in Nat /\ changes \in Nat /\ overlap \in 0..1
    BY DEF Init
  <2>. QED
    BY <1>6, <2>1, <2>2, <2>3 DEF Shapes
<1>9. LogHolds
  BY <1>5 DEF LogHolds
<1>10. \A leg \in Legs : Now(leg) = 1
  BY <1>5 DEF Now
<1>11. HeldIsFresh /\ OwedIsKnown
  BY <1>2, <1>10 DEF Init, HeldIsFresh, OwedIsKnown, Empty
<1>12. ASSUME NEW r \in Requests
       PROVE  Fits(r)
  <2>1. pc[r] = "idle" /\ req[r] = Idle /\ fetch[r] = NoFetch /\ low[r] = First
    BY DEF Init
  <2>2. LowIsLow(r)
    BY <1>10, <2>1 DEF LowIsLow, First
  <2>3. CallIsFresh(r) /\ ServedInOrder(r)
    BY <1>2, <1>10, <2>1 DEF CallIsFresh, NoFetch, ServedInOrder, Idle, Init
  <2>. QED
    BY <2>1, <2>2, <2>3
    DEF Fits, KindFits, WasAdmitted, WithinEntitled, WithinActive, WithinScope, Idle
<1>. QED
  BY <1>8, <1>9, <1>11, <1>12 DEF IInv

LEMMA NextPreserves == IInv /\ [Next]_vars => IInv'
<1>. SUFFICES ASSUME IInv, [Next]_vars PROVE IInv'
  OBVIOUS
<1>1. CASE Tick
  BY <1>1, TickKeeps
<1>2. ASSUME NEW leg \in Legs, Elsewhere(leg)
      PROVE  IInv'
  BY <1>2, ElsewhereKeeps
<1>3. ASSUME NEW r \in Requests, Asked(r)
      PROVE  IInv'
  <2>1. ASSUME NEW kind \in {"list", "groups", "settings"}, Begin(r, kind, "none", "none")
        PROVE  IInv'
    BY <2>1, BeginKeeps DEF Kinds
  <2>2. ASSUME NEW kind \in {"rename", "drop"}, NEW g \in Groups, Begin(r, kind, "none", g)
        PROVE  IInv'
    BY <2>2, BeginKeeps DEF Kinds
  <2>3. ASSUME NEW v \in Vehicles, NEW g \in Groups, Begin(r, "assign", v, g)
        PROVE  IInv'
    BY <2>3, BeginKeeps DEF Kinds
  <2>. QED
    BY <1>3, <2>1, <2>2, <2>3 DEF Asked
<1>4. ASSUME NEW r \in Requests, Step(r)
      PROVE  IInv'
  BY <1>4, HitKeeps, AskKeeps, FillKeeps, FetchFailsKeeps, ReadRowsKeeps, WriteKeeps, WriteFailsKeeps,
     InvalidateKeeps, ReplyKeeps DEF Step
<1>5. CASE UNCHANGED vars
  <2>1. /\ UNCHANGED truth /\ cache' = cache /\ owed' = owed
        /\ pc' = pc /\ fetch' = fetch /\ req' = req /\ low' = low
    BY <1>5 DEF vars, truth
  <2>2. Shapes /\ LogHolds
    BY DEF IInv
  <2>3. Shapes' /\ Grown /\ LogHolds'
    BY <2>1, <2>2, TruthStays DEF Shapes, Running
  <2>4. HeldIsFresh' /\ \A r \in Requests : Fits(r)'
    BY <2>1, <2>3, HeldKept, OthersKept DEF Alone
  <2>5. OwedIsKnown'
    BY <2>1 DEF IInv, OwedIsKnown, truth, Now
  <2>. QED
    BY <2>3, <2>4, <2>5 DEF IInv
<1>. QED
  BY <1>1, <1>2, <1>3, <1>4, <1>5 DEF Next

LEMMA AlwaysIInv == Spec => []IInv
<1>. QED
  BY InitEstablishes, NextPreserves, PTL DEF Spec

(* The changes that were counted are those in the logs. *)
Counted ==
  /\ \A leg \in Legs : Now(leg) <= changes + 1
  /\ changes + overlap <= MaxChanges

LEMMA ReplaceCounts ==
  ASSUME IInv, Counted, MaxChanges \in Nat, NEW leg \in Legs, NEW value \in ValuesOf(leg), Replace(leg, value)
  PROVE  Counted'
<1>1. Shapes /\ LogHolds
  BY DEF IInv
<1>2. changes' = changes + 1 /\ overlap' = overlap /\ changes + overlap < MaxChanges
  BY DEF Replace
<1>3. \A l \in Legs : l # leg => Now(l)' = Now(l)
  BY <1>1 DEF Replace, Shapes, Now
<1>4. Now(leg)' = Now(leg) + 1 /\ \A l \in Legs : Now(l) \in Nat
  BY <1>1, ReplaceGrows, Numbers
<1>5. changes \in Nat /\ overlap \in Nat
  BY <1>1 DEF Shapes
<1>6. \A l \in Legs : Now(l)' <= changes' + 1
  BY <1>2, <1>3, <1>4, <1>5 DEF Counted
<1>. QED
  BY <1>2, <1>5, <1>6 DEF Counted

LEMMA CountedPreserved == MaxChanges \in Nat /\ IInv /\ Counted /\ [Next]_vars => Counted'
<1>. SUFFICES ASSUME MaxChanges \in Nat, IInv, Counted, [Next]_vars PROVE Counted'
  OBVIOUS
<1>1. ASSUME log' = log, changes' = changes, overlap' = overlap \/ changes + overlap' <= MaxChanges
      PROVE  Counted'
  BY <1>1 DEF Counted, Now
<1>2. CASE Tick
  BY <1>1, <1>2 DEF Tick
<1>3. ASSUME NEW leg \in Legs, Elsewhere(leg)
      PROVE  Counted'
  BY <1>3, ReplaceCounts DEF Elsewhere
<1>4. ASSUME NEW r \in Requests, Asked(r)
      PROVE  Counted'
  <2>1. changes \in Nat
    BY DEF IInv, Shapes
  <2>. QED
    BY <1>1, <1>4, <2>1 DEF Asked, Begin
<1>5. ASSUME NEW r \in Requests, Step(r)
      PROVE  Counted'
  <2>1. ASSUME UNCHANGED truth
        PROVE  Counted'
    BY <1>1, <2>1 DEF truth
  <2>2. ASSUME NEW index \in NewIndex(req[r]), Replace("index", index), pc[r] = "write"
        PROVE  Counted'
    BY <2>2, NewIndexIs, ReplaceCounts DEF Legs
  <2>3. CASE Write(r)
    BY <2>2, <2>3 DEF Write
  <2>4. CASE WriteFails(r)
    BY <2>1, <2>2, <2>4 DEF WriteFails
  <2>. QED
    BY <1>5, <2>1, <2>3, <2>4
    DEF Step, Hit, Ask, Fill, FetchFails, ReadRows, invalidateGroupIndex, Reply
<1>6. CASE UNCHANGED vars
  BY <1>1, <1>6 DEF vars
<1>. QED
  BY <1>2, <1>3, <1>4, <1>5, <1>6 DEF Next

LEMMA CountedAtFirst == MaxChanges \in Nat /\ Init => Counted
<1>. SUFFICES ASSUME MaxChanges \in Nat, Init PROVE Counted
  OBVIOUS
<1>1. changes = 0 /\ overlap = 0 /\ since = [leg \in Legs |-> <<0>>]
  BY DEF Init
<1>2. \A leg \in Legs : Now(leg) = 1
  BY <1>1, InitEstablishes DEF IInv, LogHolds, Now
<1>. QED
  BY <1>1, <1>2 DEF Counted

LEMMA CountedIsTyped == MaxChanges \in Nat /\ IInv /\ Counted => TypeOK
<1>. SUFFICES ASSUME MaxChanges \in Nat, IInv, Counted PROVE TypeOK
  OBVIOUS
<1>1. Shapes /\ Running /\ LogHolds /\ HeldIsFresh /\ OwedIsKnown
  BY DEF IInv, Shapes
<1>2. ASSUME NEW leg \in Legs
      PROVE  /\ Truth(leg) \in ValuesOf(leg) /\ Len(log[leg]) \in 1..(MaxChanges + 1)
             /\ since[leg] \in [DOMAIN log[leg] -> 0..Window]
             /\ cache[leg].ver \in 0..Now(leg) /\ cache[leg].left \in 0..TTL
  <2>1. Now(leg) = Len(log[leg]) /\ Now(leg) \in Nat /\ Now(leg) >= 1 /\ Now(leg) <= MaxChanges + 1
    <3>1. changes \in Nat /\ overlap \in Nat
      BY <1>1 DEF Shapes
    <3>. QED
      BY <1>1, <3>1, Numbers DEF Counted
  <2>2. Truth(leg) \in ValuesOf(leg)
    BY <1>1, <2>1 DEF LogHolds, Truth
  <2>3. since[leg] \in [DOMAIN log[leg] -> 0..Window]
    <3>1. log[leg] \in Seq(AnyValue) /\ since[leg] \in Seq(0..Window) /\ Len(since[leg]) = Len(log[leg])
      BY <1>1 DEF Shapes, LogHolds
    <3>2. ASSUME NEW S, NEW s \in Seq(S)
          PROVE  s \in [1..Len(s) -> S] /\ DOMAIN s = 1..Len(s)
      OBVIOUS
    <3>. QED
      BY <3>1, <3>2
  <2>4. cache[leg].ver \in 0..Now(leg) /\ cache[leg].left \in 0..TTL
    BY <1>1, <2>1 DEF Shapes, HeldIsFresh
  <2>. QED
    BY <2>1, <2>2, <2>3, <2>4
<1>3. ASSUME NEW r \in Requests
      PROVE  /\ fetch[r].ver > 0 => pc[r] \in Consults /\ fetch[r].ver \in 1..Now(Leg(pc[r]))
             /\ fetch[r].age \in 0..FetchTime
             /\ req[r].kind \in Kinds \union {"none"}
             /\ req[r].set \subseteq Vehicles /\ req[r].scope \subseteq Groups
             /\ \A leg \in Legs : low[r][leg] \in 1..Now(leg)
             /\ req[r].ver \in 0..Now("index") /\ req[r].owes \in 0..Now("index")
  <2>1. fetch[r] \in [ver : Nat, age : 0..FetchTime] /\ req[r] \in Asking /\ low[r] \in [Legs -> Nat]
    BY <1>1 DEF Running
  <2>2. CallIsFresh(r) /\ LowIsLow(r) /\ ServedInOrder(r)
    BY DEF IInv, Fits
  <2>3. \A leg \in Legs : Now(leg) \in Nat
    BY <1>1, Numbers
  <2>4. fetch[r].ver > 0 => pc[r] \in Consults /\ fetch[r].ver \in 1..Now(Leg(pc[r]))
    BY <2>1, <2>2, <2>3, LegIsLeg DEF CallIsFresh
  <2>5. \A leg \in Legs : low[r][leg] \in 1..Now(leg)
    BY <2>1, <2>2, <2>3 DEF LowIsLow
  <2>6. req[r].ver \in 0..Now("index") /\ req[r].owes \in 0..Now("index")
    BY <2>1, <2>2, <2>3 DEF ServedInOrder, Asking, Legs
  <2>. QED
    BY <2>1, <2>4, <2>5, <2>6 DEF Asking
<1>4. owed \in 1..Now("index") /\ overlap \in 0..1
  BY <1>1, Numbers DEF OwedIsKnown, Shapes
<1>. QED
  BY <1>1, <1>2, <1>3, <1>4 DEF TypeOK, Shapes, Running

(* No request and no cache ever holds an answer that was never given. *)
THEOREM TypeCorrect ==
  ASSUME MaxChanges \in Nat
  PROVE  Spec => []TypeOK
<1>. QED
  BY CountedAtFirst, CountedIsTyped, CountedPreserved, AlwaysIInv, PTL DEF Spec

LEMMA RightsNow == IInv => RevocationTakesEffect
<1>. SUFFICES ASSUME IInv PROVE RevocationTakesEffect
  OBVIOUS
<1>1. Shapes /\ LogHolds
  BY DEF IInv
<1>2. ASSUME NEW r \in Requests, NEW leg \in Legs, NEW i \in 1..Now(leg), i >= low[r][leg]
      PROVE  log[leg][i] \in Recent(r, leg)
  <2>1. i \in low[r][leg]..Now(leg)
    BY <1>1, <1>2, Numbers DEF Shapes, Running
  <2>. QED
    BY <2>1 DEF Recent
<1>3. ASSUME NEW r \in Requests, pc[r] \notin {"idle", "authz"}
      PROVE  \E a \in Recent(r, "authz") :
               Admitted(req[r].kind, a) /\ req[r].limited = a.limited /\ req[r].scope = a.scope
  <2>1. PICK i \in 1..Now("authz") :
          /\ i >= low[r]["authz"] /\ Admitted(req[r].kind, log["authz"][i])
          /\ req[r].limited = log["authz"][i].limited /\ req[r].scope = log["authz"][i].scope
    BY <1>3 DEF IInv, Fits, WasAdmitted
  <2>2. log["authz"][i] \in Recent(r, "authz")
    BY <1>2, <2>1 DEF Legs
  <2>. QED
    BY <2>1, <2>2
<1>4. ASSUME NEW r \in Requests, pc[r] = "reply", req[r].kind = "list", NEW v \in req[r].set
      PROVE  /\ \E a \in Recent(r, "authz") :
                  /\ a.via = "direct"
                  /\ a.limited => \E g \in a.scope, index \in Recent(r, "index") : v \in index[g]
             /\ \E vs \in Recent(r, "entitled") : v \in vs
             /\ \E m \in Recent(r, "active") : m.enforced => v \in m.tokens
  <2>1. PICK a \in Recent(r, "authz") :
          Admitted(req[r].kind, a) /\ req[r].limited = a.limited /\ req[r].scope = a.scope
    BY <1>3, <1>4
  <2>2. PICK i \in 1..Now("entitled") :
          i >= low[r]["entitled"] /\ req[r].set \subseteq log["entitled"][i]
    BY <1>4 DEF IInv, Fits, WithinEntitled
  <2>3. PICK j \in 1..Now("active") :
          /\ j >= low[r]["active"]
          /\ log["active"][j].enforced => req[r].set \subseteq log["active"][j].tokens
    BY <1>4 DEF IInv, Fits, WithinActive
  <2>4. log["entitled"][i] \in Recent(r, "entitled") /\ log["active"][j] \in Recent(r, "active")
    BY <1>2, <2>2, <2>3 DEF Legs
  <2>5. a.limited => \E g \in a.scope, index \in Recent(r, "index") : v \in index[g]
    <3>. SUFFICES ASSUME a.limited
                  PROVE  \E g \in a.scope, index \in Recent(r, "index") : v \in index[g]
      OBVIOUS
    <3>1. PICK k \in 1..Now("index") :
            /\ k >= low[r]["index"]
            /\ req[r].set \subseteq TokenIDsForGroups(log["index"][k], req[r].scope)
      BY <1>4, <2>1 DEF IInv, Fits, WithinScope
    <3>2. log["index"][k] \in Recent(r, "index")
      BY <1>2, <3>1 DEF Legs
    <3>3. PICK g \in req[r].scope : v \in log["index"][k][g]
      BY <1>4, <3>1 DEF TokenIDsForGroups
    <3>. QED
      BY <2>1, <3>2, <3>3
  <2>6. a.via = "direct"
    BY <2>1 DEF Admitted
  <2>. QED
    BY <1>4, <2>2, <2>3, <2>4, <2>5, <2>6
<1>5. ASSUME NEW r \in Requests, pc[r] = "invalidate" \/ (pc[r] = "reply" /\ req[r].kind = "settings")
      PROVE  \E a \in Recent(r, "authz") :
               a.via = "direct" /\ IF req[r].kind = "settings" THEN a.manage ELSE ~a.limited
  <2>1. PICK a \in Recent(r, "authz") : Admitted(req[r].kind, a)
    BY <1>3, <1>5
  <2>2. pc[r] = "invalidate" => req[r].kind \in {"assign", "rename", "drop"}
    BY DEF IInv, Fits, KindFits
  <2>. QED
    BY <1>5, <2>1, <2>2 DEF Admitted
<1>. QED
  BY <1>4, <1>5 DEF RevocationTakesEffect, ShowsByRights, WritesByRights

(***************************************************************************)
(* Whatever rights change, wherever, and however the cached answers, the   *)
(* calls and the failures of several requests fall: what a list shows and  *)
(* a write goes by was allowed within TTL and one call before the request  *)
(* began (tenant.go, vehicle.go, membership.go, fleet_group.go).           *)
(***************************************************************************)
THEOREM RightsAreRecent == Spec => []RevocationTakesEffect
<1>. QED
  BY RightsNow, AlwaysIInv, PTL

LEMMA WritesNow == IInv => OwnWritesShow
BY DEF IInv, Fits, ServedInOrder, OwnWritesShow

(***************************************************************************)
(* However writes, fills and replies of one replica overlap, a request is  *)
(* served the index that was written and answered before it began, or a    *)
(* newer one, the fills a write overtook excepted (invalidateGroupIndex,   *)
(* groupIndexFresh).                                                       *)
(***************************************************************************)
THEOREM RepliesFollowWrites == Spec => []OwnWritesShow
<1>. QED
  BY WritesNow, AlwaysIInv, PTL

-----------------------------------------------------------------------------
(***************************************************************************)
(* Screens: what a geofence screen shows.  An answer on its way, and what  *)
(* is shown, was within reach at some time since the screen was opened.    *)
(***************************************************************************)

-----------------------------------------------------------------------------
(* Geofence screens: the place of each read in a plan, as numbers.         *)
Listed == {"one", "vehicles", "targets"}

GroupsAt(kind) == IF kind = "passes" THEN 1 ELSE IF kind \in Listed THEN 3 ELSE 2
ActiveAt(kind) ==
  IF kind = "trip" THEN 1 ELSE IF kind = "passes" THEN 2 ELSE IF kind = "counts" THEN 3 ELSE 4
FenceAt(q) == IF q.kind = "passes" /\ q.limited THEN 3 ELSE 1
SetAt(q) == IF q.kind = "counts" \/ (q.kind = "passes" /\ q.limited) THEN 4 ELSE 2
LastAt(q) == IF q.limited THEN 4 ELSE IF q.kind \in {"counts", "trip"} THEN 1 ELSE 2

Screen ==
  [at : {"idle", "reading", "done"}, kind : Screens!Kinds \union {"none"}, next : 1..5,
   limited : BOOLEAN, scope : SUBSET Zones, fence : Screens!Fences, reach : SUBSET Tokens,
   shown : SUBSET Tokens, total : 0..Cardinality(Tokens), capped : BOOLEAN, lost : BOOLEAN]

Reading(q) == q \in Screen /\ q.at = "reading" /\ q.kind # "none" /\ q.next <= LastAt(q)

LEMMA StepsAre ==
  ASSUME NEW q, Reading(q)
  PROVE  LET step == Screens!StepOf(q)
         IN  /\ step = "groups" <=> q.limited /\ q.next = GroupsAt(q.kind)
             /\ step = "active" <=> q.limited /\ q.next = ActiveAt(q.kind)
             /\ step = "effective" <=>
                  q.kind # "trip" /\ q.next = SetAt(q) /\ (q.kind = "counts" => q.limited)
             /\ step = "count" <=> q.kind = "counts" /\ q.next = 1
             /\ step = "fence" <=> q.kind \notin {"counts", "trip"} /\ q.next = FenceAt(q)
             /\ step \in {"groups", "active", "effective", "count", "fence", "row", "exists"}
             /\ Len(Screens!Plan(q.kind, q.limited)) = LastAt(q)
<1> USE DEF Screens!StepOf, Screens!Plan, GroupsAt, ActiveAt, FenceAt, SetAt, LastAt, Listed
<1>1. q.kind \in Screens!Kinds /\ q.limited \in BOOLEAN /\ q.next \in 1..4 /\ q.next <= LastAt(q)
  BY DEF Reading, Screen
<1>2. CASE q.kind = "counts"
  BY <1>1, <1>2
<1>3. CASE q.kind = "passes"
  BY <1>1, <1>3
<1>4. CASE q.kind = "trip"
  BY <1>1, <1>4
<1>5. CASE q.kind \in Listed
  BY <1>1, <1>5
<1> QED
  BY <1>1, <1>2, <1>3, <1>4, <1>5 DEF Screens!Kinds

(* What was so of a vehicle at some time since the request began. *)
InGroups(q, v) == \E w \in s3 : v \in Screens!TokenIDsForGroups(w.index, q.scope)
IsActive(v)    == \E w \in s3 : v \in Screens!NarrowToActive(Tokens, w.active)

Allowed(q, v, w) == v \in Screens!NarrowToActive(Screens!TokenIDsForGroups(w.index, q.scope), w.active)
Applies(q, v, w) == v \in Screens!EffectiveTokenIDs(q.fence, w)

(* A list of nothing asks no more. *)
Emptied(q) == q.kind \in Listed /\ q.shown = {}

IsSet(q) ==
  /\ q.kind # "trip"
  /\ q.next > (IF q.kind = "counts" /\ ~q.limited THEN 1 ELSE SetAt(q))

(* Why each vehicle is still within reach, and each that is shown is shown. *)
ReachIsFine(q) ==
  /\ q.limited /\ q.next > GroupsAt(q.kind) => Emptied(q) \/ \A v \in q.reach : InGroups(q, v)
  /\ q.limited /\ q.next > ActiveAt(q.kind) => Emptied(q) \/ \A v \in q.reach : IsActive(v)
  /\ \A v \in Tokens : (\A w \in s3 : Allowed(q, v, w)) => v \in q.reach

NarrowedAt(kind) == IF kind \in {"passes", "trip"} THEN 2 ELSE 4

ShownIsFine(q) ==
  /\ q.limited /\ q.next > NarrowedAt(q.kind) => q.shown \subseteq q.reach
  /\ IsSet(q) \/ (q.kind = "counts" /\ q.next > 1) => \A v \in q.shown : Screens!Belongs(q, v)
  /\ IsSet(q) /\ ~q.lost /\ ~q.capped /\ q.kind # "passes" =>
       \A v \in Tokens :
         (\A w \in s3 : Applies(q, v, w) /\ (q.limited => Allowed(q, v, w))) => v \in q.shown

CountIsFine(q) ==
  q.kind = "targets" /\ IsSet(q) =>
    /\ Cardinality(q.shown) <= MaxScanVehicles
    /\ ~q.capped => q.total = Cardinality(q.shown)

ScreenIsFine(q) == ReachIsFine(q) /\ ShownIsFine(q) /\ CountIsFine(q)

Placed(q) ==
  /\ q.kind # "none"
  /\ q.at = "reading" => q.next <= LastAt(q)
  /\ q.at = "done" => q.next = LastAt(q) + 1

ScreensInv ==
  /\ s1 \in Screens!Worlds /\ s4 \in 0..MaxScreenTurns /\ s3 \subseteq Screens!Worlds
  /\ s2 \in Screen
  /\ s2.at # "idle" => s1 \in s3 /\ Placed(s2) /\ ScreenIsFine(s2)

LEMMA ScreenCardinality == \A S : Screens!Cardinality(S) = Cardinality(S)
BY DEF Screens!Cardinality, Cardinality

(* What the replies say follows. *)
LEMMA ScreensShow ==
  ASSUME ScreensInv
  PROVE  Screens!TypeOK /\ Screens!ShownWithinReach
<1>2. PICK q \in Screen : q = s2
  BY DEF ScreensInv
<1>1. Screens!TypeOK
  <2>1. q.reach \subseteq Tokens /\ q.shown \subseteq Tokens /\ q.total \in 0..Cardinality(Tokens)
        /\ q.at \in {"idle", "reading", "done"}
    BY DEF Screen
  <2> QED
    BY <1>2, <2>1, ScreenCardinality DEF ScreensInv, Screens!TypeOK
<1>3. SUFFICES ASSUME q.at = "done"
               PROVE  /\ q.limited => \A v \in q.shown : Screens!Within(q, v)
                      /\ q.kind # "trip" => \A v \in q.shown : Screens!Belongs(q, v)
                      /\ q.kind = "targets" => Cardinality(q.shown) <= MaxScanVehicles
                      /\ q.kind = "targets" /\ ~q.capped => q.total = Cardinality(q.shown)
                      /\ ~q.lost /\ ~q.capped /\ q.kind \in {"counts", "one", "vehicles", "targets"} =>
                           \A v \in Tokens :
                             (\A w \in s3 : Applies(q, v, w) /\ (q.limited => Allowed(q, v, w)))
                               => v \in q.shown
  BY <1>1, <1>2, ScreenCardinality DEF Screens!ShownWithinReach, Applies, Allowed
<1>4. Placed(q) /\ ReachIsFine(q) /\ ShownIsFine(q) /\ CountIsFine(q)
  BY <1>2, <1>3 DEF ScreensInv, ScreenIsFine
<1>5. q.kind \in Screens!Kinds /\ q.limited \in BOOLEAN /\ q.next = LastAt(q) + 1
  BY <1>2, <1>3, <1>4 DEF Placed, Screen
<1>6. q.kind # "trip" => IsSet(q)
  BY <1>5 DEF IsSet, SetAt, LastAt, Listed, Screens!Kinds
<1>7. ASSUME q.limited, NEW v \in q.shown
      PROVE  Screens!Within(q, v)
  <2>1. q.next > GroupsAt(q.kind) /\ q.next > ActiveAt(q.kind) /\ q.next > NarrowedAt(q.kind)
    BY <1>5, <1>7 DEF GroupsAt, ActiveAt, NarrowedAt, LastAt, Listed, Screens!Kinds
  <2>2. ~Emptied(q) /\ v \in q.reach
    BY <1>4, <1>7, <2>1 DEF Emptied, ShownIsFine
  <2>3. InGroups(q, v) /\ IsActive(v)
    BY <1>4, <1>7, <2>1, <2>2 DEF ReachIsFine
  <2> QED
    BY <2>3 DEF InGroups, IsActive, Screens!Within
<1> QED
  BY <1>4, <1>6, <1>7 DEF ShownIsFine, CountIsFine

-----------------------------------------------------------------------------
(* The changes of others only add to what was so. *)
LEMMA ScreensWorldTurns ==
  ASSUME ScreensInv, Screens!Turn
  PROVE  ScreensInv'
<1>1. PICK w \in Screens!Worlds : s1' = w /\ s3' = s3 \union {w}
  <2>1. PICK field \in {"fence", "rows", "manual", "index", "active"}, u \in Screens!Worlds :
          s1' = [s1 EXCEPT ![field] = u[field]] /\ s3' = s3 \union {s1'}
    BY DEF Screens!Turn
  <2>2. [s1 EXCEPT ![field] = u[field]] \in Screens!Worlds
    BY <2>1 DEF ScreensInv, Screens!Worlds
  <2> QED
    BY <2>1, <2>2
<1>2. PICK q \in Screen : q = s2 /\ q = s2' /\ q.at = "reading"
  BY DEF Screens!Turn, ScreensInv
<1>3. Placed(q) /\ ReachIsFine(q) /\ ShownIsFine(q) /\ CountIsFine(q)
  BY <1>2 DEF ScreensInv, ScreenIsFine
<1>4. ReachIsFine(q)'
  BY <1>1, <1>3 DEF ReachIsFine, InGroups, IsActive, Allowed
<1>5. ShownIsFine(q)'
  BY <1>1, <1>3 DEF ShownIsFine, Screens!Belongs, Allowed, Applies
<1>6. s4' \in 0..MaxScreenTurns
  BY TokensAssumption DEF ScreensInv, Screens!Turn
<1> QED
  BY <1>1, <1>2, <1>3, <1>4, <1>5, <1>6 DEF ScreensInv, ScreenIsFine, CountIsFine, Placed

-----------------------------------------------------------------------------
(* What a list is cut to. *)
LEMMA TokensAre ==
  ASSUME NEW S \in SUBSET Tokens
  PROVE  /\ IsFiniteSet(S) /\ Cardinality(S) \in 0..Cardinality(Tokens) /\ Cardinality(S) \in Nat
         /\ Cardinality(Tokens) \in Nat
<1>1. IsFiniteSet(Tokens) /\ Cardinality(Tokens) \in Nat
  BY TokensAssumption, FS_CardinalityType
<1>2. IsFiniteSet(S) /\ Cardinality(S) <= Cardinality(Tokens)
  BY <1>1, FS_Subset
<1>3. Cardinality(S) \in Nat
  BY <1>2, FS_CardinalityType
<1> QED
  BY <1>1, <1>2, <1>3

LEMMA CappedIs ==
  ASSUME NEW S \in SUBSET Tokens
  PROVE  /\ Screens!Capped(S) \subseteq S
         /\ Cardinality(Screens!Capped(S)) <= MaxScanVehicles
         /\ Cardinality(S) <= MaxScanVehicles => Screens!Capped(S) = S
<1> DEFINE Before(t) == { u \in S : u < t }
<1> DEFINE C == { t \in S : Cardinality(Before(t)) < MaxScanVehicles }
<1>1. Screens!Capped(S) = C
  BY ScreenCardinality DEF Screens!Capped
<1>2. ASSUME NEW t \in S
      PROVE  /\ Before(t) \in SUBSET Tokens /\ Cardinality(Before(t)) \in Nat
             /\ Cardinality(Before(t)) < Cardinality(S)
  <2>1. t \in Nat
    BY TokensAssumption
  <2>2. PICK B \in SUBSET S : B = Before(t)
    OBVIOUS
  <2>3. B # S
    BY <2>1, <2>2
  <2>4. B \in SUBSET Tokens /\ Cardinality(B) \in Nat /\ Cardinality(S) \in Nat /\ IsFiniteSet(S)
    BY TokensAre
  <2>5. Cardinality(B) <= Cardinality(S) /\ Cardinality(S) # Cardinality(B)
    BY <2>3, <2>4, FS_Subset
  <2>6. Cardinality(B) < Cardinality(S)
    BY <2>4, <2>5
  <2> QED
    BY <2>2, <2>4, <2>6
<1>3. ASSUME NEW t \in S, NEW u \in S, t < u
      PROVE  Cardinality(Before(t)) < Cardinality(Before(u))
  <2>1. Before(t) \in SUBSET Before(u) /\ t \in Before(u) /\ t \notin Before(t)
    <3>1. t \in Nat /\ u \in Nat /\ S \subseteq Nat
      BY TokensAssumption
    <3>2. \A z \in S : z < t => z < u
      BY <1>3, <3>1
    <3>3. \A z \in Before(t) : z \in Before(u)
      BY <3>2
    <3>4. t \in Before(u) /\ t \notin Before(t)
      BY <1>3, <3>1
    <3> QED
      BY <3>3, <3>4
  <2>2. Before(t) # Before(u) /\ IsFiniteSet(Before(u))
    BY <1>2, <2>1, TokensAre
  <2>3. Cardinality(Before(t)) \in Nat /\ Cardinality(Before(u)) \in Nat
    BY <1>2
  <2>4. Cardinality(Before(t)) <= Cardinality(Before(u)) /\ Cardinality(Before(u)) # Cardinality(Before(t))
    BY <2>1, <2>2, FS_Subset
  <2> HIDE DEF Before
  <2> QED
    BY <2>3, <2>4
<1>4. C \in SUBSET S
  OBVIOUS
<1>5. Cardinality(C) <= MaxScanVehicles
  <2> DEFINE R == 0..(MaxScanVehicles - 1)
             f == [t \in C |-> Cardinality(Before(t))]
  <2>1. IsFiniteSet(R) /\ Cardinality(R) = MaxScanVehicles
    BY FS_Interval, TokensAssumption
  <2>2. ASSUME NEW t \in C
        PROVE  f[t] \in R
    BY <1>2, TokensAssumption
  <2>3. ASSUME NEW t \in C, NEW u \in C, f[t] = f[u]
        PROVE  t = u
    <3>1. t \in Nat /\ u \in Nat /\ Cardinality(Before(t)) = Cardinality(Before(u))
      BY <2>3, TokensAssumption
    <3>2. Cardinality(Before(t)) \in Nat /\ Cardinality(Before(u)) \in Nat
      BY <1>2
    <3>3. ~(t < u) /\ ~(u < t)
      <4> HIDE DEF Before
      <4> QED
        BY <1>3, <3>1, <3>2
    <3> QED
      BY <3>1, <3>3
  <2>4. f \in Injection(C, R)
    BY <2>2, <2>3 DEF Injection, IsInjective
  <2> QED
    BY <2>1, <2>4, FS_Injection
<1>6. ASSUME Cardinality(S) <= MaxScanVehicles
      PROVE  C = S
  <2>1. \A t \in S : Cardinality(Before(t)) < MaxScanVehicles
    <3> TAKE t \in S
    <3>1. Cardinality(Before(t)) \in Nat /\ Cardinality(Before(t)) < Cardinality(S) /\ Cardinality(S) \in Nat
      BY <1>2, TokensAre
    <3> HIDE DEF Before
    <3> QED
      BY <1>6, <3>1, TokensAssumption
  <2> QED
    BY <2>1
<1> QED
  BY <1>1, <1>4, <1>5, <1>6

-----------------------------------------------------------------------------
(* What one read does. *)
Follows(q, x) ==
  /\ x \in Screen /\ x.next = q.next + 1 /\ x.at # "idle" /\ x.scope = q.scope
  /\ x.kind = q.kind /\ x.limited = q.limited /\ Placed(x)

LEMMA GoesOn ==
  ASSUME NEW q, Reading(q), NEW y \in Screen,
         y.kind = q.kind, y.limited = q.limited, y.next = q.next, y.scope = q.scope
  PROVE  LET x == Screens!GoOn(y)
         IN  /\ Follows(q, x)
             /\ x.reach = y.reach /\ x.shown = y.shown /\ x.fence = y.fence
             /\ x.total = y.total /\ x.capped = y.capped /\ x.lost = y.lost
<1>1. Len(Screens!Plan(q.kind, q.limited)) = LastAt(q)
  BY StepsAre
<1>2. LastAt(q) \in 1..4 /\ LastAt(y) = LastAt(q) /\ q.next \in 1..4 /\ q.next <= LastAt(q)
  BY DEF LastAt, Reading, Screen
<1>3. PICK n \in 1..5 : n = q.next + 1
  BY <1>2
<1>4. PICK at \in {"done", "reading"} : at = IF q.next = LastAt(q) THEN "done" ELSE "reading"
  OBVIOUS
<1>5. PICK x \in Screen : x = [y EXCEPT !.next = n, !.at = at]
  BY DEF Screen
<1>6. x = Screens!GoOn(y)
  BY <1>1, <1>2, <1>3, <1>4, <1>5 DEF Screens!GoOn
<1>7. /\ x.next = n /\ x.at = at /\ x.kind = q.kind /\ x.limited = q.limited
      /\ x.reach = y.reach /\ x.shown = y.shown /\ x.fence = y.fence /\ x.scope = q.scope
      /\ x.total = y.total /\ x.capped = y.capped /\ x.lost = y.lost
  BY <1>5 DEF Screen
<1>8. Placed(x)
  <2>1. x.kind # "none" /\ LastAt(x) = LastAt(q)
    BY <1>7 DEF LastAt, Reading
  <2> QED
    BY <1>2, <1>3, <1>4, <1>7, <2>1 DEF Placed
<1> QED
  BY <1>3, <1>4, <1>6, <1>7, <1>8 DEF Follows

Same(q, x) == x.fence = q.fence /\ x.capped = q.capped /\ x.lost = q.lost

LEMMA GroupsRead ==
  ASSUME NEW q, Reading(q), ScreenIsFine(q), s1 \in s3, Screens!StepOf(q) = "groups",
         NEW x, Follows(q, x), Same(q, x), x.total = q.total,
         x.reach = q.reach \intersect Screens!TokenIDsForGroups(s1.index, q.scope),
         x.shown = IF q.kind = "trip" THEN q.shown \intersect x.reach ELSE q.shown
  PROVE  ScreenIsFine(x)
<1>1. q.limited /\ q.next = GroupsAt(q.kind) /\ q.kind \in Screens!Kinds /\ q.next \in Nat
  BY StepsAre DEF Reading, Screen
<1>2. ReachIsFine(x)
  <2>1. \A v \in x.reach : InGroups(x, v)
    BY DEF InGroups, Follows
  <2>2. \A v \in Tokens : (\A w \in s3 : Allowed(x, v, w)) => v \in x.reach
    BY DEF Allowed, Follows, ScreenIsFine, ReachIsFine, Screens!NarrowToActive
  <2>3. x.next > ActiveAt(x.kind) => Emptied(x) \/ \A v \in x.reach : IsActive(v)
    BY <1>1 DEF Follows, ScreenIsFine, ReachIsFine, ActiveAt, GroupsAt, Emptied, Listed, Screens!Kinds
  <2> QED
    BY <2>1, <2>2, <2>3 DEF ReachIsFine
<1>3. ShownIsFine(x)
  <2>1. x.next > NarrowedAt(x.kind) => x.shown \subseteq x.reach
    BY <1>1 DEF Follows, NarrowedAt, GroupsAt, Listed, Screens!Kinds, ShownIsFine, ScreenIsFine
  <2>2. IsSet(x) => IsSet(q)
    BY <1>1 DEF Follows, IsSet, SetAt, GroupsAt, Listed, Screens!Kinds
  <2>3. x.kind = "counts" => q.next > 1
    BY <1>1 DEF Follows, GroupsAt, Listed
  <2>4. x.kind # "trip" => x.shown = q.shown
    BY DEF Follows
  <2> QED
    BY <1>1, <2>1, <2>2, <2>3, <2>4
    DEF ShownIsFine, ScreenIsFine, Follows, Same, Applies, Allowed, Screens!Belongs, IsSet
<1>4. CountIsFine(x)
  <2>1. x.kind = "targets" /\ IsSet(x) => IsSet(q) /\ x.shown = q.shown
    BY <1>1 DEF Follows, IsSet, SetAt, GroupsAt, Listed
  <2> QED
    BY <2>1 DEF CountIsFine, ScreenIsFine, Follows, Same
<1> QED
  BY <1>2, <1>3, <1>4 DEF ScreenIsFine

LEMMA ActiveRead ==
  ASSUME NEW q, Reading(q), ScreenIsFine(q), s1 \in s3, Screens!StepOf(q) = "active",
         NEW x, Follows(q, x), Same(q, x),
         x.reach = Screens!NarrowToActive(q.reach, s1.active),
         x.shown = IF q.kind = "counts" THEN q.shown ELSE q.shown \intersect x.reach,
         x.total = IF q.kind = "targets" THEN Cardinality(q.shown \intersect x.reach) ELSE q.total
  PROVE  ScreenIsFine(x)
<1>1. q.limited /\ q.next = ActiveAt(q.kind) /\ q.kind \in Screens!Kinds /\ q.next \in Nat /\ q \in Screen
  BY StepsAre DEF Reading, Screen
<1>2. q.reach \subseteq Tokens /\ q.shown \subseteq Tokens /\ x.reach \subseteq q.reach
  BY <1>1 DEF Screen, Screens!NarrowToActive
<1>3. ReachIsFine(x)
  <2>1. \A v \in x.reach : IsActive(v)
    BY <1>2 DEF IsActive, Screens!NarrowToActive
  <2>2. \A v \in Tokens : (\A w \in s3 : Allowed(x, v, w)) => v \in x.reach
    BY DEF Allowed, Follows, ScreenIsFine, ReachIsFine, Screens!NarrowToActive
  <2>3. x.next > GroupsAt(x.kind) => Emptied(x) \/ \A v \in x.reach : InGroups(x, v)
    BY <1>1, <1>2
    DEF Follows, ScreenIsFine, ReachIsFine, ActiveAt, GroupsAt, Emptied, Listed, Screens!Kinds, InGroups
  <2> QED
    BY <2>1, <2>2, <2>3 DEF ReachIsFine
<1>4. ShownIsFine(x)
  <2>1. x.next > NarrowedAt(x.kind) => x.shown \subseteq x.reach
    BY <1>1 DEF Follows, NarrowedAt, ActiveAt, Listed, Screens!Kinds
  <2>2. IsSet(x) => IsSet(q) /\ x.kind # "counts"
    BY <1>1 DEF Follows, IsSet, SetAt, ActiveAt, Listed, Screens!Kinds
  <2>3. x.kind = "counts" => q.next > 1 /\ x.shown = q.shown
    BY <1>1 DEF Follows, ActiveAt, Listed
  <2>4. x.shown \subseteq q.shown
    OBVIOUS
  <2>5. IsSet(x) \/ (x.kind = "counts" /\ x.next > 1) => \A v \in x.shown : Screens!Belongs(x, v)
    BY <2>2, <2>3, <2>4 DEF ShownIsFine, ScreenIsFine, Follows, Same, Screens!Belongs
  <2>6. ASSUME IsSet(x), ~x.lost, ~x.capped, x.kind # "passes", NEW v \in Tokens,
               \A w \in s3 : Applies(x, v, w) /\ (x.limited => Allowed(x, v, w))
        PROVE  v \in x.shown
    <3>1. v \in x.reach
      BY <1>1, <1>3, <2>6 DEF ReachIsFine, Follows
    <3>2. v \in q.shown
      BY <2>2, <2>6 DEF ShownIsFine, ScreenIsFine, Follows, Same, Applies, Allowed
    <3> QED
      BY <2>2, <2>6, <3>1, <3>2 DEF Follows
  <2> QED
    BY <2>1, <2>5, <2>6 DEF ShownIsFine
<1>5. CountIsFine(x)
  <2>1. SUFFICES ASSUME x.kind = "targets", IsSet(x)
                 PROVE  Cardinality(x.shown) <= MaxScanVehicles
    BY DEF CountIsFine, Follows
  <2>2. IsSet(q) /\ q.kind = "targets"
    BY <1>1, <2>1 DEF Follows, IsSet, SetAt, ActiveAt, Listed
  <2>3. PICK S \in SUBSET Tokens : S = q.shown
    BY <1>2
  <2>4. PICK T \in SUBSET S : T = x.shown
    BY <2>3
  <2>5. Cardinality(S) <= MaxScanVehicles /\ Cardinality(S) \in Nat /\ IsFiniteSet(S)
    BY <2>2, <2>3, TokensAre DEF ScreenIsFine, CountIsFine
  <2>6. Cardinality(T) <= Cardinality(S) /\ Cardinality(T) \in Nat
    BY <2>4, <2>5, FS_Subset, TokensAre
  <2> QED
    BY <2>4, <2>5, <2>6, TokensAssumption
<1> QED
  BY <1>3, <1>4, <1>5 DEF ScreenIsFine

SameReach(q, x) == x.reach = q.reach

LEMMA ReachStays ==
  ASSUME NEW q, Reading(q), ScreenIsFine(q), NEW x, Follows(q, x), SameReach(q, x),
         Screens!StepOf(q) \notin {"groups", "active"}
  PROVE  ReachIsFine(x)
<1>1. /\ q.limited => q.next # GroupsAt(q.kind) /\ q.next # ActiveAt(q.kind)
      /\ q.next \in Nat /\ GroupsAt(q.kind) \in Nat /\ ActiveAt(q.kind) \in Nat /\ q.kind \in Screens!Kinds
  BY StepsAre DEF Reading, Screen, GroupsAt, ActiveAt
<1>2. /\ x.limited /\ x.next > GroupsAt(x.kind) => q.limited /\ q.next > GroupsAt(q.kind)
      /\ x.limited /\ x.next > ActiveAt(x.kind) => q.limited /\ q.next > ActiveAt(q.kind)
  BY <1>1 DEF Follows
<1>3. q.limited /\ (q.next > GroupsAt(q.kind) \/ q.next > ActiveAt(q.kind)) => ~Emptied(q)
  BY <1>1 DEF Emptied, GroupsAt, ActiveAt, Listed, Reading, Screen, LastAt
<1> QED
  BY <1>2, <1>3 DEF ReachIsFine, ScreenIsFine, Follows, SameReach, Allowed, InGroups, Screens!NarrowToActive

LEMMA WholeIs ==
  ASSUME ScreensInv, NEW q \in Screen, NEW w \in Screens!Worlds
  PROVE  Screens!EffectiveTokenIDs(q.fence, w) \in SUBSET Tokens
<1>1. q.fence \in Screens!Fences /\ w.manual \subseteq Tokens /\ w.rows \subseteq Tokens
      /\ w.index \in [Zones -> SUBSET Tokens]
  BY DEF Screen, Screens!Worlds
<1>2. q.fence.groups \subseteq Zones
  BY <1>1 DEF Screens!Fences
<1> QED
  BY <1>1, <1>2 DEF Screens!EffectiveTokenIDs, Screens!TokenIDsForGroups

EffectiveOf(q) == Screens!EffectiveTokenIDs(q.fence, s1)

LEMMA EffectiveRead ==
  ASSUME NEW q, Reading(q), ScreenIsFine(q), s1 \in s3, Screens!StepOf(q) = "effective",
         EffectiveOf(q) \in SUBSET Tokens,
         NEW x, Follows(q, x), SameReach(q, x), x.fence = q.fence, x.lost = q.lost,
         \/ q.kind = "counts" /\ x.shown = EffectiveOf(q) \intersect q.reach /\ x.capped = q.capped
         \/ q.kind = "passes" /\ x.shown = q.shown \intersect EffectiveOf(q)
         \/ /\ q.kind = "targets" /\ x.shown = Screens!Capped(EffectiveOf(q))
            /\ x.total = Cardinality(EffectiveOf(q))
            /\ (x.capped <=> Cardinality(EffectiveOf(q)) > MaxScanVehicles)
         \/ q.kind \in {"one", "vehicles"} /\ x.shown = EffectiveOf(q) /\ x.capped = q.capped
  PROVE  ScreenIsFine(x)
<1>1. /\ q.kind \in Screens!Kinds /\ q.kind # "trip" /\ q.next = SetAt(q) /\ (q.kind = "counts" => q.limited)
      /\ q.next \in Nat /\ q.limited \in BOOLEAN
  BY StepsAre DEF Reading, Screen
<1>2. ReachIsFine(x)
  BY ReachStays
<1>3. x.shown \subseteq EffectiveOf(q)
  BY <1>1, CappedIs DEF Screens!Kinds
<1>4. x.kind = "targets" => /\ Cardinality(x.shown) <= MaxScanVehicles
                            /\ ~x.capped => x.shown = EffectiveOf(q) /\ x.total = Cardinality(EffectiveOf(q))
  <2>1. SUFFICES ASSUME x.kind = "targets"
                 PROVE  /\ Cardinality(x.shown) <= MaxScanVehicles
                        /\ ~x.capped => x.shown = EffectiveOf(q) /\ x.total = Cardinality(EffectiveOf(q))
    OBVIOUS
  <2>2. PICK S \in SUBSET Tokens : S = EffectiveOf(q)
    OBVIOUS
  <2>3. x.shown = Screens!Capped(S) /\ x.total = Cardinality(S) /\ (x.capped <=> Cardinality(S) > MaxScanVehicles)
    BY <2>1, <2>2 DEF Follows
  <2>4. Cardinality(S) \in Nat /\ MaxScanVehicles \in Nat
    BY TokensAre, TokensAssumption
  <2>5. ~x.capped => Cardinality(S) <= MaxScanVehicles
    BY <2>3, <2>4
  <2> QED
    BY <2>2, <2>3, <2>5, CappedIs
<1>5. ShownIsFine(x)
  <2>1. x.limited /\ x.next > NarrowedAt(x.kind) => x.shown \subseteq x.reach
    <3>1. CASE q.kind = "counts"
      BY <3>1 DEF SameReach
    <3>2. CASE q.kind = "passes"
      <4>1. q.limited => q.next > NarrowedAt(q.kind)
        BY <1>1, <3>2 DEF NarrowedAt, SetAt
      <4> QED
        BY <3>2, <4>1 DEF SameReach, Follows, ShownIsFine, ScreenIsFine
    <3>3. CASE q.kind \notin {"counts", "passes"}
      BY <1>1, <3>3 DEF NarrowedAt, SetAt, Follows
    <3> QED
      BY <3>1, <3>2, <3>3
  <2>2. \A v \in x.shown : Screens!Belongs(x, v)
    BY <1>3 DEF Screens!Belongs, EffectiveOf
  <2>3. ASSUME ~x.lost, ~x.capped, x.kind # "passes", NEW v \in Tokens,
               \A w \in s3 : Applies(x, v, w) /\ (x.limited => Allowed(x, v, w))
        PROVE  v \in x.shown
    <3>1. v \in EffectiveOf(q)
      BY <2>3 DEF Applies, EffectiveOf
    <3>2. x.limited => v \in x.reach
      BY <1>2, <2>3 DEF ReachIsFine
    <3> QED
      BY <1>1, <1>4, <2>3, <3>1, <3>2 DEF Follows, SameReach, Screens!Kinds
  <2> QED
    BY <2>1, <2>2, <2>3 DEF ShownIsFine
<1>6. CountIsFine(x)
  BY <1>4 DEF CountIsFine
<1> QED
  BY <1>2, <1>5, <1>6 DEF ScreenIsFine

(* A count that is lost is shown as zero, and as lost. *)
LEMMA LostRead ==
  ASSUME NEW q, Reading(q), ScreenIsFine(q), Screens!StepOf(q) \in {"count", "effective"},
         NEW x, Follows(q, x), SameReach(q, x), x.shown = {}, x.lost, q.kind # "targets"
  PROVE  ScreenIsFine(x)
<1>1. ReachIsFine(x)
  BY ReachStays
<1> QED
  BY <1>1 DEF ScreenIsFine, ShownIsFine, CountIsFine, Follows

LEMMA CountRead ==
  ASSUME NEW q, Reading(q), ScreenIsFine(q), s1 \in s3, Screens!StepOf(q) = "count",
         NEW x, Follows(q, x), SameReach(q, x), Same(q, x), x.shown = EffectiveOf(q)
  PROVE  ScreenIsFine(x)
<1>1. ReachIsFine(x)
  BY ReachStays
<1>2. q.kind = "counts" /\ q.next = 1 /\ q.limited \in BOOLEAN
  BY StepsAre DEF Reading, Screen
<1>3. ~(x.limited /\ x.next > NarrowedAt(x.kind)) /\ (IsSet(x) => ~x.limited)
  BY <1>2 DEF Follows, NarrowedAt, IsSet, SetAt
<1>4. ShownIsFine(x)
  BY <1>3 DEF ShownIsFine, Screens!Belongs, EffectiveOf, Same, Applies
<1> QED
  BY <1>1, <1>2, <1>4 DEF ScreenIsFine, CountIsFine, Follows

LEMMA FenceRead ==
  ASSUME NEW q, Reading(q), ScreenIsFine(q), Screens!StepOf(q) = "fence",
         NEW x, Follows(q, x), SameReach(q, x), x.shown = q.shown
  PROVE  ScreenIsFine(x)
<1>1. ReachIsFine(x)
  BY ReachStays
<1>2. q.kind \notin {"counts", "trip"} /\ q.next = FenceAt(q) /\ q.limited \in BOOLEAN
      /\ q.kind \in Screens!Kinds
  BY StepsAre DEF Reading, Screen
<1>3. ~IsSet(x) /\ (x.limited /\ x.next > NarrowedAt(x.kind) => q.next > NarrowedAt(q.kind))
  BY <1>2 DEF Follows, NarrowedAt, IsSet, SetAt, FenceAt, Screens!Kinds
<1> QED
  BY <1>1, <1>2, <1>3 DEF ScreenIsFine, ShownIsFine, CountIsFine, Follows, SameReach

LEMMA RowRead ==
  ASSUME NEW q, Reading(q), ScreenIsFine(q), Screens!StepOf(q) \in {"row", "exists"},
         NEW x, Follows(q, x), SameReach(q, x), x.shown \subseteq q.shown
  PROVE  ScreenIsFine(x)
<1>1. ReachIsFine(x)
  BY ReachStays
<1>2. q.kind \in Screens!Kinds /\ q.next \in 1..5 /\ q.next <= LastAt(q) /\ q.limited \in BOOLEAN
  BY DEF Reading, Screen
<1>3. q.kind # "counts"
  BY <1>2, StepsAre DEF GroupsAt, ActiveAt, SetAt, LastAt, Listed
<1>4. q.kind # "passes"
  BY <1>2, StepsAre DEF GroupsAt, ActiveAt, SetAt, FenceAt, LastAt
<1>5. q.kind \notin Listed
  BY <1>2, StepsAre DEF GroupsAt, ActiveAt, SetAt, FenceAt, LastAt, Listed
<1>6. q.kind = "trip" /\ (q.limited => q.next > 2)
  BY <1>2, <1>3, <1>4, <1>5, StepsAre DEF GroupsAt, ActiveAt, Screens!Kinds, Listed
<1> QED
  BY <1>1, <1>2, <1>6 DEF ScreenIsFine, ShownIsFine, CountIsFine, Follows, SameReach, NarrowedAt, IsSet

(* An empty list asks no more. *)
LEMMA SkippedRead ==
  ASSUME NEW q, Reading(q), ScreenIsFine(q), Screens!StepOf(q) \in {"groups", "active"}, Emptied(q),
         NEW x, Follows(q, x), SameReach(q, x), Same(q, x), x.shown = {}, x.total = q.total
  PROVE  ScreenIsFine(x)
<1>1. q.limited /\ q.next > SetAt(q) /\ q.kind \in Listed /\ q.next \in Nat
  BY StepsAre DEF Reading, Screen, GroupsAt, ActiveAt, SetAt, Emptied, Listed
<1>2. IsSet(q) /\ q.shown = {}
  BY <1>1 DEF IsSet, Listed, Emptied
<1>3. ReachIsFine(x)
  BY <1>1, <1>2 DEF ReachIsFine, ScreenIsFine, Follows, SameReach, Emptied, Allowed
<1>4. ShownIsFine(x)
  BY <1>1, <1>2 DEF ShownIsFine, ScreenIsFine, Follows, Same, Applies, Allowed
<1>5. CountIsFine(x)
  BY <1>2 DEF CountIsFine, ScreenIsFine, Follows, Same
<1> QED
  BY <1>3, <1>4, <1>5 DEF ScreenIsFine


-----------------------------------------------------------------------------
(* The steps of a request. *)
LEMMA ScreenIdles == Screens!Idle \in Screen /\ Screens!Idle.at = "idle"
<1>1. [is |-> FALSE, scope |-> "all", groups |-> {}] \in Screens!Fences
  BY DEF Screens!Fences
<1>2. Screens!NoFence \in Screens!Fences
  BY <1>1 DEF Screens!NoFence
<1>3. 0 \in 0..Cardinality(Tokens)
  BY TokensAre
<1> QED
  BY <1>2, <1>3 DEF Screens!Idle, Screen

LEMMA ScreenStays ==
  ASSUME ScreensInv, UNCHANGED <<s1, s3, s4>>,
         \/ s2' = Screens!Idle
         \/ Reading(s2) /\ Follows(s2, s2') /\ \A x : x = s2' => ScreenIsFine(x)
  PROVE  ScreensInv'
<1>1. CASE s2' = Screens!Idle
  BY <1>1, ScreenIdles DEF ScreensInv
<1>2. CASE Reading(s2) /\ Follows(s2, s2') /\ \A x : x = s2' => ScreenIsFine(x)
  <2>1. PICK x \in Screen : x = s2' /\ Placed(x) /\ ScreenIsFine(x)
    BY <1>2 DEF Follows
  <2>2. ScreenIsFine(x)'
    BY <2>1 DEF ScreenIsFine, ReachIsFine, ShownIsFine, CountIsFine, InGroups, IsActive, Allowed,
       Applies, Screens!Belongs
  <2>3. ScreenIsFine(s2)' /\ Placed(s2)'
    BY <2>1, <2>2 DEF Placed, ScreenIsFine, ReachIsFine, ShownIsFine, CountIsFine, InGroups, IsActive,
       Allowed, Applies, Screens!Belongs, Emptied, IsSet
  <2> QED
    BY <1>2, <2>1, <2>3 DEF ScreensInv, Reading
<1> QED
  BY <1>1, <1>2

Kept4(q, y) ==
  /\ y \in Screen /\ y.kind = q.kind /\ y.limited = q.limited /\ y.next = q.next /\ y.scope = q.scope

LEMMA LearnsGroups ==
  ASSUME NEW q \in Screen
  PROVE  LET y == Screens!Learned(q, "groups")
         IN  /\ Kept4(q, y) /\ Same(q, y) /\ y.total = q.total
             /\ y.reach = q.reach \intersect Screens!TokenIDsForGroups(s1.index, q.scope)
             /\ y.shown = IF q.kind = "trip" THEN q.shown \intersect y.reach ELSE q.shown
<1>1. PICK R \in SUBSET Tokens : R = q.reach \intersect Screens!TokenIDsForGroups(s1.index, q.scope)
  BY DEF Screen
<1>2. PICK S \in SUBSET Tokens : S = IF q.kind = "trip" THEN q.shown \intersect R ELSE q.shown
  BY DEF Screen
<1>3. PICK y \in Screen : y = [q EXCEPT !.reach = R, !.shown = S]
  BY DEF Screen
<1>4. y = Screens!Learned(q, "groups")
  BY <1>1, <1>2, <1>3 DEF Screens!Learned, Screens!KeepAccessible
<1>5. Kept4(q, y) /\ Same(q, y) /\ y.total = q.total /\ y.reach = R /\ y.shown = S
  BY <1>3 DEF Screen, Kept4, Same
<1> QED
  BY <1>1, <1>2, <1>4, <1>5

LEMMA LearnsActive ==
  ASSUME NEW q \in Screen
  PROVE  LET y == Screens!Learned(q, "active")
         IN  /\ Kept4(q, y) /\ Same(q, y)
             /\ y.reach = Screens!NarrowToActive(q.reach, s1.active)
             /\ y.shown = IF q.kind = "counts" THEN q.shown ELSE q.shown \intersect y.reach
             /\ y.total = IF q.kind = "targets" THEN Cardinality(q.shown \intersect y.reach) ELSE q.total
<1>1. PICK R \in SUBSET Tokens : R = Screens!NarrowToActive(q.reach, s1.active)
  BY DEF Screen, Screens!NarrowToActive
<1>2. PICK K \in SUBSET Tokens : K = q.shown \intersect R
  BY DEF Screen
<1>3. PICK S \in SUBSET Tokens : S = IF q.kind = "counts" THEN q.shown ELSE K
  BY DEF Screen
<1>4. Cardinality(K) \in 0..Cardinality(Tokens) /\ q.total \in 0..Cardinality(Tokens)
  BY TokensAre DEF Screen
<1>5. PICK n \in 0..Cardinality(Tokens) : n = IF q.kind = "targets" THEN Cardinality(K) ELSE q.total
  BY <1>4
<1>6. PICK y \in Screen : y = [q EXCEPT !.reach = R, !.shown = S, !.total = n]
  BY DEF Screen
<1>7. y = Screens!Learned(q, "active")
  BY <1>1, <1>2, <1>3, <1>5, <1>6, ScreenCardinality DEF Screens!Learned, Screens!KeepAccessible
<1>8. Kept4(q, y) /\ Same(q, y) /\ y.reach = R /\ y.shown = S /\ y.total = n
  BY <1>6 DEF Screen, Kept4, Same
<1> QED
  BY <1>1, <1>2, <1>3, <1>5, <1>7, <1>8

LEMMA LearnsSet ==
  ASSUME NEW q \in Screen, EffectiveOf(q) \in SUBSET Tokens
  PROVE  LET y == Screens!Learned(q, "effective")
         IN  /\ Kept4(q, y) /\ y.reach = q.reach /\ y.fence = q.fence /\ y.lost = q.lost
             /\ \/ q.kind = "counts" /\ y.shown = EffectiveOf(q) \intersect q.reach /\ y.capped = q.capped
                \/ q.kind = "passes" /\ y.shown = q.shown \intersect EffectiveOf(q)
                \/ /\ q.kind = "targets" /\ y.shown = Screens!Capped(EffectiveOf(q))
                   /\ y.total = Cardinality(EffectiveOf(q))
                   /\ (y.capped <=> Cardinality(EffectiveOf(q)) > MaxScanVehicles)
                \/ q.kind \notin {"counts", "passes", "targets"} /\ y.shown = EffectiveOf(q)
                   /\ y.capped = q.capped
<1>1. PICK E \in SUBSET Tokens : E = EffectiveOf(q)
  OBVIOUS
<1>2. E = Screens!EffectiveTokenIDs(q.fence, s1)
  BY <1>1 DEF EffectiveOf
<1>3. CASE q.kind = "targets"
  <2>1. PICK C \in SUBSET Tokens : C = Screens!Capped(E)
    BY CappedIs
  <2>2. PICK n \in 0..Cardinality(Tokens) : n = Cardinality(E)
    BY TokensAre
  <2>3. PICK b \in BOOLEAN : b = (n > MaxScanVehicles)
    <3>1. (n > MaxScanVehicles) \in BOOLEAN
      OBVIOUS
    <3> QED
      BY <3>1, Zenon
  <2>4. PICK y \in Screen : y = [q EXCEPT !.shown = C, !.total = n, !.capped = b]
    BY DEF Screen
  <2>5. y = Screens!Learned(q, "effective")
    BY <1>2, <1>3, <2>1, <2>2, <2>3, <2>4, ScreenCardinality DEF Screens!Learned
  <2>6. Kept4(q, y) /\ y.reach = q.reach /\ y.fence = q.fence /\ y.lost = q.lost
        /\ y.shown = C /\ y.total = n /\ y.capped = b
    BY <2>4 DEF Screen, Kept4
  <2> QED
    BY <1>1, <1>3, <2>1, <2>2, <2>3, <2>5, <2>6
<1>4. CASE q.kind # "targets"
  <2>1. PICK S \in SUBSET Tokens : S = IF q.kind = "counts" THEN E \intersect q.reach
                                       ELSE IF q.kind = "passes" THEN q.shown \intersect E ELSE E
    BY DEF Screen
  <2>2. PICK y \in Screen : y = [q EXCEPT !.shown = S]
    BY DEF Screen
  <2>3. y = Screens!Learned(q, "effective")
    BY <1>2, <1>4, <2>1, <2>2 DEF Screens!Learned
  <2>4. Kept4(q, y) /\ y.reach = q.reach /\ y.fence = q.fence /\ y.lost = q.lost
        /\ y.shown = S /\ y.capped = q.capped
    BY <2>2 DEF Screen, Kept4
  <2> QED
    BY <1>1, <1>4, <2>1, <2>3, <2>4
<1> QED
  BY <1>3, <1>4

LEMMA LearnsRest ==
  ASSUME NEW q \in Screen, EffectiveOf(q) \in SUBSET Tokens, s1.fence \in Screens!Fences,
         NEW step \in {"count", "fence", "row", "exists"}
  PROVE  LET y == Screens!Learned(q, step)
         IN  /\ Kept4(q, y) /\ y.reach = q.reach
             /\ step = "fence" => y.shown = q.shown
             /\ step = "count" => Same(q, y) /\ y.shown = EffectiveOf(q)
             /\ step \in {"row", "exists"} => y.shown \subseteq q.shown
<1>1. PICK F \in Screens!Fences : F = IF step = "fence" THEN s1.fence ELSE q.fence
  BY DEF Screen
<1>2. PICK S \in SUBSET Tokens : S = IF step = "fence" THEN q.shown
                                     ELSE IF step = "count" THEN EffectiveOf(q) ELSE q.shown \intersect s1.rows
  BY DEF Screen
<1>3. PICK y \in Screen : y = [q EXCEPT !.shown = S, !.fence = F]
  BY DEF Screen
<1>4. y = Screens!Learned(q, step)
  BY <1>1, <1>2, <1>3 DEF Screens!Learned, EffectiveOf, Screens!InTenant, Screen
<1>5. Kept4(q, y) /\ y.reach = q.reach /\ y.fence = F /\ y.lost = q.lost
      /\ y.shown = S /\ y.capped = q.capped
  BY <1>3 DEF Screen, Kept4
<1> QED
  BY <1>1, <1>2, <1>4, <1>5 DEF Same

LEMMA ScreensRead ==
  ASSUME ScreensInv, Screens!Read
  PROVE  ScreensInv'
<1>1. PICK q \in Screen : q = s2 /\ q.at = "reading"
  BY DEF ScreensInv, Screens!Read
<1>2. Reading(q) /\ ScreenIsFine(q) /\ s1 \in s3 /\ s1 \in Screens!Worlds
  BY <1>1 DEF ScreensInv, Placed, Reading
<1>3. SUFFICES ASSUME s2' # Screens!Idle
               PROVE  \E x : x = s2' /\ Follows(q, x) /\ ScreenIsFine(x)
  BY <1>1, <1>2, ScreenStays DEF Screens!Read
<1>4. PICK step : step = Screens!StepOf(q)
  OBVIOUS
<1>5. step \in {"groups", "active", "effective", "count", "fence", "row", "exists"}
  BY <1>2, <1>4, StepsAre
<1>6. \/ s2' = Screens!GoOn(q) /\ Screens!Skips(q, step)
      \/ s2' = Screens!GoOn(Screens!Learned(q, step)) /\ ~Screens!Skips(q, step)
  BY <1>1, <1>3, <1>4 DEF Screens!Read
<1>7. EffectiveOf(q) \in SUBSET Tokens /\ s1.fence \in Screens!Fences
  BY <1>2, WholeIs DEF EffectiveOf, Screens!Worlds
<1>8. ASSUME NEW y, Kept4(q, y), s2' = Screens!GoOn(y)
      PROVE  \E x : /\ x = s2' /\ Follows(q, x) /\ x.reach = y.reach /\ x.shown = y.shown
                    /\ x.fence = y.fence /\ x.total = y.total /\ x.capped = y.capped /\ x.lost = y.lost
  BY <1>2, <1>8, GoesOn DEF Kept4
<1>9. CASE s2' = Screens!GoOn(q) /\ Screens!Skips(q, step)
  <2>1. Kept4(q, q)
    BY DEF Kept4
  <2>2. PICK x : x = s2' /\ Follows(q, x) /\ SameReach(q, x) /\ Same(q, x) /\ x.shown = q.shown
                 /\ x.total = q.total
    BY <1>8, <1>9, <2>1 DEF SameReach, Same
  <2>3. Emptied(q) /\ Screens!StepOf(q) \in {"groups", "active"}
    BY <1>4, <1>9 DEF Screens!Skips, Emptied, Listed
  <2> QED
    BY <1>2, <2>2, <2>3, SkippedRead DEF Emptied
<1>10. CASE s2' = Screens!GoOn(Screens!Learned(q, step)) /\ step = "groups"
  <2>1. PICK y : y = Screens!Learned(q, "groups")
    OBVIOUS
  <2>2. /\ Kept4(q, y) /\ Same(q, y) /\ y.total = q.total
        /\ y.reach = q.reach \intersect Screens!TokenIDsForGroups(s1.index, q.scope)
        /\ y.shown = IF q.kind = "trip" THEN q.shown \intersect y.reach ELSE q.shown
    BY <2>1, LearnsGroups
  <2>3. PICK x : /\ x = s2' /\ Follows(q, x) /\ x.reach = y.reach /\ x.shown = y.shown
                 /\ x.fence = y.fence /\ x.total = y.total /\ x.capped = y.capped /\ x.lost = y.lost
    BY <1>8, <1>10, <2>1, <2>2
  <2> QED
    BY <1>2, <1>4, <1>10, <2>2, <2>3, GroupsRead DEF Same
<1>11. CASE s2' = Screens!GoOn(Screens!Learned(q, step)) /\ step = "active"
  <2>1. PICK y : y = Screens!Learned(q, "active")
    OBVIOUS
  <2>2. /\ Kept4(q, y) /\ Same(q, y)
        /\ y.reach = Screens!NarrowToActive(q.reach, s1.active)
        /\ y.shown = IF q.kind = "counts" THEN q.shown ELSE q.shown \intersect y.reach
        /\ y.total = IF q.kind = "targets" THEN Cardinality(q.shown \intersect y.reach) ELSE q.total
    BY <2>1, LearnsActive
  <2>3. PICK x : /\ x = s2' /\ Follows(q, x) /\ x.reach = y.reach /\ x.shown = y.shown
                 /\ x.fence = y.fence /\ x.total = y.total /\ x.capped = y.capped /\ x.lost = y.lost
    BY <1>8, <1>11, <2>1, <2>2
  <2> QED
    BY <1>2, <1>4, <1>11, <2>2, <2>3, ActiveRead DEF Same
<1>12. CASE s2' = Screens!GoOn(Screens!Learned(q, step)) /\ step = "effective"
  <2>1. PICK y : y = Screens!Learned(q, "effective")
    OBVIOUS
  <2>2. /\ Kept4(q, y) /\ y.reach = q.reach /\ y.fence = q.fence /\ y.lost = q.lost
        /\ \/ q.kind = "counts" /\ y.shown = EffectiveOf(q) \intersect q.reach /\ y.capped = q.capped
           \/ q.kind = "passes" /\ y.shown = q.shown \intersect EffectiveOf(q)
           \/ /\ q.kind = "targets" /\ y.shown = Screens!Capped(EffectiveOf(q))
              /\ y.total = Cardinality(EffectiveOf(q))
              /\ (y.capped <=> Cardinality(EffectiveOf(q)) > MaxScanVehicles)
           \/ q.kind \notin {"counts", "passes", "targets"} /\ y.shown = EffectiveOf(q)
              /\ y.capped = q.capped
    BY <1>7, <2>1, LearnsSet
  <2>3. PICK x : /\ x = s2' /\ Follows(q, x) /\ x.reach = y.reach /\ x.shown = y.shown
                 /\ x.fence = y.fence /\ x.total = y.total /\ x.capped = y.capped /\ x.lost = y.lost
    BY <1>8, <1>12, <2>1, <2>2
  <2>4. q.kind \in Screens!Kinds /\ q.kind # "trip"
    BY <1>2, <1>4, <1>12, StepsAre DEF Reading, Screen
  <2>5. q.kind \in {"counts", "passes", "targets"} \/ q.kind \in {"one", "vehicles"}
    BY <2>4 DEF Screens!Kinds
  <2> QED
    BY <1>2, <1>4, <1>7, <1>12, <2>2, <2>3, <2>5, EffectiveRead DEF SameReach
<1>13. CASE s2' = Screens!GoOn(Screens!Learned(q, step)) /\ step \in {"count", "fence", "row", "exists"}
  <2>1. PICK y : y = Screens!Learned(q, step)
    OBVIOUS
  <2>2. /\ Kept4(q, y) /\ y.reach = q.reach
        /\ step = "fence" => y.shown = q.shown
        /\ step = "count" => Same(q, y) /\ y.shown = EffectiveOf(q)
        /\ step \in {"row", "exists"} => y.shown \subseteq q.shown
    BY <1>7, <1>13, <2>1, LearnsRest
  <2>3. PICK x : /\ x = s2' /\ Follows(q, x) /\ x.reach = y.reach /\ x.shown = y.shown
                 /\ x.fence = y.fence /\ x.total = y.total /\ x.capped = y.capped /\ x.lost = y.lost
    BY <1>8, <1>13, <2>1, <2>2
  <2>4. CASE step = "fence"
    BY <1>2, <1>4, <2>2, <2>3, <2>4, FenceRead DEF SameReach
  <2>5. CASE step = "count"
    BY <1>2, <1>4, <2>2, <2>3, <2>5, CountRead DEF SameReach, Same
  <2>6. CASE step \in {"row", "exists"}
    BY <1>2, <1>4, <2>2, <2>3, <2>6, RowRead DEF SameReach
  <2> QED
    BY <1>13, <2>4, <2>5, <2>6
<1> QED
  BY <1>5, <1>6, <1>9, <1>10, <1>11, <1>12, <1>13

LEMMA ScreensReadFails ==
  ASSUME ScreensInv, Screens!ReadFails
  PROVE  ScreensInv'
<1>1. PICK q \in Screen : q = s2 /\ q.at = "reading"
  BY DEF ScreensInv, Screens!ReadFails
<1>2. Reading(q) /\ ScreenIsFine(q)
  BY <1>1 DEF ScreensInv, Placed, Reading
<1>3. SUFFICES ASSUME s2' # Screens!Idle
               PROVE  \E x : x = s2' /\ Follows(q, x) /\ ScreenIsFine(x)
  BY <1>1, <1>2, ScreenStays DEF Screens!ReadFails
<1>4. s2' = Screens!GoOn(Screens!CountIsZero(q)) /\ Screens!Losable(q, Screens!StepOf(q))
  BY <1>1, <1>3 DEF Screens!ReadFails
<1>5. PICK y \in Screen : y = [q EXCEPT !.shown = {}, !.lost = TRUE]
  BY DEF Screen
<1>6. y = Screens!CountIsZero(q)
  BY <1>5 DEF Screens!CountIsZero
<1>7. y.kind = q.kind /\ y.limited = q.limited /\ y.next = q.next /\ y.scope = q.scope
      /\ y.reach = q.reach /\ y.shown = {} /\ y.lost
  BY <1>5 DEF Screen
<1>8. PICK x : x = s2' /\ Follows(q, x) /\ x.reach = q.reach /\ x.shown = {} /\ x.lost
  BY <1>2, <1>4, <1>6, <1>7, GoesOn
<1>9. Screens!StepOf(q) \in {"count", "effective"} /\ q.kind # "targets"
  BY <1>2, <1>4, StepsAre DEF Screens!Losable
<1> QED
  BY <1>2, <1>8, <1>9, LostRead DEF SameReach

LEMMA ScreensBegin ==
  ASSUME ScreensInv, NEW kind \in Screens!Kinds, NEW limited \in BOOLEAN, NEW scope \in SUBSET Zones,
         NEW ids \in SUBSET Tokens, Screens!Begin(kind, limited, scope, ids)
  PROVE  ScreensInv'
<1>1. /\ s2' = [Screens!Idle EXCEPT !.at = "reading", !.kind = kind, !.limited = limited, !.scope = scope,
                  !.shown = ids, !.fence = s1.fence]
      /\ s3' = {s1} /\ UNCHANGED <<s1, s4>> /\ s1 \in Screens!Worlds
  BY DEF Screens!Begin, ScreensInv
<1>2. s1.fence \in Screens!Fences
  BY <1>1 DEF Screens!Worlds
<1>3. PICK x \in Screen : x = [Screens!Idle EXCEPT !.at = "reading", !.kind = kind, !.limited = limited,
                                 !.scope = scope, !.shown = ids, !.fence = s1.fence]
  BY <1>2, ScreenIdles DEF Screen
<1>4. /\ x = s2' /\ x.at = "reading" /\ x.kind = kind /\ x.limited = limited /\ x.next = 1
      /\ x.reach = Tokens
  BY <1>1, <1>3 DEF Screens!Idle
<1>5. Placed(x) /\ ~IsSet(x)
  BY <1>4 DEF Placed, IsSet, LastAt, SetAt, Screens!Kinds
<1>6. /\ ~(x.next > GroupsAt(x.kind)) /\ ~(x.next > ActiveAt(x.kind)) /\ ~(x.next > NarrowedAt(x.kind))
      /\ ~(x.next > 1)
  BY <1>4 DEF GroupsAt, ActiveAt, NarrowedAt
<1>7. ScreenIsFine(x)'
  BY <1>4, <1>5, <1>6 DEF ScreenIsFine, ReachIsFine, ShownIsFine, CountIsFine
<1>8. ScreenIsFine(s2)' /\ Placed(s2)'
  BY <1>4, <1>5, <1>6 DEF ScreenIsFine, ReachIsFine, ShownIsFine, CountIsFine, Placed, IsSet
<1> QED
  BY <1>1, <1>3, <1>4, <1>8 DEF ScreensInv

LEMMA ScreensStart ==
  ASSUME Screens!Init
  PROVE  ScreensInv
<1>1. \E t \in Tokens : \A u \in Tokens : t <= u
  BY TokensAssumption, LeastExists
<1>2. Screens!Min(Tokens) \in Tokens
  BY <1>1 DEF Screens!Min
<1>3. PICK fence \in Screens!Fences :
        s1 = [fence |-> fence, rows |-> Tokens, manual |-> {Screens!Min(Tokens)},
              index |-> [g \in Zones |-> {Screens!Min(Tokens)}],
              active |-> [enforced |-> FALSE, tokens |-> Tokens]]
  BY DEF Screens!Init
<1>4. s1 \in Screens!Worlds
  BY <1>2, <1>3 DEF Screens!Worlds
<1> QED
  BY <1>4, ScreenIdles, TokensAssumption DEF Screens!Init, ScreensInv

LEMMA ScreensStep ==
  ASSUME ScreensInv, Screens!Next \/ UNCHANGED Screens!fenceVars
  PROVE  ScreensInv'
<1>1. CASE UNCHANGED Screens!fenceVars
  <2>1. UNCHANGED <<s1, s2, s3, s4>>
    BY <1>1 DEF Screens!fenceVars
  <2> QED
    BY <2>1 DEF ScreensInv, Placed, ScreenIsFine, ReachIsFine, ShownIsFine, CountIsFine, InGroups,
       IsActive, Allowed, Applies, Screens!Belongs, Emptied, IsSet
<1>2. CASE \E kind \in Screens!Kinds : \E ids \in Screens!Asked(kind) :
             \/ Screens!Begin(kind, FALSE, {}, ids)
             \/ \E scope \in SUBSET Zones : Screens!Begin(kind, TRUE, scope, ids)
  <2>3. PICK kind \in Screens!Kinds : \E ids \in Screens!Asked(kind) :
             \/ Screens!Begin(kind, FALSE, {}, ids)
             \/ \E scope \in SUBSET Zones : Screens!Begin(kind, TRUE, scope, ids)
    BY <1>2
  <2>1. PICK ids \in Screens!Asked(kind), limited \in BOOLEAN, scope \in SUBSET Zones :
          Screens!Begin(kind, limited, scope, ids)
    BY <2>3
  <2>2. ids \in SUBSET Tokens
    BY DEF Screens!Asked
  <2> QED
    BY <2>1, <2>2, ScreensBegin
<1>3. CASE Screens!Reply
  BY <1>3, ScreenStays DEF Screens!Reply
<1> QED
  BY <1>1, <1>2, <1>3, ScreensRead, ScreensReadFails, ScreensWorldTurns DEF Screens!Next

-----------------------------------------------------------------------------
(***************************************************************************)
(* Doors: the routes without a fleet.  A call knows what was in the stores *)
(* at some time since it began, and a login writes a stamp and no more.    *)
(***************************************************************************)

DoorStages == {"idle", "row", "tenant", "authz", "list", "find", "touch", "stamp", "active", "page",
               "mine", "theirs", "done"}
DoorKinds == Doors!Kinds \union {"none"}
DoorStatuses == {0, 200, 401, 403, 404, 500, 503}
One == <<"tenant">>
Stores == [Wallets -> Doors!Members]
DoorRows == Doors!Rows

(* Whatever a handler may list. *)
Lists == {<<>>, One} \union { Doors!Union(mine, theirs) : mine \in {<<>>, One}, theirs \in {<<>>, One} }
         \union { Doors!MembersOf(store) : store \in Stores }

Call == [at : DoorStages, kind : DoorKinds, row : DoorRows, status : DoorStatuses,
         shown : Lists, enforced : BOOLEAN, lost : BOOLEAN]

DoorWorlds == [rows : [Wallets -> Doors!Rows], members : Stores]
StoreOf(w) == IF s1 THEN w.members ELSE w.rows

IsLocal(w)  == w.rows[Me] # Doors!No
IsShared(w) == w.members[Me].via = "direct"

(* Which handler has which steps. *)
AtItsPlace(q) ==
  /\ q.at = "row" => q.kind \in Doors!ByRow
  /\ q.at \in {"tenant", "authz"} => q.kind \in Doors!ByRow \union Doors!ByAuthz
  /\ q.at = "list" => q.kind = "members"
  /\ q.at \in {"find", "touch", "stamp"} => q.kind = "login"
  /\ q.at = "active" => q.kind = "access"
  /\ q.at = "page" => q.kind = "memberships"
  /\ q.at \in {"mine", "theirs"} => q.kind = "tenants"

LetIn(q) == q.at \in {"list", "find", "touch", "stamp", "active", "page"} \/ (q.at = "done" /\ q.status = 200)

(* Who is let in was seen to be a member. *)
DoorWasOpen(q, S) ==
  LetIn(q) =>
    /\ q.kind \in Doors!ByRow => \E w \in S : IsLocal(w) \/ IsShared(w)
    /\ q.kind \in Doors!ByAuthz => \E w \in S : IsShared(w)

RefusedOne(q, S) == q.at = "done" /\ q.status = 403 /\ ~q.lost => \E w \in S : ~IsShared(w)

(* The caller's own tenants, as far as they are read. *)
TenantsSeen(q, S) ==
  /\ q.at = "mine" => q.shown = <<>>
  /\ q.at = "theirs" =>
       \/ q.shown = <<>> /\ \E w \in S : ~IsLocal(w)
       \/ q.shown = One /\ \E w \in S : IsLocal(w)
  /\ q.at = "done" /\ q.kind = "tenants" =>
       \/ /\ Len(q.shown) = 0
          /\ q.status = 200 /\ ~q.lost =>
               (\E w \in S : ~IsLocal(w)) /\ \E w \in S : w.members[Me] = Doors!No
       \/ Len(q.shown) = 1 /\ \E w \in S : IsLocal(w) \/ w.members[Me] # Doors!No

ListSeen(q, S) ==
  q.at = "done" /\ q.kind = "members" /\ q.status = 200 /\ ~q.lost =>
    \E w \in S : q.shown = Doors!MembersOf(StoreOf(w))

CallIsFine(q, S) ==
  /\ AtItsPlace(q) /\ DoorWasOpen(q, S) /\ RefusedOne(q, S) /\ TenantsSeen(q, S) /\ ListSeen(q, S)

(* Until a login is stamped a running request has seen the world, and the *)
(* one of the kept answer.                                                *)
Looking == {"row", "tenant", "authz", "list", "mine", "theirs"}

SeesDoors(q, S) == q.at \in Looking => s2 \in S /\ \A a \in s3 : a.of \in S

Unstamped(row) == [row EXCEPT !.stamped = FALSE]

DoorsInv ==
  /\ s1 \in BOOLEAN /\ s2 \in DoorWorlds /\ s5 \subseteq DoorWorlds /\ s7 \in 0..MaxDoorTurns
  /\ s3 = {} \/ \E a : s3 = {a}
  /\ \A a \in s3 : a.of \in DoorWorlds
  /\ s4 \in Call /\ CallIsFine(s4, s5) /\ SeesDoors(s4, s5)
  /\ \A w \in Wallets : Unstamped(s2.rows[w]) = Unstamped(s6[w])

-----------------------------------------------------------------------------
LEMMA DoorCardinality == \A S : Doors!Cardinality(S) = Cardinality(S)
BY DEF Doors!Cardinality, Cardinality

(* A finite set can be listed, each element once. *)
LEMMA ListIs ==
  ASSUME NEW set, IsFiniteSet(set)
  PROVE  LET s == Doors!AsList(set)
         IN  /\ s \in [1..Cardinality(set) -> set] /\ Cardinality(set) \in Nat
             /\ \A i, j \in 1..Cardinality(set) : i # j => s[i] # s[j]
             /\ \A x \in set : \E i \in 1..Cardinality(set) : s[i] = x
<1> DEFINE n == Cardinality(set)
           s == Doors!AsList(set)
<1>1. n \in Nat /\ ExistsBijection(1..n, set)
  BY FS_CardinalityType
<1>2. PICK f \in [1..n -> set] : \A i, j \in 1..n : i # j => f[i] # f[j]
  BY <1>1 DEF ExistsBijection, Bijection, Injection, IsInjective
<1>3. s \in [1..n -> set] /\ \A i, j \in 1..n : i # j => s[i] # s[j]
  <2>1. s = CHOOSE t \in [1..n -> set] : \A i, j \in 1..n : i # j => t[i] # t[j]
    BY DoorCardinality DEF Doors!AsList
  <2> HIDE DEF n, s
  <2> QED
    BY <1>2, <2>1
<1>4. s \in Injection(1..n, set)
  BY <1>3 DEF Injection, IsInjective
<1>5. IsFiniteSet(1..n) /\ Cardinality(1..n) = n
  BY <1>1, FS_Interval
<1>6. s \in Surjection(1..n, set)
  BY <1>4, <1>5, FS_Injection
<1> QED
  BY <1>1, <1>3, <1>6 DEF Surjection

(* What a store holds, shown as a list. *)
AsStored(shown, store) ==
  /\ \A i, j \in DOMAIN shown : i # j => shown[i].of # shown[j].of
  /\ \A i \in DOMAIN shown :
       /\ shown[i].role = "owner" => ~shown[i].limited
       /\ shown[i].of \in Doors!In(store) /\ shown[i].role = store[shown[i].of].role
  /\ \A m \in Doors!In(store) : \E i \in DOMAIN shown : shown[i].of = m

LEMMA MembersAre ==
  ASSUME NEW store
  PROVE  AsStored(Doors!MembersOf(store), store)
<1> DEFINE told == { Doors!ToMember(w, store[w]) : w \in Doors!In(store) }
           shown == Doors!AsList(told)
           f == [w \in Doors!In(store) |-> Doors!ToMember(w, store[w])]
           n == Cardinality(told)
<1>1. IsFiniteSet(Doors!In(store))
  <2>1. Doors!In(store) \subseteq Wallets
    BY DEF Doors!In
  <2> QED
    BY <2>1, WalletsAssumption, FS_Subset
<1>2. f \in Surjection(Doors!In(store), told)
  BY DEF Surjection
<1>3. IsFiniteSet(told)
  BY <1>1, <1>2, FS_Surjection
<1>4. /\ shown \in [1..n -> told]
      /\ \A i, j \in 1..n : i # j => shown[i] # shown[j]
      /\ \A x \in told : \E i \in 1..n : shown[i] = x
  BY <1>3, ListIs
<1>5. shown = Doors!MembersOf(store)
  BY DEF Doors!MembersOf
<1> HIDE DEF shown, n, f
<1>6. ASSUME NEW x \in told
      PROVE  /\ x.of \in Doors!In(store) /\ x = Doors!ToMember(x.of, store[x.of])
             /\ x.role = store[x.of].role
             /\ x.role = "owner" => ~x.limited
  <2>1. PICK w \in Doors!In(store) : x = Doors!ToMember(w, store[w])
    BY <1>6
  <2>2. /\ x.of = w /\ x.role = store[w].role
        /\ x.limited <=> (store[w].limited /\ store[w].role # "owner")
    BY <2>1 DEF Doors!ToMember
  <2> QED
    BY <2>1, <2>2
<1>7. ASSUME NEW m \in Doors!In(store)
      PROVE  \E x \in told : x.of = m
  <2>1. Doors!ToMember(m, store[m]).of = m
    BY DEF Doors!ToMember
  <2> QED
    BY <2>1
<1> HIDE DEF told
<1>8. ASSUME NEW i \in 1..n, NEW j \in 1..n, i # j
      PROVE  shown[i].of # shown[j].of
  BY <1>4, <1>6, <1>8
<1> QED
  BY <1>4, <1>5, <1>6, <1>7, <1>8 DEF AsStored

-----------------------------------------------------------------------------
LEMMA DoorsShow ==
  ASSUME DoorsInv
  PROVE  Doors!TypeOK /\ Doors!DoorsHold /\ Doors!MembersAsStored /\ Doors!StampsUndoNothing
<1> PICK S : S = s5
  OBVIOUS
<1>1. PICK q \in Call : q = s4 /\ S = s5 /\ CallIsFine(q, S)
  BY DEF DoorsInv
<1>2. Doors!TypeOK
  <2>1. s2 \in [rows : [Wallets -> Doors!Rows], members : [Wallets -> Doors!Members]]
    BY DEF DoorsInv, DoorWorlds, Stores
  <2>2. q.status \in {0, 200, 401, 403, 404, 500, 503}
    BY DEF Call, DoorStatuses
  <2>3. Cardinality(s3) <= 1
    <3>1. CASE s3 = {}
      BY <3>1, FS_EmptySet
    <3>2. ASSUME NEW a, s3 = {a}
          PROVE  Cardinality(s3) <= 1
      <4>1. Cardinality({a}) = 1
        BY FS_Singleton
      <4> QED
        BY <3>2, <4>1
    <3> QED
      BY <3>1, <3>2 DEF DoorsInv
  <2>4. s7 \in 0..MaxDoorTurns
    BY DEF DoorsInv
  <2> QED
    BY <1>1, <2>1, <2>2, <2>3, <2>4, DoorCardinality DEF Doors!TypeOK
<1>3. Doors!DoorsHold
  <2> SUFFICES ASSUME q.at = "done"
               PROVE  /\ q.kind \in Doors!ByRow /\ q.status = 200 =>
                           \E w \in S : w.rows[Me] # Doors!No \/ w.members[Me].via = "direct"
                      /\ q.kind \in Doors!ByAuthz /\ q.status = 200 =>
                           \E w \in S : w.members[Me].via = "direct"
                      /\ q.status = 403 /\ ~q.lost => \E w \in S : ~(w.members[Me].via = "direct")
                      /\ q.kind = "tenants" =>
                           /\ Len(q.shown) <= 1
                           /\ Len(q.shown) = 1 => \E w \in S : w.rows[Me] # Doors!No \/ w.members[Me] # Doors!No
                           /\ q.status = 200 /\ ~q.lost =>
                                ((\A w \in S : w.rows[Me] # Doors!No) \/ (\A w \in S : w.members[Me] # Doors!No)
                                   => Len(q.shown) = 1)
    BY <1>1 DEF Doors!DoorsHold, Doors!Was
  <2>1. /\ q.kind \in Doors!ByRow /\ q.status = 200 => \E w \in S : IsLocal(w) \/ IsShared(w)
        /\ q.kind \in Doors!ByAuthz /\ q.status = 200 => \E w \in S : IsShared(w)
    BY <1>1 DEF CallIsFine, DoorWasOpen, LetIn
  <2>2. q.status = 403 /\ ~q.lost => \E w \in S : ~IsShared(w)
    BY <1>1 DEF CallIsFine, RefusedOne
  <2>3. q.kind = "tenants" =>
          \/ /\ Len(q.shown) = 0
             /\ q.status = 200 /\ ~q.lost =>
                  (\E w \in S : ~IsLocal(w)) /\ \E w \in S : w.members[Me] = Doors!No
          \/ Len(q.shown) = 1 /\ \E w \in S : IsLocal(w) \/ w.members[Me] # Doors!No
    BY <1>1 DEF CallIsFine, TenantsSeen
  <2>4. CASE q.kind = "tenants"
    <3>1. CASE /\ Len(q.shown) = 0
               /\ q.status = 200 /\ ~q.lost =>
                    (\E w \in S : ~IsLocal(w)) /\ \E w \in S : w.members[Me] = Doors!No
      BY <2>2, <2>4, <3>1 DEF IsLocal, IsShared, Doors!ByRow, Doors!ByAuthz
    <3>2. CASE Len(q.shown) = 1 /\ \E w \in S : IsLocal(w) \/ w.members[Me] # Doors!No
      BY <2>2, <2>4, <3>2 DEF IsLocal, IsShared, Doors!ByRow, Doors!ByAuthz
    <3> QED
      BY <2>3, <2>4, <3>1, <3>2
  <2>5. CASE q.kind # "tenants"
    BY <2>1, <2>2, <2>5 DEF IsLocal, IsShared
  <2> QED
    BY <2>4, <2>5
<1>4. Doors!MembersAsStored
  <2> SUFFICES ASSUME q.at = "done", q.kind = "members", q.status = 200, ~q.lost
               PROVE  /\ \A i, j \in DOMAIN q.shown : i # j => q.shown[i].of # q.shown[j].of
                      /\ \A i \in DOMAIN q.shown :
                           /\ q.shown[i].role = "owner" => ~q.shown[i].limited
                           /\ \E w \in S : /\ q.shown[i].of \in Doors!In(StoreOf(w))
                                           /\ q.shown[i].role = StoreOf(w)[q.shown[i].of].role
                      /\ \A m \in Wallets :
                           (\A w \in S : m \in Doors!In(StoreOf(w))) => \E i \in DOMAIN q.shown : q.shown[i].of = m
    BY <1>1 DEF Doors!MembersAsStored, StoreOf
  <2>1. PICK w \in S : q.shown = Doors!MembersOf(StoreOf(w))
    BY <1>1 DEF CallIsFine, ListSeen
  <2>2. PICK store : store = StoreOf(w)
    OBVIOUS
  <2>3. PICK shown : shown = Doors!MembersOf(store) /\ shown = q.shown
    BY <2>1, <2>2
  <2>4. AsStored(shown, store)
    BY <2>3, MembersAre
  <2> QED
    BY <2>2, <2>3, <2>4 DEF AsStored
<1>5. Doors!StampsUndoNothing
  BY DEF Doors!StampsUndoNothing, DoorsInv, Unstamped
<1> QED
  BY <1>2, <1>3, <1>4, <1>5

-----------------------------------------------------------------------------
(* Only the request moves. *)
LEMMA CallStep ==
  ASSUME DoorsInv, UNCHANGED <<s1, s2, s3, s5, s6, s7>>, NEW x \in Call, s4' = x, CallIsFine(x, s5),
         x.at \in Looking => s4.at \in Looking
  PROVE  DoorsInv'
<1>1. PICK S : S = s5 /\ S = s5'
  OBVIOUS
<1>2. CallIsFine(x, S)'
  BY <1>1
  DEF CallIsFine, AtItsPlace, DoorWasOpen, RefusedOne, TenantsSeen, ListSeen, LetIn, StoreOf, IsLocal, IsShared
<1>3. SeesDoors(x, S)'
  BY <1>1 DEF SeesDoors, DoorsInv
<1> QED
  BY <1>1, <1>2, <1>3 DEF DoorsInv

Keeps(q, x) == x.kind = q.kind /\ x.shown = q.shown

LEMMA AnsweredIs ==
  ASSUME s4 \in Call, NEW status \in DoorStatuses
  PROVE  /\ \E x \in Call : /\ x = Doors!Answered(status) /\ Keeps(s4, x) /\ x.at = "done" /\ x.status = status
         /\ \E x \in Call : /\ x = [Doors!Answered(status) EXCEPT !.lost = TRUE] /\ Keeps(s4, x)
                            /\ x.at = "done" /\ x.status = status /\ x.lost
<1>1. PICK q \in Call : q = s4
  OBVIOUS
<1>2. PICK x \in Call : x = [q EXCEPT !.at = "done", !.status = status]
  BY DEF Call, DoorStages
<1>3. x.kind = q.kind /\ x.shown = q.shown /\ x.at = "done" /\ x.status = status
  BY <1>2 DEF Call
<1>4. PICK y \in Call : y = [x EXCEPT !.lost = TRUE]
  BY DEF Call
<1>5. y.kind = x.kind /\ y.shown = x.shown /\ y.at = x.at /\ y.status = x.status /\ y.lost
  BY <1>4 DEF Call
<1> QED
  BY <1>1, <1>2, <1>3, <1>4, <1>5 DEF Doors!Answered, Keeps

(* A handler of a member ends. *)
LEMMA HandlerEnds ==
  ASSUME NEW q, NEW S, NEW x, CallIsFine(q, S), q.at \in {"list", "find", "touch", "stamp", "active", "page"},
         x.kind = q.kind, x.at = "done", x.status # 403, ListSeen(x, S)
  PROVE  CallIsFine(x, S)
<1>1. LetIn(q) /\ q.kind \in {"members", "login", "access", "memberships"}
  BY DEF LetIn, CallIsFine, AtItsPlace
<1>2. DoorWasOpen(x, S)
  BY <1>1 DEF DoorWasOpen, CallIsFine
<1>3. AtItsPlace(x) /\ RefusedOne(x, S) /\ TenantsSeen(x, S)
  BY <1>1 DEF AtItsPlace, RefusedOne, TenantsSeen
<1> QED
  BY <1>2, <1>3 DEF CallIsFine

(* A request ends before it is let in. *)
LEMMA TurnedAway ==
  ASSUME NEW q, NEW S, NEW x, CallIsFine(q, S), q.at \in {"tenant", "authz"},
         x.kind = q.kind, x.at = "done", x.status # 200, RefusedOne(x, S)
  PROVE  CallIsFine(x, S)
<1>1. q.kind # "tenants"
  BY DEF CallIsFine, AtItsPlace, Doors!ByRow, Doors!ByAuthz
<1> QED
  BY <1>1 DEF CallIsFine, AtItsPlace, DoorWasOpen, LetIn, TenantsSeen, ListSeen

(* A request is let in. *)
LEMMA AdmitIs ==
  ASSUME NEW q \in Call, NEW S, q.kind \in Doors!ByRow \union Doors!ByAuthz,
         \/ \E w \in S : IsShared(w)
         \/ q.kind \in Doors!ByRow /\ \E w \in S : IsLocal(w)
  PROVE  \E x \in Call : x = Doors!Admit(q) /\ CallIsFine(x, S) /\ (x.at \in Looking => x.at = "list")
<1>1. /\ Doors!First(q.kind) \in DoorStages /\ 200 \in DoorStatuses
      /\ Doors!First(q.kind) \in {"list", "find", "active", "page", "done"}
      /\ Doors!First(q.kind) = "list" <=> q.kind = "members"
      /\ Doors!First(q.kind) = "find" <=> q.kind = "login"
      /\ Doors!First(q.kind) = "active" <=> q.kind = "access"
      /\ Doors!First(q.kind) = "page" <=> q.kind = "memberships"
  BY DEF Doors!First, DoorStages, DoorStatuses
<1>2. PICK x \in Call : x = [q EXCEPT !.at = Doors!First(q.kind), !.status = 200]
  BY <1>1 DEF Call
<1>3. x.kind = q.kind /\ x.at = Doors!First(q.kind) /\ x.status = 200
  BY <1>2 DEF Call
<1>4. AtItsPlace(x)
  BY <1>1, <1>3 DEF AtItsPlace
<1>5. DoorWasOpen(x, S)
  BY <1>3 DEF DoorWasOpen, Doors!ByRow, Doors!ByAuthz
<1>6. RefusedOne(x, S) /\ TenantsSeen(x, S) /\ ListSeen(x, S)
  BY <1>1, <1>3 DEF RefusedOne, TenantsSeen, ListSeen, Doors!ByRow, Doors!ByAuthz
<1>7. x.at \in Looking => x.at = "list"
  BY <1>1, <1>3 DEF Looking
<1> QED
  BY <1>2, <1>4, <1>5, <1>6, <1>7 DEF Doors!Admit, CallIsFine
-----------------------------------------------------------------------------
LEMMA DoorsLookUp ==
  ASSUME DoorsInv, Doors!requireMember
  PROVE  DoorsInv'
<1> PICK S : S = s5
  OBVIOUS
<1>1. PICK q \in Call : q = s4 /\ S = s5 /\ CallIsFine(q, S)
  BY DEF DoorsInv
<1>2. q.at = "row" /\ UNCHANGED <<s1, s2, s3, s5, s6, s7>> /\ q.kind \in Doors!ByRow
  BY <1>1 DEF Doors!requireMember, CallIsFine, AtItsPlace
<1>3. s2 \in S /\ q.at \in Looking
  BY <1>1, <1>2 DEF DoorsInv, SeesDoors, Looking
<1>4. SUFFICES \E x \in Call : s4' = x /\ CallIsFine(x, S)
  BY <1>1, <1>2, <1>3, CallStep
<1>5. CASE s4' = [q EXCEPT !.at = "tenant"]
  <2>1. PICK x \in Call : x = [q EXCEPT !.at = "tenant"]
    BY DEF Call, DoorStages
  <2>2. x.at = "tenant" /\ x.kind = q.kind
    BY <2>1 DEF Call
  <2>3. CallIsFine(x, S)
    BY <1>2, <2>2 DEF CallIsFine, AtItsPlace, DoorWasOpen, LetIn, RefusedOne, TenantsSeen, ListSeen
  <2> QED
    BY <1>5, <2>1, <2>3
<1>6. CASE Doors!Row # Doors!No /\ s4' = Doors!Admit(q)
  <2>1. IsLocal(s2)
    BY <1>6 DEF IsLocal, Doors!Row
  <2>2. \E w \in S : IsLocal(w)
    BY <1>3, <2>1
  <2>3. \E x \in Call : x = Doors!Admit(q) /\ CallIsFine(x, S)
    BY <1>2, <2>2, AdmitIs
  <2> QED
    BY <1>6, <2>3
<1> QED
  BY <1>1, <1>5, <1>6 DEF Doors!requireMember

LEMMA DoorsLoad ==
  ASSUME DoorsInv, Doors!LoadTenant
  PROVE  DoorsInv'
<1> PICK S : S = s5
  OBVIOUS
<1>1. PICK q \in Call : q = s4 /\ S = s5 /\ CallIsFine(q, S)
  BY DEF DoorsInv
<1>2. q.at = "tenant" /\ UNCHANGED <<s1, s2, s3, s5, s6, s7>>
  BY <1>1 DEF Doors!LoadTenant
<1>3. q.at \in Looking
  BY <1>2 DEF Looking
<1>4. SUFFICES \E x \in Call : s4' = x /\ CallIsFine(x, S)
  BY <1>1, <1>2, <1>3, CallStep
<1>5. CASE s4' = [q EXCEPT !.at = "authz"]
  <2>1. PICK x \in Call : x = [q EXCEPT !.at = "authz"]
    BY DEF Call, DoorStages
  <2>2. x.at = "authz" /\ x.kind = q.kind
    BY <2>1 DEF Call
  <2>3. CallIsFine(x, S)
    BY <1>1, <1>2, <2>2 DEF CallIsFine, AtItsPlace, DoorWasOpen, LetIn, RefusedOne, TenantsSeen, ListSeen
  <2> QED
    BY <1>5, <2>1, <2>3
<1>6. ASSUME NEW status \in {403, 500}, s4' = [Doors!Answered(status) EXCEPT !.lost = TRUE]
      PROVE  \E x \in Call : s4' = x /\ CallIsFine(x, S)
  <2>1. s4 \in Call /\ status \in DoorStatuses
    BY <1>1 DEF DoorStatuses
  <2>2. PICK x \in Call : /\ x = [Doors!Answered(status) EXCEPT !.lost = TRUE] /\ Keeps(s4, x)
                          /\ x.at = "done" /\ x.status = status /\ x.lost
    BY <2>1, AnsweredIs
  <2>3. x.kind = q.kind
    BY <1>1, <2>2 DEF Keeps
  <2>4. x.at = "done" /\ x.status # 200 /\ RefusedOne(x, S)
    BY <2>2 DEF RefusedOne
  <2>5. CallIsFine(x, S)
    BY <1>1, <1>2, <2>3, <2>4, TurnedAway
  <2> QED
    BY <1>6, <2>2, <2>5
<1> QED
  BY <1>1, <1>5, <1>6 DEF Doors!LoadTenant

LEMMA DoorsAuthz ==
  ASSUME DoorsInv, Doors!Authz
  PROVE  DoorsInv'
<1> PICK S : S = s5
  OBVIOUS
<1>1. PICK q \in Call : q = s4 /\ S = s5 /\ CallIsFine(q, S)
  BY DEF DoorsInv
<1>2. q.at = "authz" /\ UNCHANGED <<s1, s2, s5, s6, s7>>
  BY <1>1 DEF Doors!Authz
<1>3. s2 \in S /\ (\A a \in s3 : a.of \in S) /\ q.at \in Looking
  BY <1>1, <1>2 DEF DoorsInv, SeesDoors, Looking
<1>4. q.kind \in Doors!ByRow \union Doors!ByAuthz
  BY <1>1, <1>2 DEF CallIsFine, AtItsPlace
<1>5. CASE s3' = s3 /\ s4' = [Doors!Answered(503) EXCEPT !.lost = TRUE]
  <2>1. s4 \in Call /\ 503 \in DoorStatuses
    BY <1>1 DEF DoorStatuses
  <2>2. PICK x \in Call : /\ x = [Doors!Answered(503) EXCEPT !.lost = TRUE] /\ Keeps(s4, x)
                          /\ x.at = "done" /\ x.status = 503 /\ x.lost
    BY <2>1, AnsweredIs
  <2>3. x.kind = q.kind
    BY <1>1, <2>2 DEF Keeps
  <2>4. x.at = "done" /\ x.status # 200 /\ RefusedOne(x, S)
    BY <2>2 DEF RefusedOne
  <2>5. CallIsFine(x, S)
    BY <1>1, <1>2, <2>3, <2>4, TurnedAway
  <2>6. UNCHANGED <<s1, s2, s3, s5, s6, s7>>
    BY <1>2, <1>5
  <2> QED
    BY <1>1, <1>3, <1>5, <2>2, <2>5, <2>6, CallStep
<1>6. ASSUME NEW a, a.of \in S, s3' = {a},
             s4' = IF Doors!DirectMember(a.of.members[Me]) THEN Doors!Admit(q) ELSE Doors!Answered(403)
      PROVE  DoorsInv'
  <2>1. PICK w \in S : w = a.of
    BY <1>6
  <2>2. \E x \in Call : s4' = x /\ CallIsFine(x, S)
    <3>1. CASE IsShared(w)
      <4>1. \E x \in Call : x = Doors!Admit(q) /\ CallIsFine(x, S)
        BY <1>4, <3>1, AdmitIs
      <4> QED
        BY <1>6, <2>1, <3>1, <4>1 DEF IsShared, Doors!DirectMember
    <3>2. CASE ~IsShared(w)
      <4>1. s4 \in Call /\ 403 \in DoorStatuses
        BY <1>1 DEF DoorStatuses
      <4>2. PICK x \in Call : x = Doors!Answered(403) /\ Keeps(s4, x) /\ x.at = "done" /\ x.status = 403
        BY <4>1, AnsweredIs
      <4>3. x.kind = q.kind
        BY <1>1, <4>2 DEF Keeps
      <4>4. x.status # 200 /\ RefusedOne(x, S)
        BY <3>2, <4>2 DEF RefusedOne
      <4>5. CallIsFine(x, S)
        BY <1>1, <1>2, <4>2, <4>3, <4>4, TurnedAway
      <4> QED
        BY <1>6, <2>1, <3>2, <4>2, <4>5 DEF IsShared, Doors!DirectMember
    <3> QED
      BY <3>1, <3>2
  <2>3. PICK x \in Call : s4' = x /\ CallIsFine(x, S)
    BY <2>2
  <2>4. CallIsFine(x, S)'
    BY <1>2, <2>3
    DEF CallIsFine, AtItsPlace, DoorWasOpen, RefusedOne, TenantsSeen, ListSeen, LetIn, StoreOf, IsLocal, IsShared
  <2>5. SeesDoors(x, S)'
    BY <1>2, <1>3, <1>6 DEF SeesDoors
  <2>6. a.of \in DoorWorlds
    BY <1>1, <1>6 DEF DoorsInv
  <2> QED
    BY <1>1, <1>2, <1>6, <2>3, <2>4, <2>5, <2>6 DEF DoorsInv
<1>7. ASSUME NEW a \in s3 \union {[of |-> s2]}
      PROVE  a.of \in S
  BY <1>3, <1>7
<1> QED
  BY <1>1, <1>5, <1>6, <1>7 DEF Doors!Authz
-----------------------------------------------------------------------------
LEMMA AnsweredWith ==
  ASSUME s4 \in Call, NEW shown \in Lists
  PROVE  /\ \E x \in Call : /\ x = [Doors!Answered(200) EXCEPT !.shown = shown]
                            /\ x.kind = s4.kind /\ x.at = "done" /\ x.status = 200 /\ x.shown = shown
         /\ \E x \in Call : /\ x = [Doors!Answered(200) EXCEPT !.shown = shown, !.lost = TRUE]
                            /\ x.kind = s4.kind /\ x.at = "done" /\ x.status = 200 /\ x.lost
         /\ \E x \in Call : /\ x = [Doors!Answered(200) EXCEPT !.shown = shown, !.lost = FALSE]
                            /\ x.kind = s4.kind /\ x.at = "done" /\ x.status = 200 /\ x.shown = shown
<1>1. 200 \in DoorStatuses
  BY DEF DoorStatuses
<1>2. PICK y \in Call : y = Doors!Answered(200) /\ Keeps(s4, y) /\ y.at = "done" /\ y.status = 200
  BY <1>1, AnsweredIs
<1>3. PICK x \in Call : x = [y EXCEPT !.shown = shown]
  BY DEF Call
<1>4. x.kind = y.kind /\ x.at = y.at /\ x.status = y.status /\ x.shown = shown
  BY <1>3 DEF Call
<1>5. PICK t \in Call : t = [y EXCEPT !.shown = shown, !.lost = TRUE]
  BY DEF Call
<1>6. t.kind = y.kind /\ t.at = y.at /\ t.status = y.status /\ t.lost
  BY <1>5 DEF Call
<1>7. PICK f \in Call : f = [y EXCEPT !.shown = shown, !.lost = FALSE]
  BY DEF Call
<1>8. f.kind = y.kind /\ f.at = y.at /\ f.status = y.status /\ f.shown = shown
  BY <1>7 DEF Call
<1>9. \E z \in Call : /\ z = [Doors!Answered(200) EXCEPT !.shown = shown]
                     /\ z.kind = s4.kind /\ z.at = "done" /\ z.status = 200 /\ z.shown = shown
  <2>1. x = [Doors!Answered(200) EXCEPT !.shown = shown]
    BY <1>2, <1>3
  <2>2. x.kind = s4.kind /\ x.at = "done" /\ x.status = 200 /\ x.shown = shown
    BY <1>2, <1>4 DEF Keeps
  <2> QED
    BY <2>1, <2>2
<1>10. \E z \in Call : /\ z = [Doors!Answered(200) EXCEPT !.shown = shown, !.lost = TRUE]
                      /\ z.kind = s4.kind /\ z.at = "done" /\ z.status = 200 /\ z.lost
  BY <1>2, <1>5, <1>6, Zenon DEF Keeps
<1>11. \E z \in Call : /\ z = [Doors!Answered(200) EXCEPT !.shown = shown, !.lost = FALSE]
                      /\ z.kind = s4.kind /\ z.at = "done" /\ z.status = 200 /\ z.shown = shown
  <2>1. f = [Doors!Answered(200) EXCEPT !.shown = shown, !.lost = FALSE]
    BY <1>2, <1>7
  <2>2. f.kind = s4.kind /\ f.at = "done" /\ f.status = 200 /\ f.shown = shown
    BY <1>2, <1>8 DEF Keeps
  <2> QED
    BY <2>1, <2>2
<1> QED
  BY <1>9, <1>10, <1>11, Zenon

LEMMA DoorsList ==
  ASSUME DoorsInv, Doors!GetMembers
  PROVE  DoorsInv'
<1> PICK S : S = s5
  OBVIOUS
<1>1. PICK q \in Call : q = s4 /\ S = s5 /\ CallIsFine(q, S)
  BY DEF DoorsInv
<1>2. q.at = "list" /\ UNCHANGED <<s1, s2, s3, s5, s6, s7>>
  BY <1>1 DEF Doors!GetMembers, Doors!Steps
<1>3. s2 \in S /\ q.at \in Looking
  BY <1>1, <1>2 DEF DoorsInv, SeesDoors, Looking
<1>4. SUFFICES \E x \in Call : s4' = x /\ CallIsFine(x, S)
  BY <1>1, <1>2, <1>3, CallStep
<1>5. PICK loaded \in BOOLEAN :
        \/ s4' = [Doors!Answered(200) EXCEPT !.shown = Doors!MembersOf(IF loaded /\ s1 THEN s2.members ELSE s2.rows),
                                            !.lost = s1 /\ ~loaded]
        \/ s4' = [Doors!Answered(IF loaded /\ s1 THEN 503 ELSE 500) EXCEPT !.lost = TRUE]
  BY DEF Doors!GetMembers
<1>6. ASSUME NEW status \in {500, 503}, s4' = [Doors!Answered(status) EXCEPT !.lost = TRUE]
      PROVE  \E x \in Call : s4' = x /\ CallIsFine(x, S)
  <2>1. s4 \in Call /\ status \in DoorStatuses
    BY <1>1 DEF DoorStatuses
  <2>2. PICK x \in Call : /\ x = [Doors!Answered(status) EXCEPT !.lost = TRUE] /\ Keeps(s4, x)
                          /\ x.at = "done" /\ x.status = status /\ x.lost
    BY <2>1, AnsweredIs
  <2>3. x.kind = q.kind
    BY <1>1, <2>2 DEF Keeps
  <2>4. x.at = "done" /\ x.status # 403 /\ ListSeen(x, S)
    BY <2>2 DEF ListSeen
  <2>5. CallIsFine(x, S)
    BY <1>1, <1>2, <2>3, <2>4, HandlerEnds
  <2> QED
    BY <1>6, <2>2, <2>5
<1>7. CASE s4' = [Doors!Answered(200) EXCEPT !.shown = Doors!MembersOf(IF loaded /\ s1 THEN s2.members ELSE s2.rows),
                                           !.lost = s1 /\ ~loaded]
  <2>2. PICK store \in Stores : store = IF loaded /\ s1 THEN s2.members ELSE s2.rows
    <3>1. s2.members \in Stores /\ s2.rows \in Stores
      BY DEF DoorsInv, DoorWorlds, Stores, Doors!Members
    <3> QED
      BY <3>1
  <2>3. PICK shown \in Lists : shown = Doors!MembersOf(store)
    BY DEF Lists
  <2>4. s4 \in Call
    BY <1>1
  <2>5. CASE s1 /\ ~loaded
    <3>1. PICK x \in Call : /\ x = [Doors!Answered(200) EXCEPT !.shown = shown, !.lost = TRUE]
                            /\ x.kind = s4.kind /\ x.at = "done" /\ x.status = 200 /\ x.lost
      BY <2>4, AnsweredWith
    <3>2. ListSeen(x, S)
      BY <3>1 DEF ListSeen
    <3>3. x.kind = q.kind /\ x.at = "done" /\ x.status # 403
      BY <1>1, <3>1
    <3>4. CallIsFine(x, S)
      BY <1>1, <1>2, <3>2, <3>3, HandlerEnds
    <3>5. s4' = x
      BY <1>7, <2>2, <2>3, <2>5, <3>1
    <3> QED
      BY <3>4, <3>5
  <2>6. CASE ~(s1 /\ ~loaded)
    <3>1. PICK x \in Call : /\ x = [Doors!Answered(200) EXCEPT !.shown = shown, !.lost = FALSE]
                            /\ x.kind = s4.kind /\ x.at = "done" /\ x.status = 200 /\ x.shown = shown
      BY <2>4, AnsweredWith
    <3>2. store = StoreOf(s2)
      BY <2>2, <2>6 DEF StoreOf
    <3>3. ListSeen(x, S)
      BY <1>3, <2>3, <3>1, <3>2 DEF ListSeen
    <3>4. x.kind = q.kind /\ x.at = "done" /\ x.status # 403
      BY <1>1, <3>1
    <3>5. CallIsFine(x, S)
      BY <1>1, <1>2, <3>3, <3>4, HandlerEnds
    <3>6. s4' = x
      BY <1>7, <2>2, <2>3, <2>6, <3>1
    <3> QED
      BY <3>5, <3>6
  <2> QED
    BY <2>5, <2>6
<1> QED
  BY <1>5, <1>6, <1>7

LEMMA DoorsMine ==
  ASSUME DoorsInv, Doors!GetMyAccess \/ Doors!GetMemberships
  PROVE  DoorsInv'
<1> PICK S : S = s5
  OBVIOUS
<1>1. PICK q \in Call : q = s4 /\ S = s5 /\ CallIsFine(q, S)
  BY DEF DoorsInv
<1>2. q.at \in {"active", "page"} /\ UNCHANGED <<s1, s2, s3, s5, s6, s7>>
  BY <1>1 DEF Doors!GetMyAccess, Doors!GetMemberships, Doors!Steps
<1>3. q.kind # "members"
  BY <1>1, <1>2 DEF CallIsFine, AtItsPlace
<1>4. SUFFICES \E x \in Call : s4' = x /\ x.kind = q.kind /\ x.at = "done" /\ x.status # 403
  <2>1. PICK x \in Call : s4' = x /\ x.kind = q.kind /\ x.at = "done" /\ x.status # 403
    BY <1>4
  <2>2. ListSeen(x, S)
    BY <1>3, <2>1 DEF ListSeen
  <2>3. CallIsFine(x, S)
    BY <1>1, <1>2, <2>1, <2>2, HandlerEnds
  <2> QED
    BY <1>1, <1>2, <2>1, <2>3, CallStep DEF Looking
<1>5. CASE Doors!GetMyAccess
  <2>1. PICK enforced \in BOOLEAN : s4' = [Doors!Answered(200) EXCEPT !.enforced = enforced]
    BY <1>5 DEF Doors!GetMyAccess
  <2>2. PICK y \in Call : y = Doors!Answered(200) /\ Keeps(s4, y) /\ y.at = "done" /\ y.status = 200
    <3>1. s4 \in Call /\ 200 \in DoorStatuses
      BY <1>1 DEF DoorStatuses
    <3> QED
      BY <3>1, AnsweredIs
  <2>3. PICK x \in Call : x = [y EXCEPT !.enforced = enforced]
    BY DEF Call
  <2>4. x.kind = y.kind /\ x.at = y.at /\ x.status = y.status
    BY <2>3 DEF Call
  <2>5. s4' = x
    BY <2>1, <2>2, <2>3, Zenon
  <2> QED
    BY <1>1, <2>2, <2>4, <2>5 DEF Keeps
<1>6. CASE Doors!GetMemberships
  <2>1. PICK status \in {200, 404, 503} : s4' = [Doors!Answered(status) EXCEPT !.lost = status # 200]
    BY <1>6 DEF Doors!GetMemberships
  <2>2. PICK y \in Call : y = Doors!Answered(status) /\ Keeps(s4, y) /\ y.at = "done" /\ y.status = status
    <3>1. s4 \in Call /\ status \in DoorStatuses
      BY <1>1 DEF DoorStatuses
    <3> QED
      BY <3>1, AnsweredIs
  <2>3. PICK lost \in BOOLEAN : lost = (status # 200)
    OBVIOUS
  <2>4. PICK x \in Call : x = [y EXCEPT !.lost = lost]
    BY DEF Call
  <2>5. x.kind = y.kind /\ x.at = y.at /\ x.status = y.status
    BY <2>4 DEF Call
  <2>6. s4' = x
    BY <2>1, <2>2, <2>3, <2>4, Zenon
  <2>7. x.kind = q.kind /\ x.at = "done" /\ x.status # 403
    BY <1>1, <2>1, <2>2, <2>5 DEF Keeps
  <2> QED
    BY <2>6, <2>7
<1> QED
  BY <1>5, <1>6
-----------------------------------------------------------------------------
(* A login: whatever it finds, only the stamp of a row is written. *)
LEMMA StampIs ==
  /\ \A row \in Doors!Rows : \A read : Doors!Stamp(row, read) \in Doors!Rows
  /\ \A row \in Doors!Members : \A read : Doors!Stamp(row, read) \in Doors!Members
  /\ \A row \in Doors!Rows : \A read : Unstamped(Doors!Stamp(row, read)) = Unstamped(row)
<1>1. ASSUME NEW row \in Doors!Members
      PROVE  /\ row # Doors!No => [row EXCEPT !.stamped = TRUE] \in Doors!Members
             /\ [[row EXCEPT !.stamped = TRUE] EXCEPT !.stamped = FALSE] = [row EXCEPT !.stamped = FALSE]
  BY DEF Doors!Members, Doors!Rows, Doors!No
<1>2. ASSUME NEW row \in Doors!Rows
      PROVE  /\ row # Doors!No => [row EXCEPT !.stamped = TRUE] \in Doors!Rows
             /\ row \in Doors!Members
  BY DEF Doors!Members, Doors!Rows, Doors!No
<1>3. Doors!No \in Doors!Rows /\ Doors!No \in Doors!Members
  BY DEF Doors!Members, Doors!Rows
<1> QED
  BY <1>1, <1>2, <1>3 DEF Doors!Stamp, Unstamped

LEMMA DoorsFind ==
  ASSUME DoorsInv, Doors!TouchFinds
  PROVE  DoorsInv'
<1> PICK S : S = s5
  OBVIOUS
<1>1. PICK q \in Call : q = s4 /\ S = s5 /\ CallIsFine(q, S)
  BY DEF DoorsInv
<1>2. q.at = "find" /\ UNCHANGED <<s1, s2, s3, s5, s6, s7>>
  BY <1>1 DEF Doors!TouchFinds, Doors!Steps
<1>3. SUFFICES \E x \in Call : s4' = x /\ x.kind = q.kind /\ x.at \in {"touch", "stamp"}
  <2>1. PICK x \in Call : s4' = x /\ x.kind = q.kind /\ x.at \in {"touch", "stamp"}
    BY <1>3
  <2>2. CallIsFine(x, S)
    BY <1>1, <1>2, <2>1 DEF CallIsFine, AtItsPlace, DoorWasOpen, LetIn, RefusedOne, TenantsSeen, ListSeen
  <2> QED
    BY <1>1, <1>2, <2>1, <2>2, CallStep DEF Looking
<1>4. ASSUME NEW row \in DoorRows, NEW at \in {"touch", "stamp"}, s4' = [q EXCEPT !.row = row, !.at = at]
      PROVE  \E x \in Call : s4' = x /\ x.kind = q.kind /\ x.at \in {"touch", "stamp"}
  <2>1. PICK x \in Call : x = [q EXCEPT !.row = row, !.at = at]
    BY DEF Call, DoorStages
  <2>2. x.kind = q.kind /\ x.at = at
    BY <2>1 DEF Call
  <2> QED
    BY <1>4, <2>1, <2>2
<1>5. CASE s4' = [q EXCEPT !.at = "stamp"]
  <2>1. PICK x \in Call : x = [q EXCEPT !.at = "stamp"]
    BY DEF Call, DoorStages
  <2>2. x.kind = q.kind /\ x.at = "stamp"
    BY <2>1 DEF Call
  <2> QED
    BY <1>5, <2>1, <2>2
<1>6. Doors!Row \in DoorRows
  BY WalletsAssumption DEF Doors!Row, DoorRows, DoorsInv, DoorWorlds
<1> QED
  BY <1>1, <1>4, <1>5, <1>6 DEF Doors!TouchFinds

(* A store is stamped, or is not. *)
LEMMA Stamped ==
  ASSUME DoorsInv, NEW read,
         \/ s2' = s2
         \/ s2' = [s2 EXCEPT !.rows[Me] = Doors!Stamp(@, read)]
         \/ s2' = [s2 EXCEPT !.members[Me] = Doors!Stamp(@, @)],
         UNCHANGED <<s1, s3, s5, s6, s7>>, NEW x \in Call, s4' = x, x.at \notin Looking, CallIsFine(x, s5)
  PROVE  DoorsInv'
<1>1. PICK S : S = s5 /\ S = s5'
  OBVIOUS
<1>2. CallIsFine(x, S)'
  BY <1>1
  DEF CallIsFine, AtItsPlace, DoorWasOpen, RefusedOne, TenantsSeen, ListSeen, LetIn, StoreOf, IsLocal, IsShared
<1>3. SeesDoors(x, S)'
  BY DEF SeesDoors
<1>4. PICK w \in DoorWorlds : w = s2
  BY DEF DoorsInv
<1>5. s2' \in DoorWorlds /\ \A o \in Wallets : Unstamped(s2'.rows[o]) = Unstamped(w.rows[o])
  <2>1. CASE s2' = w
    BY <2>1
  <2>2. CASE s2' = [w EXCEPT !.rows[Me] = Doors!Stamp(@, read)]
    <3>1. PICK rows \in [Wallets -> Doors!Rows] : rows = [w.rows EXCEPT ![Me] = Doors!Stamp(w.rows[Me], read)]
      BY WalletsAssumption, StampIs DEF DoorWorlds
    <3>2. s2' = [w EXCEPT !.rows = rows]
      BY <2>2, <3>1
    <3>3. s2' \in DoorWorlds /\ s2'.rows = rows
      BY <3>2 DEF DoorWorlds
    <3>4. ASSUME NEW o \in Wallets
          PROVE  Unstamped(rows[o]) = Unstamped(w.rows[o])
      <4>1. w.rows[Me] \in Doors!Rows /\ w.rows \in [Wallets -> Doors!Rows]
        BY WalletsAssumption DEF DoorWorlds
      <4>2. CASE o = Me
        BY <3>1, <4>1, <4>2, StampIs, WalletsAssumption
      <4>3. CASE o # Me
        BY <3>1, <4>1, <4>3
      <4> QED
        BY <4>2, <4>3
    <3> QED
      BY <3>3, <3>4
  <2>3. CASE s2' = [w EXCEPT !.members[Me] = Doors!Stamp(@, @)]
    <3>1. PICK members \in Stores : members = [w.members EXCEPT ![Me] = Doors!Stamp(w.members[Me], w.members[Me])]
      BY WalletsAssumption, StampIs DEF DoorWorlds, Stores
    <3>2. s2' = [w EXCEPT !.members = members]
      BY <2>3, <3>1
    <3> QED
      BY <3>2 DEF DoorWorlds
  <2> QED
    BY <1>4, <2>1, <2>2, <2>3
<1> QED
  BY <1>1, <1>2, <1>3, <1>4, <1>5 DEF DoorsInv

LEMMA DoorsStamp ==
  ASSUME DoorsInv, Doors!TouchLogin \/ Doors!LoginTouch
  PROVE  DoorsInv'
<1> PICK S : S = s5
  OBVIOUS
<1>1. PICK q \in Call : q = s4 /\ S = s5 /\ CallIsFine(q, S)
  BY DEF DoorsInv
<1>2. q.at \in {"touch", "stamp"} /\ UNCHANGED <<s1, s3, s5, s6, s7>>
  BY <1>1 DEF Doors!TouchLogin, Doors!LoginTouch, Doors!Steps
<1>3. PICK read : read = q.row
  OBVIOUS
<1>4. \/ s2' = s2
      \/ s2' = [s2 EXCEPT !.rows[Me] = Doors!Stamp(@, read)]
      \/ s2' = [s2 EXCEPT !.members[Me] = Doors!Stamp(@, @)]
  BY <1>1, <1>3 DEF Doors!TouchLogin, Doors!LoginTouch
<1>5. q.kind = "login"
  BY <1>1, <1>2 DEF CallIsFine, AtItsPlace
<1>6. SUFFICES \E x \in Call : s4' = x /\ x.at \notin Looking /\ CallIsFine(x, S)
  BY <1>1, <1>2, <1>4, Stamped
<1>7. CASE Doors!TouchLogin
  <2>1. PICK x \in Call : x = [q EXCEPT !.at = "stamp"]
    BY DEF Call, DoorStages
  <2>2. x.kind = q.kind /\ x.at = "stamp"
    BY <2>1 DEF Call
  <2>3. CallIsFine(x, S)
    BY <1>1, <1>2, <2>2 DEF CallIsFine, AtItsPlace, DoorWasOpen, LetIn, RefusedOne, TenantsSeen, ListSeen
  <2> QED
    BY <1>1, <1>7, <2>1, <2>2, <2>3 DEF Doors!TouchLogin, Looking
<1>8. CASE Doors!LoginTouch
  <2>1. s4 \in Call /\ 200 \in DoorStatuses
    BY <1>1 DEF DoorStatuses
  <2>2. PICK x \in Call : x = Doors!Answered(200) /\ Keeps(s4, x) /\ x.at = "done" /\ x.status = 200
    BY <2>1, AnsweredIs
  <2>3. x.kind = q.kind /\ x.status # 403
    BY <1>1, <2>2 DEF Keeps
  <2>4. ListSeen(x, S)
    BY <1>5, <2>3 DEF ListSeen
  <2>5. CallIsFine(x, S)
    BY <1>1, <1>2, <2>2, <2>3, <2>4, HandlerEnds
  <2> QED
    BY <1>8, <2>2, <2>5 DEF Doors!LoginTouch, Looking
<1> QED
  BY <1>7, <1>8
-----------------------------------------------------------------------------
LEMMA BothAsLong ==
  ASSUME NEW T, NEW mine \in Seq(T), NEW theirs \in Seq(T)
  PROVE  Len(mine \o theirs) = Len(mine) + Len(theirs)
OBVIOUS

(* The caller's tenants: of either list, once. *)
LEMMA UnionIs ==
  ASSUME NEW mine \in {<<>>, One}, NEW theirs \in {<<>>, One}
  PROVE  Len(Doors!Union(mine, theirs)) = IF mine = One \/ theirs = One THEN 1 ELSE 0
<1>1. <<>> # One /\ Len(<<>>) = 0 /\ Len(One) = 1
  BY DEF One
<1>2. Doors!Elements(<<>>) = {} /\ Doors!Elements(One) = {"tenant"}
  BY DEF Doors!Elements, One
<1>3. ASSUME NEW set, NEW n \in Nat, IsFiniteSet(set), Cardinality(set) = n
      PROVE  Doors!AsList(set) \in Seq(set) /\ Len(Doors!AsList(set)) = n
  <2>1. Doors!AsList(set) \in [1..n -> set]
    BY <1>3, ListIs
  <2> QED
    BY <2>1
<1>4. Doors!AsList({}) \in Seq({"tenant"}) /\ Len(Doors!AsList({})) = 0
  BY <1>3, FS_EmptySet
<1>5. Doors!AsList({"tenant"}) \in Seq({"tenant"}) /\ Len(Doors!AsList({"tenant"})) = 1
  BY <1>3, FS_Singleton
<1>6. <<>> \in Seq({"tenant"}) /\ One \in Seq({"tenant"})
  BY DEF One
<1>7. ASSUME NEW rest \in {{}, {"tenant"}}, rest = Doors!Elements(theirs) \ Doors!Elements(mine)
      PROVE  Len(Doors!Union(mine, theirs)) = Len(mine) + (IF rest = {} THEN 0 ELSE 1)
  <2>1. PICK list \in Seq({"tenant"}) : list = Doors!AsList(rest) /\ Len(list) = IF rest = {} THEN 0 ELSE 1
    BY <1>4, <1>5
  <2>2. Doors!Union(mine, theirs) = mine \o list
    BY <1>7, <2>1 DEF Doors!Union
  <2>3. mine \in Seq({"tenant"})
    BY <1>6
  <2>4. Len(mine \o list) = Len(mine) + Len(list)
    BY <2>1, <2>3, BothAsLong
  <2> QED
    BY <2>1, <2>2, <2>4
<1>8. CASE mine = One
  <2>1. Doors!Elements(theirs) \ Doors!Elements(mine) = {}
    BY <1>2, <1>8
  <2>2. Len(Doors!Union(mine, theirs)) = 1 + 0
    BY <1>1, <1>7, <1>8, <2>1
  <2> QED
    BY <1>8, <2>2
<1>9. CASE mine = <<>> /\ theirs = One
  <2>1. Doors!Elements(theirs) \ Doors!Elements(mine) = {"tenant"}
    BY <1>2, <1>9
  <2>2. Len(Doors!Union(mine, theirs)) = 0 + 1
    BY <1>1, <1>7, <1>9, <2>1
  <2> QED
    BY <1>1, <1>9, <2>2
<1>10. CASE mine = <<>> /\ theirs = <<>>
  <2>1. Doors!Elements(theirs) \ Doors!Elements(mine) = {}
    BY <1>2, <1>10
  <2>2. Len(Doors!Union(mine, theirs)) = 0 + 0
    BY <1>1, <1>7, <1>10, <2>1
  <2> QED
    BY <1>1, <1>10, <2>2
<1> QED
  BY <1>8, <1>9, <1>10

LEMMA DoorsTenants ==
  ASSUME DoorsInv, Doors!ListTenantsForWallet \/ Doors!GetTenants
  PROVE  DoorsInv'
<1> PICK S : S = s5
  OBVIOUS
<1>1. PICK q \in Call : q = s4 /\ S = s5 /\ CallIsFine(q, S)
  BY DEF DoorsInv
<1>2. q.at \in {"mine", "theirs"} /\ UNCHANGED <<s1, s2, s3, s5, s6, s7>>
  BY <1>1 DEF Doors!ListTenantsForWallet, Doors!GetTenants, Doors!Steps
<1>3. s2 \in S /\ q.at \in Looking
  BY <1>1, <1>2 DEF DoorsInv, SeesDoors, Looking
<1>4. q.kind = "tenants"
  BY <1>1, <1>2 DEF CallIsFine, AtItsPlace
<1>5. /\ q.at = "mine" => q.shown = <<>>
      /\ q.at = "theirs" =>
           \/ q.shown = <<>> /\ \E w \in S : ~IsLocal(w)
           \/ q.shown = One /\ \E w \in S : IsLocal(w)
  BY <1>1 DEF CallIsFine, TenantsSeen
<1>6. Len(<<>>) = 0 /\ <<>> # One /\ Len(One) = 1
  BY DEF One
<1>7. SUFFICES \E x \in Call : /\ s4' = x /\ x.kind = q.kind /\ x.at \in {"theirs", "done"}
                               /\ RefusedOne(x, S) /\ TenantsSeen(x, S)
  <2>1. PICK x \in Call : /\ s4' = x /\ x.kind = q.kind /\ x.at \in {"theirs", "done"}
                         /\ RefusedOne(x, S) /\ TenantsSeen(x, S)
    BY <1>7
  <2>2. CallIsFine(x, S)
    BY <1>4, <2>1 DEF CallIsFine, AtItsPlace, DoorWasOpen, ListSeen, Doors!ByRow, Doors!ByAuthz
  <2> QED
    BY <1>1, <1>2, <1>3, <2>1, <2>2, CallStep
<1>8. ASSUME NEW status \in {200, 500}, s4' = [Doors!Answered(status) EXCEPT !.lost = TRUE],
             q.at = "theirs" \/ status = 500
      PROVE  \E x \in Call : /\ s4' = x /\ x.kind = q.kind /\ x.at \in {"theirs", "done"}
                             /\ RefusedOne(x, S) /\ TenantsSeen(x, S)
  <2>1. s4 \in Call /\ status \in DoorStatuses
    BY <1>1 DEF DoorStatuses
  <2>2. PICK x \in Call : /\ x = [Doors!Answered(status) EXCEPT !.lost = TRUE] /\ Keeps(s4, x)
                          /\ x.at = "done" /\ x.status = status /\ x.lost
    BY <2>1, AnsweredIs
  <2>3. x.kind = q.kind /\ x.shown = q.shown /\ x.at = "done" /\ x.status # 403
    BY <1>1, <2>2 DEF Keeps
  <2>4. RefusedOne(x, S)
    BY <2>3 DEF RefusedOne
  <2>5. \/ x.shown = <<>>
        \/ x.shown = One /\ \E w \in S : IsLocal(w)
    BY <1>2, <1>5, <2>3
  <2>6. TenantsSeen(x, S)
    <3>1. CASE x.shown = <<>>
      BY <1>6, <2>2, <3>1 DEF TenantsSeen
    <3>2. CASE x.shown = One /\ \E w \in S : IsLocal(w)
      BY <1>6, <2>2, <3>2 DEF TenantsSeen
    <3> QED
      BY <2>5, <3>1, <3>2
  <2> QED
    BY <1>8, <2>2, <2>3, <2>4, <2>6
<1>9. CASE q.at = "mine" /\ s4' = [q EXCEPT !.at = "theirs", !.shown = IF Doors!Row = Doors!No THEN <<>> ELSE One]
  <2>1. PICK mine \in {<<>>, One} : mine = IF Doors!Row = Doors!No THEN <<>> ELSE One
    OBVIOUS
  <2>2. mine \in Lists
    BY DEF Lists
  <2>3. PICK x \in Call : x = [q EXCEPT !.at = "theirs", !.shown = mine]
    BY <2>2 DEF Call, DoorStages
  <2>4. x.kind = q.kind /\ x.at = "theirs" /\ x.shown = mine
    BY <2>3 DEF Call
  <2>5. TenantsSeen(x, S)
    BY <1>3, <2>1, <2>4 DEF TenantsSeen, IsLocal, Doors!Row
  <2>6. RefusedOne(x, S)
    BY <2>4 DEF RefusedOne
  <2>7. s4' = x
    BY <1>9, <2>1, <2>3
  <2> QED
    BY <2>4, <2>5, <2>6, <2>7
<1>10. CASE /\ q.at = "theirs"
            /\ s4' = [Doors!Answered(200) EXCEPT
                        !.shown = Doors!Union(@, IF s2.members[Me] = Doors!No THEN <<>> ELSE One)]
  <2>1. PICK theirs \in {<<>>, One} : theirs = IF s2.members[Me] = Doors!No THEN <<>> ELSE One
    OBVIOUS
  <2>2. PICK mine \in {<<>>, One} : mine = q.shown
    BY <1>5, <1>10
  <2>3. PICK shown \in Lists : shown = Doors!Union(mine, theirs)
    BY DEF Lists
  <2>4. s4 \in Call /\ 200 \in DoorStatuses
    BY <1>1 DEF DoorStatuses
  <2>5. PICK x \in Call : /\ x = [Doors!Answered(200) EXCEPT !.shown = shown]
                         /\ x.kind = s4.kind /\ x.at = "done" /\ x.status = 200 /\ x.shown = shown
    BY <2>4, AnsweredWith
  <2>6. PICK y \in Call : y = Doors!Answered(200) /\ Keeps(s4, y)
    BY <2>4, AnsweredIs
  <2>7. s4' = [y EXCEPT !.shown = Doors!Union(y.shown, theirs)]
    BY <1>10, <2>1, <2>6 DEF Call
  <2>8. y.shown = mine
    BY <1>1, <2>2, <2>6 DEF Keeps
  <2>9. s4' = x
    BY <2>3, <2>5, <2>6, <2>7, <2>8, Zenon
  <2>10. Len(x.shown) = IF mine = One \/ theirs = One THEN 1 ELSE 0
    BY <2>3, <2>5, UnionIs
  <2>11. TenantsSeen(x, S)
    <3>1. CASE mine = One \/ theirs = One
      <4>1. \E w \in S : IsLocal(w) \/ w.members[Me] # Doors!No
        BY <1>3, <1>5, <1>6, <1>10, <2>1, <2>2, <3>1
      <4> QED
        BY <2>5, <2>10, <3>1, <4>1 DEF TenantsSeen
    <3>2. CASE mine = <<>> /\ theirs = <<>>
      <4>1. (\E w \in S : ~IsLocal(w)) /\ \E w \in S : w.members[Me] = Doors!No
        BY <1>3, <1>5, <1>6, <1>10, <2>1, <2>2, <3>2
      <4>2. Len(x.shown) = 0
        BY <1>6, <2>10, <3>2
      <4> QED
        BY <2>5, <4>1, <4>2 DEF TenantsSeen
    <3> QED
      BY <3>1, <3>2
  <2>12. RefusedOne(x, S)
    BY <2>5 DEF RefusedOne
  <2> QED
    BY <1>1, <2>5, <2>9, <2>11, <2>12
<1>11. CASE Doors!ListTenantsForWallet
  BY <1>1, <1>8, <1>9, <1>11 DEF Doors!ListTenantsForWallet, Doors!Steps, One
<1>12. CASE Doors!GetTenants
  BY <1>1, <1>8, <1>10, <1>12 DEF Doors!GetTenants, Doors!Steps, One
<1> QED
  BY <1>11, <1>12
-----------------------------------------------------------------------------
LEMMA DoorsIdle ==
  /\ Doors!Idle \in Call /\ Doors!Idle.at = "idle" /\ Doors!Idle.shown = <<>> /\ Doors!Idle.status = 0
BY DEF Doors!Idle, Call, DoorStages, DoorKinds, DoorRows, DoorStatuses, Lists, Doors!Rows

LEMMA DoorsReply ==
  ASSUME DoorsInv, Doors!Reply
  PROVE  DoorsInv'
<1>1. PICK x \in Call : x = Doors!Idle /\ x.at = "idle"
  BY DoorsIdle
<1>2. s4' = x /\ UNCHANGED <<s1, s2, s3, s5, s6, s7>>
  BY <1>1 DEF Doors!Reply, Doors!Steps
<1>3. CallIsFine(x, s5)
  BY <1>1 DEF CallIsFine, AtItsPlace, DoorWasOpen, LetIn, RefusedOne, TenantsSeen, ListSeen
<1>4. x.at \notin Looking
  BY <1>1 DEF Looking
<1> QED
  BY <1>2, <1>3, <1>4, CallStep

LEMMA DoorsBegin ==
  ASSUME DoorsInv, NEW kind \in Doors!Kinds, NEW audiences, Doors!Begin(kind, audiences)
  PROVE  DoorsInv'
<1>1. UNCHANGED <<s1, s2, s3, s6, s7>>
  BY DEF Doors!Begin
<1>2. PICK S : S = s5' /\ S = {s2} \union { a.of : a \in s3 }
  BY DEF Doors!Begin
<1>3. S \subseteq DoorWorlds
  BY <1>2 DEF DoorsInv
<1>4. PICK idle \in Call : idle = Doors!Idle /\ idle.shown = <<>>
  BY DoorsIdle
<1>5. \E x \in Call : s4' = x /\ CallIsFine(x, S)
  <2>1. CASE s4' = [idle EXCEPT !.kind = kind, !.at = "done", !.status = 401]
    <3>1. PICK x \in Call : x = [idle EXCEPT !.kind = kind, !.at = "done", !.status = 401]
      <4>1. kind \in DoorKinds /\ "done" \in DoorStages /\ 401 \in DoorStatuses
        BY DEF DoorKinds, DoorStages, DoorStatuses
      <4> QED
        BY <4>1 DEF Call
    <3>2. x.kind = kind /\ x.at = "done" /\ x.status = 401 /\ x.shown = <<>>
      BY <1>4, <3>1 DEF Call
    <3>3. Len(x.shown) = 0
      BY <3>2
    <3>4. CallIsFine(x, S)
      BY <3>2, <3>3 DEF CallIsFine, AtItsPlace, DoorWasOpen, LetIn, RefusedOne, TenantsSeen, ListSeen
    <3> QED
      BY <2>1, <3>1, <3>4
  <2>2. ASSUME NEW at \in {"row", "tenant", "mine"}, s4' = [idle EXCEPT !.kind = kind, !.at = at],
               at = "row" => kind \in Doors!ByRow, at = "tenant" => kind \in Doors!ByAuthz,
               at = "mine" => kind = "tenants"
        PROVE  \E x \in Call : s4' = x /\ CallIsFine(x, S)
    <3>1. PICK x \in Call : x = [idle EXCEPT !.kind = kind, !.at = at]
      BY DEF Call, DoorKinds, DoorStages
    <3>2. x.kind = kind /\ x.at = at /\ x.shown = <<>>
      BY <1>4, <3>1 DEF Call
    <3>3. CallIsFine(x, S)
      BY <2>2, <3>2 DEF CallIsFine, AtItsPlace, DoorWasOpen, LetIn, RefusedOne, TenantsSeen, ListSeen
    <3> QED
      BY <2>2, <3>1, <3>3
  <2>3. \/ s4' = [idle EXCEPT !.kind = kind, !.at = "done", !.status = 401]
        \/ kind \in Doors!ByRow /\ s4' = [idle EXCEPT !.kind = kind, !.at = "row"]
        \/ kind \in Doors!ByAuthz /\ s4' = [idle EXCEPT !.kind = kind, !.at = "tenant"]
        \/ kind = "tenants" /\ s4' = [idle EXCEPT !.kind = kind, !.at = "mine"]
    <3>1. PICK at : at = CASE kind \in Doors!ByRow -> "row" [] kind \in Doors!ByAuthz -> "tenant" [] OTHER -> "mine"
      OBVIOUS
    <3>2. \/ s4' = [idle EXCEPT !.kind = kind, !.at = "done", !.status = 401]
          \/ s4' = [idle EXCEPT !.kind = kind, !.at = at]
      BY <1>4, <3>1 DEF Doors!Begin
    <3>3. \/ kind \in Doors!ByRow /\ at = "row"
          \/ kind \in Doors!ByAuthz /\ at = "tenant"
          \/ kind = "tenants" /\ at = "mine"
      BY <3>1 DEF Doors!Kinds, Doors!ByRow, Doors!ByAuthz
    <3> QED
      BY <3>2, <3>3
  <2> QED
    BY <2>1, <2>2, <2>3
<1>6. PICK x \in Call : s4' = x /\ CallIsFine(x, S)
  BY <1>5
<1>7. CallIsFine(x, S)'
  BY <1>1, <1>6
  DEF CallIsFine, AtItsPlace, DoorWasOpen, RefusedOne, TenantsSeen, ListSeen, LetIn, StoreOf, IsLocal, IsShared
<1>8. SeesDoors(x, S)'
  BY <1>1, <1>2 DEF SeesDoors
<1> QED
  BY <1>1, <1>2, <1>3, <1>6, <1>7, <1>8 DEF DoorsInv

(* The stores change under a running request, which sees it. *)
LEMMA DoorsEdit ==
  ASSUME DoorsInv, NEW w \in Wallets, NEW as \in Doors!Members, NEW where,
         "rows" \in where => as \in Doors!Rows, Doors!Edit(w, as, where)
  PROVE  DoorsInv'
<1>1. /\ UNCHANGED <<s1, s3, s4>> /\ s6' = s2'.rows /\ s7' \in 0..MaxDoorTurns
      /\ s5' = IF s4.at = "idle" THEN {} ELSE s5 \union {s2'}
  BY WalletsAssumption DEF Doors!Edit, DoorsInv
<1>2. s2' \in DoorWorlds
  <2>1. s2.rows \in [Wallets -> Doors!Rows] /\ s2.members \in Stores
    BY DEF DoorsInv, DoorWorlds
  <2>2. PICK rows \in [Wallets -> Doors!Rows] : rows = IF "rows" \in where THEN [s2.rows EXCEPT ![w] = as] ELSE s2.rows
    BY <2>1
  <2>3. PICK members \in Stores : members = IF "members" \in where THEN [s2.members EXCEPT ![w] = as] ELSE s2.members
    BY <2>1 DEF Stores
  <2>4. s2' = [rows |-> rows, members |-> members]
    BY <2>2, <2>3 DEF Doors!Edit
  <2> QED
    BY <2>4 DEF DoorWorlds
<1> PICK S, T : S = s5 /\ T = s5'
  OBVIOUS
<1>3. PICK q \in Call : q = s4 /\ q = s4' /\ S = s5 /\ T = s5' /\ CallIsFine(q, S)
  BY <1>1 DEF DoorsInv
<1>4. CASE q.at = "idle"
  <2>1. CallIsFine(q, T)'
    BY <1>4 DEF CallIsFine, AtItsPlace, DoorWasOpen, LetIn, RefusedOne, TenantsSeen, ListSeen
  <2>2. SeesDoors(q, T)'
    BY <1>4 DEF SeesDoors, Looking
  <2> QED
    BY <1>1, <1>2, <1>3, <1>4, <2>1, <2>2 DEF DoorsInv
<1>5. CASE q.at # "idle"
  <2>1. T = S \union {s2'}
    BY <1>1, <1>3, <1>5
  <2>2. DoorWasOpen(q, T)' /\ RefusedOne(q, T)'
    BY <1>3, <2>1 DEF CallIsFine, DoorWasOpen, RefusedOne, LetIn, IsLocal, IsShared
  <2>3. TenantsSeen(q, T)'
    BY <1>3, <2>1 DEF CallIsFine, TenantsSeen, IsLocal
  <2>4. ListSeen(q, T)'
    BY <1>1, <1>3, <2>1 DEF CallIsFine, ListSeen, StoreOf
  <2>5. SeesDoors(q, T)'
    BY <1>1, <1>3, <2>1 DEF SeesDoors, DoorsInv
  <2>6. CallIsFine(q, T)'
    BY <1>3, <2>2, <2>3, <2>4 DEF CallIsFine, AtItsPlace
  <2>7. s5' \subseteq DoorWorlds
    BY <1>2, <1>3, <2>1 DEF DoorsInv
  <2> QED
    BY <1>1, <1>2, <1>3, <2>5, <2>6, <2>7 DEF DoorsInv
<1> QED
  BY <1>4, <1>5

LEMMA DoorsExpire ==
  ASSUME DoorsInv, Doors!Expire \/ UNCHANGED <<s1, s2, s3, s4, s5, s6, s7>>
  PROVE  DoorsInv'
<1>1. UNCHANGED <<s1, s2, s4, s5, s6, s7>> /\ (s3' = {} \/ s3' = s3)
  BY DEF Doors!Expire
<1> PICK S : S = s5
  OBVIOUS
<1>2. PICK q \in Call : q = s4 /\ q = s4' /\ S = s5 /\ S = s5' /\ CallIsFine(q, S) /\ SeesDoors(q, S)
  BY <1>1 DEF DoorsInv
<1>3. CallIsFine(q, S)'
  BY <1>1, <1>2
  DEF CallIsFine, AtItsPlace, DoorWasOpen, RefusedOne, TenantsSeen, ListSeen, LetIn, StoreOf, IsLocal, IsShared
<1>4. SeesDoors(q, S)'
  BY <1>1, <1>2 DEF SeesDoors
<1> QED
  BY <1>1, <1>2, <1>3, <1>4 DEF DoorsInv

LEMMA DoorsStart ==
  ASSUME Doors!Init
  PROVE  DoorsInv
<1>1. /\ s1 \in BOOLEAN /\ s3 = {} /\ s4 = Doors!Idle /\ s5 = {} /\ s6 = s2.rows /\ s7 = 0
  BY DEF Doors!Init
<1>2. Doors!Owner \in Doors!Rows /\ Doors!No \in Doors!Rows /\ Doors!Rows \subseteq Doors!Members
  BY DEF Doors!Owner, Doors!No, Doors!Rows, Doors!Members
<1>3. s2 \in DoorWorlds
  <2>1. PICK rows, members : /\ rows = [w \in Wallets |-> IF s1 THEN Doors!No ELSE Doors!Owner]
                             /\ members = [w \in Wallets |-> Doors!Owner]
    OBVIOUS
  <2>2. rows \in [Wallets -> Doors!Rows] /\ members \in Stores
    BY <1>2, <2>1 DEF Stores
  <2>3. s2 \in [rows : {rows}, members : {members}]
    BY <2>1 DEF Doors!Init
  <2> QED
    BY <2>2, <2>3 DEF DoorWorlds
<1>4. PICK q \in Call : q = s4 /\ q.at = "idle"
  BY <1>1, DoorsIdle
<1>5. CallIsFine(q, {}) /\ SeesDoors(q, {})
  BY <1>4 DEF CallIsFine, AtItsPlace, DoorWasOpen, LetIn, RefusedOne, TenantsSeen, ListSeen, SeesDoors, Looking
<1>6. s7 \in 0..MaxDoorTurns
  BY <1>1, WalletsAssumption
<1> QED
  BY <1>1, <1>3, <1>4, <1>5, <1>6 DEF DoorsInv

LEMMA DoorsStep ==
  ASSUME DoorsInv, Doors!Next \/ UNCHANGED <<s1, s2, s3, s4, s5, s6, s7>>
  PROVE  DoorsInv'
<1>1. ASSUME NEW w \in Wallets, NEW as \in Doors!Rows, NEW where, Doors!Edit(w, as, where)
      PROVE  DoorsInv'
  BY <1>1, DoorsEdit DEF Doors!Members
<1>2. ASSUME NEW w \in Wallets, NEW as \in Doors!Members, Doors!Edit(w, as, {"members"})
      PROVE  DoorsInv'
  <2>1. "rows" \in {"members"} => as \in Doors!Rows
    OBVIOUS
  <2> QED
    BY <1>2, <2>1, DoorsEdit
<1>3. CASE \E kind \in Doors!Kinds, audiences \in SUBSET {"fleet-lite", "another"} : Doors!Begin(kind, audiences)
  BY <1>3, DoorsBegin
<1>4. CASE Doors!requireMember \/ Doors!LoadTenant \/ Doors!Authz
  BY <1>4, DoorsLookUp, DoorsLoad, DoorsAuthz
<1>5. CASE Doors!GetMembers \/ Doors!TouchFinds \/ Doors!TouchLogin \/ Doors!LoginTouch
  BY <1>5, DoorsList, DoorsFind, DoorsStamp
<1>6. CASE Doors!ListTenantsForWallet \/ Doors!GetTenants \/ Doors!GetMyAccess \/ Doors!GetMemberships
  BY <1>6, DoorsTenants, DoorsMine
<1>7. CASE Doors!Reply \/ Doors!Expire \/ UNCHANGED <<s1, s2, s3, s4, s5, s6, s7>>
  BY <1>7, DoorsReply, DoorsExpire
<1>8. CASE \E w \in Wallets :
            \/ \E as \in { r \in Doors!Rows : ~r.stamped }, where \in SUBSET {"rows", "members"} :
                 (s1 => "rows" \notin where) /\ Doors!Edit(w, as, where)
            \/ \E as \in { m \in Doors!Members : ~m.stamped } : Doors!Edit(w, as, {"members"})
  BY <1>1, <1>2, <1>8
<1> QED
  BY <1>3, <1>4, <1>5, <1>6, <1>7, <1>8 DEF Doors!Next

-----------------------------------------------------------------------------
(***************************************************************************)
(* Reads: the pages of one vehicle.  A panel that waits, and one that was  *)
(* answered, tells what was so at some time since it asked.                *)
(***************************************************************************)

Trips == {"segments", "behavior"}
Questions == {"none", "latest", "timeseries", "segments", "behavior", "route", "replay", "download"}
Statuses == {0, 200, 400, 403, 404, 502, 503}
Days == Int
Given == {"", "good", "1d", "missing", "malformed", "inline", "stored", "empty", "telemetry", "elsewhere"}
Shown == SUBSET (Int \union Reads!Samples \union Given)
DayMaps == {<<>>} \union UNION { [D -> Nat] : D \in SUBSET Int }

Panel ==
  [kind : Questions, input : Given, explicit : {"", "idling", "teleport"}, from : Days, to : Days,
   at : {"idle", "scope", "ask", "done"}, mechanism : Reads!ValidSegmentMechanisms \union {""},
   status : Statuses, banner : BOOLEAN,
   shown : Shown, days : DayMaps]

Seen == [world : Reads!Worlds, held : SUBSET Reads!Privileges]

WindowOf(q) == q.from..q.to
Spotted(q, w) == Reads!Detected(w, q.mechanism) \intersect WindowOf(q)

IsAnswer(q) == q.at = "done" /\ q.status = 200 /\ ~q.banner

(* What is true now, and the token kept, a running request has seen. *)
SeesNow(q, S) ==
  q.at \in {"scope", "ask"} =>
    /\ \E s \in S : s.world = s1
    /\ s2 # {} => \E s \in S : s.held = s2 \/ s.world.privileges = s2

(* Whatever a request says, it saw. *)
ScopeSeen(q, S) ==
  /\ q.at \in {"scope", "ask"} => ~Reads!RefusedBeforeScope(q)
  /\ q.at = "ask" \/ (q.at = "done" /\ q.status \notin {403, 503} /\ ~Reads!RefusedBeforeScope(q)) =>
       \E s \in S : s.world.scope = "in"

RightSeen(q, S) ==
  LET need == Reads!Need(q.kind)
  IN  /\ q.banner => \E s \in S : need \notin s.world.privileges \/ (s.held # {} /\ need \notin s.held)
      /\ IsAnswer(q) /\ q.kind # "download" => \E s \in S : need \in s.world.privileges \/ need \in s.held

(* Why a detector was asked. *)
Chosen(q, S) ==
  \/ q.mechanism = "ignitionDetection" /\ \E s \in S : ~s.world.aftermarket
  \/ /\ q.mechanism = "frequencyAnalysis"
     /\ \/ \E s \in S : s.world.aftermarket
        \/ /\ \E s \in S : ~s.world.aftermarket
           /\ \E s \in S : s.world.ignition \intersect WindowOf(q) = {}

DetectorSeen(q, S) ==
  q.kind \in Trips /\ (q.at = "ask" \/ IsAnswer(q)) =>
    /\ q.explicit = "" => Chosen(q, S)
    /\ q.explicit # "" => q.mechanism = q.explicit /\ q.kind = "segments"

TripsSeen(q, S) ==
  IsAnswer(q) /\ q.kind = "segments" =>
    \E s \in S : /\ q.shown \subseteq Spotted(q, s.world)
                 /\ Cardinality(Spotted(q, s.world)) <= Limit => q.shown = Spotted(q, s.world)
                 /\ q.shown = {} => Spotted(q, s.world) = {}
                 /\ q.explicit = "" /\ q.mechanism = "ignitionDetection" => q.shown # {}

DaysSeen(q, S) ==
  IsAnswer(q) /\ q.kind = "behavior" =>
    \E s \in S :
      /\ \A day \in WindowOf(q) : q.days[day] = Cardinality(Reads!Detected(s.world, q.mechanism) \intersect {day})
      /\ q.mechanism = "ignitionDetection" => Spotted(q, s.world) # {}

PanelIsFine(q, S) ==
  /\ SeesNow(q, S) /\ ScopeSeen(q, S) /\ RightSeen(q, S) /\ DetectorSeen(q, S)
  /\ TripsSeen(q, S) /\ DaysSeen(q, S)
  /\ q.kind = "behavior" => q.explicit = ""
  /\ q.banner => q.at = "done"
  /\ q.at = "done" /\ q.kind = "download" /\ q.status = 200 => q.shown \subseteq {"inline", "stored"}

ReadsInv ==
  /\ s1 \in Reads!Worlds /\ s2 \subseteq Reads!Privileges /\ s5 \in 0..MaxReadTurns
  /\ s3 \in [Panels -> Panel] /\ s4 \in [Panels -> SUBSET Seen]
  /\ \A p \in Panels : IsFiniteSet(s4[p]) /\ PanelIsFine(s3[p], s4[p])

-----------------------------------------------------------------------------
LEMMA ReadCardinality == \A S : Reads!Cardinality(S) = Cardinality(S)
BY DEF Reads!Cardinality, Cardinality

LEMMA BannerFollows ==
  ASSUME ReadsInv
  PROVE  Reads!TypeOK /\ Reads!BannerIsAboutPermission /\ Reads!RefusalsHold
<1>1. ASSUME NEW p \in Panels
      PROVE  \E q \in Panel : q = s3[p] /\ PanelIsFine(q, s4[p])
  BY <1>1 DEF ReadsInv
<1>2. Reads!TypeOK
  <2>1. ASSUME NEW p \in Panels
        PROVE  /\ s3[p].at \in {"idle", "scope", "ask", "done"}
               /\ s3[p].status \in {0, 200, 400, 403, 404, 502, 503}
               /\ s3[p].mechanism \in Reads!ValidSegmentMechanisms \union {""}
    <3>1. PICK q \in Panel : q = s3[p]
      BY <1>1
    <3>2. q.at \in {"idle", "scope", "ask", "done"}
      BY DEF Panel
    <3>3. q.status \in {0, 200, 400, 403, 404, 502, 503}
      BY DEF Panel, Statuses
    <3>4. q.mechanism \in Reads!ValidSegmentMechanisms \union {""}
      BY DEF Panel
    <3>5. s3[p].at \in {"idle", "scope", "ask", "done"}
      BY <3>1, <3>2
    <3>6. s3[p].status \in {0, 200, 400, 403, 404, 502, 503}
      BY <3>1, <3>3
    <3>7. s3[p].mechanism \in Reads!ValidSegmentMechanisms \union {""}
      BY <3>1, <3>4
    <3> QED
      BY <3>5, <3>6, <3>7
  <2> QED
    BY <2>1 DEF Reads!TypeOK, ReadsInv
<1>3. Reads!BannerIsAboutPermission
  <2> SUFFICES ASSUME NEW p \in Panels
               PROVE  LET need == Reads!Need(s3[p].kind) IN
                        /\ s3[p].banner =>
                             \E s \in s4[p] : need \notin s.world.privileges \/ (s.held # {} /\ need \notin s.held)
                        /\ Reads!Answered(p) /\ s3[p].kind # "download" =>
                             \E s \in s4[p] : need \in s.world.privileges \/ need \in s.held
    BY DEF Reads!BannerIsAboutPermission
  <2>1. RightSeen(s3[p], s4[p])
    BY DEF ReadsInv, PanelIsFine
  <2> QED
    BY <2>1 DEF RightSeen, IsAnswer, Reads!Answered
<1>4. Reads!RefusalsHold
  <2> SUFFICES ASSUME NEW p \in Panels, s3[p].at = "done"
               PROVE  /\ (\A s \in s4[p] : s.world.scope = "out") /\ ~Reads!RefusedBeforeScope(s3[p])
                           => s3[p].status \in {403, 503}
                      /\ s3[p].kind = "download" /\ s3[p].status = 200 => s3[p].shown \subseteq {"inline", "stored"}
    BY DEF Reads!RefusalsHold
  <2>1. PICK q \in Panel : q = s3[p] /\ PanelIsFine(q, s4[p])
    BY <1>1
  <2> QED
    BY <2>1 DEF PanelIsFine, ScopeSeen
<1> QED
  BY <1>2, <1>3, <1>4

AlwaysSeen(q, S) ==
  { t \in WindowOf(q) : \A s \in S : t \in s.world.ignition \intersect s.world.frequency }

NeverCut(q, S) == \A s \in S : Cardinality(Spotted(q, s.world)) <= Limit

LEMMA TripsFollow ==
  ASSUME ReadsInv
  PROVE  Reads!TripsAreShown
<1>1. ASSUME NEW q, NEW S, PanelIsFine(q, S), IsAnswer(q), q.kind = "segments"
      PROVE  /\ q.explicit # "" => q.mechanism = q.explicit
             /\ q.explicit = "" /\ q.shown = {} => \E s \in S : s.world.frequency \intersect WindowOf(q) = {}
             /\ \E s \in S : q.shown \subseteq Spotted(q, s.world)
             /\ q.explicit = "" /\ NeverCut(q, S) => AlwaysSeen(q, S) \subseteq q.shown
  <2>1. PICK s \in S : /\ q.shown \subseteq Spotted(q, s.world)
                       /\ Cardinality(Spotted(q, s.world)) <= Limit => q.shown = Spotted(q, s.world)
                       /\ q.shown = {} => Spotted(q, s.world) = {}
                       /\ q.explicit = "" /\ q.mechanism = "ignitionDetection" => q.shown # {}
    BY <1>1 DEF PanelIsFine, TripsSeen
  <2>2. q.explicit # "" => q.mechanism = q.explicit
    BY <1>1 DEF PanelIsFine, DetectorSeen, Trips
  <2>3. q.explicit = "" => q.mechanism \in {"ignitionDetection", "frequencyAnalysis"}
    BY <1>1 DEF PanelIsFine, DetectorSeen, Trips, Chosen
  <2> QED
    BY <2>1, <2>2, <2>3 DEF Spotted, Reads!Detected, NeverCut, AlwaysSeen
<1>2. ASSUME NEW p \in Panels, Reads!Answered(p), s3[p].kind = "segments"
      PROVE  /\ s3[p].explicit # "" => s3[p].mechanism = s3[p].explicit
             /\ s3[p].explicit = "" /\ s3[p].shown = {} =>
                  \E s \in s4[p] : s.world.frequency \intersect (s3[p].from..s3[p].to) = {}
             /\ \E s \in s4[p] : s3[p].shown \subseteq Reads!Detected(s.world, s3[p].mechanism)
                                                         \intersect (s3[p].from..s3[p].to)
             /\ s3[p].explicit = "" /\ Reads!Uncut(p) => AlwaysSeen(s3[p], s4[p]) \subseteq s3[p].shown
  <2>1. PanelIsFine(s3[p], s4[p]) /\ IsAnswer(s3[p])
    BY <1>2 DEF ReadsInv, IsAnswer, Reads!Answered
  <2>2. Reads!Uncut(p) <=> NeverCut(s3[p], s4[p])
    BY ReadCardinality DEF Reads!Uncut, NeverCut, Spotted, WindowOf
  <2> QED
    BY <1>1, <1>2, <2>1, <2>2 DEF Spotted, WindowOf
<1> QED
  BY <1>2 DEF Reads!TripsAreShown, AlwaysSeen, WindowOf

(* A set of one world: whatever was seen was that one. *)
LEMMA OneWorld ==
  ASSUME NEW S, NEW T, IsFiniteSet(S), IsFiniteSet(T), S # {},
         Cardinality({ s.world : s \in S \union T }) = 1
  PROVE  \E w : \A s \in S \union T : s.world = w
<1> DEFINE U == S \union T
           W == { s.world : s \in U }
           f == [s \in U |-> s.world]
<1>1. IsFiniteSet(U)
  BY FS_Union
<1>2. f \in Surjection(U, W)
  BY DEF Surjection
<1>3. IsFiniteSet(W)
  BY <1>1, <1>2, FS_Surjection
<1>4. PICK w : W = {w}
  BY <1>3, FS_Singleton
<1> QED
  BY <1>4

SideBySide(q, S, r, T, w) ==
  /\ PanelIsFine(q, S) /\ IsAnswer(q) /\ q.kind = "segments" /\ q.explicit = ""
  /\ PanelIsFine(r, T) /\ IsAnswer(r) /\ r.kind = "behavior"
  /\ r.from = q.from /\ r.to = q.to /\ NeverCut(q, S)
  /\ \A s \in S \union T : s.world = w

LEMMA TwoAgree ==
  ASSUME NEW q, NEW S, NEW r, NEW T, NEW w, SideBySide(q, S, r, T, w)
  PROVE  /\ q.mechanism = r.mechanism
         /\ \A day \in WindowOf(q) : r.days[day] = Cardinality(q.shown \intersect {day})
<1>1. PICK s \in S : /\ q.shown \subseteq Spotted(q, s.world)
                     /\ Cardinality(Spotted(q, s.world)) <= Limit => q.shown = Spotted(q, s.world)
                     /\ q.mechanism = "ignitionDetection" => q.shown # {}
  BY DEF SideBySide, PanelIsFine, TripsSeen
<1>2. PICK t \in T :
        /\ \A day \in WindowOf(r) :
             r.days[day] = Cardinality(Reads!Detected(t.world, r.mechanism) \intersect {day})
        /\ r.mechanism = "ignitionDetection" => Spotted(r, t.world) # {}
  BY DEF SideBySide, PanelIsFine, DaysSeen
<1>3. s.world = w /\ t.world = w /\ WindowOf(r) = WindowOf(q)
  BY DEF SideBySide, WindowOf
<1>4. q.shown = Spotted(q, w)
  BY <1>1, <1>3 DEF NeverCut, SideBySide
<1>5. Chosen(q, S) /\ Chosen(r, T)
  BY DEF SideBySide, PanelIsFine, DetectorSeen, Trips
<1>6. /\ \/ q.mechanism = "ignitionDetection" /\ ~w.aftermarket
         \/ /\ q.mechanism = "frequencyAnalysis"
            /\ w.aftermarket \/ (~w.aftermarket /\ w.ignition \intersect WindowOf(q) = {})
      /\ \/ r.mechanism = "ignitionDetection" /\ ~w.aftermarket
         \/ /\ r.mechanism = "frequencyAnalysis"
            /\ w.aftermarket \/ (~w.aftermarket /\ w.ignition \intersect WindowOf(q) = {})
  BY <1>3, <1>5 DEF Chosen, SideBySide
<1>7. q.mechanism = "ignitionDetection" => w.ignition \intersect WindowOf(q) # {}
  BY <1>1, <1>4 DEF Spotted, Reads!Detected
<1>8. r.mechanism = "ignitionDetection" => w.ignition \intersect WindowOf(q) # {}
  BY <1>2, <1>3 DEF Spotted, Reads!Detected
<1>9. q.mechanism = r.mechanism
  BY <1>6, <1>7, <1>8
<1>10. ASSUME NEW day \in WindowOf(q)
       PROVE  r.days[day] = Cardinality(q.shown \intersect {day})
  <2>1. q.shown \intersect {day} = Reads!Detected(w, r.mechanism) \intersect {day}
    BY <1>4, <1>9 DEF Spotted
  <2> QED
    BY <1>2, <1>3, <2>1
<1> QED
  BY <1>9, <1>10

LEMMA PanelsFollow ==
  ASSUME ReadsInv
  PROVE  Reads!PanelsAgree
<1>1. ASSUME NEW p \in Panels, NEW o \in Panels,
             Reads!Answered(p), s3[p].kind = "segments", s3[p].explicit = "",
             Reads!Answered(o), s3[o].kind = "behavior",
             s3[p].from = s3[o].from, s3[p].to = s3[o].to,
             Cardinality({ s.world : s \in s4[p] \union s4[o] }) = 1, Reads!Uncut(p)
      PROVE  /\ s3[p].mechanism = s3[o].mechanism
             /\ \A day \in s3[p].from..s3[p].to :
                  s3[o].days[day] = Cardinality(s3[p].shown \intersect {day})
  <2>1. PICK q, r, S, T : q = s3[p] /\ r = s3[o] /\ S = s4[p] /\ T = s4[o]
    OBVIOUS
  <2>2. /\ PanelIsFine(q, S) /\ IsAnswer(q) /\ IsFiniteSet(S)
        /\ PanelIsFine(r, T) /\ IsAnswer(r) /\ IsFiniteSet(T)
    BY <1>1, <2>1 DEF ReadsInv, IsAnswer, Reads!Answered
  <2>3. NeverCut(q, S)
    BY <1>1, <2>1, ReadCardinality DEF Reads!Uncut, NeverCut, Spotted, WindowOf
  <2>4. S # {}
    BY <1>1, <2>1, <2>2 DEF PanelIsFine, TripsSeen
  <2>5. Cardinality({ s.world : s \in S \union T }) = 1
    BY <1>1, <2>1
  <2>6. PICK w : \A s \in S \union T : s.world = w
    BY <2>2, <2>4, <2>5, OneWorld
  <2>7. q.kind = "segments" /\ q.explicit = "" /\ r.kind = "behavior" /\ r.from = q.from /\ r.to = q.to
    BY <1>1, <2>1
  <2>8. /\ q.mechanism = r.mechanism
        /\ \A day \in WindowOf(q) : r.days[day] = Cardinality(q.shown \intersect {day})
    <3>1. SideBySide(q, S, r, T, w)
      BY <2>2, <2>3, <2>6, <2>7 DEF SideBySide
    <3> QED
      BY <3>1, TwoAgree
  <2> QED
    BY <2>1, <2>8 DEF WindowOf
<1> QED
  BY <1>1, ReadCardinality DEF Reads!PanelsAgree

-----------------------------------------------------------------------------
(* One panel changes, and perhaps what token is kept. *)
LEMMA PanelStep ==
  ASSUME ReadsInv, NEW p \in Panels, NEW x \in Panel,
         s3' = [s3 EXCEPT ![p] = x], UNCHANGED <<s1, s4, s5>>,
         s2' = s2 \/ s2' = Reads!Token,
         \A S : S = s4[p] => PanelIsFine(x, S) /\ (x.at \in {"scope", "ask"} => s3[p].at \in {"scope", "ask"})
  PROVE  ReadsInv'
<1>1. s2' \subseteq Reads!Privileges
  BY DEF ReadsInv, Reads!Token, Reads!Worlds
<1>2. s3' \in [Panels -> Panel]
  BY DEF ReadsInv
<1>3. ASSUME NEW o \in Panels
      PROVE  PanelIsFine(s3[o], s4[o])'
  <2>1. PICK q, S : q = s3'[o] /\ S = s4[o] /\ S = s4'[o]
    OBVIOUS
  <2>2. PanelIsFine(q, S)
    BY <2>1 DEF ReadsInv
  <2>3. SeesNow(q, S)'
    <3>1. SUFFICES ASSUME q.at \in {"scope", "ask"}
                   PROVE  /\ \E s \in S : s.world = s1
                          /\ s2' # {} => \E s \in S : s.held = s2' \/ s.world.privileges = s2'
      BY DEF SeesNow
    <3>2. SeesNow(s3[o], S) /\ s3[o].at \in {"scope", "ask"}
      BY <2>1, <3>1 DEF ReadsInv, PanelIsFine
    <3>3. /\ \E s \in S : s.world = s1
          /\ s2 # {} => \E s \in S : s.held = s2 \/ s.world.privileges = s2
      BY <3>2 DEF SeesNow
    <3> QED
      BY <3>3 DEF Reads!Token
  <2>4. PanelIsFine(q, S)'
    BY <2>2, <2>3
    DEF PanelIsFine, ScopeSeen, RightSeen, DetectorSeen, TripsSeen, DaysSeen
  <2> QED
    BY <2>1, <2>4
<1> QED
  BY <1>1, <1>2, <1>3 DEF ReadsInv

(* What is left of a request when it ends. *)
Rest(q, x) ==
  /\ x.kind = q.kind /\ x.input = q.input /\ x.explicit = q.explicit /\ x.from = q.from /\ x.to = q.to

LEMMA DoneIs ==
  ASSUME NEW q \in Panel, NEW status \in Statuses
  PROVE  LET x == Reads!Done(q, status)
         IN  /\ x \in Panel /\ Rest(q, x) /\ x.mechanism = q.mechanism /\ x.at = "done" /\ x.status = status
             /\ x.banner = q.banner /\ x.shown = q.shown /\ x.days = q.days
<1>1. PICK x \in Panel : x = [q EXCEPT !.at = "done", !.status = status]
  BY DEF Panel
<1>2. /\ x.kind = q.kind /\ x.input = q.input /\ x.explicit = q.explicit /\ x.from = q.from /\ x.to = q.to
      /\ x.mechanism = q.mechanism /\ x.at = "done" /\ x.status = status
      /\ x.banner = q.banner /\ x.shown = q.shown /\ x.days = q.days
  BY <1>1 DEF Panel
<1> QED
  BY <1>1, <1>2 DEF Reads!Done, Rest

LEMMA RefusalStays ==
  ASSUME NEW q, NEW x, Rest(q, x)
  PROVE  /\ Reads!RefusedBeforeScope(x) <=> Reads!RefusedBeforeScope(q)
         /\ Reads!RefusedAfterScope(x) <=> Reads!RefusedAfterScope(q)
BY DEF Rest, Reads!RefusedBeforeScope, Reads!RefusedAfterScope

(* A request that ends without an answer. *)
LEMMA EndsFine ==
  ASSUME NEW q \in Panel, NEW S, PanelIsFine(q, S), q.at \in {"scope", "ask"},
         NEW x, Rest(q, x), x.at = "done", ~x.banner, x.status # 200,
         \/ x.status \in {403, 503}
         \/ \E s \in S : s.world.scope = "in"
  PROVE  PanelIsFine(x, S)
BY DEF PanelIsFine, SeesNow, ScopeSeen, RightSeen, DetectorSeen, TripsSeen, DaysSeen, IsAnswer, Rest

LEMMA DaysBack ==
  \A t, f \in Int : t - f + 1 \in Int
OBVIOUS

LEMMA ReadsScope ==
  ASSUME ReadsInv, NEW p \in Panels, Reads!vehicleInTenant(p)
  PROVE  ReadsInv'
<1>0. PICK S : S = s4[p]
  OBVIOUS
<1>1. PICK q \in Panel : q = s3[p] /\ S = s4[p]
  BY <1>0 DEF ReadsInv
<1>2. q.at = "scope" /\ PanelIsFine(q, S) /\ UNCHANGED <<s1, s2, s4, s5>>
  BY <1>1 DEF Reads!vehicleInTenant, ReadsInv
<1>3. ~q.banner /\ \E s \in S : s.world = s1
  BY <1>2 DEF PanelIsFine, SeesNow
<1>4. SUFFICES \E x \in Panel : s3' = [s3 EXCEPT ![p] = x] /\ PanelIsFine(x, S)
  BY <1>1, <1>2, PanelStep
<1>5. ASSUME NEW status \in {403, 503}, s3' = [s3 EXCEPT ![p] = Reads!Done(q, status)]
      PROVE  \E x \in Panel : s3' = [s3 EXCEPT ![p] = x] /\ PanelIsFine(x, S)
  <2>1. PICK x \in Panel : /\ x = Reads!Done(q, status) /\ Rest(q, x) /\ x.at = "done" /\ x.status = status
                           /\ x.banner = q.banner
    BY DoneIs DEF Statuses
  <2>2. PanelIsFine(x, S)
    BY <1>2, <1>3, <2>1, EndsFine
  <2> QED
    BY <1>5, <2>1, <2>2
<1>6. ASSUME s1.scope = "in", s3' = [s3 EXCEPT ![p] = Reads!InScope(q, s1)], Reads!RefusedAfterScope(q)
      PROVE  \E x \in Panel : s3' = [s3 EXCEPT ![p] = x] /\ PanelIsFine(x, S)
  <2>1. PICK x \in Panel : /\ x = Reads!Done(q, 400) /\ Rest(q, x) /\ x.at = "done" /\ x.status = 400
                           /\ x.banner = q.banner
    BY DoneIs DEF Statuses
  <2>2. PanelIsFine(x, S)
    BY <1>2, <1>3, <1>6, <2>1, EndsFine
  <2>3. x = Reads!InScope(q, s1)
    BY <1>6, <2>1 DEF Reads!InScope
  <2> QED
    BY <1>6, <2>2, <2>3
<1>7. ASSUME s1.scope = "in", s3' = [s3 EXCEPT ![p] = Reads!InScope(q, s1)], ~Reads!RefusedAfterScope(q)
      PROVE  \E x \in Panel : s3' = [s3 EXCEPT ![p] = x] /\ PanelIsFine(x, S)
  <2>1. s1.aftermarket \in BOOLEAN /\ s1.today \in Int
    BY DaysAssumption DEF ReadsInv, Reads!Worlds, Reads!Days
  <2>2. PICK m \in Reads!ValidSegmentMechanisms \union {""} :
          m = IF q.kind = "segments" THEN Reads!Mechanism(q, s1)
              ELSE IF q.kind = "behavior" THEN Reads!Heuristic(s1) ELSE q.mechanism
    BY <1>7, <2>1 DEF Reads!Mechanism, Reads!Heuristic, Reads!RefusedAfterScope,
       Reads!IsValidSegmentMechanism, Reads!ValidSegmentMechanisms, Panel
  <2>3. PICK from \in Days, to \in Days :
          /\ from = IF q.kind = "behavior" THEN s1.today - q.from + 1 ELSE q.from
          /\ to = IF q.kind = "behavior" THEN s1.today ELSE q.to
    <3>1. q.from \in Int /\ q.to \in Int
      BY DEF Panel, Days
    <3>3. PICK t \in Int, f \in Int : t = s1.today /\ f = q.from
      BY <2>1, <3>1, Zenon
    <3>2. PICK n \in Int : n = s1.today - q.from + 1
      BY <3>3, DaysBack, Zenon
    <3> QED
      BY <2>1, <3>1, <3>2, Zenon DEF Days
  <2>4. PICK x \in Panel : x = [q EXCEPT !.at = "ask", !.mechanism = m, !.from = from, !.to = to]
    BY DEF Panel
  <2>5. x = Reads!InScope(q, s1)
    <3>1. CASE q.kind = "segments"
      <4>1. x = [q EXCEPT !.at = "ask", !.mechanism = m, !.from = q.from, !.to = q.to]
        BY <2>3, <2>4, <3>1
      <4>2. x = [q EXCEPT !.at = "ask", !.mechanism = m]
        BY <4>1 DEF Panel
      <4> QED
        BY <1>7, <2>2, <3>1, <4>2 DEF Reads!InScope
    <3>2. CASE q.kind = "behavior"
      BY <1>7, <2>2, <2>3, <2>4, <3>2 DEF Reads!InScope
    <3>3. CASE q.kind \notin Trips
      <4>1. x = [q EXCEPT !.at = "ask", !.mechanism = q.mechanism, !.from = q.from, !.to = q.to]
        BY <2>2, <2>3, <2>4, <3>3 DEF Trips
      <4>2. x = [q EXCEPT !.at = "ask"]
        BY <4>1 DEF Panel
      <4> QED
        BY <1>7, <3>3, <4>2 DEF Reads!InScope, Trips
    <3> QED
      BY <3>1, <3>2, <3>3 DEF Trips
  <2>6. /\ x.at = "ask" /\ x.mechanism = m /\ x.kind = q.kind /\ x.input = q.input
        /\ x.explicit = q.explicit /\ x.banner = q.banner
    BY <2>4 DEF Panel
  <2>7. ~Reads!RefusedBeforeScope(x)
    BY <1>2, <2>6 DEF PanelIsFine, ScopeSeen, Reads!RefusedBeforeScope
  <2>8. q.kind \in Trips => /\ q.explicit = "" => m = Reads!Heuristic(s1)
                            /\ q.explicit # "" => m = q.explicit /\ q.kind = "segments"
    BY <1>2, <2>2 DEF Trips, Reads!Mechanism, PanelIsFine
  <2>9. DetectorSeen(x, S)
    BY <1>3, <2>1, <2>6, <2>8 DEF DetectorSeen, Chosen, Reads!Heuristic
  <2>10. PanelIsFine(x, S)
    BY <1>2, <1>3, <1>7, <2>6, <2>7, <2>9
    DEF PanelIsFine, SeesNow, ScopeSeen, RightSeen, TripsSeen, DaysSeen, IsAnswer
  <2> QED
    BY <1>7, <2>5, <2>10
<1> QED
  BY <1>1, <1>5, <1>6, <1>7 DEF Reads!vehicleInTenant, Reads!Step

-----------------------------------------------------------------------------
(* The privileges a token is used with were seen as a license's or a kept token's. *)
LEMMA TokenSeen ==
  ASSUME NEW S, \E s \in S : s.world = s1,
         s2 # {} => \E s \in S : s.held = s2 \/ s.world.privileges = s2
  PROVE  /\ \E s \in S : s.world.privileges = Reads!Token \/ (s2 # {} /\ s.held = Reads!Token)
BY DEF Reads!Token

LEMMA FailureSeen ==
  ASSUME NEW q \in Panel, NEW S \in SUBSET Seen, PanelIsFine(q, S), q.at = "ask",
         q.kind # "download", NEW error \in Reads!Failures(q.kind)
  PROVE  \E x \in Panel : x = Reads!Refusal(q, error) /\ PanelIsFine(x, S)
<1>1. /\ \E s \in S : s.world = s1
      /\ s2 # {} => \E s \in S : s.held = s2 \/ s.world.privileges = s2
  BY DEF PanelIsFine, SeesNow
<1>2. ~q.banner /\ \E s \in S : s.world.scope = "in"
  BY DEF PanelIsFine, ScopeSeen
<1>3. CASE ~Reads!isPermissionError(error)
  <2>1. PICK x \in Panel : /\ x = Reads!Done(q, 502) /\ Rest(q, x) /\ x.at = "done" /\ x.status = 502
                           /\ x.banner = q.banner
    BY DoneIs DEF Statuses
  <2>2. PanelIsFine(x, S)
    BY <1>2, <2>1, EndsFine
  <2> QED
    BY <1>3, <2>1, <2>2 DEF Reads!Refusal
<1>4. CASE Reads!isPermissionError(error)
  <2>1. PICK y \in Panel : /\ y = Reads!Done(q, 200) /\ Rest(q, y) /\ y.at = "done" /\ y.status = 200
    BY DoneIs DEF Statuses
  <2>2. PICK x \in Panel : x = [y EXCEPT !.banner = TRUE]
    BY DEF Panel
  <2>3. /\ x.kind = q.kind /\ x.at = "done" /\ x.status = 200 /\ x.banner /\ x.explicit = q.explicit
    <3>1. x.kind = y.kind /\ x.at = y.at /\ x.status = y.status /\ x.banner /\ x.explicit = y.explicit
      BY <2>2 DEF Panel
    <3> QED
      BY <2>1, <3>1 DEF Rest
  <2>4. Reads!Need(q.kind) \notin Reads!Token
    BY <1>4 DEF Reads!Failures, Reads!isPermissionError
  <2>5. RightSeen(x, S)
    BY <1>1, <2>3, <2>4, TokenSeen DEF RightSeen, IsAnswer, Reads!Token
  <2>6. PanelIsFine(x, S)
    BY <1>2, <2>3, <2>5
    DEF PanelIsFine, SeesNow, ScopeSeen, DetectorSeen, TripsSeen, DaysSeen, IsAnswer
  <2> QED
    BY <1>4, <2>1, <2>2, <2>6 DEF Reads!Refusal
<1> QED
  BY <1>3, <1>4
(* Answers of Segments. *)
LEMMA SegmentsAre ==
  ASSUME NEW q, NEW found \in Reads!Segments(q)
  PROVE  /\ found \subseteq Spotted(q, s1)
         /\ Cardinality(Spotted(q, s1)) <= Limit => found = Spotted(q, s1)
         /\ found = {} => Spotted(q, s1) = {}
<1>1. CASE Cardinality(Spotted(q, s1)) <= Limit
  BY <1>1, ReadCardinality DEF Reads!Segments, Spotted, WindowOf
<1>2. CASE ~(Cardinality(Spotted(q, s1)) <= Limit)
  <2>1. found \in Reads!kSubset(Limit, Spotted(q, s1))
    BY <1>2, ReadCardinality DEF Reads!Segments, Spotted, WindowOf
  <2>2. found \subseteq Spotted(q, s1) /\ Cardinality(found) = Limit
    BY <2>1, ReadCardinality DEF Reads!kSubset
  <2>3. found # {}
    BY <2>2, FS_EmptySet, DaysAssumption
  <2> QED
    BY <1>2, <2>2, <2>3
<1> QED
  BY <1>1, <1>2

LEMMA BehaviorIs ==
  ASSUME NEW q \in Panel, s1 \in Reads!Worlds
  PROVE  LET days == Reads!Behavior(q)
         IN  /\ days \in DayMaps
             /\ \A day \in WindowOf(q) : days[day] = Cardinality(Reads!Detected(s1, q.mechanism) \intersect {day})
             /\ Reads!behaviorHasActivity(days) <=> Spotted(q, s1) # {}
<1> DEFINE D == Reads!Detected(s1, q.mechanism)
           days == Reads!Behavior(q)
<1>1. WindowOf(q) \subseteq Int
  BY DEF WindowOf
<1>2. days = [day \in WindowOf(q) |-> Cardinality(D \intersect {day})]
  BY ReadCardinality DEF Reads!Behavior, Reads!behaviorDates, WindowOf
<1> HIDE DEF D, days
<1>3. ASSUME NEW day \in WindowOf(q)
      PROVE  /\ Cardinality(D \intersect {day}) \in Nat
             /\ Cardinality(D \intersect {day}) > 0 <=> day \in D
  <2>1. IsFiniteSet({day}) /\ Cardinality({day}) = 1
    BY FS_Singleton
  <2>2. IsFiniteSet(D \intersect {day})
    BY <2>1, FS_Subset
  <2>3. CASE day \in D
    <3>1. D \intersect {day} = {day}
      BY <2>3
    <3> QED
      BY <2>1, <2>3, <3>1
  <2>4. CASE day \notin D
    <3>1. D \intersect {day} = {}
      BY <2>4
    <3> QED
      BY <2>4, <3>1, FS_EmptySet
  <2> QED
    BY <2>3, <2>4
<1>4. days \in [WindowOf(q) -> Nat]
  BY <1>2, <1>3
<1>5. days \in DayMaps
  BY <1>1, <1>4 DEF DayMaps
<1>6. \A day \in WindowOf(q) : days[day] > 0 <=> day \in D
  BY <1>2, <1>3
<1>7. Reads!behaviorHasActivity(days) <=> Spotted(q, s1) # {}
  BY <1>2, <1>6 DEF Reads!behaviorHasActivity, Spotted, D
<1> QED
  BY <1>2, <1>5, <1>7 DEF D, days

(* An answer with data, of a token that has the privilege. *)
LEMMA AnswerIs ==
  ASSUME NEW q \in Panel, NEW shown \in Shown, NEW days \in DayMaps
  PROVE  \E x \in Panel : /\ x = Reads!Answer(q, shown, days) /\ Rest(q, x) /\ x.mechanism = q.mechanism
                          /\ x.at = "done" /\ x.status = 200 /\ x.banner = q.banner
                          /\ x.shown = shown /\ x.days = days
<1>1. PICK y \in Panel : /\ y = Reads!Done(q, 200) /\ Rest(q, y) /\ y.mechanism = q.mechanism
                         /\ y.at = "done" /\ y.status = 200 /\ y.banner = q.banner
  BY DoneIs DEF Statuses
<1>2. PICK x \in Panel : x = [y EXCEPT !.shown = shown, !.days = days]
  BY DEF Panel
<1>3. /\ x.kind = y.kind /\ x.input = y.input /\ x.explicit = y.explicit /\ x.from = y.from /\ x.to = y.to
      /\ x.mechanism = y.mechanism /\ x.at = y.at /\ x.status = y.status /\ x.banner = y.banner
      /\ x.shown = shown /\ x.days = days
  BY <1>2 DEF Panel
<1>4. x = Reads!Answer(q, shown, days)
  BY <1>1, <1>2 DEF Reads!Answer
<1>5. Rest(q, x)
  BY <1>1, <1>3 DEF Rest
<1> QED
  BY <1>1, <1>3, <1>4, <1>5

(* A detector that saw nothing is followed by the other. *)
LEMMA AgainFine ==
  ASSUME NEW q \in Panel, NEW S, PanelIsFine(q, S), q.at = "ask", q.kind \in Trips,
         NEW empty, Reads!Retries(q, empty), empty => Spotted(q, s1) = {}
  PROVE  \E x \in Panel : x = Reads!Again(q) /\ PanelIsFine(x, S) /\ x.at = "ask"
<1>1. PICK x \in Panel : x = [q EXCEPT !.mechanism = "frequencyAnalysis"]
  BY DEF Panel, Reads!ValidSegmentMechanisms
<1>2. /\ Rest(q, x) /\ x.at = "ask" /\ x.mechanism = "frequencyAnalysis" /\ x.banner = q.banner
  BY <1>1 DEF Panel, Rest
<1>3. q.explicit = "" /\ q.mechanism = "ignitionDetection" /\ Spotted(q, s1) = {}
  BY DEF Reads!Retries
<1>4. /\ \E s \in S : s.world = s1
      /\ \E s \in S : ~s.world.aftermarket
  BY <1>3 DEF PanelIsFine, SeesNow, DetectorSeen, Chosen
<1>5. s1.ignition \intersect WindowOf(x) = {}
  BY <1>2, <1>3 DEF Spotted, Reads!Detected, WindowOf, Rest
<1>6. Chosen(x, S)
  BY <1>2, <1>4, <1>5 DEF Chosen
<1>7. ~q.banner
  BY DEF PanelIsFine
<1>8. Reads!RefusedBeforeScope(x) <=> Reads!RefusedBeforeScope(q)
  BY <1>2, RefusalStays
<1>9. PanelIsFine(x, S)
  BY <1>2, <1>3, <1>6, <1>7, <1>8
  DEF PanelIsFine, SeesNow, ScopeSeen, RightSeen, DetectorSeen, TripsSeen, DaysSeen, IsAnswer, Rest
<1> QED
  BY <1>1, <1>2, <1>9 DEF Reads!Again

AsksNow(q, S) ==
  /\ PanelIsFine(q, S) /\ q.at = "ask" /\ q.kind # "download" /\ S \in SUBSET Seen
  /\ Reads!Need(q.kind) \in Reads!Token

LEMMA AnswerFine ==
  ASSUME NEW q \in Panel, NEW S, AsksNow(q, S), NEW x, Rest(q, x), x.mechanism = q.mechanism,
         x.at = "done", x.status = 200, x.banner = q.banner, TripsSeen(x, S), DaysSeen(x, S)
  PROVE  PanelIsFine(x, S)
<1>1. /\ \E s \in S : s.world = s1
      /\ s2 # {} => \E s \in S : s.held = s2 \/ s.world.privileges = s2
  BY DEF AsksNow, PanelIsFine, SeesNow
<1>2. ~x.banner /\ q.kind # "download" /\ q.kind = x.kind
  BY DEF AsksNow, PanelIsFine, Rest
<1>3. RightSeen(x, S)
  BY <1>1, <1>2, TokenSeen DEF RightSeen, AsksNow
<1>4. ScopeSeen(x, S)
  BY RefusalStays DEF AsksNow, PanelIsFine, ScopeSeen
<1>5. DetectorSeen(x, S)
  <2>1. Chosen(q, S) <=> Chosen(x, S)
    BY DEF Chosen, Rest, WindowOf
  <2> QED
    BY <1>2, <2>1 DEF DetectorSeen, AsksNow, PanelIsFine, Rest, IsAnswer
<1> QED
  BY <1>2, <1>3, <1>4, <1>5 DEF PanelIsFine, SeesNow, AsksNow, Rest

LEMMA ReadsAsk ==
  ASSUME ReadsInv, NEW p \in Panels, Reads!AskTelemetry(p)
  PROVE  ReadsInv'
<1>1. PICK q \in Panel, S \in SUBSET Seen : q = s3[p] /\ S = s4[p]
  BY DEF ReadsInv
<1>2. /\ q.at = "ask" /\ q.kind # "download" /\ PanelIsFine(q, S) /\ UNCHANGED <<s1, s4, s5>>
      /\ s2' = s2 \/ s2' = Reads!Token
  BY <1>1 DEF Reads!AskTelemetry, ReadsInv
<1>3. SUFFICES \E x \in Panel : s3' = [s3 EXCEPT ![p] = x] /\ PanelIsFine(x, S)
  BY <1>1, <1>2, PanelStep
<1>4. ASSUME NEW error \in Reads!Failures(q.kind), s3' = [s3 EXCEPT ![p] = Reads!Refusal(q, error)]
      PROVE  \E x \in Panel : s3' = [s3 EXCEPT ![p] = x] /\ PanelIsFine(x, S)
  BY <1>2, <1>4, FailureSeen
<1>5. ASSUME Reads!Need(q.kind) \in Reads!Token
      PROVE  /\ AsksNow(q, S) /\ s1 \in Reads!Worlds
             /\ \E s \in S : s.world = s1
  BY <1>2, <1>5 DEF AsksNow, PanelIsFine, SeesNow, ReadsInv
<1>6. ASSUME Reads!Need(q.kind) \in Reads!Token, q.kind = "segments", NEW found \in Reads!Segments(q),
             s3' = [s3 EXCEPT ![p] = IF Reads!Retries(q, found = {}) THEN Reads!Again(q)
                                     ELSE Reads!Answer(q, found, <<>>)]
      PROVE  \E x \in Panel : s3' = [s3 EXCEPT ![p] = x] /\ PanelIsFine(x, S)
  <2>1. /\ found \subseteq Spotted(q, s1)
        /\ Cardinality(Spotted(q, s1)) <= Limit => found = Spotted(q, s1)
        /\ found = {} => Spotted(q, s1) = {}
    BY SegmentsAre
  <2>2. CASE Reads!Retries(q, found = {})
    <3>1. PICK empty \in BOOLEAN : empty <=> found = {}
      OBVIOUS
    <3>2. Reads!Retries(q, empty) /\ (empty => Spotted(q, s1) = {})
      BY <2>1, <2>2, <3>1 DEF Reads!Retries
    <3>3. \E x \in Panel : x = Reads!Again(q) /\ PanelIsFine(x, S) /\ x.at = "ask"
      BY <1>2, <1>6, <3>2, AgainFine DEF Trips
    <3> QED
      BY <1>6, <2>2, <3>3
  <2>3. CASE ~Reads!Retries(q, found = {})
    <3>1. found \in Shown /\ <<>> \in DayMaps
      BY <2>1 DEF Shown, DayMaps, Spotted, WindowOf
    <3>2. PICK x \in Panel : /\ x = Reads!Answer(q, found, <<>>) /\ Rest(q, x) /\ x.mechanism = q.mechanism
                             /\ x.at = "done" /\ x.status = 200 /\ x.banner = q.banner
                             /\ x.shown = found
      BY <3>1, AnswerIs
    <3>3. q.explicit = "" /\ q.mechanism = "ignitionDetection" => found # {}
      BY <2>3 DEF Reads!Retries
    <3>4. Spotted(x, s1) = Spotted(q, s1)
      BY <3>2 DEF Spotted, WindowOf, Rest
    <3>5. PICK s \in S : s.world = s1
      BY <1>5, <1>6
    <3>7. x.shown = found /\ x.kind = "segments" /\ x.mechanism = q.mechanism /\ x.explicit = q.explicit
      BY <1>6, <3>2 DEF Rest
    <3>8. TripsSeen(x, S)
      BY <2>1, <3>3, <3>4, <3>5, <3>7 DEF TripsSeen
    <3>9. DaysSeen(x, S)
      BY <3>7 DEF DaysSeen
    <3>6. PanelIsFine(x, S)
      BY <1>5, <1>6, <3>2, <3>8, <3>9, AnswerFine
    <3> QED
      BY <1>6, <2>3, <3>2, <3>6
  <2> QED
    BY <2>2, <2>3
<1>7. ASSUME Reads!Need(q.kind) \in Reads!Token, q.kind = "behavior",
             s3' = [s3 EXCEPT ![p] = IF Reads!Retries(q, ~Reads!behaviorHasActivity(Reads!Behavior(q)))
                                     THEN Reads!Again(q) ELSE Reads!Answer(q, {}, Reads!Behavior(q))]
      PROVE  \E x \in Panel : s3' = [s3 EXCEPT ![p] = x] /\ PanelIsFine(x, S)
  <2>1. PICK days \in DayMaps :
          /\ days = Reads!Behavior(q)
          /\ \A day \in WindowOf(q) : days[day] = Cardinality(Reads!Detected(s1, q.mechanism) \intersect {day})
          /\ Reads!behaviorHasActivity(days) <=> Spotted(q, s1) # {}
    BY <1>5, <1>7, BehaviorIs
  <2>2. CASE Reads!Retries(q, ~Reads!behaviorHasActivity(days))
    <3>1. PICK empty \in BOOLEAN : empty <=> ~Reads!behaviorHasActivity(days)
      OBVIOUS
    <3>2. Reads!Retries(q, empty) /\ (empty => Spotted(q, s1) = {})
      BY <2>1, <2>2, <3>1 DEF Reads!Retries
    <3>3. \E x \in Panel : x = Reads!Again(q) /\ PanelIsFine(x, S) /\ x.at = "ask"
      BY <1>2, <1>7, <3>2, AgainFine DEF Trips
    <3> QED
      BY <1>7, <2>1, <2>2, <3>3
  <2>3. CASE ~Reads!Retries(q, ~Reads!behaviorHasActivity(days))
    <3>1. {} \in Shown
      BY DEF Shown
    <3>2. PICK x \in Panel : /\ x = Reads!Answer(q, {}, days) /\ Rest(q, x) /\ x.mechanism = q.mechanism
                             /\ x.at = "done" /\ x.status = 200 /\ x.banner = q.banner
                             /\ x.days = days
      BY <3>1, AnswerIs
    <3>3. q.explicit = ""
      BY <1>2, <1>7 DEF PanelIsFine
    <3>4. q.mechanism = "ignitionDetection" => Spotted(q, s1) # {}
      BY <2>1, <2>3, <3>3 DEF Reads!Retries
    <3>5. Spotted(x, s1) = Spotted(q, s1) /\ WindowOf(x) = WindowOf(q)
      BY <3>2 DEF Spotted, WindowOf, Rest
    <3>6. PICK s \in S : s.world = s1
      BY <1>5, <1>7
    <3>8. x.days = days /\ x.kind = "behavior" /\ x.mechanism = q.mechanism
      BY <1>7, <3>2 DEF Rest
    <3>9. DaysSeen(x, S)
      BY <2>1, <3>4, <3>5, <3>6, <3>8 DEF DaysSeen
    <3>10. TripsSeen(x, S)
      BY <3>8 DEF TripsSeen
    <3>7. PanelIsFine(x, S)
      BY <1>5, <1>7, <3>2, <3>9, <3>10, AnswerFine
    <3> QED
      BY <1>7, <2>1, <2>3, <3>2, <3>7
  <2> QED
    BY <2>2, <2>3
<1>8. ASSUME Reads!Need(q.kind) \in Reads!Token, q.kind \notin Trips,
             s3' = [s3 EXCEPT ![p] = IF q.kind = "timeseries" /\ ~Reads!Parses(Reads!normalizeInterval(q.input))
                                     THEN Reads!Done(q, 502)
                                     ELSE Reads!Answer(q, Reads!Sampled(q.kind), <<>>)]
      PROVE  \E x \in Panel : s3' = [s3 EXCEPT ![p] = x] /\ PanelIsFine(x, S)
  <2>1. Reads!Parses(Reads!normalizeInterval(q.input))
    BY DEF Reads!Parses, Reads!normalizeInterval
  <2>2. PICK shown \in Shown : shown = Reads!Sampled(q.kind)
    <3>1. Reads!Sampled(q.kind) \subseteq Reads!Samples
      BY DEF Reads!Sampled, Reads!Latest, Reads!TimeSeries, Reads!RoutePoints, Reads!TripReplay, Reads!Samples
    <3> QED
      BY <3>1 DEF Shown
  <2>3. PICK x \in Panel : /\ x = Reads!Answer(q, shown, <<>>) /\ Rest(q, x) /\ x.mechanism = q.mechanism
                           /\ x.at = "done" /\ x.status = 200 /\ x.banner = q.banner
    BY AnswerIs DEF DayMaps
  <2>4. TripsSeen(x, S) /\ DaysSeen(x, S)
    BY <1>8, <2>3 DEF TripsSeen, DaysSeen, Rest, Trips
  <2>5. PanelIsFine(x, S)
    BY <1>5, <1>8, <2>3, <2>4, AnswerFine
  <2> QED
    BY <1>8, <2>1, <2>2, <2>3, <2>5
<1> QED
  BY <1>1, <1>4, <1>6, <1>7, <1>8 DEF Reads!AskTelemetry, Reads!Step, Trips

LEMMA ReadsFetch ==
  ASSUME ReadsInv, NEW p \in Panels, Reads!FetchDocument(p)
  PROVE  ReadsInv'
<1>0. PICK S : S = s4[p]
  OBVIOUS
<1>1. PICK q \in Panel : q = s3[p] /\ S = s4[p]
  BY <1>0 DEF ReadsInv
<1>2. /\ q.at = "ask" /\ q.kind = "download" /\ PanelIsFine(q, S) /\ UNCHANGED <<s1, s4, s5>>
      /\ s2' = s2 \/ s2' = Reads!Token
  BY <1>1 DEF Reads!FetchDocument, ReadsInv
<1>3. ~q.banner /\ \E s \in S : s.world.scope = "in"
  BY <1>2 DEF PanelIsFine, ScopeSeen
<1>4. SUFFICES \E x \in Panel : s3' = [s3 EXCEPT ![p] = x] /\ PanelIsFine(x, S)
  BY <1>1, <1>2, PanelStep
<1>5. ASSUME NEW status \in {400, 404, 502}, s3' = [s3 EXCEPT ![p] = Reads!Done(q, status)]
      PROVE  \E x \in Panel : s3' = [s3 EXCEPT ![p] = x] /\ PanelIsFine(x, S)
  <2>1. PICK x \in Panel : /\ x = Reads!Done(q, status) /\ Rest(q, x) /\ x.at = "done" /\ x.status = status
                           /\ x.banner = q.banner
    BY DoneIs DEF Statuses
  <2>2. PanelIsFine(x, S)
    BY <1>2, <1>3, <2>1, EndsFine
  <2> QED
    BY <1>5, <2>1, <2>2
<1>6. ASSUME q.input \in {"inline", "stored"}, s3' = [s3 EXCEPT ![p] = Reads!Answer(q, {q.input}, <<>>)]
      PROVE  \E x \in Panel : s3' = [s3 EXCEPT ![p] = x] /\ PanelIsFine(x, S)
  <2>1. {q.input} \in Shown
    BY <1>6 DEF Shown, Given
  <2>2. PICK x \in Panel : /\ x = Reads!Answer(q, {q.input}, <<>>) /\ Rest(q, x) /\ x.at = "done" /\ x.status = 200
                           /\ x.banner = q.banner /\ x.shown = {q.input}
    BY <2>1, AnswerIs DEF DayMaps
  <2>3. x.kind = "download" /\ x.shown \subseteq {"inline", "stored"}
    BY <1>2, <1>6, <2>2 DEF Rest
  <2>4. PanelIsFine(x, S)
    BY <1>2, <1>3, <2>2, <2>3
    DEF PanelIsFine, SeesNow, ScopeSeen, RightSeen, DetectorSeen, TripsSeen, DaysSeen, IsAnswer, Trips
  <2> QED
    BY <1>6, <2>2, <2>4
<1>7. CASE s3' = [s3 EXCEPT ![p] = Reads!Done(q, 502)]
  BY <1>5, <1>7
<1>8. ASSUME NEW reply \in Reads!FileOf(q), s3' = [s3 EXCEPT ![p] = reply]
      PROVE  \E x \in Panel : s3' = [s3 EXCEPT ![p] = x] /\ PanelIsFine(x, S)
  <2>1. \/ reply = Reads!Done(q, 400) \/ reply = Reads!Done(q, 404) \/ reply = Reads!Done(q, 502)
        \/ q.input \in {"inline", "stored"} /\ reply = Reads!Answer(q, {q.input}, <<>>)
    BY <1>8 DEF Reads!FileOf, Reads!IsAttachment
  <2>2. CASE reply = Reads!Done(q, 400)
    BY <1>5, <1>8, <2>2
  <2>3. CASE reply = Reads!Done(q, 404)
    BY <1>5, <1>8, <2>3
  <2>4. CASE reply = Reads!Done(q, 502)
    BY <1>5, <1>8, <2>4
  <2>5. CASE q.input \in {"inline", "stored"} /\ reply = Reads!Answer(q, {q.input}, <<>>)
    BY <1>6, <1>8, <2>5
  <2> QED
    BY <2>1, <2>2, <2>3, <2>4, <2>5
<1> QED
  BY <1>1, <1>7, <1>8 DEF Reads!FetchDocument, Reads!Step

-----------------------------------------------------------------------------
Fresh(q) == ~q.banner /\ (q.kind = "behavior" => q.explicit = "")

(* A request begins: what it will say, it says of what it sees from here on. *)
LEMMA ReadsBegins ==
  ASSUME ReadsInv, NEW p \in Panels, NEW q \in Panel, Fresh(q), Reads!Begin(p, q)
  PROVE  ReadsInv'
<1>1. PICK s : s = [world |-> s1, held |-> s2]
  OBVIOUS
<1>2. s \in Seen /\ s.world = s1 /\ s.held = s2
  BY <1>1 DEF ReadsInv, Seen
<1>3. UNCHANGED <<s1, s2, s5>> /\ s4' = [s4 EXCEPT ![p] = {s}]
  BY <1>1 DEF Reads!Begin
<1>4. \E x \in Panel : s3' = [s3 EXCEPT ![p] = x] /\ PanelIsFine(x, {s})
  <2>1. CASE Reads!RefusedBeforeScope(q)
    <3>4. 400 \in Statuses
      BY DEF Statuses
    <3>1. PICK x \in Panel : /\ x = Reads!Done(q, 400) /\ Rest(q, x) /\ x.at = "done" /\ x.status = 400
                             /\ x.banner = q.banner
      BY <3>4, DoneIs
    <3>2. Reads!RefusedBeforeScope(x) <=> Reads!RefusedBeforeScope(q)
      BY <3>1, RefusalStays
    <3>5. Reads!RefusedBeforeScope(x)
      BY <2>1, <3>2
    <3>6. x.at = "done" /\ x.status = 400
      BY <3>1
    <3>9. Rest(q, x) /\ x.status # 200
      BY <3>1
    <3>7. x.kind = "behavior" => x.explicit = ""
      BY <3>9 DEF Fresh, Rest
    <3>8. ~x.banner
      BY <3>1, Zenon DEF Fresh
    <3>3. PanelIsFine(x, {s})
      <4>1. SeesNow(x, {s}) /\ ScopeSeen(x, {s})
        BY <3>5, <3>6 DEF SeesNow, ScopeSeen
      <4>2. ~IsAnswer(x)
        BY <3>6 DEF IsAnswer
      <4>3. RightSeen(x, {s})
        BY <3>8, <4>2 DEF RightSeen
      <4>4. DetectorSeen(x, {s}) /\ TripsSeen(x, {s}) /\ DaysSeen(x, {s})
        BY <3>6, <4>2 DEF DetectorSeen, TripsSeen, DaysSeen
      <4> QED
        BY <3>6, <3>7, <3>8, <3>9, <4>1, <4>3, <4>4, Zenon DEF PanelIsFine
    <3> QED
      BY <2>1, <3>1, <3>3 DEF Reads!Begin, Reads!Step
  <2>2. CASE ~Reads!RefusedBeforeScope(q)
    <3>1. PICK x \in Panel : x = [q EXCEPT !.at = "scope"]
      BY DEF Panel
    <3>2. /\ Rest(q, x) /\ x.at = "scope" /\ x.banner = q.banner
      BY <3>1 DEF Panel, Rest
    <3>3. ~Reads!RefusedBeforeScope(x)
      BY <2>2, <3>2, RefusalStays
    <3>4. PanelIsFine(x, {s})
      BY <1>2, <3>2, <3>3
      DEF Fresh, PanelIsFine, SeesNow, ScopeSeen, RightSeen, DetectorSeen, TripsSeen, DaysSeen, IsAnswer, Rest
    <3> QED
      BY <2>2, <3>1, <3>4 DEF Reads!Begin, Reads!Step
  <2> QED
    BY <2>1, <2>2
<1>5. PICK x \in Panel : s3' = [s3 EXCEPT ![p] = x] /\ PanelIsFine(x, {s})
  BY <1>4
<1>6. s3' \in [Panels -> Panel] /\ s4' \in [Panels -> SUBSET Seen]
  BY <1>2, <1>3, <1>5 DEF ReadsInv
<1>7. ASSUME NEW o \in Panels
      PROVE  IsFiniteSet(s4'[o]) /\ PanelIsFine(s3'[o], s4'[o])
  <2>1. CASE o = p
    <3>1. s3'[o] = x /\ s4'[o] = {s}
      BY <1>3, <1>5, <2>1 DEF ReadsInv
    <3> QED
      BY <1>5, <3>1, FS_Singleton
  <2>2. CASE o # p
    <3>1. s3'[o] = s3[o] /\ s4'[o] = s4[o]
      BY <1>3, <1>5, <2>2 DEF ReadsInv
    <3> QED
      BY <3>1 DEF ReadsInv
  <2> QED
    BY <2>1, <2>2
<1>8. ASSUME NEW o \in Panels
      PROVE  PanelIsFine(s3[o], s4[o])'
  <2>1. PICK y, T : y = s3'[o] /\ T = s4'[o]
    OBVIOUS
  <2>2. PanelIsFine(y, T)
    BY <1>7, <2>1
  <2>3. PanelIsFine(y, T)'
    BY <1>3, <2>2 DEF PanelIsFine, SeesNow, ScopeSeen, RightSeen, DetectorSeen, TripsSeen, DaysSeen
  <2> QED
    BY <2>1, <2>3
<1> QED
  BY <1>3, <1>6, <1>7, <1>8 DEF ReadsInv

LEMMA IdleIs ==
  Reads!Idle \in Panel /\ ~Reads!Idle.banner /\ Reads!Idle.explicit = ""
<1>1. 0 \in Statuses /\ {} \in Shown /\ <<>> \in DayMaps /\ 0 \in Days
  BY DEF Statuses, Shown, DayMaps, Days
<1>2. Reads!Idle \in Panel
  BY <1>1 DEF Panel, Reads!Idle, Questions, Given
<1> QED
  BY <1>2 DEF Reads!Idle

LEMMA FreshIs ==
  ASSUME NEW kind \in Questions, NEW input \in Given, NEW from \in Days
  PROVE  /\ LET q == [Reads!Idle EXCEPT !.kind = kind, !.input = input]
            IN  q \in Panel /\ Fresh(q)
         /\ LET q == [Reads!Idle EXCEPT !.kind = kind, !.input = input, !.from = from]
            IN  q \in Panel /\ Fresh(q)
<1>1. PICK idle \in Panel : idle = Reads!Idle
  BY IdleIs
<1>2. ~idle.banner
  BY <1>1, IdleIs, Zenon
<1>3. idle.explicit = ""
  BY <1>1, IdleIs
<1>4. PICK q \in Panel : q = [idle EXCEPT !.kind = kind, !.input = input]
  BY DEF Panel
<1>5. q.banner = idle.banner /\ q.explicit = idle.explicit
  BY <1>4 DEF Panel
<1>6. PICK r \in Panel : r = [idle EXCEPT !.kind = kind, !.input = input, !.from = from]
  BY DEF Panel
<1>7. r.banner = idle.banner /\ r.explicit = idle.explicit
  BY <1>6 DEF Panel
<1>8. Fresh(q) /\ Fresh(r)
  BY <1>2, <1>3, <1>5, <1>7, Zenon DEF Fresh
<1> QED
  BY <1>1, <1>4, <1>6, <1>8

LEMMA FreshTrips ==
  ASSUME NEW explicit \in {"", "idling", "teleport"}, NEW from \in Days, NEW to \in Days
  PROVE  LET q == [Reads!Idle EXCEPT !.kind = "segments", !.input = "good", !.explicit = explicit,
                                     !.from = from, !.to = to]
         IN  q \in Panel /\ Fresh(q)
<1>1. PICK idle \in Panel : idle = Reads!Idle
  BY IdleIs
<1>2. ~idle.banner
  BY <1>1, IdleIs, Zenon
<1>3. PICK q \in Panel : q = [idle EXCEPT !.kind = "segments", !.input = "good", !.explicit = explicit,
                                         !.from = from, !.to = to]
  BY DEF Panel, Questions, Given
<1>4. q.banner = idle.banner /\ q.kind = "segments"
  BY <1>3 DEF Panel
<1>5. Fresh(q)
  <2>1. q.kind # "behavior"
    BY <1>4
  <2> QED
    BY <1>2, <1>4, <2>1, Zenon DEF Fresh
<1> QED
  BY <1>1, <1>3, <1>5

LEMMA ClampedIs ==
  ASSUME NEW days \in Int
  PROVE  Reads!Clamped(days) \in Days
<1>1. behaviorMaxDays \in Int
  BY DaysAssumption
<1>2. PICK n \in Int : n = Reads!Min({days, behaviorMaxDays})
  <2>1. \E x \in {days, behaviorMaxDays} : \A y \in {days, behaviorMaxDays} : x <= y
    BY <1>1
  <2> QED
    BY <1>1, <2>1 DEF Reads!Min
<1>3. \E x \in {1, n} : \A y \in {1, n} : x >= y
  OBVIOUS
<1>4. Reads!Max({1, n}) \in Int
  BY <1>3 DEF Reads!Max
<1> QED
  BY <1>2, <1>4 DEF Reads!Clamped, Days

LEMMA ReadsGet ==
  ASSUME ReadsInv, NEW p \in Panels,
         \/ Reads!GetLatest(p) \/ Reads!GetTimeSeries(p) \/ Reads!GetSegments(p) \/ Reads!GetBehavior(p)
         \/ Reads!GetTripRoute(p) \/ Reads!GetTripReplay(p) \/ Reads!DownloadDocument(p)
  PROVE  ReadsInv'
<1>2. 0 \in Days /\ Reads!Days \subseteq Days
  BY DEF Days, Reads!Days
<1>3. ASSUME NEW kind \in Questions, NEW input \in Given, Reads!Begin(p, [Reads!Idle EXCEPT !.kind = kind, !.input = input])
      PROVE  ReadsInv'
  <2>1. PICK q \in Panel : q = [Reads!Idle EXCEPT !.kind = kind, !.input = input] /\ Fresh(q)
    BY <1>2, FreshIs
  <2>2. Reads!Begin(p, q)
    BY <1>3, <2>1
  <2> QED
    BY <2>1, <2>2, ReadsBegins
<1>4. CASE Reads!GetLatest(p)
  BY <1>3, <1>4 DEF Reads!GetLatest, Questions, Given
<1>5. CASE Reads!GetTimeSeries(p)
  <2>1. PICK i \in Reads!Inputs("timeseries") : Reads!Begin(p, [Reads!Idle EXCEPT !.kind = "timeseries", !.input = i])
    BY <1>5 DEF Reads!GetTimeSeries
  <2> QED
    BY <1>3, <2>1 DEF Questions, Given, Reads!Inputs
<1>6. CASE Reads!GetTripRoute(p)
  <2>1. PICK i \in Reads!Inputs("route") : Reads!Begin(p, [Reads!Idle EXCEPT !.kind = "route", !.input = i])
    BY <1>6 DEF Reads!GetTripRoute
  <2> QED
    BY <1>3, <2>1 DEF Questions, Given, Reads!Inputs
<1>7. CASE Reads!GetTripReplay(p)
  <2>1. PICK i \in Reads!Inputs("replay") : Reads!Begin(p, [Reads!Idle EXCEPT !.kind = "replay", !.input = i])
    BY <1>7 DEF Reads!GetTripReplay
  <2> QED
    BY <1>3, <2>1 DEF Questions, Given, Reads!Inputs
<1>8. CASE Reads!DownloadDocument(p)
  <2>1. PICK i \in Reads!Inputs("download") : Reads!Begin(p, [Reads!Idle EXCEPT !.kind = "download", !.input = i])
    BY <1>8 DEF Reads!DownloadDocument
  <2> QED
    BY <1>3, <2>1 DEF Questions, Given, Reads!Inputs
<1>9. CASE Reads!GetSegments(p)
  <2>1. CASE Reads!Begin(p, [Reads!Idle EXCEPT !.kind = "segments", !.input = "missing"])
    BY <1>3, <2>1 DEF Questions, Given
  <2>2. CASE \E explicit \in {"", "idling", "teleport"}, from \in Reads!Days, to \in Reads!Days :
               Reads!Begin(p, [Reads!Idle EXCEPT !.kind = "segments", !.input = "good", !.explicit = explicit,
                                                 !.from = from, !.to = to])
    <3>1. PICK explicit \in {"", "idling", "teleport"}, from \in Reads!Days, to \in Reads!Days :
            Reads!Begin(p, [Reads!Idle EXCEPT !.kind = "segments", !.input = "good", !.explicit = explicit,
                                              !.from = from, !.to = to])
      BY <2>2
    <3>2. from \in Days /\ to \in Days
      BY <1>2
    <3>3. PICK q \in Panel : /\ q = [Reads!Idle EXCEPT !.kind = "segments", !.input = "good", !.explicit = explicit,
                                                        !.from = from, !.to = to]
                             /\ Fresh(q)
      BY <3>2, FreshTrips
    <3>4. Reads!Begin(p, q)
      BY <3>1, <3>3
    <3> QED
      BY <3>3, <3>4, ReadsBegins
  <2> QED
    BY <1>9, <2>1, <2>2 DEF Reads!GetSegments
<1>10. CASE Reads!GetBehavior(p)
  <2>1. PICK i \in Reads!Inputs("behavior"), days \in 0..(behaviorMaxDays + 1) :
          Reads!Begin(p, [Reads!Idle EXCEPT !.kind = "behavior", !.input = i, !.from = Reads!Clamped(days)])
    BY <1>10 DEF Reads!GetBehavior
  <2>2. PICK from \in Days : from = Reads!Clamped(days)
    BY <2>1, ClampedIs
  <2>3. "behavior" \in Questions /\ i \in Given
    BY DEF Questions, Given, Reads!Inputs
  <2>4. PICK q \in Panel : /\ q = [Reads!Idle EXCEPT !.kind = "behavior", !.input = i, !.from = from]
                           /\ Fresh(q)
    BY <1>2, <2>3, FreshIs
  <2>5. Reads!Begin(p, q)
    BY <2>1, <2>2, <2>4
  <2> QED
    BY <2>4, <2>5, ReadsBegins
<1> QED
  BY <1>4, <1>5, <1>6, <1>7, <1>8, <1>9, <1>10

-----------------------------------------------------------------------------
(* The world moves, or the token goes, and every running request sees it. *)
LEMMA FineAlong ==
  ASSUME NEW q, NEW S, NEW T, S \subseteq T, PanelIsFine(q, S), SeesNow(q, T)'
  PROVE  PanelIsFine(q, T)'
<1>1. ScopeSeen(q, T)' /\ RightSeen(q, T)'
  BY DEF PanelIsFine, ScopeSeen, RightSeen
<1>2. DetectorSeen(q, T)'
  BY DEF PanelIsFine, DetectorSeen, Chosen
<1>3. TripsSeen(q, T)' /\ DaysSeen(q, T)'
  BY DEF PanelIsFine, TripsSeen, DaysSeen
<1> QED
  BY <1>1, <1>2, <1>3 DEF PanelIsFine

LEMMA ReadsTold ==
  ASSUME ReadsInv, NEW to \in Reads!Worlds, NEW jwt \in SUBSET Reads!Privileges,
         s1' = to, s2' = jwt, s3' = s3, s5' \in 0..MaxReadTurns, Reads!Tell(to, jwt)
  PROVE  ReadsInv'
<1>1. PICK s \in Seen : s.world = to /\ s.held = jwt /\ s = [world |-> to, held |-> jwt]
  BY DEF Seen
<1>2. ASSUME NEW o \in Panels
      PROVE  s4'[o] = IF Reads!Watched(o) THEN s4[o] \union {s} ELSE s4[o]
  BY <1>1 DEF Reads!Tell
<1>3. s4' \in [Panels -> SUBSET Seen]
  <2>1. s4' = [o \in Panels |-> IF Reads!Watched(o) THEN s4[o] \union {s} ELSE s4[o]]
    BY <1>1 DEF Reads!Tell
  <2> QED
    BY <2>1 DEF ReadsInv
<1>4. ASSUME NEW o \in Panels
      PROVE  IsFiniteSet(s4'[o]) /\ PanelIsFine(s3[o], s4[o])'
  <2>1. PICK q, S, T : q = s3[o] /\ q = s3'[o] /\ S = s4[o] /\ T = s4'[o]
    OBVIOUS
  <2>2. S \subseteq T /\ IsFiniteSet(S) /\ PanelIsFine(q, S)
    BY <1>2, <2>1 DEF ReadsInv
  <2>3. IsFiniteSet(T)
    <3>1. IsFiniteSet(S \union {s})
      BY <2>2, FS_AddElement
    <3> QED
      BY <1>2, <2>1, <2>2, <3>1
  <2>4. SeesNow(q, T)'
    <3>1. q.at \in {"scope", "ask"} => s \in T
      BY <1>2, <2>1 DEF Reads!Watched
    <3> QED
      BY <1>1, <3>1 DEF SeesNow
  <2>5. PanelIsFine(q, T)'
    BY <2>2, <2>4, FineAlong
  <2> QED
    BY <2>1, <2>3, <2>5
<1> QED
  BY <1>3, <1>4 DEF ReadsInv

LEMMA ReadsWorld ==
  ASSUME ReadsInv, Reads!Turn \/ Reads!Expire
  PROVE  ReadsInv'
<1>1. CASE Reads!Turn
  <2>1. PICK to \in Reads!Grown(s1) : /\ to.today <= LastDay /\ s1' = to /\ Reads!Tell(to, s2)
    BY <1>1 DEF Reads!Turn
  <2>2. s2' = s2 /\ s3' = s3 /\ s5' \in 0..MaxReadTurns /\ s2 \in SUBSET Reads!Privileges
    BY <1>1, DaysAssumption DEF Reads!Turn, ReadsInv
  <2>3. to \in Reads!Worlds
    <3>1. PICK w \in Reads!Worlds : w = s1
      BY DEF ReadsInv
    <3>2. to.today <= LastDay /\ to \in Reads!Grown(w)
      BY <2>1, <3>1
    <3> HIDE DEF ReadsInv
    <3>3. CASE \E s \in {"in", "out"} : to = [w EXCEPT !.scope = s]
      BY <3>3 DEF Reads!Worlds
    <3>4. CASE to = [w EXCEPT !.aftermarket = ~@]
      BY <3>4 DEF Reads!Worlds
    <3>5. CASE \E ps \in {{}, {"signals"}, Reads!Privileges} : to = [w EXCEPT !.privileges = ps]
      BY <3>5 DEF Reads!Worlds, Reads!Privileges
    <3>6. CASE \E i \in SUBSET {w.today} :
                 to = [w EXCEPT !.frequency = @ \union {w.today}, !.ignition = @ \union i]
      <4>1. PICK i \in SUBSET {w.today} :
              to = [w EXCEPT !.frequency = w.frequency \union {w.today}, !.ignition = w.ignition \union i]
        BY <3>6 DEF Reads!Worlds
      <4>2. PICK f \in SUBSET Reads!Days, g \in SUBSET Reads!Days :
              f = w.frequency \union {w.today} /\ g = w.ignition \union i
        BY DEF Reads!Worlds
      <4>3. to = [w EXCEPT !.frequency = f, !.ignition = g]
        BY <4>1, <4>2
      <4> QED
        BY <4>3 DEF Reads!Worlds
    <3>7. CASE to = [w EXCEPT !.today = @ + 1]
      <4>1. w.today \in Int /\ w.today >= 1 /\ LastDay \in Int
        BY DaysAssumption DEF Reads!Worlds, Reads!Days
      <4>2. to.today = w.today + 1
        BY <3>7 DEF Reads!Worlds
      <4>3. PICK day \in Reads!Days : day = w.today + 1
        BY <3>2, <4>1, <4>2 DEF Reads!Days
      <4>4. to = [w EXCEPT !.today = day]
        BY <3>7, <4>3
      <4> QED
        BY <4>4 DEF Reads!Worlds
    <3> QED
      BY <3>2, <3>3, <3>4, <3>5, <3>6, <3>7 DEF Reads!Grown
  <2> QED
    BY <2>1, <2>2, <2>3, ReadsTold
<1>2. CASE Reads!Expire
  <2>1. {} \in SUBSET Reads!Privileges /\ s1 \in Reads!Worlds /\ s5 \in 0..MaxReadTurns
    BY DEF ReadsInv
  <2>2. s1' = s1 /\ s2' = {} /\ s3' = s3 /\ s5' \in 0..MaxReadTurns /\ Reads!Tell(s1, {})
    BY <1>2, <2>1 DEF Reads!Expire
  <2> QED
    BY <2>1, <2>2, ReadsTold
<1> QED
  BY <1>1, <1>2

LEMMA ReadsStart ==
  ASSUME Reads!Init
  PROVE  ReadsInv
<1>1. s1 \in Reads!Worlds
  <2>1. PICK aftermarket \in BOOLEAN, ignition \in {{}, {1}},
             privileges \in {{}, {"signals"}, Reads!Privileges}, scope \in {"in", "out"} :
          s1 = [scope |-> scope, aftermarket |-> aftermarket, privileges |-> privileges,
                samples |-> Reads!Samples, ignition |-> ignition, frequency |-> {1}, today |-> LastDay - 1]
    BY DEF Reads!Init
  <2>2. PICK day \in Reads!Days : day = LastDay - 1
    BY DaysAssumption DEF Reads!Days
  <2>3. 1 \in Reads!Days
    BY DaysAssumption DEF Reads!Days
  <2>4. ignition \in SUBSET Reads!Days /\ {1} \in SUBSET Reads!Days /\ privileges \in SUBSET Reads!Privileges
    BY <2>1, <2>3 DEF Reads!Privileges
  <2> HIDE DEF Reads!Days, Reads!Privileges
  <2> QED
    BY <2>1, <2>2, <2>4 DEF Reads!Worlds
<1>2. /\ s2 = {} /\ s5 = 0 /\ s3 = [p \in Panels |-> Reads!Idle] /\ s4 = [p \in Panels |-> {}]
  BY DEF Reads!Init
<1>3. ASSUME NEW p \in Panels
      PROVE  IsFiniteSet(s4[p]) /\ PanelIsFine(s3[p], s4[p])
  <2>1. s3[p] = Reads!Idle /\ s4[p] = {}
    BY <1>2
  <2>2. PICK q : q = Reads!Idle
    OBVIOUS
  <2>3. q.at = "idle" /\ ~q.banner /\ q.kind = "none"
    BY <2>2 DEF Reads!Idle
  <2>4. PanelIsFine(q, {})
    BY <2>3 DEF PanelIsFine, SeesNow, ScopeSeen, RightSeen, DetectorSeen, TripsSeen, DaysSeen, IsAnswer
  <2> QED
    BY <2>1, <2>2, <2>4, FS_EmptySet
<1>4. s5 \in 0..MaxReadTurns
  BY <1>2, DaysAssumption
<1> QED
  BY <1>1, <1>2, <1>3, <1>4, IdleIs DEF ReadsInv

LEMMA ReadsStep ==
  ASSUME ReadsInv, Reads!Next \/ UNCHANGED <<s1, s2, s3, s4, s5>>
  PROVE  ReadsInv'
<1>1. CASE UNCHANGED <<s1, s2, s3, s4, s5>>
  <2>1. ASSUME NEW o \in Panels
        PROVE  PanelIsFine(s3[o], s4[o])'
    <3>1. PICK q, S : q = s3[o] /\ S = s4[o] /\ q = s3'[o] /\ S = s4'[o]
      BY <1>1
    <3>2. PanelIsFine(q, S)
      BY <3>1 DEF ReadsInv
    <3>5. SeesNow(q, S)
      BY <3>2 DEF PanelIsFine
    <3>3. SeesNow(q, S)'
      BY <1>1, <3>5 DEF SeesNow
    <3>4. PanelIsFine(q, S)'
      BY <3>2, <3>3, FineAlong
    <3> QED
      BY <3>1, <3>4
  <2> QED
    BY <1>1, <2>1 DEF ReadsInv
<1>2. CASE Reads!Next
  BY <1>2, ReadsGet, ReadsScope, ReadsAsk, ReadsFetch, ReadsWorld DEF Reads!Next
<1> QED
  BY <1>1, <1>2

LEMMA ReadsTell ==
  ASSUME ReadsInv
  PROVE  Reads!TypeOK /\ Reads!ReadsHold
BY BannerFollows, TripsFollow, PanelsFollow DEF Reads!ReadsHold

-----------------------------------------------------------------------------
(***************************************************************************)
(* Listing: the list of the vehicles of a set.  A request has, stage by    *)
(* stage, what its sources said, and they said it since it began.          *)
(***************************************************************************)

ListStages == {"idle", "set", "rows", "stars", "meta", "merge", "groups", "share", "done"}
SeenAt == {{}} \union { {n} : n \in Nat }
Plates == {{}, {"local"}, {"fed"}}
TableRow == [plate : Plates, seen : SeenAt]
OneRow == {{}} \union { {r} : r \in TableRow }
RosterRow == [plate : Plates]
OneRoster == {{}} \union { {m} : m \in RosterRow }
Shares == {"blank", "can", "unknown", "refused", "no-owner"}
Consents == {"allowed", "pending", "refused"}
Limits == {{}} \union { {a} : a \in SUBSET Divisions }
Ones == {{}} \union { {v} : v \in Cars }

Entry == [token : Cars, pending : BOOLEAN, plate : Plates, seen : SeenAt, star : BOOLEAN,
          groups : SUBSET Divisions, share : Shares]

Entries == Seq(Entry)

Lookup == [at : ListStages, scope : Limits, one : Ones, tokens : SUBSET Cars, rows : [Cars -> OneRow],
           stars : SUBSET Cars, meta : [Cars -> OneRoster], list : Entries]

Tenancies == [entitled : SUBSET Cars, roster : [Cars -> OneRoster], groups : [Cars -> SUBSET Divisions],
              consent : Consents]

TableOf == [row : OneRow, star : BOOLEAN]
KeptRows == {{}} \union { {m} : m \in OneRoster \ {{}} }

-----------------------------------------------------------------------------
(* The order of a list is one. *)
LEMMA SeenIs ==
  ASSUME NEW a \in SeenAt, a # {}
  PROVE  Listing!The(a) \in Nat /\ a = {Listing!The(a)}
BY DEF SeenAt, Listing!The

LEMMA EarlierIs ==
  ASSUME NEW a \in Entry, NEW b \in Entry
  PROVE  /\ ~Listing!Earlier(a, a)
         /\ ~(Listing!Earlier(a, b) /\ Listing!Earlier(b, a))
         /\ a.token # b.token => Listing!Earlier(a, b) \/ Listing!Earlier(b, a)
         /\ a.seen = {} /\ b.seen # {} => ~Listing!Earlier(a, b)
<1>1. a.token \in Nat /\ b.token \in Nat /\ a.seen \in SeenAt /\ b.seen \in SeenAt
  BY CarsAssumption DEF Entry
<1>2. a.seen # {} => Listing!The(a.seen) \in Nat /\ a.seen = {Listing!The(a.seen)}
  BY <1>1, SeenIs
<1>3. b.seen # {} => Listing!The(b.seen) \in Nat /\ b.seen = {Listing!The(b.seen)}
  BY <1>1, SeenIs
<1>4. PICK m \in Nat, n \in Nat, i \in Nat, j \in Nat :
        /\ a.seen # {} => m = Listing!The(a.seen) /\ a.seen = {m}
        /\ b.seen # {} => n = Listing!The(b.seen) /\ b.seen = {n}
        /\ i = a.token /\ j = b.token
  BY <1>1, <1>2, <1>3
<1>5. CASE a.seen # {} /\ b.seen # {} /\ a.seen # b.seen
  <2>1. /\ Listing!Earlier(a, b) <=> m > n
        /\ Listing!Earlier(b, a) <=> n > m
        /\ Listing!Earlier(a, a) <=> i < i
    BY <1>4, <1>5 DEF Listing!Earlier
  <2>2. m # n
    BY <1>4, <1>5
  <2> QED
    BY <1>5, <2>1, <2>2
<1>6. CASE a.seen # {} /\ b.seen = {}
  BY <1>4, <1>6 DEF Listing!Earlier
<1>7. CASE a.seen = {} /\ b.seen # {}
  BY <1>4, <1>7 DEF Listing!Earlier
<1>8. CASE a.seen = b.seen
  <2>1. /\ Listing!Earlier(a, b) <=> i < j
        /\ Listing!Earlier(b, a) <=> j < i
        /\ Listing!Earlier(a, a) <=> i < i
    BY <1>4, <1>8 DEF Listing!Earlier
  <2> QED
    BY <1>4, <1>8, <2>1
<1> QED
  BY <1>5, <1>6, <1>7, <1>8

LEMMA EarlierGoesOn ==
  ASSUME NEW a \in Entry, NEW b \in Entry, NEW c \in Entry, Listing!Earlier(a, b), Listing!Earlier(b, c)
  PROVE  Listing!Earlier(a, c)
<1>1. /\ a.token \in Nat /\ b.token \in Nat /\ c.token \in Nat
      /\ a.seen \in SeenAt /\ b.seen \in SeenAt /\ c.seen \in SeenAt
  BY CarsAssumption DEF Entry
<1>2. PICK m \in Nat, n \in Nat, o \in Nat :
        /\ a.seen # {} => m = Listing!The(a.seen) /\ a.seen = {m}
        /\ b.seen # {} => n = Listing!The(b.seen) /\ b.seen = {n}
        /\ c.seen # {} => o = Listing!The(c.seen) /\ c.seen = {o}
  BY <1>1, SeenIs
<1>3. PICK i \in Nat, j \in Nat, k \in Nat : i = a.token /\ j = b.token /\ k = c.token
  BY <1>1
<1>4. CASE a.seen = {}
  BY <1>2, <1>3, <1>4 DEF Listing!Earlier
<1>5. CASE a.seen # {} /\ b.seen = {}
  BY <1>2, <1>3, <1>5 DEF Listing!Earlier
<1>6. CASE a.seen # {} /\ b.seen # {} /\ c.seen = {}
  BY <1>2, <1>3, <1>6 DEF Listing!Earlier
<1>7. CASE a.seen # {} /\ b.seen # {} /\ c.seen # {}
  BY <1>2, <1>3, <1>7 DEF Listing!Earlier
<1> QED
  BY <1>4, <1>5, <1>6, <1>7

(* A finite set of entries, one per token, has an order: the rank of an   *)
(* entry is how many come no later.                                       *)
Distinct(E) ==
  /\ E \subseteq Entry /\ IsFiniteSet(E)
  /\ \A a, b \in E : a # b => a.token # b.token

NoLater(E, x) == { y \in E : y = x \/ Listing!Earlier(y, x) }

RankOf(E, x) == Cardinality(NoLater(E, x))

LEMMA RankIs ==
  ASSUME NEW E, Distinct(E)
  PROVE  /\ \A x \in E : RankOf(E, x) \in 1..Cardinality(E)
         /\ \A x, y \in E : Listing!Earlier(x, y) => RankOf(E, x) < RankOf(E, y)
<1>1. Cardinality(E) \in Nat /\ \A S \in SUBSET E : IsFiniteSet(S) /\ Cardinality(S) \in Nat
                              /\ Cardinality(S) <= Cardinality(E)
  BY FS_CardinalityType, FS_Subset DEF Distinct
<1>2. ASSUME NEW x \in E
      PROVE  RankOf(E, x) \in 1..Cardinality(E)
  <2>1. NoLater(E, x) \in SUBSET E /\ NoLater(E, x) # {}
    BY DEF NoLater
  <2>2. Cardinality(NoLater(E, x)) # 0
    BY <1>1, <2>1, FS_EmptySet
  <2> QED
    BY <1>1, <2>1, <2>2 DEF RankOf
<1>3. ASSUME NEW x \in E, NEW y \in E, Listing!Earlier(x, y)
      PROVE  RankOf(E, x) < RankOf(E, y)
  <2>1. x \in Entry /\ y \in Entry /\ x # y
    BY <1>3, EarlierIs DEF Distinct
  <2>2. NoLater(E, x) \subseteq NoLater(E, y)
    <3>1. ASSUME NEW z \in E, z = x \/ Listing!Earlier(z, x)
          PROVE  Listing!Earlier(z, y)
      <4>1. z \in Entry
        BY DEF Distinct
      <4> QED
        BY <1>3, <2>1, <3>1, <4>1, EarlierGoesOn
    <3> QED
      BY <3>1 DEF NoLater
  <2>3. y \in NoLater(E, y) /\ y \notin NoLater(E, x)
    BY <1>3, <2>1, EarlierIs DEF NoLater
  <2>4. IsFiniteSet(NoLater(E, y))
    BY <1>1 DEF NoLater
  <2>5. PICK A, B : A = NoLater(E, x) /\ B = NoLater(E, y)
    OBVIOUS
  <2>6. IsFiniteSet(B) /\ A \subseteq B /\ A # B
    BY <2>2, <2>3, <2>4, <2>5
  <2>7. Cardinality(A) < Cardinality(B)
    <3>1. IsFiniteSet(A) /\ Cardinality(A) <= Cardinality(B) /\ (Cardinality(A) = Cardinality(B) => A = B)
      BY <2>6, FS_Subset
    <3>2. Cardinality(A) \in Nat /\ Cardinality(B) \in Nat
      BY <2>6, <3>1, FS_CardinalityType
    <3> QED
      BY <2>6, <3>1, <3>2
  <2> QED
    BY <2>5, <2>7 DEF RankOf
<1> QED
  BY <1>2, <1>3

InOrderOf(E, s) ==
  /\ s \in [1..Cardinality(E) -> E]
  /\ \A i, j \in 1..Cardinality(E) : i < j => Listing!Earlier(s[i], s[j])

LEMMA OrderExists ==
  ASSUME NEW E, Distinct(E)
  PROVE  \E s : InOrderOf(E, s)
<1> DEFINE n == Cardinality(E)
           f == [x \in E |-> RankOf(E, x)]
<1>1. n \in Nat /\ IsFiniteSet(E)
  BY FS_CardinalityType DEF Distinct
<1>2. f \in [E -> 1..n]
  BY RankIs
<1>3. ASSUME NEW x \in E, NEW y \in E, x # y
      PROVE  /\ Listing!Earlier(x, y) \/ Listing!Earlier(y, x)
             /\ f[x] # f[y]
             /\ f[x] < f[y] => Listing!Earlier(x, y)
  <2>1. Listing!Earlier(x, y) \/ Listing!Earlier(y, x)
    BY <1>3, EarlierIs DEF Distinct
  <2>2. /\ Listing!Earlier(x, y) => f[x] < f[y]
        /\ Listing!Earlier(y, x) => f[y] < f[x]
    BY RankIs
  <2>3. f[x] \in Nat /\ f[y] \in Nat
    BY <1>1, <1>2
  <2> QED
    BY <2>1, <2>2, <2>3
<1>4. f \in Injection(E, 1..n)
  BY <1>2, <1>3 DEF Injection, IsInjective
<1>5. IsFiniteSet(1..n) /\ Cardinality(1..n) = n
  BY <1>1, FS_Interval
<1>6. f \in Surjection(E, 1..n)
  BY <1>4, <1>5, FS_Injection
<1>7. PICK s : s = [k \in 1..n |-> CHOOSE x \in E : f[x] = k]
  OBVIOUS
<1>8. ASSUME NEW k \in 1..n
      PROVE  s[k] \in E /\ f[s[k]] = k
  BY <1>6, <1>7 DEF Surjection
<1> HIDE DEF f
<1>9. ASSUME NEW i \in 1..n, NEW j \in 1..n, i < j
      PROVE  Listing!Earlier(s[i], s[j])
  <2>1. s[i] \in E /\ s[j] \in E /\ f[s[i]] = i /\ f[s[j]] = j
    BY <1>8
  <2>2. s[i] # s[j]
    BY <1>9, <2>1
  <2> QED
    BY <1>3, <1>9, <2>1, <2>2
<1>10. s \in [1..n -> E]
  BY <1>7, <1>8
<1> QED
  BY <1>9, <1>10 DEF InOrderOf

LEMMA ListingCardinality == \A S : Listing!Cardinality(S) = Cardinality(S)
BY DEF Listing!Cardinality, Cardinality

(* The list of a set of entries, one for each token of D. *)
Sorted(list, f, D) ==
  /\ list \in Entries /\ Len(list) = Cardinality(D)
  /\ \A i \in 1..Len(list) : \E v \in D : list[i] = f[v]
  /\ \A v \in D : \E i \in 1..Len(list) : list[i] = f[v]
  /\ \A i, j \in 1..Len(list) : i < j => ~(list[i].seen = {} /\ list[j].seen # {})

LEMMA InOrderIs ==
  ASSUME NEW D \in SUBSET Cars, NEW f \in [D -> Entry], \A v \in D : f[v].token = v
  PROVE  Sorted(Listing!InOrder({ f[v] : v \in D }), f, D)
<1> DEFINE E == { f[v] : v \in D }
           n == Cardinality(E)
           s == Listing!InOrder(E)
<1>1. IsFiniteSet(D)
  BY CarsAssumption, FS_Subset
<1>2. f \in Bijection(D, E)
  BY DEF Bijection, Injection, Surjection, IsInjective
<1>3. IsFiniteSet(E) /\ Cardinality(E) = Cardinality(D)
  BY <1>1, <1>2, FS_Surjection DEF Bijection
<1>4. Distinct(E)
  BY <1>3 DEF Distinct
<1>5. n \in Nat
  BY <1>3, FS_CardinalityType
<1>6. PICK t : InOrderOf(E, t)
  BY <1>4, OrderExists
<1>7. s = CHOOSE u \in [1..n -> E] : \A i, j \in 1..n : i < j => Listing!Earlier(u[i], u[j])
  BY ListingCardinality DEF Listing!InOrder
<1> HIDE DEF s, E
<1>8. s \in [1..n -> E] /\ \A i, j \in 1..n : i < j => Listing!Earlier(s[i], s[j])
  BY <1>6, <1>7 DEF InOrderOf
<1>9. ASSUME NEW i \in 1..n, NEW j \in 1..n, i < j
      PROVE  s[i] # s[j] /\ ~(s[i].seen = {} /\ s[j].seen # {})
  <2>1. Listing!Earlier(s[i], s[j]) /\ s[i] \in Entry /\ s[j] \in Entry
    BY <1>4, <1>8, <1>9 DEF Distinct
  <2> QED
    BY <2>1, EarlierIs
<1>10. s \in Injection(1..n, E)
  <2>1. ASSUME NEW i \in 1..n, NEW j \in 1..n, i # j
        PROVE  s[i] # s[j]
    <3>1. i < j \/ j < i
      BY <2>1
    <3> QED
      BY <1>9, <3>1
  <2> QED
    BY <1>8, <2>1 DEF Injection, IsInjective
<1>11. IsFiniteSet(1..n) /\ Cardinality(1..n) = n
  BY <1>5, FS_Interval
<1>12. s \in Surjection(1..n, E)
  BY <1>3, <1>10, <1>11, FS_Injection
<1>13. s \in Entries /\ Len(s) = n
  <2>1. s \in [1..n -> Entry]
    BY <1>4, <1>8 DEF Distinct
  <2> QED
    BY <1>5, <2>1 DEF Entries
<1>14. ASSUME NEW i \in 1..n
       PROVE  \E v \in D : s[i] = f[v]
  BY <1>8 DEF E
<1>15. ASSUME NEW v \in D
       PROVE  \E i \in 1..n : s[i] = f[v]
  <2>1. f[v] \in E
    BY DEF E
  <2> QED
    BY <1>12, <2>1 DEF Surjection
<1>16. Sorted(s, f, D)
  BY <1>3, <1>9, <1>13, <1>14, <1>15 DEF Sorted
<1> QED
  BY <1>16 DEF s, E

-----------------------------------------------------------------------------
(* What was so of a token at some time since the request began.           *)
WasMine(S, v)       == \E f \in S[v] : f.mine
WasUnknown(S, v)    == \E f \in S[v] : ~f.known
PlateWas(S, v, p)   == \E f \in S[v] : f.plate = p
StarWas(S, v, X)    == \E f \in S[v] : f.star = (v \in X)
GroupsWere(S, v, g) == \E f \in S[v] : g \subseteq f.groups
ConsentWas(S, v, c) == \E f \in S[v] : f.consent = c

PlateIn(row) == IF row = {} THEN {} ELSE Listing!The(row).plate

LEMMA MineNow ==
  ASSUME NEW v, Listing!Fact(v) \in s7[v], v \in s3.entitled
  PROVE  WasMine(s7, v)
<1>1. Listing!Fact(v).mine
  BY Zenon DEF Listing!Fact
<1> QED
  BY <1>1, Zenon DEF WasMine

LEMMA UnknownNow ==
  ASSUME NEW v, Listing!Fact(v) \in s7[v],
         IF s1 /\ s2 THEN s3.roster[v] = {} ELSE s4[v].row = {}
  PROVE  WasUnknown(s7, v)
<1>1. ~Listing!Fact(v).known
  BY DEF Listing!Fact
<1> QED
  BY <1>1, Zenon DEF WasUnknown

LEMMA PlateNow ==
  ASSUME NEW v, Listing!Fact(v) \in s7[v]
  PROVE  PlateWas(s7, v, PlateIn(s4[v].row))
<1>1. Listing!Fact(v).plate = PlateIn(s4[v].row)
  BY DEF Listing!Fact, PlateIn
<1> QED
  BY <1>1, Zenon DEF PlateWas

LEMMA StarNow ==
  ASSUME NEW v, Listing!Fact(v) \in s7[v], NEW X, s4[v].star = (v \in X)
  PROVE  StarWas(s7, v, X)
<1>1. Listing!Fact(v).star = s4[v].star
  BY DEF Listing!Fact
<1> QED
  BY <1>1, Zenon DEF StarWas

LEMMA GroupsNow ==
  ASSUME NEW v, Listing!Fact(v) \in s7[v], NEW g, g \subseteq s3.groups[v]
  PROVE  GroupsWere(s7, v, g)
<1>1. Listing!Fact(v).groups = s3.groups[v]
  BY DEF Listing!Fact
<1> QED
  BY <1>1, Zenon DEF GroupsWere

LEMMA ConsentNow ==
  ASSUME NEW v, Listing!Fact(v) \in s7[v]
  PROVE  ConsentWas(s7, v, s3.consent)
<1>1. Listing!Fact(v).consent = s3.consent
  BY DEF Listing!Fact
<1> QED
  BY <1>1, Zenon DEF ConsentWas

(* It goes on having been so. *)
GrownOn(S, T) == \A v \in Cars : S[v] \subseteq T[v]

LEMMA StillWas ==
  ASSUME NEW S, NEW T, GrownOn(S, T), NEW v \in Cars
  PROVE  /\ WasMine(S, v) => WasMine(T, v)
         /\ WasUnknown(S, v) => WasUnknown(T, v)
         /\ \A p : PlateWas(S, v, p) => PlateWas(T, v, p)
         /\ \A X : StarWas(S, v, X) => StarWas(T, v, X)
         /\ \A g : GroupsWere(S, v, g) => GroupsWere(T, v, g)
         /\ \A c : ConsentWas(S, v, c) => ConsentWas(T, v, c)
<1>1. S[v] \subseteq T[v]
  BY DEF GrownOn
<1>2. WasMine(S, v) => WasMine(T, v)
  BY <1>1, Zenon DEF WasMine
<1>3. WasUnknown(S, v) => WasUnknown(T, v)
  BY <1>1, Zenon DEF WasUnknown
<1>4. \A p : PlateWas(S, v, p) => PlateWas(T, v, p)
  BY <1>1, Zenon DEF PlateWas
<1>5. \A X : StarWas(S, v, X) => StarWas(T, v, X)
  BY <1>1, Zenon DEF StarWas
<1>6. \A g : GroupsWere(S, v, g) => GroupsWere(T, v, g)
  BY <1>1, Zenon DEF GroupsWere
<1>7. \A c : ConsentWas(S, v, c) => ConsentWas(T, v, c)
  BY <1>1, Zenon DEF ConsentWas
<1> QED
  BY <1>2, <1>3, <1>4, <1>5, <1>6, <1>7

(* What a request has, stage by stage.                                     *)
Single(q)   == s1 /\ q.one # {}
HasSet(q)   == q.at \notin {"idle", "set"}
HasRows(q)  == q.at \in {"meta", "merge"} \/ (q.at = "stars" /\ ~Single(q))
HasStars(q) == q.at \in {"meta", "merge"} \/ (q.at = "rows" /\ Single(q))
HasMeta(q)  == q.at = "merge" /\ s1 /\ s2
HasList(q)  == q.at \in {"groups", "share", "done"}

SetSeen(q, S)  == HasSet(q) => \A v \in q.tokens : WasMine(S, v)
RowsSeen(q, S) ==
  HasRows(q) => \A v \in q.tokens :
    /\ PlateWas(S, v, PlateIn(q.rows[v]))
    /\ ~(s1 /\ s2) /\ q.rows[v] = {} => WasUnknown(S, v)
StarsSeen(q, S) == HasStars(q) => \A v \in q.tokens : StarWas(S, v, q.stars)
MetaSeen(q, S) ==
  HasMeta(q) => \A v \in q.tokens : q.meta[v] = {} => WasUnknown(S, v)

(* Of one entry of the list, but its star; of the list.                    *)
EntrySeen(e, scope, S) ==
  /\ WasMine(S, e.token)
  /\ e.pending => WasUnknown(S, e.token)
  /\ e.plate = {} => PlateWas(S, e.token, {})
  /\ e.groups # {} => GroupsWere(S, e.token, e.groups)
  /\ scope # {} => e.groups \subseteq Listing!The(scope)
  /\ e.share = "refused" => ConsentWas(S, e.token, "refused")
  /\ e.share = "can" => ConsentWas(S, e.token, "allowed")

StarSeen(e, S) == \E f \in S[e.token] : f.star = e.star

ListedOnce(list, D) ==
  /\ { list[i].token : i \in DOMAIN list } = D
  /\ Len(list) = Cardinality(D)
  /\ \A i, j \in DOMAIN list : i < j => ~(list[i].seen = {} /\ list[j].seen # {})

EntriesSeen(q, S) ==
  HasList(q) =>
    /\ ListedOnce(q.list, q.tokens)
    /\ \A i \in DOMAIN q.list : EntrySeen(q.list[i], q.scope, S) /\ StarSeen(q.list[i], S)

LookupSeen(q, S) ==
  SetSeen(q, S) /\ RowsSeen(q, S) /\ StarsSeen(q, S) /\ MetaSeen(q, S) /\ EntriesSeen(q, S)

ListTypes ==
  /\ s1 \in BOOLEAN /\ s2 \in BOOLEAN
  /\ s3 \in Tenancies /\ s4 \in [Cars -> TableOf] /\ s5 \in [Cars -> KeptRows]
  /\ s6 \in Lookup /\ s8 \in 0..MaxListTurns

ListInv ==
  /\ ListTypes
  /\ \A v \in Cars : Listing!Fact(v) \in s7[v]
  /\ LookupSeen(s6, s7)

LEMMA StillSeen ==
  ASSUME NEW q \in Lookup, NEW S, NEW T, GrownOn(S, T), LookupSeen(q, S)
  PROVE  LookupSeen(q, T)
<1>1. q.tokens \subseteq Cars /\ q.list \in Entries
  BY DEF Lookup
<1>2. SetSeen(q, T)
  BY <1>1, StillWas, Zenon DEF LookupSeen, SetSeen
<1>3. RowsSeen(q, T)
  <2>1. SUFFICES ASSUME HasRows(q), NEW v \in q.tokens
                 PROVE  /\ PlateWas(T, v, PlateIn(q.rows[v]))
                        /\ ~(s1 /\ s2) /\ q.rows[v] = {} => WasUnknown(T, v)
    BY Zenon DEF RowsSeen
  <2>2. /\ PlateWas(S, v, PlateIn(q.rows[v]))
        /\ ~(s1 /\ s2) /\ q.rows[v] = {} => WasUnknown(S, v)
    BY <2>1, Zenon DEF LookupSeen, RowsSeen
  <2>3. v \in Cars
    BY <1>1
  <2> QED
    BY <2>2, <2>3, StillWas, Zenon
<1>4. StarsSeen(q, T)
  BY <1>1, StillWas, Zenon DEF LookupSeen, StarsSeen
<1>5. MetaSeen(q, T)
  BY <1>1, StillWas, Zenon DEF LookupSeen, MetaSeen
<1>6. EntriesSeen(q, T)
  <2>1. SUFFICES ASSUME HasList(q), NEW i \in DOMAIN q.list
                 PROVE  EntrySeen(q.list[i], q.scope, T) /\ StarSeen(q.list[i], T)
    BY Zenon DEF LookupSeen, EntriesSeen
  <2>2. q.list[i] \in Entry
    BY <1>1 DEF Entries
  <2>3. PICK e : e = q.list[i]
    OBVIOUS
  <2>4. e.token \in Cars
    BY <2>2, <2>3 DEF Entry
  <2>5. EntrySeen(e, q.scope, S) /\ StarSeen(e, S)
    BY <2>1, <2>3, Zenon DEF LookupSeen, EntriesSeen
  <2>6. StarSeen(e, T)
    BY <2>4, <2>5, Zenon DEF StarSeen, GrownOn
  <2>7. EntrySeen(e, q.scope, T)
    BY <2>4, <2>5, StillWas, Zenon DEF EntrySeen
  <2> QED
    BY <2>3, <2>6, <2>7
<1> QED
  BY <1>2, <1>3, <1>4, <1>5, <1>6 DEF LookupSeen

(* What a step that answers, or changes what there is to answer, leaves.   *)
Steady == s1' = s1 /\ s2' = s2

LEMMA SeenPrimed ==
  ASSUME Steady, NEW q, NEW S, LookupSeen(q, S), s6' = q, s7' = S
  PROVE  LookupSeen(s6, s7)'
<1>1. SetSeen(s6, s7)'
  BY Zenon DEF LookupSeen, SetSeen, HasSet, WasMine
<1>2. RowsSeen(s6, s7)'
  BY Zenon DEF LookupSeen, RowsSeen, HasRows, Single, PlateWas, PlateIn, WasUnknown, Steady
<1>3. StarsSeen(s6, s7)'
  BY Zenon DEF LookupSeen, StarsSeen, HasStars, Single, StarWas, Steady
<1>4. MetaSeen(s6, s7)'
  BY Zenon DEF LookupSeen, MetaSeen, HasMeta, WasUnknown, Steady
<1>5. EntriesSeen(s6, s7)'
  BY Zenon DEF LookupSeen, EntriesSeen, HasList, ListedOnce, EntrySeen, StarSeen, WasMine, WasUnknown,
    PlateWas, GroupsWere, ConsentWas
<1> QED
  BY <1>1, <1>2, <1>3, <1>4, <1>5 DEF LookupSeen

Answerable == ListInv /\ Steady /\ s3' \in Tenancies /\ s4' \in [Cars -> TableOf]
              /\ s5' \in [Cars -> KeptRows] /\ s8' \in 0..MaxListTurns /\ Listing!Observe

LEMMA AnswerKeeps ==
  ASSUME Answerable, NEW x \in Lookup, s6' = x, LookupSeen(x, s7)
  PROVE  ListInv'
<1>1. ListTypes'
  BY Zenon DEF ListTypes, Answerable, ListInv, Steady
<1>2. \A v \in Cars : Listing!Fact(v)' \in s7'[v]
  BY DEF Answerable, Listing!Observe
<1>3. PICK S : S = s7'
  OBVIOUS
<1>4. LookupSeen(x, S)
  <2>1. CASE x.at \in {"idle", "set"}
    BY <2>1 DEF LookupSeen, SetSeen, RowsSeen, StarsSeen, MetaSeen, EntriesSeen, HasSet, HasRows,
      HasStars, HasMeta, HasList
  <2>2. CASE x.at \notin {"idle", "set"}
    <3>1. s7' = [v \in Cars |-> s7[v] \union {Listing!Fact(v)'}]
      BY <2>2 DEF Answerable, Listing!Observe
    <3>2. PICK R : R = s7
      OBVIOUS
    <3>3. GrownOn(R, S)
      BY <1>3, <3>1, <3>2 DEF GrownOn
    <3>4. LookupSeen(x, R)
      BY <3>2
    <3> QED
      BY <3>3, <3>4, StillSeen, Zenon
  <2> QED
    BY <2>1, <2>2
<1>5. LookupSeen(s6, s7)'
  BY <1>3, <1>4, SeenPrimed, Zenon DEF Answerable
<1>6. (\A v \in Cars : Listing!Fact(v) \in s7[v])'
  BY <1>2
<1> QED
  BY <1>1, <1>5, <1>6 DEF ListInv

(* A step that leaves the rest, and one that leaves the request.           *)
LEMMA GoesKeeps ==
  ASSUME ListInv, NEW x \in Lookup, Listing!Goes(x), Listing!Observe, LookupSeen(x, s7)
  PROVE  ListInv'
<1>1. Steady /\ s3' = s3 /\ s4' = s4 /\ s5' = s5 /\ s8' = s8 /\ s6' = x
  BY DEF Listing!Goes, Steady
<1>2. Answerable
  BY <1>1, Zenon DEF Answerable, ListInv, ListTypes
<1> QED
  BY <1>1, <1>2, AnswerKeeps

LEMMA WaitKeeps ==
  ASSUME Answerable, s6' = s6
  PROVE  ListInv'
<1>1. PICK x : x = s6
  OBVIOUS
<1>2. x \in Lookup /\ LookupSeen(x, s7) /\ s6' = x
  BY <1>1 DEF Answerable, ListInv, ListTypes
<1> QED
  BY <1>2, AnswerKeeps

-----------------------------------------------------------------------------
(* The steps of a request.                                                 *)
EmptySeen(q) == q \in Lookup /\ q.at \in {"idle", "set"}

LEMMA EmptyIsSeen ==
  ASSUME NEW q, EmptySeen(q), NEW S
  PROVE  q \in Lookup /\ LookupSeen(q, S)
BY DEF EmptySeen, LookupSeen, SetSeen, RowsSeen, StarsSeen, MetaSeen, EntriesSeen, HasSet, HasRows,
  HasStars, HasMeta, HasList

LEMMA NoRequestIs ==
  /\ EmptySeen(Listing!NoRequest)
  /\ \A scope \in Limits, one \in Ones :
       EmptySeen([Listing!NoRequest EXCEPT !.at = "set", !.scope = scope, !.one = one])
<1>1. {} \in Limits /\ {} \in Ones /\ {} \in OneRow /\ {} \in OneRoster /\ <<>> \in Entries
  BY DEF Limits, Ones, OneRow, OneRoster, Entries
<1>2. [v \in Cars |-> {}] \in [Cars -> OneRow] /\ [v \in Cars |-> {}] \in [Cars -> OneRoster]
  BY <1>1
<1>3. Listing!NoRequest \in Lookup /\ Listing!NoRequest.at = "idle"
  BY <1>1, <1>2 DEF Listing!NoRequest, Lookup, ListStages
<1>4. PICK n \in Lookup : n = Listing!NoRequest
  BY <1>3
<1>5. ASSUME NEW scope \in Limits, NEW one \in Ones
      PROVE  EmptySeen([n EXCEPT !.at = "set", !.scope = scope, !.one = one])
  <2>1. PICK x : x = [n EXCEPT !.at = "set", !.scope = scope, !.one = one]
    OBVIOUS
  <2>2. x \in Lookup /\ x.at = "set"
    BY <2>1 DEF Lookup, ListStages
  <2> QED
    BY <2>1, <2>2 DEF EmptySeen
<1> QED
  BY <1>3, <1>4, <1>5 DEF EmptySeen

LEMMA RequestNow ==
  ASSUME ListInv
  PROVE  \E q \in Lookup : q = s6 /\ LookupSeen(q, s7)
BY DEF ListInv, ListTypes

LEMMA EmptyKeeps ==
  ASSUME ListInv, NEW x, EmptySeen(x), Listing!Goes(x), Listing!Observe
  PROVE  ListInv'
BY EmptyIsSeen, GoesKeeps

LEMMA BeginListKeeps ==
  ASSUME ListInv, Listing!Observe, NEW scope \in Limits, NEW one \in Ones, Listing!Begin(scope, one)
  PROVE  ListInv'
BY NoRequestIs, EmptyKeeps DEF Listing!Begin

LEMMA FailsKeeps ==
  ASSUME ListInv, Listing!Observe, Listing!Fails
  PROVE  ListInv'
BY NoRequestIs, EmptyKeeps DEF Listing!Fails

LEMMA ResolveSetKeeps ==
  ASSUME ListInv, Listing!Observe, Listing!ResolveSet
  PROVE  ListInv'
<1>1. PICK q \in Lookup : q = s6 /\ LookupSeen(q, s7)
  BY RequestNow
<1>2. PICK D : D = { v \in s3.entitled : Listing!InScope(v) }
  OBVIOUS
<1>3. s3.entitled \subseteq Cars
  BY DEF ListInv, ListTypes, Tenancies
<1>4. D \subseteq s3.entitled
  BY <1>2
<1>5. CASE ~(q.one \subseteq D)
  <2>1. Listing!Goes(Listing!NoRequest)
    BY <1>1, <1>2, <1>5 DEF Listing!ResolveSet
  <2> QED
    BY <2>1, NoRequestIs, EmptyKeeps
<1>6. CASE q.one \subseteq D
  <2>1. PICK t : t = IF q.one = {} THEN D ELSE q.one
    OBVIOUS
  <2>2. PICK a : a = IF Single(q) THEN "stars" ELSE "rows"
    OBVIOUS
  <2>3. Listing!Goes([q EXCEPT !.tokens = t, !.at = a])
    BY <1>1, <1>2, <1>6, <2>1, <2>2 DEF Listing!ResolveSet, Single
  <2>4. PICK x : x = [q EXCEPT !.tokens = t, !.at = a]
    OBVIOUS
  <2>5. t \subseteq s3.entitled /\ t \in SUBSET Cars
    BY <1>3, <1>4, <1>6, <2>1
  <2>6. a \in {"stars", "rows"} /\ (a = "stars" <=> Single(q))
    BY <2>2
  <2>7. x \in Lookup /\ x.at = a /\ x.tokens = t /\ x.one = q.one
    BY <2>4, <2>5, <2>6 DEF Lookup, ListStages
  <2>8. \A v \in t : WasMine(s7, v)
    BY <1>3, <2>5, MineNow DEF ListInv
  <2>9. LookupSeen(x, s7)
    <3>1. SetSeen(x, s7)
      BY <2>7, <2>8 DEF SetSeen
    <3>2. ~HasRows(x) /\ ~HasStars(x) /\ ~HasMeta(x) /\ ~HasList(x)
      BY <2>6, <2>7 DEF HasRows, HasStars, HasMeta, HasList, Single
    <3> QED
      BY <3>1, <3>2 DEF LookupSeen, RowsSeen, StarsSeen, MetaSeen, EntriesSeen
  <2> QED
    BY <2>3, <2>4, <2>7, <2>9, GoesKeeps
<1> QED
  BY <1>5, <1>6

(* Where a request goes after its rows or its stars.                       *)
LEMMA WhereAfter ==
  ASSUME NEW q, q = s6
  PROVE  /\ Listing!After("rows") = IF ~Single(q) THEN "stars" ELSE IF s1 /\ s2 THEN "meta" ELSE "merge"
         /\ Listing!After("stars") = IF Single(q) THEN "rows" ELSE IF s1 /\ s2 THEN "meta" ELSE "merge"
BY DEF Listing!After, Single

LEMMA LoadRowsKeeps ==
  ASSUME ListInv, Listing!Observe, Listing!LoadRows
  PROVE  ListInv'
<1>1. PICK q \in Lookup : q = s6 /\ LookupSeen(q, s7)
  BY RequestNow
<1>2. PICK r : r = Listing!RowsOfTokens(q.tokens)
  OBVIOUS
<1>3. PICK t : t = IF s1 THEN q.tokens ELSE { v \in q.tokens : r[v] # {} }
  OBVIOUS
<1>4. q.at = "rows"
  BY <1>1 DEF Listing!LoadRows
<1>5. q.tokens \subseteq Cars /\ t \subseteq q.tokens
  BY <1>3 DEF Lookup
<1>6. CASE ~(q.one \subseteq t)
  <2>1. Listing!Goes(Listing!NoRequest)
    BY <1>1, <1>2, <1>3, <1>6 DEF Listing!LoadRows
  <2> QED
    BY <2>1, NoRequestIs, EmptyKeeps
<1>7. CASE q.one \subseteq t
  <2>1. PICK a : a = Listing!After("rows")
    OBVIOUS
  <2>2. Listing!Goes([q EXCEPT !.rows = r, !.tokens = t, !.at = a])
    BY <1>1, <1>2, <1>3, <1>7, <2>1 DEF Listing!LoadRows
  <2>3. PICK x : x = [q EXCEPT !.rows = r, !.tokens = t, !.at = a]
    OBVIOUS
  <2>4. a \in {"stars", "meta", "merge"} /\ (a = "stars" => ~Single(q)) /\ (a # "stars" => Single(q))
    BY <1>1, <2>1, WhereAfter
  <2>5. ASSUME NEW v \in Cars
        PROVE  s4[v].row \in OneRow
    BY DEF ListInv, ListTypes, TableOf
  <2>6. r \in [Cars -> OneRow] /\ \A v \in t : r[v] = s4[v].row
    <3>1. {} \in OneRow
      BY DEF OneRow
    <3> QED
      BY <1>2, <1>5, <2>5, <3>1 DEF Listing!RowsOfTokens
  <2>7. x \in Lookup /\ x.at = a /\ x.tokens = t /\ x.one = q.one /\ x.rows = r /\ x.stars = q.stars
    BY <1>5, <2>3, <2>4, <2>6 DEF Lookup, ListStages
  <2>8. SetSeen(x, s7)
    BY <1>1, <1>4, <1>5, <2>7 DEF LookupSeen, SetSeen, HasSet
  <2>9. RowsSeen(x, s7)
    <3>1. SUFFICES ASSUME NEW v \in t
                   PROVE  /\ PlateWas(s7, v, PlateIn(r[v]))
                          /\ ~(s1 /\ s2) /\ r[v] = {} => WasUnknown(s7, v)
      BY <2>7 DEF RowsSeen
    <3>2. v \in Cars /\ Listing!Fact(v) \in s7[v] /\ r[v] = s4[v].row
      BY <1>5, <2>6 DEF ListInv
    <3> QED
      BY <3>2, PlateNow, UnknownNow
  <2>10. StarsSeen(x, s7)
    <3>1. ASSUME Single(q)
          PROVE  \A v \in q.tokens : StarWas(s7, v, q.stars)
      BY <1>1, <1>4, <3>1 DEF LookupSeen, StarsSeen, HasStars
    <3>2. HasStars(x) => Single(q)
      BY <2>4, <2>7 DEF HasStars
    <3> QED
      BY <1>5, <2>7, <3>1, <3>2 DEF StarsSeen
  <2>11. MetaSeen(x, s7)
    <3>1. a = "merge" => ~(s1 /\ s2)
      BY <1>1, <2>1, WhereAfter
    <3> QED
      BY <2>7, <3>1 DEF MetaSeen, HasMeta
  <2>12. EntriesSeen(x, s7)
    BY <2>4, <2>7 DEF EntriesSeen, HasList
  <2> QED
    BY <2>2, <2>3, <2>7, <2>8, <2>9, <2>10, <2>11, <2>12, GoesKeeps DEF LookupSeen
<1> QED
  BY <1>6, <1>7

LEMMA favoriteSetKeeps ==
  ASSUME ListInv, Listing!Observe, Listing!favoriteSet
  PROVE  ListInv'
<1>1. PICK q \in Lookup : q = s6 /\ LookupSeen(q, s7)
  BY RequestNow
<1>2. PICK X, a : X = Listing!Stars /\ a = Listing!After("stars")
  OBVIOUS
<1>3. q.at = "stars" /\ Listing!Goes([q EXCEPT !.stars = X, !.at = a])
  BY <1>1, <1>2 DEF Listing!favoriteSet
<1>4. PICK x : x = [q EXCEPT !.stars = X, !.at = a]
  OBVIOUS
<1>5. a \in {"rows", "meta", "merge"} /\ (a = "rows" => Single(q)) /\ (a # "rows" => ~Single(q))
  BY <1>1, <1>2, WhereAfter
<1>6. X \in SUBSET Cars /\ \A v \in Cars : s4[v].star = (v \in X)
  <2>1. \A v \in Cars : s4[v].star \in BOOLEAN
    BY DEF ListInv, ListTypes, TableOf
  <2>2. \A v \in Cars : s4[v].star <=> v \in X
    BY <1>2 DEF Listing!Stars
  <2>3. X \in SUBSET Cars
    BY <1>2 DEF Listing!Stars
  <2>4. ASSUME NEW v \in Cars
        PROVE  s4[v].star = (v \in X)
    <3>1. PICK b \in BOOLEAN : b = s4[v].star
      BY <2>1
    <3>2. b <=> v \in X
      BY <2>2, <3>1
    <3>3. CASE b = TRUE
      BY <3>1, <3>2, <3>3
    <3>4. CASE b = FALSE
      BY <3>1, <3>2, <3>4
    <3> QED
      BY <3>3, <3>4
  <2> QED
    BY <2>3, <2>4
<1>7. /\ x \in Lookup /\ x.at = a /\ x.tokens = q.tokens /\ x.one = q.one /\ x.rows = q.rows
      /\ x.stars = X
  BY <1>4, <1>5, <1>6 DEF Lookup, ListStages
<1>8. q.tokens \subseteq Cars
  BY DEF Lookup
<1>9. SetSeen(x, s7)
  BY <1>1, <1>3, <1>7 DEF LookupSeen, SetSeen, HasSet
<1>10. RowsSeen(x, s7)
  <2>1. HasRows(x) => HasRows(q)
    BY <1>3, <1>5, <1>7 DEF HasRows
  <2> QED
    BY <1>1, <1>7, <2>1 DEF LookupSeen, RowsSeen
<1>11. StarsSeen(x, s7)
  <2>1. SUFFICES ASSUME NEW v \in q.tokens
                 PROVE  StarWas(s7, v, X)
    BY <1>7 DEF StarsSeen
  <2>2. v \in Cars /\ Listing!Fact(v) \in s7[v] /\ s4[v].star = (v \in X)
    BY <1>6, <1>8 DEF ListInv
  <2> QED
    BY <2>2, StarNow
<1>12. MetaSeen(x, s7)
  <2>1. a = "merge" => ~(s1 /\ s2)
    BY <1>1, <1>2, WhereAfter
  <2> QED
    BY <1>7, <2>1 DEF MetaSeen, HasMeta
<1>13. EntriesSeen(x, s7)
  BY <1>5, <1>7 DEF EntriesSeen, HasList
<1> QED
  BY <1>3, <1>4, <1>7, <1>9, <1>10, <1>11, <1>12, <1>13, GoesKeeps DEF LookupSeen

LEMMA RosterOf ==
  ASSUME ListInv, NEW v \in Cars
  PROVE  /\ s3.roster[v] \in OneRoster
         /\ s5[v] # {} => Listing!The(s5[v]) \in OneRoster \ {{}}
         /\ Listing!The({s3.roster[v]}) = s3.roster[v]
         /\ s3.roster[v] # {} => {s3.roster[v]} \in KeptRows
<1>1. s3.roster[v] \in OneRoster
  BY DEF ListInv, ListTypes, Tenancies
<1>2. s5[v] \in KeptRows
  BY DEF ListInv, ListTypes
<1>3. s5[v] # {} => \E m \in OneRoster \ {{}} : s5[v] = {m}
  BY <1>2 DEF KeptRows
<1>4. s5[v] # {} => Listing!The(s5[v]) \in OneRoster \ {{}}
  BY <1>3, Zenon DEF Listing!The
<1>5. Listing!The({s3.roster[v]}) = s3.roster[v]
  BY DEF Listing!The
<1> QED
  BY <1>1, <1>4, <1>5 DEF KeptRows

LEMMA rosterMetadataKeeps ==
  ASSUME ListInv, Listing!Observe, Listing!rosterMetadata
  PROVE  ListInv'
<1>1. PICK q \in Lookup : q = s6 /\ LookupSeen(q, s7)
  BY RequestNow
<1>2. PICK missing : missing = { v \in q.tokens : s5[v] = {} }
  OBVIOUS
<1>3. PICK answer : answer = [v \in Cars |-> IF v \in missing THEN {s3.roster[v]} ELSE s5[v]]
  OBVIOUS
<1>4. PICK m : m = [v \in Cars |-> IF v \in q.tokens THEN Listing!The(answer[v]) ELSE {}]
  OBVIOUS
<1>5. PICK c : c = [v \in Cars |-> IF v \in Listing!Cacheable(missing) THEN answer[v] ELSE s5[v]]
  OBVIOUS
<1>6. /\ q.at = "meta" /\ s6' = [q EXCEPT !.at = "merge", !.meta = m] /\ s5' = c
      /\ s1' = s1 /\ s2' = s2 /\ s3' = s3 /\ s4' = s4 /\ s8' = s8
  BY <1>1, <1>2, <1>3, <1>4, <1>5 DEF Listing!rosterMetadata
<1>7. q.tokens \subseteq Cars /\ missing \subseteq q.tokens
  BY <1>2 DEF Lookup
<1>8. ASSUME NEW v \in q.tokens
      PROVE  m[v] \in OneRoster /\ (m[v] = {} => s3.roster[v] = {})
  <2>1. v \in Cars /\ m[v] = Listing!The(answer[v])
    BY <1>4, <1>7
  <2>2. CASE s5[v] = {}
    <3>1. answer[v] = {s3.roster[v]}
      BY <1>2, <1>3, <2>1, <2>2
    <3> QED
      BY <2>1, <3>1, RosterOf
  <2>3. CASE s5[v] # {}
    <3>1. answer[v] = s5[v]
      BY <1>2, <1>3, <2>1, <2>3
    <3> QED
      BY <2>1, <2>3, <3>1, RosterOf
  <2> QED
    BY <2>2, <2>3
<1>9. m \in [Cars -> OneRoster]
  <2>1. {} \in OneRoster
    BY DEF OneRoster
  <2>2. ASSUME NEW v \in Cars
        PROVE  m[v] \in OneRoster
    BY <1>4, <1>8, <2>1
  <2> QED
    BY <1>4, <2>2
<1>10. c \in [Cars -> KeptRows]
  <2>1. ASSUME NEW v \in Cars
        PROVE  c[v] \in KeptRows
    <3>1. s5[v] \in KeptRows
      BY DEF ListInv, ListTypes
    <3>2. CASE v \in Listing!Cacheable(missing)
      <4>1. v \in missing /\ s3.roster[v] # {}
        BY <3>2 DEF Listing!Cacheable
      <4>2. c[v] = {s3.roster[v]}
        BY <1>3, <1>5, <3>2, <4>1
      <4> QED
        BY <4>1, <4>2, RosterOf
    <3> QED
      BY <1>5, <3>1, <3>2
  <2> QED
    BY <1>5, <2>1
<1>11. PICK x : x = [q EXCEPT !.at = "merge", !.meta = m]
  OBVIOUS
<1>12. /\ x \in Lookup /\ x.at = "merge" /\ x.tokens = q.tokens /\ x.one = q.one /\ x.rows = q.rows
       /\ x.stars = q.stars /\ x.meta = m
  BY <1>9, <1>11 DEF Lookup, ListStages
<1>13. SetSeen(x, s7) /\ RowsSeen(x, s7) /\ StarsSeen(x, s7)
  <2>1. HasSet(q) /\ HasRows(q) /\ HasStars(q)
    BY <1>6 DEF HasSet, HasRows, HasStars
  <2> QED
    BY <1>1, <1>12, <2>1, Zenon DEF LookupSeen, SetSeen, RowsSeen, StarsSeen
<1>14. MetaSeen(x, s7)
  <2>1. SUFFICES ASSUME s1 /\ s2, NEW v \in q.tokens, m[v] = {}
                 PROVE  WasUnknown(s7, v)
    BY <1>12, Zenon DEF MetaSeen, HasMeta
  <2>2. v \in Cars /\ Listing!Fact(v) \in s7[v]
    BY <1>7 DEF ListInv
  <2> QED
    BY <1>8, <2>1, <2>2, UnknownNow
<1>15. EntriesSeen(x, s7)
  BY <1>12 DEF EntriesSeen, HasList
<1>16. Answerable
  BY <1>6, <1>10, Zenon DEF Answerable, ListInv, ListTypes, Steady
<1>17. LookupSeen(x, s7)
  BY <1>13, <1>14, <1>15 DEF LookupSeen
<1>18. s6' = x
  BY <1>6, <1>11
<1> QED
  BY <1>12, <1>16, <1>17, <1>18, AnswerKeeps

(* Two lists of different tokens, the second without fixes, in one.       *)
Together(a, b, f, g, h, A, D) ==
  /\ D \subseteq Cars /\ A \subseteq D
  /\ Sorted(a, g, A) /\ Sorted(b, h, D \ A)
  /\ \A v \in A : f[v] = g[v]
  /\ \A v \in D \ A : f[v] = h[v] /\ h[v].seen = {}

LEMMA SortedTogether ==
  ASSUME NEW a, NEW b, NEW f, NEW g, NEW h, NEW A, NEW D, Together(a, b, f, g, h, A, D)
  PROVE  Sorted(a \o b, f, D)
<1> USE DEF Together
<1>1. a \in Seq(Entry) /\ b \in Seq(Entry)
  BY DEF Sorted, Entries
<1>2. /\ a \o b \in Seq(Entry) /\ Len(a \o b) = Len(a) + Len(b)
      /\ \A i \in 1..Len(a \o b) :
           /\ i <= Len(a) => (a \o b)[i] = a[i]
           /\ i > Len(a) => i - Len(a) \in 1..Len(b) /\ (a \o b)[i] = b[i - Len(a)]
  BY <1>1
<1>3. IsFiniteSet(D)
  BY CarsAssumption, FS_Subset
<1>4. Len(a) \in Nat /\ Len(b) \in Nat /\ Len(a \o b) = Cardinality(D)
  <2>1. D \intersect A = A
    OBVIOUS
  <2>2. IsFiniteSet(A) /\ Cardinality(A) \in Nat /\ Cardinality(D) \in Nat
    BY <1>3, FS_Subset, FS_CardinalityType
  <2>3. PICK B : B = D \ A
    OBVIOUS
  <2>4. IsFiniteSet(B) /\ Cardinality(B) \in Nat
    BY <1>3, <2>3, FS_Subset, FS_CardinalityType
  <2>5. Cardinality(A \union B) = Cardinality(A) + Cardinality(B)
    <3>1. Cardinality(A \union B) = Cardinality(A) + Cardinality(B) - Cardinality(A \intersect B)
      BY <2>2, <2>4, FS_Union
    <3>2. A \intersect B = {}
      BY <2>3
    <3>3. Cardinality(A \intersect B) = 0
      BY <3>2, FS_EmptySet, Zenon
    <3> QED
      BY <2>2, <2>4, <3>1, <3>3
  <2>6. A \union B = D
    BY <2>3
  <2> QED
    BY <1>2, <2>2, <2>3, <2>4, <2>5, <2>6 DEF Sorted
<1>5. PICK l : l = a \o b
  OBVIOUS
<1>6. PICK m \in Nat, n \in Nat : m = Len(a) /\ n = Len(b)
  BY <1>4
<1>7. ASSUME NEW i \in 1..(m + n)
      PROVE  \/ i \in 1..m /\ l[i] = a[i]
             \/ i - m \in 1..n /\ l[i] = b[i - m]
  BY <1>2, <1>5, <1>6
<1>8. Len(l) = m + n /\ l \in Seq(Entry)
  BY <1>2, <1>5, <1>6
<1>9. ASSUME NEW i \in 1..(m + n)
      PROVE  \E v \in D : l[i] = f[v]
  <2>1. CASE i \in 1..m /\ l[i] = a[i]
    <3>1. PICK v \in A : a[i] = g[v]
      BY <1>6, <2>1 DEF Sorted
    <3> QED
      BY <2>1, <3>1
  <2>2. CASE i - m \in 1..n /\ l[i] = b[i - m]
    <3>1. PICK v \in D \ A : b[i - m] = h[v]
      BY <1>6, <2>2 DEF Sorted
    <3> QED
      BY <2>2, <3>1
  <2> QED
    BY <1>7, <2>1, <2>2
<1>10. ASSUME NEW v \in D
       PROVE  \E i \in 1..(m + n) : l[i] = f[v]
  <2>1. CASE v \in A
    <3>1. PICK i \in 1..m : a[i] = g[v]
      BY <1>6, <2>1 DEF Sorted
    <3>2. i \in 1..(m + n) /\ l[i] = a[i]
      BY <1>2, <1>5, <1>6
    <3> QED
      BY <2>1, <3>1, <3>2
  <2>2. CASE v \in D \ A
    <3>1. PICK i \in 1..n : b[i] = h[v]
      BY <1>6, <2>2 DEF Sorted
    <3>2. m + i \in 1..(m + n) /\ l[m + i] = b[i]
      BY <1>2, <1>5, <1>6
    <3> QED
      BY <2>2, <3>1, <3>2
  <2> QED
    BY <2>1, <2>2
<1>11. ASSUME NEW i \in 1..n
       PROVE  b[i].seen = {}
  <2>1. PICK v \in D \ A : b[i] = h[v]
    BY <1>6 DEF Sorted
  <2> QED
    BY <2>1
<1>12. ASSUME NEW i \in 1..(m + n), NEW j \in 1..(m + n), i < j
       PROVE  ~(l[i].seen = {} /\ l[j].seen # {})
  <2>1. CASE j \in 1..m /\ l[j] = a[j]
    <3>1. i \in 1..m /\ l[i] = a[i]
      BY <1>7, <1>12, <2>1
    <3> QED
      BY <1>6, <1>12, <2>1, <3>1 DEF Sorted
  <2>2. CASE j - m \in 1..n /\ l[j] = b[j - m]
    BY <1>11, <2>2
  <2> QED
    BY <1>7, <2>1, <2>2
<1>13. l \in Entries /\ Len(l) = Cardinality(D)
  BY <1>4, <1>5, <1>8 DEF Entries
<1>14. 1..Len(l) = 1..(m + n)
  BY <1>8
<1>15. Sorted(l, f, D)
  BY <1>9, <1>10, <1>12, <1>13, <1>14, Zenon DEF Sorted
<1> QED
  BY <1>5, <1>15

(* What an entry is as it is merged.                                       *)
Drawn(e, v, q) ==
  /\ e \in Entry /\ e.token = v /\ e.groups = {} /\ e.share = "blank"
  /\ e.star = (v \in q.stars)

ShownAs(e, v, b, p, s, q) ==
  Drawn(e, v, q) /\ (e.pending <=> b) /\ e.plate = p /\ e.seen = s

LEMMA ShownIs ==
  \A v \in Cars, b \in BOOLEAN, p \in Plates, s \in SeenAt :
    ShownAs(Listing!Shown(v, b, p, s), v, b, p, s, s6)
<1> SUFFICES ASSUME NEW v \in Cars, NEW b \in BOOLEAN, NEW p \in Plates, NEW s \in SeenAt
             PROVE  ShownAs(Listing!Shown(v, b, p, s), v, b, p, s, s6)
  OBVIOUS
<1> PICK q : q = s6
  OBVIOUS
<1>1. "blank" \in Shares /\ {} \in SUBSET Divisions /\ (v \in q.stars) \in BOOLEAN
  BY DEF Shares
<1>2. PICK e : e = Listing!Shown(v, b, p, s)
  OBVIOUS
<1>3. e = [token |-> v, pending |-> b, plate |-> p, seen |-> s, star |-> v \in q.stars,
           groups |-> {}, share |-> "blank"]
  BY <1>2, Zenon DEF Listing!Shown
<1>4. /\ e.token = v /\ e.plate = p /\ e.seen = s /\ e.groups = {} /\ e.share = "blank"
  BY <1>3, Zenon
<1>5. e.star = (v \in q.stars) /\ (e.pending <=> b)
  BY <1>3, Zenon
<1>6. e \in Entry
  BY <1>1, <1>3, Zenon DEF Entry
<1> QED
  BY <1>2, <1>4, <1>5, <1>6, Zenon DEF ShownAs, Drawn

(* Of the merged list: each token once, and what its sources said.        *)
Tells(e, v) ==
  /\ e.pending => WasUnknown(s7, v)
  /\ e.plate = {} => PlateWas(s7, v, {})

MergedOf(list, f, q) ==
  /\ Sorted(list, f, q.tokens)
  /\ \A v \in q.tokens : Drawn(f[v], v, q) /\ Tells(f[v], v)

LEMMA LocalMerge ==
  ASSUME ListInv, NEW q \in Lookup, q = s6, q.at = "merge", ~(s1 /\ s2)
  PROVE  \E f : MergedOf(Listing!mergeResolvedVehicles, f, q)
<1>1. PICK D, A : D = q.tokens /\ A = Listing!RowsOf
  OBVIOUS
<1>2. D \subseteq Cars /\ A = { v \in D : q.rows[v] # {} }
  BY <1>1 DEF Listing!RowsOf, Lookup
<1>3. ASSUME NEW v \in D
      PROVE  /\ v \in Cars /\ PlateWas(s7, v, PlateIn(q.rows[v]))
             /\ q.rows[v] = {} => WasUnknown(s7, v)
             /\ q.rows[v] # {} => Listing!The(q.rows[v]) \in TableRow
                                 /\ PlateIn(q.rows[v]) = Listing!The(q.rows[v]).plate
  <2>1. v \in Cars
    BY <1>2
  <2>2. RowsSeen(q, s7) /\ HasRows(q)
    BY DEF ListInv, LookupSeen, HasRows
  <2>3. PlateWas(s7, v, PlateIn(q.rows[v])) /\ (q.rows[v] = {} => WasUnknown(s7, v))
    BY <1>1, <2>2, Zenon DEF RowsSeen
  <2>4. q.rows[v] \in OneRow
    BY <2>1 DEF Lookup
  <2>5. q.rows[v] # {} => Listing!The(q.rows[v]) \in TableRow
    BY <2>4, Zenon DEF OneRow, Listing!The
  <2> QED
    BY <2>1, <2>3, <2>5, Zenon DEF PlateIn
<1>4. PICK g : g = [v \in A |-> Listing!rowToVehicle(v, Listing!The(q.rows[v]))]
  OBVIOUS
<1>5. PICK h : h = [v \in D \ A |-> Listing!Thin(v)]
  OBVIOUS
<1>6. ASSUME NEW v \in A
      PROVE  Drawn(g[v], v, q) /\ Tells(g[v], v)
  <2>1. v \in D /\ q.rows[v] # {}
    BY <1>2
  <2>2. PICK r \in TableRow : r = Listing!The(q.rows[v])
    BY <1>3, <2>1
  <2>3. r.plate \in Plates /\ r.seen \in SeenAt
    BY DEF TableRow
  <2>4. g[v] = Listing!Shown(v, FALSE, r.plate, r.seen)
    BY <1>4, <2>2, Zenon DEF Listing!rowToVehicle
  <2>5. v \in Cars /\ FALSE \in BOOLEAN
    BY <1>3, <2>1
  <2>6. Drawn(g[v], v, q) /\ ~g[v].pending /\ g[v].plate = r.plate
    <3>1. ShownAs(Listing!Shown(v, FALSE, r.plate, r.seen), v, FALSE, r.plate, r.seen, s6)
      BY <2>3, <2>5, ShownIs, Zenon
    <3>2. ShownAs(g[v], v, FALSE, r.plate, r.seen, q)
      BY <2>4, <3>1
    <3> QED
      BY <3>2, Zenon DEF ShownAs
  <2>7. PlateWas(s7, v, r.plate)
    BY <1>3, <2>1, <2>2, Zenon
  <2> QED
    BY <2>6, <2>7, Zenon DEF Tells
<1>7. ASSUME NEW v \in D \ A
      PROVE  Drawn(h[v], v, q) /\ Tells(h[v], v) /\ h[v].seen = {}
  <2>1. v \in D /\ q.rows[v] = {}
    BY <1>2
  <2>2. {} \in Plates /\ {} \in SeenAt /\ TRUE \in BOOLEAN
    BY DEF Plates, SeenAt
  <2>3. h[v] = Listing!Shown(v, TRUE, {}, {})
    BY <1>5, Zenon DEF Listing!Thin
  <2>4. v \in Cars
    BY <1>3, <2>1
  <2>5. Drawn(h[v], v, q) /\ h[v].plate = {} /\ h[v].seen = {}
    <3>1. ShownAs(Listing!Shown(v, TRUE, {}, {}), v, TRUE, {}, {}, s6)
      BY <2>2, <2>4, ShownIs, Zenon
    <3>2. ShownAs(h[v], v, TRUE, {}, {}, q)
      BY <2>3, <3>1
    <3> QED
      BY <3>2, Zenon DEF ShownAs
  <2>6. PlateWas(s7, v, {}) /\ WasUnknown(s7, v)
    BY <1>3, <2>1 DEF PlateIn
  <2> QED
    BY <2>5, <2>6, Zenon DEF Tells
<1>8. PICK f : f = [v \in D |-> IF v \in A THEN g[v] ELSE h[v]]
  OBVIOUS
<1>9. ASSUME NEW v \in D
      PROVE  Drawn(f[v], v, q) /\ Tells(f[v], v)
  BY <1>6, <1>7, <1>8
<1>10. /\ A \in SUBSET Cars /\ g \in [A -> Entry] /\ \A v \in A : g[v].token = v
       /\ D \ A \in SUBSET Cars /\ h \in [D \ A -> Entry] /\ \A v \in D \ A : h[v].token = v
       /\ f \in [D -> Entry]
  <2>1. \A v \in A : g[v] \in Entry /\ g[v].token = v
    BY <1>6, Zenon DEF Drawn
  <2>2. \A v \in D \ A : h[v] \in Entry /\ h[v].token = v
    BY <1>7, Zenon DEF Drawn
  <2>3. \A v \in D : f[v] \in Entry
    BY <1>9, Zenon DEF Drawn
  <2> QED
    BY <1>2, <1>4, <1>5, <1>8, <2>1, <2>2, <2>3
<1>11. PICK B : B = D \ A
  OBVIOUS
<1>12. PICK a, b : a = Listing!InOrder({ g[v] : v \in A }) /\ b = Listing!InOrder({ h[v] : v \in B })
  OBVIOUS
<1>13. Sorted(a, g, A) /\ Sorted(b, h, B)
  BY <1>10, <1>11, <1>12, InOrderIs
<1>14. Sorted(a \o b, f, D)
  <2>1. D \in SUBSET Cars /\ A \in SUBSET D
    BY <1>2
  <2>2. \A v \in A : f[v] = g[v]
    BY <1>2, <1>8
  <2>3. \A v \in D \ A : f[v] = h[v] /\ h[v].seen = {}
    BY <1>7, <1>8
  <2> QED
    BY <1>11, <1>13, <2>1, <2>2, <2>3, SortedTogether DEF Together
<1>15. Listing!mergeResolvedVehicles = a \o b
  <2>1. { Listing!rowToVehicle(v, Listing!The(q.rows[v])) : v \in A } = { g[v] : v \in A }
    BY <1>4
  <2>2. { Listing!Thin(v) : v \in B } = { h[v] : v \in B }
    BY <1>5, <1>11
  <2>3. Listing!mergeResolvedVehicles =
          Listing!InOrder({ Listing!rowToVehicle(v, Listing!The(q.rows[v])) : v \in A })
          \o Listing!InOrder({ Listing!Thin(v) : v \in B })
    BY <1>1, <1>11 DEF Listing!mergeResolvedVehicles
  <2> QED
    BY <1>12, <2>1, <2>2, <2>3
<1>16. MergedOf(a \o b, f, q)
  BY <1>1, <1>9, <1>14 DEF MergedOf
<1> QED
  BY <1>15, <1>16

LEMMA RosterMerge ==
  ASSUME ListInv, NEW q \in Lookup, q = s6, q.at = "merge", s1 /\ s2
  PROVE  \E f : MergedOf(Listing!mergeRosterVehicles, f, q)
<1>1. PICK D : D = q.tokens
  OBVIOUS
<1>2. D \in SUBSET Cars
  BY <1>1 DEF Lookup
<1> DEFINE Meta(v) == IF q.meta[v] = {} THEN [plate |-> {}] ELSE Listing!The(q.meta[v])
           Drawing(v) == Listing!Shown(v, q.meta[v] = {}, Listing!PlateOf(Meta(v), q.rows[v]),
                           IF q.rows[v] = {} THEN {} ELSE Listing!The(q.rows[v]).seen)
<1>3. PICK f : f = [v \in D |-> Drawing(v)]
  OBVIOUS
<1>4. ASSUME NEW v \in D
      PROVE  Drawn(f[v], v, q) /\ Tells(f[v], v)
  <2>1. v \in Cars
    BY <1>2
  <2>2. PlateWas(s7, v, PlateIn(q.rows[v]))
    <3>1. RowsSeen(q, s7) /\ HasRows(q)
      BY DEF ListInv, LookupSeen, HasRows
    <3> QED
      BY <1>1, <3>1, Zenon DEF RowsSeen
  <2>3. q.meta[v] = {} => WasUnknown(s7, v)
    <3>1. MetaSeen(q, s7) /\ HasMeta(q)
      BY DEF ListInv, LookupSeen, HasMeta
    <3> QED
      BY <1>1, <3>1, Zenon DEF MetaSeen
  <2>4. PICK row \in OneRow : row = q.rows[v]
    BY <2>1 DEF Lookup
  <2>5. PICK sought \in SeenAt : sought = IF row = {} THEN {} ELSE Listing!The(row).seen
    <3>1. {} \in SeenAt
      BY DEF SeenAt
    <3>2. row # {} => Listing!The(row) \in TableRow
      BY Zenon DEF OneRow, Listing!The
    <3> QED
      BY <3>1, <3>2 DEF TableRow
  <2>6. Meta(v).plate \in Plates
    <3>1. {} \in Plates
      BY DEF Plates
    <3>2. q.meta[v] \in OneRoster
      BY <2>1 DEF Lookup
    <3>3. q.meta[v] # {} => Listing!The(q.meta[v]) \in RosterRow
      BY <3>2, Zenon DEF OneRoster, Listing!The
    <3> QED
      BY <3>1, <3>3 DEF RosterRow
  <2>7. PICK plate : plate = Listing!PlateOf(Meta(v), row)
    OBVIOUS
  <2>8. PICK own \in Plates : own = PlateIn(row)
    <3>1. {} \in Plates
      BY DEF Plates
    <3>2. row # {} => Listing!The(row) \in TableRow
      BY Zenon DEF OneRow, Listing!The
    <3> QED
      BY <3>1, <3>2 DEF TableRow, PlateIn
  <2>9. plate \in Plates /\ (plate = {} => own = {})
    BY <2>6, <2>7, <2>8 DEF Listing!PlateOf, PlateIn
  <2>10. PICK b \in BOOLEAN : b <=> q.meta[v] = {}
    BY Zenon
  <2>11. b = (q.meta[v] = {})
    BY <2>10, Zenon
  <2>12. f[v] = Listing!Shown(v, b, plate, sought)
    <3>1. f[v] = Drawing(v)
      BY <1>3, Zenon
    <3> QED
      BY <2>4, <2>5, <2>7, <2>11, <3>1, Zenon
  <2>13. ShownAs(f[v], v, b, plate, sought, q)
    <3>1. ShownAs(Listing!Shown(v, b, plate, sought), v, b, plate, sought, s6)
      BY <2>1, <2>5, <2>9, <2>10, ShownIs, Zenon
    <3>2. PICK e : e = f[v] /\ e = Listing!Shown(v, b, plate, sought)
      BY <2>12
    <3>3. ShownAs(e, v, b, plate, sought, s6)
      BY <3>1, <3>2, Zenon
    <3>4. ShownAs(e, v, b, plate, sought, q)
      BY <3>3, Zenon
    <3> QED
      BY <3>2, <3>4, Zenon
  <2>14. Drawn(f[v], v, q) /\ (f[v].pending <=> b) /\ f[v].plate = plate
    BY <2>13, Zenon DEF ShownAs
  <2>15. plate = {} => PlateWas(s7, v, {})
    BY <2>2, <2>4, <2>8, <2>9
  <2>16. Tells(f[v], v)
    BY <2>3, <2>10, <2>14, <2>15, Zenon DEF Tells
  <2> QED
    BY <2>14, <2>16
<1>5. f \in [D -> Entry] /\ \A v \in D : f[v].token = v
  <2>1. \A v \in D : f[v] \in Entry /\ f[v].token = v
    BY <1>4, Zenon DEF Drawn
  <2>2. f = [v \in D |-> f[v]]
    BY <1>3, Zenon
  <2> QED
    BY <2>1, <2>2
<1>6. Sorted(Listing!InOrder({ f[v] : v \in D }), f, D)
  BY <1>2, <1>5, InOrderIs
<1>7. Listing!mergeRosterVehicles = Listing!InOrder({ f[v] : v \in D })
  <2>1. { Drawing(v) : v \in D } = { f[v] : v \in D }
    <3> HIDE DEF Drawing
    <3> QED
      BY <1>3
  <2>2. Listing!mergeRosterVehicles = Listing!InOrder({ Drawing(v) : v \in D })
    BY <1>1, Zenon DEF Listing!mergeRosterVehicles
  <2> QED
    BY <2>1, <2>2
<1>8. MergedOf(Listing!InOrder({ f[v] : v \in D }), f, q)
  BY <1>1, <1>4, <1>6, Zenon DEF MergedOf
<1> QED
  BY <1>7, <1>8

LEMMA MergeKeeps ==
  ASSUME ListInv, Listing!Observe, Listing!Merge
  PROVE  ListInv'
<1>1. PICK q \in Lookup : q = s6 /\ LookupSeen(q, s7)
  BY RequestNow
<1>2. PICK l : l = Listing!Merged
  OBVIOUS
<1>3. q.at = "merge" /\ Listing!Goes([q EXCEPT !.list = l, !.at = "groups"])
  BY <1>1, <1>2 DEF Listing!Merge
<1>4. \E f : MergedOf(l, f, q)
  <2>1. CASE s1 /\ s2
    <3>1. l = Listing!mergeRosterVehicles
      BY <1>2, <2>1 DEF Listing!Merged
    <3> QED
      BY <1>1, <1>3, <2>1, <3>1, RosterMerge
  <2>2. CASE ~(s1 /\ s2)
    <3>1. l = Listing!mergeResolvedVehicles
      BY <1>2, <2>2 DEF Listing!Merged
    <3> QED
      BY <1>1, <1>3, <2>2, <3>1, LocalMerge
  <2> QED
    BY <2>1, <2>2
<1>5. PICK f : MergedOf(l, f, q)
  BY <1>4
<1>6. l \in Entries /\ DOMAIN l = 1..Len(l)
  BY <1>5 DEF MergedOf, Sorted, Entries
<1>7. PICK x : x = [q EXCEPT !.list = l, !.at = "groups"]
  OBVIOUS
<1>8. /\ x \in Lookup /\ x.at = "groups" /\ x.tokens = q.tokens /\ x.list = l /\ x.scope = q.scope
  BY <1>6, <1>7 DEF Lookup, ListStages
<1>9. SetSeen(x, s7)
  BY <1>1, <1>3, <1>8 DEF LookupSeen, SetSeen, HasSet
<1>10. ListedOnce(l, q.tokens)
  <2>1. \A v \in q.tokens : f[v].token = v
    BY <1>5, Zenon DEF MergedOf, Drawn
  <2>2. { l[i].token : i \in DOMAIN l } = q.tokens
    <3>1. \A i \in DOMAIN l : l[i].token \in q.tokens
      BY <1>5, <1>6, <2>1 DEF MergedOf, Sorted
    <3>2. \A v \in q.tokens : \E i \in DOMAIN l : l[i].token = v
      BY <1>5, <1>6, <2>1 DEF MergedOf, Sorted
    <3> QED
      BY <3>1, <3>2
  <2> QED
    BY <1>5, <1>6, <2>2, Zenon DEF ListedOnce, MergedOf, Sorted
<1>11. ASSUME NEW i \in DOMAIN l
       PROVE  EntrySeen(l[i], q.scope, s7) /\ StarSeen(l[i], s7)
  <2>1. PICK v \in q.tokens : l[i] = f[v]
    BY <1>5, <1>6, Zenon DEF MergedOf, Sorted
  <2>2. PICK e : e = l[i]
    OBVIOUS
  <2>3. Drawn(e, v, q) /\ Tells(e, v)
    BY <1>5, <2>1, <2>2, Zenon DEF MergedOf
  <2>4. WasMine(s7, v) /\ StarWas(s7, v, q.stars)
    <3>1. HasSet(q) /\ HasStars(q)
      BY <1>3 DEF HasSet, HasStars
    <3> QED
      BY <1>1, <3>1, Zenon DEF LookupSeen, SetSeen, StarsSeen
  <2>5. e.token = v /\ e.groups = {} /\ e.share = "blank"
    BY <2>3, Zenon DEF Drawn
  <2>6. e.groups \subseteq Listing!The(q.scope)
    BY <2>5
  <2>7. e.share # "refused" /\ e.share # "can"
    BY <2>5
  <2>8. EntrySeen(e, q.scope, s7)
    BY <2>3, <2>4, <2>5, <2>6, <2>7, Zenon DEF EntrySeen, Tells
  <2>9. StarSeen(e, s7)
    <3>1. e.star = (v \in q.stars)
      BY <2>3, Zenon DEF Drawn
    <3> QED
      BY <2>4, <2>5, <3>1, Zenon DEF StarSeen, StarWas
  <2> QED
    BY <2>2, <2>8, <2>9
<1>12. EntriesSeen(x, s7)
  BY <1>8, <1>10, <1>11, Zenon DEF EntriesSeen
<1>13. ~HasRows(x) /\ ~HasStars(x) /\ ~HasMeta(x)
  BY <1>8 DEF HasRows, HasStars, HasMeta
<1>14. LookupSeen(x, s7)
  BY <1>9, <1>12, <1>13, Zenon DEF LookupSeen, RowsSeen, StarsSeen, MetaSeen
<1> QED
  BY <1>3, <1>7, <1>8, <1>14, GoesKeeps

-----------------------------------------------------------------------------
(* What is added to a merged list leaves the rest of it.                   *)
Redrawn(l, m) ==
  /\ m \in Entries /\ Len(m) = Len(l)
  /\ \A i \in 1..Len(l) : m[i].token = l[i].token /\ m[i].seen = l[i].seen /\ m[i].star = l[i].star

EntriesFit(m, scope) == \A i \in 1..Len(m) : EntrySeen(m[i], scope, s7)

LEMMA RedrawnKeeps ==
  ASSUME ListInv, Listing!Observe, NEW q \in Lookup, q = s6, HasList(q), NEW m,
         NEW a \in {"share", "done"},
         Listing!Goes([q EXCEPT !.at = a, !.list = m]), Redrawn(q.list, m), EntriesFit(m, q.scope)
  PROVE  ListInv'
<1>1. PICK x : x = [q EXCEPT !.list = m, !.at = a]
  OBVIOUS
<1>2. q.list \in Entries /\ DOMAIN q.list = 1..Len(q.list) /\ Len(q.list) \in Nat
  BY DEF Lookup, Entries
<1>3. m \in Entries /\ DOMAIN m = 1..Len(q.list) /\ Len(m) = Len(q.list)
  BY DEF Redrawn, Entries
<1>4. /\ x \in Lookup /\ x.at = a /\ x.tokens = q.tokens /\ x.list = m /\ x.scope = q.scope
  BY <1>1, <1>3 DEF Lookup, ListStages
<1>5. LookupSeen(q, s7)
  BY DEF ListInv
<1>6. HasSet(q)
  BY DEF HasSet, HasList
<1>7. SetSeen(x, s7)
  BY <1>4, <1>5, <1>6, Zenon DEF LookupSeen, SetSeen
<1>8. ListedOnce(q.list, q.tokens) /\ \A i \in DOMAIN q.list : StarSeen(q.list[i], s7)
  BY <1>5, Zenon DEF LookupSeen, EntriesSeen
<1>9. ListedOnce(m, q.tokens)
  <2>1. { m[i].token : i \in DOMAIN m } = { q.list[i].token : i \in DOMAIN q.list }
    BY <1>2, <1>3 DEF Redrawn
  <2>2. \A i, j \in DOMAIN m : i < j => ~(m[i].seen = {} /\ m[j].seen # {})
    BY <1>2, <1>3, <1>8, Zenon DEF Redrawn, ListedOnce
  <2> QED
    BY <1>3, <1>8, <2>1, <2>2, Zenon DEF ListedOnce
<1>10. ASSUME NEW i \in DOMAIN m
       PROVE  EntrySeen(m[i], q.scope, s7) /\ StarSeen(m[i], s7)
  <2>1. EntrySeen(m[i], q.scope, s7)
    BY <1>3, Zenon DEF EntriesFit
  <2>2. StarSeen(q.list[i], s7)
    BY <1>2, <1>3, <1>8
  <2>3. m[i].token = q.list[i].token /\ m[i].star = q.list[i].star
    BY <1>3, Zenon DEF Redrawn
  <2> QED
    BY <2>1, <2>2, <2>3, Zenon DEF StarSeen
<1>11. EntriesSeen(x, s7)
  BY <1>4, <1>9, <1>10, Zenon DEF EntriesSeen
<1>12. ~HasRows(x) /\ ~HasStars(x) /\ ~HasMeta(x)
  BY <1>4 DEF HasRows, HasStars, HasMeta
<1>13. LookupSeen(x, s7)
  BY <1>7, <1>11, <1>12, Zenon DEF LookupSeen, RowsSeen, StarsSeen, MetaSeen
<1>14. Listing!Goes(x)
  BY <1>1
<1> QED
  BY <1>4, <1>13, <1>14, GoesKeeps

Alike(e, d) == d \in Entry /\ d.token = e.token /\ d.seen = e.seen /\ d.star = e.star

(* An entry is told its groups, or its share, of now.                      *)
LEMMA GroupsFit ==
  ASSUME ListInv, NEW e \in Entry, NEW scope, EntrySeen(e, scope, s7), NEW g \in SUBSET Divisions,
         g \subseteq s3.groups[e.token], scope # {} => g \subseteq Listing!The(scope), NEW d,
         d = [e EXCEPT !.groups = g]
  PROVE  Alike(e, d) /\ EntrySeen(d, scope, s7)
<1>1. /\ d \in Entry /\ d.token = e.token /\ d.seen = e.seen /\ d.plate = e.plate /\ d.groups = g
      /\ d.share = e.share
  BY DEF Entry
<1>2. d.pending = e.pending /\ d.star = e.star
  BY DEF Entry
<1>3. GroupsWere(s7, d.token, g)
  <2>1. e.token \in Cars
    BY DEF Entry
  <2> QED
    BY <1>1, <2>1, GroupsNow DEF ListInv
<1> QED
  BY <1>1, <1>2, <1>3, Zenon DEF EntrySeen, Alike

LEMMA ShareFits ==
  ASSUME ListInv, NEW e \in Entry, NEW scope, EntrySeen(e, scope, s7), NEW c \in Shares,
         c = "refused" => s3.consent = "refused", c = "can" => s3.consent = "allowed", NEW d,
         d = [e EXCEPT !.share = c]
  PROVE  Alike(e, d) /\ EntrySeen(d, scope, s7)
<1>1. /\ d \in Entry /\ d.token = e.token /\ d.seen = e.seen /\ d.plate = e.plate
      /\ d.groups = e.groups /\ d.share = c
  BY DEF Entry
<1>2. d.pending = e.pending /\ d.star = e.star
  BY DEF Entry
<1>3. ConsentWas(s7, d.token, s3.consent)
  <2>1. e.token \in Cars
    BY DEF Entry
  <2> QED
    BY <1>1, <2>1, ConsentNow DEF ListInv
<1> QED
  BY <1>1, <1>2, <1>3, Zenon DEF EntrySeen, Alike

LEMMA RequestList ==
  ASSUME ListInv, NEW q \in Lookup, q = s6, HasList(q)
  PROVE  /\ q.list \in Entries /\ Len(q.list) \in Nat /\ DOMAIN q.list = 1..Len(q.list)
         /\ \A i \in 1..Len(q.list) : q.list[i] \in Entry /\ EntrySeen(q.list[i], q.scope, s7)
<1>1. q.list \in Entries /\ Len(q.list) \in Nat /\ DOMAIN q.list = 1..Len(q.list)
  BY DEF Lookup, Entries
<1>2. \A i \in 1..Len(q.list) : q.list[i] \in Entry
  BY <1>1 DEF Entries
<1>3. \A i \in DOMAIN q.list : EntrySeen(q.list[i], q.scope, s7)
  BY Zenon DEF ListInv, LookupSeen, EntriesSeen
<1> QED
  BY <1>1, <1>2, <1>3

EachFits(l, m, scope) ==
  /\ l \in Entries /\ DOMAIN m = DOMAIN l /\ m = [i \in DOMAIN m |-> m[i]]
  /\ \A i \in DOMAIN l : Alike(l[i], m[i]) /\ EntrySeen(m[i], scope, s7)

LEMMA RedrawnIs ==
  ASSUME NEW l, NEW m, NEW scope, EachFits(l, m, scope)
  PROVE  Redrawn(l, m) /\ EntriesFit(m, scope)
<1>1. Len(l) \in Nat /\ DOMAIN l = 1..Len(l)
  BY DEF EachFits, Entries
<1>2. m \in [1..Len(l) -> Entry]
  BY <1>1 DEF EachFits, Alike
<1>3. m \in Entries /\ Len(m) = Len(l)
  BY <1>1, <1>2 DEF Entries
<1>4. Redrawn(l, m)
  BY <1>1, <1>3, Zenon DEF EachFits, Alike, Redrawn
<1>5. EntriesFit(m, scope)
  BY <1>1, <1>3, Zenon DEF EachFits, EntriesFit
<1> QED
  BY <1>4, <1>5

LEMMA EachKeeps ==
  ASSUME ListInv, Listing!Observe, NEW q \in Lookup, q = s6, HasList(q), NEW m,
         NEW a \in {"share", "done"},
         Listing!Goes([q EXCEPT !.at = a, !.list = m]), EachFits(q.list, m, q.scope)
  PROVE  ListInv'
<1>1. PICK l, scope : l = q.list /\ scope = q.scope
  OBVIOUS
<1>2. Redrawn(l, m) /\ EntriesFit(m, scope)
  BY <1>1, RedrawnIs
<1> QED
  BY <1>1, <1>2, RedrawnKeeps

LEMMA SameKeeps ==
  ASSUME ListInv, Listing!Observe, NEW q \in Lookup, q = s6, HasList(q),
         NEW a \in {"share", "done"}, Listing!Goes([q EXCEPT !.at = a])
  PROVE  ListInv'
<1>1. [q EXCEPT !.at = a] = [q EXCEPT !.at = a, !.list = q.list]
  BY DEF Lookup
<1>2. PICK m : m = q.list
  OBVIOUS
<1>3. Listing!Goes([q EXCEPT !.at = a, !.list = m])
  BY <1>1, <1>2
<1>4. EachFits(q.list, m, q.scope)
  <2>1. m = [i \in DOMAIN m |-> m[i]]
    BY <1>2, RequestList DEF Entries
  <2> QED
    BY <1>2, <2>1, RequestList, Zenon DEF EachFits, Alike
<1> QED
  BY <1>3, <1>4, EachKeeps

LEMMA AttachGroupsKeeps ==
  ASSUME ListInv, Listing!Observe, Listing!AttachGroups
  PROVE  ListInv'
<1>1. PICK q \in Lookup : q = s6
  BY RequestNow
<1>2. PICK a \in {"share", "done"} : a = IF q.one = {} THEN "share" ELSE "done"
  OBVIOUS
<1>3. PICK m : m = [i \in DOMAIN q.list |->
                      [q.list[i] EXCEPT !.groups = Listing!scopeGroupRefs(s3.groups[q.list[i].token])]]
  OBVIOUS
<1>4. q.at = "groups"
  BY <1>1 DEF Listing!AttachGroups
<1>5. \/ Listing!Goes([q EXCEPT !.at = a])
      \/ Listing!Goes([q EXCEPT !.at = a, !.list = m])
  BY <1>1, <1>2, <1>3 DEF Listing!AttachGroups
<1>6. HasList(q)
  BY <1>4 DEF HasList
<1>7. CASE Listing!Goes([q EXCEPT !.at = a])
  BY <1>1, <1>6, <1>7, SameKeeps
<1>8. CASE Listing!Goes([q EXCEPT !.at = a, !.list = m])
  <2>1. ASSUME NEW i \in DOMAIN q.list
        PROVE  Alike(q.list[i], m[i]) /\ EntrySeen(m[i], q.scope, s7)
    <3>1. PICK e, scope : e = q.list[i] /\ scope = q.scope
      OBVIOUS
    <3>2. PICK g : g = Listing!scopeGroupRefs(s3.groups[e.token])
      OBVIOUS
    <3>3. e \in Entry /\ EntrySeen(e, scope, s7)
      BY <1>1, <1>6, <3>1, RequestList
    <3>4. e.token \in Cars
      BY <3>3 DEF Entry
    <3>5. s3.groups[e.token] \in SUBSET Divisions
      BY <3>4 DEF ListInv, ListTypes, Tenancies
    <3>6. /\ g \in SUBSET Divisions /\ g \subseteq s3.groups[e.token]
          /\ scope # {} => g \subseteq Listing!The(scope)
      BY <1>1, <3>1, <3>2, <3>5 DEF Listing!scopeGroupRefs
    <3>7. PICK d : d = [e EXCEPT !.groups = g]
      OBVIOUS
    <3>8. m[i] = d
      BY <1>3, <3>1, <3>2, <3>7
    <3>9. Alike(e, d) /\ EntrySeen(d, scope, s7)
      BY <3>3, <3>6, <3>7, GroupsFit
    <3> QED
      BY <3>1, <3>8, <3>9
  <2>2. EachFits(q.list, m, q.scope)
    <3>1. DOMAIN m = DOMAIN q.list /\ m = [i \in DOMAIN m |-> m[i]] /\ q.list \in Entries
      BY <1>1, <1>3, <1>6, RequestList
    <3> QED
      BY <2>1, <3>1, Zenon DEF EachFits
  <2> QED
    BY <1>1, <1>6, <1>8, <2>2, EachKeeps
<1> QED
  BY <1>5, <1>7, <1>8

LEMMA AnnotateCanShareKeeps ==
  ASSUME ListInv, Listing!Observe, Listing!AnnotateCanShare
  PROVE  ListInv'
<1>1. PICK q \in Lookup : q = s6
  BY RequestNow
<1>2. q.at = "share" /\ HasList(q)
  BY <1>1 DEF Listing!AnnotateCanShare, HasList
<1>3. PICK m : m = [i \in DOMAIN q.list |->
                      [q.list[i] EXCEPT !.share = IF ~q.list[i].pending THEN Listing!Verdict(s3.consent)
                                                 ELSE "no-owner"]]
  OBVIOUS
<1>4. PICK n : n = [i \in DOMAIN q.list |-> [q.list[i] EXCEPT !.share = "unknown"]]
  OBVIOUS
<1>5. \/ Listing!Goes([q EXCEPT !.at = "done"])
      \/ Listing!Goes([q EXCEPT !.at = "done", !.list = m])
      \/ Listing!Goes([q EXCEPT !.at = "done", !.list = n])
  BY <1>1, <1>3, <1>4 DEF Listing!AnnotateCanShare
<1>6. ASSUME NEW c \in Shares, NEW i \in DOMAIN q.list, NEW d, d = [q.list[i] EXCEPT !.share = c],
             c = "refused" => s3.consent = "refused", c = "can" => s3.consent = "allowed"
      PROVE  Alike(q.list[i], d) /\ EntrySeen(d, q.scope, s7)
  <2>1. PICK e, scope : e = q.list[i] /\ scope = q.scope
    OBVIOUS
  <2>2. e \in Entry /\ EntrySeen(e, scope, s7)
    BY <1>1, <1>2, <2>1, RequestList
  <2>3. Alike(e, d) /\ EntrySeen(d, scope, s7)
    BY <1>6, <2>1, <2>2, ShareFits
  <2> QED
    BY <2>1, <2>3
<1>7. CASE Listing!Goes([q EXCEPT !.at = "done"])
  BY <1>1, <1>2, <1>7, SameKeeps
<1>8. CASE Listing!Goes([q EXCEPT !.at = "done", !.list = m])
  <2>1. ASSUME NEW i \in DOMAIN q.list
        PROVE  Alike(q.list[i], m[i]) /\ EntrySeen(m[i], q.scope, s7)
    <3>1. PICK c : c = IF ~q.list[i].pending THEN Listing!Verdict(s3.consent) ELSE "no-owner"
      OBVIOUS
    <3>2. c \in Shares /\ (c = "refused" => s3.consent = "refused") /\ (c = "can" => s3.consent = "allowed")
      <4>1. s3.consent \in Consents
        BY DEF ListInv, ListTypes, Tenancies
      <4> QED
        BY <3>1, <4>1 DEF Consents, Shares, Listing!Verdict
    <3>3. m[i] = [q.list[i] EXCEPT !.share = c]
      BY <1>3, <3>1
    <3> QED
      BY <1>6, <3>2, <3>3
  <2>2. EachFits(q.list, m, q.scope)
    <3>1. DOMAIN m = DOMAIN q.list /\ m = [i \in DOMAIN m |-> m[i]] /\ q.list \in Entries
      BY <1>1, <1>2, <1>3, RequestList
    <3> QED
      BY <2>1, <3>1, Zenon DEF EachFits
  <2> QED
    BY <1>1, <1>2, <1>8, <2>2, EachKeeps
<1>9. CASE Listing!Goes([q EXCEPT !.at = "done", !.list = n])
  <2>1. ASSUME NEW i \in DOMAIN q.list
        PROVE  Alike(q.list[i], n[i]) /\ EntrySeen(n[i], q.scope, s7)
    <3>1. "unknown" \in Shares
      BY DEF Shares
    <3>2. n[i] = [q.list[i] EXCEPT !.share = "unknown"]
      BY <1>4
    <3> QED
      BY <1>6, <3>1, <3>2
  <2>2. EachFits(q.list, n, q.scope)
    <3>1. DOMAIN n = DOMAIN q.list /\ n = [i \in DOMAIN n |-> n[i]] /\ q.list \in Entries
      BY <1>1, <1>2, <1>4, RequestList
    <3> QED
      BY <2>1, <3>1, Zenon DEF EachFits
  <2> QED
    BY <1>1, <1>2, <1>9, <2>2, EachKeeps
<1> QED
  BY <1>5, <1>7, <1>8, <1>9

-----------------------------------------------------------------------------
(* What changes meanwhile.                                                 *)
Turning == ListInv /\ Listing!Observe /\ Listing!Turn

LEMMA TurningKeeps ==
  ASSUME Turning, s3' \in Tenancies, s4' \in [Cars -> TableOf]
  PROVE  ListInv'
<1>1. s8' \in 0..MaxListTurns
  BY CarsAssumption DEF Turning, ListInv, ListTypes, Listing!Turn
<1>2. Steady /\ s5' = s5 /\ s6' = s6
  BY DEF Turning, Listing!Turn, Steady
<1>3. s5' \in [Cars -> KeptRows] /\ ListInv /\ Listing!Observe
  BY <1>2 DEF Turning, ListInv, ListTypes
<1>4. Answerable
  BY <1>1, <1>2, <1>3, Zenon DEF Answerable
<1> QED
  BY <1>2, <1>4, WaitKeeps

LEMMA StarChanges ==
  ASSUME ListInv, NEW v \in Cars
  PROVE  /\ [s4 EXCEPT ![v].star = TRUE] \in [Cars -> TableOf]
         /\ [s4 EXCEPT ![v].star = FALSE] \in [Cars -> TableOf]
<1>1. PICK t \in [Cars -> TableOf] : t = s4
  BY DEF ListInv, ListTypes
<1>2. t[v] \in TableOf
  OBVIOUS
<1>3. [t[v] EXCEPT !.star = TRUE] \in TableOf /\ [t[v] EXCEPT !.star = FALSE] \in TableOf
  BY <1>2 DEF TableOf
<1>4. /\ [t EXCEPT ![v] = [t[v] EXCEPT !.star = TRUE]] \in [Cars -> TableOf]
      /\ [t EXCEPT ![v] = [t[v] EXCEPT !.star = FALSE]] \in [Cars -> TableOf]
  BY <1>3
<1> QED
  BY <1>1, <1>4

LEMMA FavoritesKeep ==
  ASSUME ListInv, Listing!Observe, NEW v \in Cars, Listing!AddFavorite(v) \/ Listing!RemoveFavorite(v)
  PROVE  ListInv'
<1>1. Turning /\ s3' = s3
  BY DEF Listing!AddFavorite, Listing!RemoveFavorite, Turning
<1>2. s4' \in [Cars -> TableOf]
  BY StarChanges DEF Listing!AddFavorite, Listing!RemoveFavorite, Listing!UpsertFavorite,
    Listing!DeleteFavorites
<1>3. s3' \in Tenancies
  BY <1>1 DEF ListInv, ListTypes
<1> QED
  BY <1>1, <1>2, <1>3, TurningKeeps

LEMMA RowChangesKeeps ==
  ASSUME ListInv, Listing!Observe, NEW v \in Cars, Listing!RowChanges(v)
  PROVE  ListInv'
<1>1. Turning /\ s3' = s3
  BY DEF Listing!RowChanges, Turning
<1>2. \E row \in OneRow : s4' = [s4 EXCEPT ![v].row = row]
  <2>1. s8 \in Nat
    BY CarsAssumption DEF ListInv, ListTypes
  <2>2. {} \in Plates /\ {"local"} \in Plates /\ {} \in SeenAt /\ {s8} \in SeenAt
    BY <2>1 DEF Plates, SeenAt
  <2>3. /\ [plate |-> {}, seen |-> {}] \in TableRow /\ [plate |-> {"local"}, seen |-> {}] \in TableRow
        /\ [plate |-> {"local"}, seen |-> {s8}] \in TableRow
    BY <2>2 DEF TableRow
  <2>4. {{}, {[plate |-> {}, seen |-> {}]}, {[plate |-> {"local"}, seen |-> {}]},
         {[plate |-> {"local"}, seen |-> {s8}]}} \subseteq OneRow
    BY <2>3 DEF OneRow
  <2> QED
    BY <2>4 DEF Listing!RowChanges
<1>3. PICK row \in OneRow : s4' = [s4 EXCEPT ![v].row = row]
  BY <1>2
<1>4. PICK t \in [Cars -> TableOf] : t = s4
  BY DEF ListInv, ListTypes
<1>5. [t[v] EXCEPT !.row = row] \in TableOf
  <2>1. t[v] \in TableOf
    OBVIOUS
  <2> QED
    BY <2>1 DEF TableOf
<1>6. s4' \in [Cars -> TableOf]
  <2>1. s4' = [t EXCEPT ![v] = [t[v] EXCEPT !.row = row]]
    BY <1>3, <1>4
  <2> QED
    BY <1>5, <2>1
<1>7. s3' \in Tenancies
  BY <1>1 DEF ListInv, ListTypes
<1> QED
  BY <1>1, <1>6, <1>7, TurningKeeps

LEMMA TenancyChangesKeeps ==
  ASSUME ListInv, Listing!Observe, NEW v \in Cars, Listing!TenancyChanges(v)
  PROVE  ListInv'
<1>1. Turning /\ s4' = s4
  BY DEF Listing!TenancyChanges, Turning
<1>2. PICK t \in Tenancies : t = s3
  BY DEF ListInv, ListTypes
<1>3. \/ s3' = [t EXCEPT !.entitled = IF v \in @ THEN @ \ {v} ELSE @ \union {v}]
      \/ \E plate \in {{}, {"fed"}} : s3' = [t EXCEPT !.roster[v] = {[plate |-> plate]}]
      \/ \E g \in {{}, Divisions} : s3' = [t EXCEPT !.groups[v] = g]
      \/ \E c \in Consents : s3' = [t EXCEPT !.consent = c]
  BY <1>2 DEF Listing!TenancyChanges, Consents
<1>4. /\ t.entitled \in SUBSET Cars /\ t.roster \in [Cars -> OneRoster]
      /\ t.groups \in [Cars -> SUBSET Divisions] /\ t.consent \in Consents
  BY DEF Tenancies
<1>5. ASSUME s3' = [t EXCEPT !.entitled = IF v \in @ THEN @ \ {v} ELSE @ \union {v}]
      PROVE  s3' \in Tenancies
  <2>1. PICK e \in SUBSET Cars : e = IF v \in t.entitled THEN t.entitled \ {v} ELSE t.entitled \union {v}
    BY <1>4
  <2>2. s3' = [t EXCEPT !.entitled = e]
    BY <1>5, <2>1 DEF Tenancies
  <2>3. PICK x : x = [t EXCEPT !.entitled = e]
    OBVIOUS
  <2>4. x \in Tenancies
    BY <1>4, <2>3 DEF Tenancies
  <2> QED
    BY <2>2, <2>3, <2>4
<1>6. ASSUME NEW plate \in {{}, {"fed"}}, s3' = [t EXCEPT !.roster[v] = {[plate |-> plate]}]
      PROVE  s3' \in Tenancies
  <2>1. {[plate |-> plate]} \in OneRoster
    BY DEF OneRoster, RosterRow, Plates
  <2>2. PICK r \in OneRoster : r = {[plate |-> plate]}
    BY <2>1
  <2>3. PICK f : f = [t.roster EXCEPT ![v] = r]
    OBVIOUS
  <2>4. f \in [Cars -> OneRoster]
    BY <1>4, <2>3
  <2>5. s3' = [t EXCEPT !.roster = f]
    BY <1>6, <2>2, <2>3 DEF Tenancies
  <2> QED
    BY <2>4, <2>5 DEF Tenancies
<1>7. ASSUME NEW g \in {{}, Divisions}, s3' = [t EXCEPT !.groups[v] = g]
      PROVE  s3' \in Tenancies
  <2>1. PICK f : f = [t.groups EXCEPT ![v] = g]
    OBVIOUS
  <2>2. f \in [Cars -> SUBSET Divisions]
    BY <1>4, <2>1
  <2>3. s3' = [t EXCEPT !.groups = f]
    BY <1>7, <2>1 DEF Tenancies
  <2> QED
    BY <2>2, <2>3 DEF Tenancies
<1>8. ASSUME NEW c \in Consents, s3' = [t EXCEPT !.consent = c]
      PROVE  s3' \in Tenancies
  BY <1>8 DEF Tenancies
<1>9. s3' \in Tenancies
  BY <1>3, <1>5, <1>6, <1>7, <1>8, Zenon
<1>10. s4' \in [Cars -> TableOf]
  BY <1>1 DEF ListInv, ListTypes
<1> QED
  BY <1>1, <1>9, <1>10, TurningKeeps

LEMMA MetadataExpiresKeeps ==
  ASSUME ListInv, Listing!Observe, NEW v \in Cars, Listing!MetadataExpires(v)
  PROVE  ListInv'
<1>1. Steady /\ s3' = s3 /\ s4' = s4 /\ s6' = s6 /\ s8' = s8
  BY DEF Listing!MetadataExpires, Steady
<1>2. s5' \in [Cars -> KeptRows]
  <2>1. {} \in KeptRows
    BY DEF KeptRows
  <2> QED
    BY <2>1 DEF Listing!MetadataExpires, ListInv, ListTypes
<1>3. Answerable
  BY <1>1, <1>2, Zenon DEF Answerable, ListInv, ListTypes
<1> QED
  BY <1>1, <1>3, WaitKeeps

-----------------------------------------------------------------------------
LEMMA ListStart ==
  ASSUME Listing!Init
  PROVE  ListInv
<1>1. EmptySeen(Listing!NoRequest)
  BY NoRequestIs
<1>2. s6 = Listing!NoRequest /\ s8 = 0 /\ s1 \in BOOLEAN /\ s2 \in BOOLEAN
  BY DEF Listing!Init
<1>3. {} \in OneRoster /\ {} \in OneRow /\ {} \in KeptRows
  BY DEF OneRoster, OneRow, KeptRows
<1>4. s3 \in Tenancies
  BY <1>3 DEF Listing!Init, Tenancies, Consents
<1>5. s4 \in [Cars -> TableOf]
  <2>1. [row |-> {}, star |-> FALSE] \in TableOf
    BY <1>3 DEF TableOf
  <2> QED
    BY <2>1 DEF Listing!Init
<1>6. s5 \in [Cars -> KeptRows]
  BY <1>3 DEF Listing!Init
<1>7. \A v \in Cars : Listing!Fact(v) \in s7[v]
  BY DEF Listing!Init
<1>8. 0 \in 0..MaxListTurns
  BY CarsAssumption
<1>9. s6 \in Lookup /\ LookupSeen(s6, s7)
  <2>1. PICK q, S : q = Listing!NoRequest /\ S = s7
    OBVIOUS
  <2>2. q \in Lookup /\ LookupSeen(q, S)
    BY <1>1, <2>1, EmptyIsSeen
  <2> QED
    BY <1>2, <2>1, <2>2
<1>10. ListTypes
  BY <1>2, <1>4, <1>5, <1>6, <1>8, <1>9, Zenon DEF ListTypes
<1> QED
  BY <1>7, <1>9, <1>10 DEF ListInv

LEMMA ListWaits ==
  ASSUME ListInv, UNCHANGED <<s1, s2, s3, s4, s5, s6, s7, s8>>
  PROVE  ListInv'
<1>1. PICK q, S : q = s6 /\ S = s7
  OBVIOUS
<1>2. LookupSeen(q, S) /\ s6' = q /\ s7' = S /\ Steady
  BY <1>1 DEF ListInv, Steady
<1>3. LookupSeen(s6, s7)'
  BY <1>2, SeenPrimed
<1>4. ListTypes'
  BY DEF ListInv, ListTypes
<1>5. (\A v \in Cars : Listing!Fact(v) \in s7[v])'
  BY DEF ListInv, Listing!Fact
<1> QED
  BY <1>3, <1>4, <1>5 DEF ListInv

LEMMA ListStep ==
  ASSUME ListInv, Listing!Next \/ UNCHANGED <<s1, s2, s3, s4, s5, s6, s7, s8>>
  PROVE  ListInv'
<1>1. CASE UNCHANGED <<s1, s2, s3, s4, s5, s6, s7, s8>>
  BY <1>1, ListWaits
<1>2. CASE Listing!Next
  <2>1. Listing!Observe
    BY <1>2 DEF Listing!Next
  <2>2. ASSUME NEW scope \in {{}} \union { {a} : a \in (SUBSET Divisions) \ {Divisions} },
               NEW one \in {{}} \union { {v} : v \in Cars }, Listing!Begin(scope, one)
        PROVE  ListInv'
    <3>1. scope \in Limits /\ one \in Ones
      BY DEF Limits, Ones
    <3> QED
      BY <2>1, <2>2, <3>1, BeginListKeeps
  <2>3. CASE Listing!ResolveSet
    BY <2>1, <2>3, ResolveSetKeeps
  <2>4. CASE Listing!LoadRows
    BY <2>1, <2>4, LoadRowsKeeps
  <2>5. CASE Listing!favoriteSet
    BY <2>1, <2>5, favoriteSetKeeps
  <2>6. CASE Listing!rosterMetadata
    BY <2>1, <2>6, rosterMetadataKeeps
  <2>7. CASE Listing!Merge
    BY <2>1, <2>7, MergeKeeps
  <2>8. CASE Listing!AttachGroups
    BY <2>1, <2>8, AttachGroupsKeeps
  <2>9. CASE Listing!AnnotateCanShare
    BY <2>1, <2>9, AnnotateCanShareKeeps
  <2>10. CASE Listing!Fails
    BY <2>1, <2>10, FailsKeeps
  <2>11. ASSUME NEW v \in Cars, Listing!AddFavorite(v) \/ Listing!RemoveFavorite(v)
         PROVE  ListInv'
    BY <2>1, <2>11, FavoritesKeep
  <2>12. ASSUME NEW v \in Cars, Listing!RowChanges(v)
         PROVE  ListInv'
    BY <2>1, <2>12, RowChangesKeeps
  <2>13. ASSUME NEW v \in Cars, Listing!TenancyChanges(v)
         PROVE  ListInv'
    BY <2>1, <2>13, TenancyChangesKeeps
  <2>14. ASSUME NEW v \in Cars, Listing!MetadataExpires(v)
         PROVE  ListInv'
    BY <2>1, <2>14, MetadataExpiresKeeps
  <2> QED
    BY <1>2, <2>2, <2>3, <2>4, <2>5, <2>6, <2>7, <2>8, <2>9, <2>10, <2>11, <2>12, <2>13, <2>14
    DEF Listing!Next, Listing!Act
<1> QED
  BY <1>1, <1>2

LEMMA ListShow ==
  ASSUME ListInv
  PROVE  Listing!TypeOK /\ Listing!ListIsComplete
<1>1. PICK q \in Lookup : q = s6 /\ LookupSeen(q, s7)
  BY RequestNow
<1>2. Listing!TypeOK
  <2>1. s3.entitled \subseteq Cars
    BY DEF ListInv, ListTypes, Tenancies
  <2>2. s8 \in 0..MaxListTurns
    BY DEF ListInv, ListTypes
  <2>3. q.at \in ListStages /\ q.tokens \subseteq Cars /\ q.stars \subseteq Cars
    BY DEF Lookup
  <2>4. ASSUME NEW v \in Cars
        PROVE  Listing!Cardinality(s5[v]) <= 1
    <3>1. s5[v] \in KeptRows
      BY DEF ListInv, ListTypes
    <3>2. s5[v] = {} \/ \E m : s5[v] = {m}
      BY <3>1 DEF KeptRows
    <3>3. PICK c : c = s5[v]
      OBVIOUS
    <3>4. Cardinality(c) = 0 \/ Cardinality(c) = 1
      BY <3>2, <3>3, FS_EmptySet, FS_Singleton
    <3> QED
      BY <3>3, <3>4, ListingCardinality
  <2> QED
    BY <1>1, <2>1, <2>2, <2>3, <2>4 DEF Listing!TypeOK, ListStages
<1>3. Listing!ListIsComplete
  <2>1. SUFFICES ASSUME s6.at = "done"
                 PROVE  Listing!ListIsComplete
    BY Zenon DEF Listing!ListIsComplete
  <2>2. ListedOnce(s6.list, s6.tokens) /\ \A i \in DOMAIN s6.list : EntrySeen(s6.list[i], s6.scope, s7)
                                                       /\ StarSeen(s6.list[i], s7)
    BY <2>1 DEF ListInv, LookupSeen, EntriesSeen, HasList
  <2>3. ASSUME NEW i \in DOMAIN s6.list
        PROVE  LET e == s6.list[i]
               IN  /\ \E f \in s7[e.token] : f.mine
                   /\ e.pending => \E f \in s7[e.token] : ~f.known
                   /\ e.plate = {} => \E f \in s7[e.token] : f.plate = {}
                   /\ \E f \in s7[e.token] : f.star = e.star
                   /\ e.groups # {} => \E f \in s7[e.token] : e.groups \subseteq f.groups
                   /\ s6.scope # {} => e.groups \subseteq Listing!The(s6.scope)
                   /\ e.share = "refused" => \E f \in s7[e.token] : f.consent = "refused"
                   /\ e.share = "can" => \E f \in s7[e.token] : f.consent = "allowed"
    <3>1. EntrySeen(s6.list[i], s6.scope, s7) /\ StarSeen(s6.list[i], s7)
      BY <2>2
    <3> QED
      BY <3>1, Zenon DEF EntrySeen, StarSeen, WasMine, WasUnknown, PlateWas, GroupsWere, ConsentWas
  <2>4. Len(s6.list) = Listing!Cardinality(s6.tokens)
    BY <2>2, ListingCardinality DEF ListedOnce
  <2> QED
    BY <2>1, <2>2, <2>3, <2>4, Zenon DEF Listing!ListIsComplete, ListedOnce
<1> QED
  BY <1>2, <1>3

-----------------------------------------------------------------------------
(***************************************************************************)
(* The composition.  Its subject never changes, and a step of it is one of *)
(* the subject's part, or none at all.                                     *)
(***************************************************************************)
LEMMA SubjectStays ==
  ASSUME [SubjectNext]_allVars
  PROVE  subject' = subject
BY DEF SubjectNext, OfReach, OfList, OfScreens, OfDoors, OfReads, allVars

LEMMA PartSteps ==
  ASSUME [SubjectNext]_allVars
  PROVE  /\ subject = "list" => Listing!Next \/ UNCHANGED <<s1, s2, s3, s4, s5, s6, s7, s8>>
         /\ subject = "screens" => Screens!Next \/ UNCHANGED Screens!fenceVars
         /\ subject = "doors" => Doors!Next \/ UNCHANGED <<s1, s2, s3, s4, s5, s6, s7>>
         /\ subject = "reads" => Reads!Next \/ UNCHANGED <<s1, s2, s3, s4, s5>>
         /\ [Next]_vars
<1>1. CASE UNCHANGED allVars
  BY <1>1 DEF allVars, places, Screens!fenceVars
<1>2. CASE OfReach
  BY <1>2 DEF OfReach
<1>3. CASE OfList
  BY <1>3 DEF OfList
<1>4. CASE OfScreens
  BY <1>4 DEF OfScreens
<1>5. CASE OfDoors
  BY <1>5 DEF OfDoors
<1>6. CASE OfReads
  BY <1>6 DEF OfReads
<1> QED
  BY <1>1, <1>2, <1>3, <1>4, <1>5, <1>6 DEF SubjectNext

(* What the state of each part keeps, while it is the subject.             *)
PartsInv ==
  /\ IInv
  /\ subject \in {"reach", "list", "screens", "doors", "reads"}
  /\ subject = "list" => ListInv
  /\ subject = "screens" => ScreensInv
  /\ subject = "doors" => DoorsInv
  /\ subject = "reads" => ReadsInv

LEMMA PartsStart == SubjectInit => Init /\ PartsInv
<1> SUFFICES ASSUME SubjectInit PROVE Init /\ PartsInv
  OBVIOUS
<1>1. Init
  BY DEF SubjectInit
<1>2. IInv
  BY <1>1, InitEstablishes
<1>3. CASE subject = "reach"
  BY <1>1, <1>2, <1>3 DEF PartsInv
<1>4. CASE subject = "list" /\ Listing!Init
  BY <1>1, <1>2, <1>4, ListStart DEF PartsInv
<1>5. CASE subject = "screens" /\ Screens!Init
  BY <1>1, <1>2, <1>5, ScreensStart DEF PartsInv
<1>6. CASE subject = "doors" /\ Doors!Init
  BY <1>1, <1>2, <1>6, DoorsStart DEF PartsInv
<1>7. CASE subject = "reads" /\ Reads!Init
  BY <1>1, <1>2, <1>7, ReadsStart DEF PartsInv
<1> QED
  BY <1>1, <1>3, <1>4, <1>5, <1>6, <1>7 DEF SubjectInit

LEMMA PartsStep == PartsInv /\ [SubjectNext]_allVars => [Next]_vars /\ PartsInv'
<1> SUFFICES ASSUME PartsInv, [SubjectNext]_allVars PROVE [Next]_vars /\ PartsInv'
  OBVIOUS
<1>1. subject' = subject /\ [Next]_vars
  BY SubjectStays, PartSteps
<1>2. IInv'
  BY <1>1, NextPreserves DEF PartsInv
<1>3. subject = "list" => ListInv'
  BY PartSteps, ListStep DEF PartsInv
<1>4. subject = "screens" => ScreensInv'
  BY PartSteps, ScreensStep DEF PartsInv
<1>5. subject = "doors" => DoorsInv'
  BY PartSteps, DoorsStep DEF PartsInv
<1>6. subject = "reads" => ReadsInv'
  BY PartSteps, ReadsStep DEF PartsInv
<1> QED
  BY <1>1, <1>2, <1>3, <1>4, <1>5, <1>6 DEF PartsInv

LEMMA AlwaysParts == SubjectSpec => []PartsInv
<1> QED
  BY PartsStart, PartsStep, PTL DEF SubjectSpec

(* The values of every part stay within the types its module states.       *)
THEOREM TypesCorrect ==
  ASSUME MaxChanges \in Nat
  PROVE  SubjectSpec => []TypesOK
<1>1. PartsInv /\ Counted => TypesOK
  <2> SUFFICES ASSUME PartsInv, Counted PROVE TypesOK
    OBVIOUS
  <2>1. subject = "reach" => TypeOK
    BY CountedIsTyped DEF PartsInv
  <2>2. subject = "list" => Listing!TypeOK
    BY ListShow DEF PartsInv
  <2>3. subject = "screens" => Screens!TypeOK
    BY ScreensShow DEF PartsInv
  <2>4. subject = "doors" => Doors!TypeOK
    BY DoorsShow DEF PartsInv
  <2>5. subject = "reads" => Reads!TypeOK
    BY ReadsTell DEF PartsInv
  <2> QED
    BY <2>1, <2>2, <2>3, <2>4, <2>5 DEF PartsInv, TypesOK
<1>2. PartsInv /\ Counted /\ [SubjectNext]_allVars => Counted'
  BY PartsStep, CountedPreserved DEF PartsInv
<1> QED
  BY <1>1, <1>2, PartsStart, CountedAtFirst, AlwaysParts, PTL DEF SubjectSpec

(* What a page, a screen, a list or a door says was so at some time since  *)
(* it was asked, and says enough, for every number of vehicles, members,   *)
(* geofences and days, however the stores change between the reads a reply *)
(* is joined from, and whichever of them fail (vehicle.go, geofence.go,    *)
(* membership.go, tenant.go, telemetry.go).                                *)
THEOREM RepliesAreTrue == SubjectSpec => []RepliesHold
<1>1. PartsInv => RepliesHold
  <2> SUFFICES ASSUME PartsInv PROVE RepliesHold
    OBVIOUS
  <2>1. subject = "list" => Listing!ListIsComplete
    BY ListShow DEF PartsInv
  <2>2. subject = "screens" => Screens!ShownWithinReach
    BY ScreensShow DEF PartsInv
  <2>3. subject = "doors" => Doors!DoorsHold /\ Doors!MembersAsStored /\ Doors!StampsUndoNothing
    BY DoorsShow DEF PartsInv
  <2>4. subject = "reads" => Reads!ReadsHold
    BY ReadsTell DEF PartsInv
  <2> QED
    BY <2>1, <2>2, <2>3, <2>4 DEF RepliesHold
<1> QED
  BY <1>1, AlwaysParts, PTL

(* Of the composition: lists and writes go by recent rights.               *)
THEOREM RightsStayRecent == SubjectSpec => []RevocationTakesEffect
<1> QED
  BY AlwaysParts, RightsNow, PTL DEF PartsInv

(* Of the composition: a request is served what was written before it.     *)
THEOREM WritesStayShown == SubjectSpec => []OwnWritesShow
<1> QED
  BY AlwaysParts, WritesNow, PTL DEF PartsInv
=============================================================================

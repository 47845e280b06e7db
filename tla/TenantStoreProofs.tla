------------------------- MODULE TenantStoreProofs -------------------------
(***************************************************************************)
(* Proofs about TenantStore, for any number of replicas, overlapping       *)
(* requests, licenses and updates.  The inductive invariant says of every  *)
(* request under way what the record in the tenancy service holds by then  *)
(* (a request past its creation or its put), and how old what it read of   *)
(* the row can be (a lookup that will fill the cache).                     *)
(***************************************************************************)
EXTENDS TenantStore, TLAPS

Halves  == [client : {0} \union Licenses, key : {0} \union Licenses]
Row     == [is : BOOLEAN, pair : Halves, n : Nat, partial : BOOLEAN]
Steps   == {"idle", "find", "detail", "mirror", "fill", "remote", "insert", "created", "put", "read",
            "write", "drop", "missing"}
Request == [at : Steps, op : {"none", "open", "update", "create", "load"},
            on : Servers \union {"none"},
            client : Optional({0} \union Licenses), key : Optional(Licenses),
            got : Row, raced : BOOLEAN]

Shapes ==
  /\ remote \in [is : BOOLEAN, pair : Halves, seen : SUBSET Halves]
  /\ tenant \in Row
  /\ copy \in [Servers -> [is : BOOLEAN, pair : Halves, n : Nat, raced : BOOLEAN]]
  /\ job \in [Jobs -> Request]
  /\ told \in BOOLEAN /\ due \in [Servers -> Nat]

(* No row, no updates and no license; and nobody knows of more updates than there were. *)
Counts ==
  /\ ~tenant.is => tenant.n = 0 /\ tenant.pair = NoPair
  /\ \A p \in Servers : due[p] <= tenant.n /\ copy[p].n <= tenant.n

ToldIsThere == told => remote.is

(* The pair of a request that has both halves. *)
Both(q) == q.client # {} /\ q.key # {}
Pair(q) == [client |-> CHOOSE c \in q.client : TRUE, key |-> CHOOSE k \in q.key : TRUE]

(* What is known of a request from where it is. *)
Fits(q) ==
  /\ q.got.n <= tenant.n
  /\ q.at \notin {"idle", "missing"} => q.on \in Servers
  /\ q.op = "load" \/ q.at \in {"insert", "created"} => remote.is
  /\ q.at \in {"remote", "insert"} => Both(q)
  /\ q.at \in {"insert", "read", "write"} /\ Both(q) => Pair(q) \in remote.seen
  /\ q.at \in {"detail", "mirror"} /\ ~q.raced => due[q.on] = 0
  /\ q.at = "fill" /\ ~q.raced => q.got.n >= due[q.on]

IInv ==
  /\ Shapes /\ Counts /\ ToldIsThere
  /\ \A j \in Jobs : Fits(job[j])
  /\ NoUnseenLicense /\ UpdatesShow

-----------------------------------------------------------------------------
(* Operators *)

LEMMA OptionalIs ==
  ASSUME NEW S
  PROVE  /\ {} \in Optional(S) /\ \A x \in S : {x} \in Optional(S)
         /\ \A half \in Optional(S) : half \subseteq S /\ \A x \in half : half = {x}
BY DEF Optional

LEMMA Values ==
  /\ NoPair \in Halves /\ NoRow \in Row /\ Idle \in Request
  /\ NoRow.n = 0 /\ NoRow.pair = NoPair /\ ~NoRow.is /\ ~NoRow.partial /\ Idle.got.n = 0 /\ Idle.at = "idle" /\ Idle.op = "none"
  /\ NoCopy \in [is : BOOLEAN, pair : Halves, n : Nat, raced : BOOLEAN] /\ ~NoCopy.is /\ NoCopy.n = 0
BY OptionalIs DEF NoPair, NoRow, NoCopy, Idle, Halves, Row, Request, Steps

LEMMA CarriedIs ==
  ASSUME Shapes, NEW j \in Jobs, NEW pair \in Halves
  PROVE  /\ Carried(j, pair) \in Halves
         /\ Both(job[j]) => Carried(j, pair) = Pair(job[j])
         /\ Full(j) <=> Both(job[j])
<1>1. job[j].client \subseteq {0} \union Licenses /\ job[j].key \subseteq {0} \union Licenses
  BY OptionalIs DEF Shapes, Request
<1>2. job[j].client # {} => (CHOOSE c \in job[j].client : TRUE) \in job[j].client
  OBVIOUS
<1>3. job[j].key # {} => (CHOOSE k \in job[j].key : TRUE) \in job[j].key
  OBVIOUS
<1>. QED
  BY <1>1, <1>2, <1>3 DEF Carried, Halves, Pair, Both, Full

(* Once the tenant is loaded, or is not, a request is where it may be. *)
LEMMA LoadedFits ==
  ASSUME Shapes, NEW q \in Request, q.got.n <= tenant.n, q.on \in Servers, q.op = "load" => remote.is,
         NEW answer, answer \in Request /\ Fits(answer)
  PROVE  /\ \A found : WithTenant(q, found) \in Request /\ Fits(WithTenant(q, found))
         /\ WithoutTenant(q, answer) \in Request /\ Fits(WithoutTenant(q, answer))
<1>. DEFINE put == [q EXCEPT !.at = "put"]  created == [q EXCEPT !.at = "created"]
<1>1. /\ put \in Request /\ put.at = "put" /\ put.op = q.op /\ put.got = q.got /\ put.on = q.on
      /\ created \in Request /\ created.at = "created" /\ created.op = q.op /\ created.got = q.got /\ created.on = q.on
  BY DEF Request, Steps
<1>2. Idle \in Request /\ Fits(Idle)
  BY Values DEF Fits, Shapes, Row
<1>3. q.op # "create" => Fits(put)
  BY <1>1 DEF Fits
<1>4. q.op = "load" => Fits(created)
  BY <1>1 DEF Fits
<1>5. ASSUME NEW found
      PROVE  WithTenant(q, found) \in Request /\ Fits(WithTenant(q, found))
  <2>1. CASE q.op = "update" /\ found.pair.client # 0
    BY <1>1, <1>3, <2>1 DEF WithTenant
  <2>2. CASE q.op = "load"
    BY <1>1, <1>4, <2>2 DEF WithTenant
  <2>3. CASE q.op # "load" /\ ~(q.op = "update" /\ found.pair.client # 0)
    BY <1>2, <2>3 DEF WithTenant
  <2>. QED
    BY <2>1, <2>2, <2>3
<1>6. WithoutTenant(q, answer) \in Request /\ Fits(WithoutTenant(q, answer))
  <2>1. CASE q.op = "update"
    BY <1>1, <1>3, <2>1 DEF WithoutTenant
  <2>2. CASE q.op = "load"
    BY <1>1, <1>4, <2>2 DEF WithoutTenant
  <2>3. CASE q.op \notin {"update", "load"}
    BY <2>3 DEF WithoutTenant
  <2>. QED
    BY <2>1, <2>2, <2>3
<1>. QED
  BY <1>5, <1>6

LEMMA WithTenantFinds ==
  ASSUME NEW q \in Request, q.at # "missing", NEW found
  PROVE  WithTenant(q, found).at # "missing"
<1>1. CASE q.op = "update" /\ found.pair.client # 0
  BY <1>1 DEF WithTenant, Request
<1>2. CASE q.op = "load"
  BY <1>2 DEF WithTenant, Request
<1>3. CASE q.op # "load" /\ ~(q.op = "update" /\ found.pair.client # 0)
  BY <1>3 DEF WithTenant, Idle
<1>. QED
  BY <1>1, <1>2, <1>3

(* A lookup starts afresh; no lookup says by itself that nothing is there. *)
LEMMA LookFits ==
  ASSUME IInv, NEW j \in Jobs, NEW p \in Servers, NEW q \in Request, q.got.n <= tenant.n,
         q.op = "load" => remote.is, q.on = p \/ q.op = "open", q.at # "missing", Look(j, p, q)
  PROVE  \E r \in Request : job' = [job EXCEPT ![j] = r] /\ Fits(r) /\ r.at # "missing"
<1>. DEFINE finding == [q EXCEPT !.on = p, !.at = "find", !.raced = FALSE]
            found == [NoRow EXCEPT !.pair = copy[p].pair, !.n = copy[p].n]
<1>1. Shapes
  BY DEF IInv
<1>2. CASE copy[p].is
  <2>1. job' = [job EXCEPT ![j] = WithTenant(q, found)]
    BY <1>2 DEF Look
  <2>2. Idle \in Request /\ Fits(Idle) /\ Idle.at = "idle"
    BY <1>1, Values DEF Fits, Shapes, Row
  <2>3. WithTenant(q, found) \in Request /\ Fits(WithTenant(q, found))
    <3>1. CASE q.on = p
      BY <1>1, <2>2, <3>1, LoadedFits
    <3>2. CASE q.op = "open"
      BY <2>2, <3>2 DEF WithTenant
    <3>. QED
      BY <3>1, <3>2
  <2>4. WithTenant(q, found).at # "missing"
    BY <2>2, WithTenantFinds
  <2>. QED
    BY <2>1, <2>3, <2>4
<1>3. CASE ~copy[p].is
  <2>1. /\ finding \in Request /\ finding.at = "find" /\ finding.on = p /\ finding.op = q.op
        /\ finding.got = q.got
    BY DEF Request, Steps
  <2>2. Fits(finding)
    BY <2>1 DEF Fits
  <2>. QED
    BY <1>3, <2>1, <2>2 DEF Look
<1>. QED
  BY <1>2, <1>3

(* What is known of a request stands as the stores move on. *)
LEMMA FitsKept ==
  ASSUME Shapes, Shapes', NEW q \in Request, Fits(q),
         remote.is => remote'.is, remote.seen \subseteq remote'.seen, tenant.n <= tenant'.n, due' = due
  PROVE  Fits(q)'
<1>1. q.got.n \in Nat /\ tenant.n \in Nat /\ tenant'.n \in Nat
  BY DEF Shapes, Request, Row
<1>. QED
  BY <1>1 DEF Fits

(* A step of one request: the others are as they were. *)
LEMMA StepKeeps ==
  ASSUME IInv, NEW j \in Jobs, NEW r \in Request, job' = [job EXCEPT ![j] = r], Fits(r)',
         remote' \in [is : BOOLEAN, pair : Halves, seen : SUBSET Halves], tenant' \in Row,
         copy' \in [Servers -> [is : BOOLEAN, pair : Halves, n : Nat, raced : BOOLEAN]],
         told' \in BOOLEAN, due' = due,
         remote.is => remote'.is, remote.seen \subseteq remote'.seen, tenant.n <= tenant'.n,
         Counts', ToldIsThere', NoUnseenLicense', UpdatesShow'
  PROVE  IInv'
<1>1. Shapes'
  BY DEF IInv, Shapes
<1>2. ASSUME NEW k \in Jobs
      PROVE  Fits(job[k])'
  <2>1. CASE k = j
    BY <2>1 DEF IInv, Shapes
  <2>2. CASE k # j
    <3>1. PICK q \in Request : q = job[k]
      BY DEF IInv, Shapes
    <3>2. Fits(q)'
      BY <1>1, <3>1, FitsKept DEF IInv
    <3>3. job'[k] = q
      BY <2>2, <3>1 DEF IInv, Shapes
    <3>. QED
      BY <3>2, <3>3
  <2>. QED
    BY <2>1, <2>2
<1>. QED
  BY <1>1, <1>2 DEF IInv

(* One that leaves the stores, the copies and the answers alone. *)
LEMMA ElsewhereKeeps ==
  ASSUME IInv, NEW j \in Jobs, NEW r \in Request, job' = [job EXCEPT ![j] = r], Fits(r), Elsewhere
  PROVE  IInv'
<1>1. remote' = remote /\ tenant' = tenant /\ copy' = copy /\ told' = told /\ due' = due
  BY DEF Elsewhere, Stores, Answers
<1>2. Shapes /\ Shapes'
  BY <1>1 DEF IInv, Shapes
<1>3. tenant.n <= tenant'.n
  BY <1>1, <1>2 DEF Shapes, Row
<1>4. Fits(r)'
  BY <1>1, <1>2, <1>3, FitsKept
<1>5. Counts' /\ ToldIsThere' /\ NoUnseenLicense' /\ UpdatesShow'
  BY <1>1 DEF IInv, Counts, ToldIsThere, NoUnseenLicense, UpdatesShow
<1>. QED
  BY <1>1, <1>2, <1>3, <1>4, <1>5, StepKeeps DEF Shapes

-----------------------------------------------------------------------------
(* The steps *)

(* Nothing but the requests changes, and theirs is a fitting one. *)
LEMMA IdleFits == Shapes => Idle \in Request /\ Fits(Idle) /\ Idle.at = "idle"
BY Values DEF Fits, Shapes, Row

LEMMA OpenKeeps ==
  ASSUME IInv, NEW j \in Jobs, NEW p \in Servers, Open(j, p)
  PROVE  IInv'
<1>. DEFINE q == [Idle EXCEPT !.op = "open"]
<1>1. q \in Request /\ q.got.n = 0 /\ q.op = "open" /\ q.at = "idle"
  BY Values DEF Request, Idle
<1>2. q.got.n <= tenant.n
  BY <1>1 DEF IInv, Shapes, Row
<1>3. Look(j, p, q) /\ Elsewhere
  BY DEF Open
<1>. HIDE DEF q
<1>4. PICK r \in Request : job' = [job EXCEPT ![j] = r] /\ Fits(r)
  BY <1>1, <1>2, <1>3, LookFits
<1>. QED
  BY <1>3, <1>4, ElsewhereKeeps

LEMMA UpdateKeeps ==
  ASSUME IInv, NEW j \in Jobs, NEW p \in Servers,
         NEW client \in Optional({0} \union Licenses), NEW key \in Optional(Licenses), Update(j, p, client, key)
  PROVE  IInv'
<1>. DEFINE q == [Idle EXCEPT !.op = "update", !.on = p, !.client = client, !.key = key]
<1>1. client \in Optional({0} \union Licenses) /\ key \in Optional(Licenses)
  OBVIOUS
<1>2. q \in Request /\ q.got.n = 0 /\ q.op = "update" /\ q.on = p /\ q.at = "idle"
  BY <1>1, Values DEF Request, Idle
<1>3. q.got.n <= tenant.n
  BY <1>2 DEF IInv, Shapes, Row
<1>4. Look(j, p, q) /\ Elsewhere
  BY DEF Update
<1>. HIDE DEF q
<1>5. PICK r \in Request : job' = [job EXCEPT ![j] = r] /\ Fits(r)
  BY <1>2, <1>3, <1>4, LookFits
<1>. QED
  BY <1>4, <1>5, ElsewhereKeeps

LEMMA FindTenantKeeps ==
  ASSUME IInv, NEW j \in Jobs, FindTenant(j)
  PROVE  IInv'
<1>1. Shapes /\ Counts /\ Fits(job[j])
  BY DEF IInv
<1>2. PICK q \in Request : q = job[j]
  BY <1>1 DEF Shapes
<1>3. q.at = "find" /\ q.on \in Servers /\ q.got.n <= tenant.n /\ (q.op = "load" => remote.is) /\ Elsewhere
  BY <1>1, <1>2 DEF FindTenant, Fits
<1>4. tenant \in Row /\ due[q.on] \in Nat /\ due[q.on] <= tenant.n
  BY <1>1, <1>3 DEF Shapes, Counts
<1>5. CASE tenant.is
  <2>. DEFINE r == [q EXCEPT !.at = "fill", !.got = tenant]
  <2>1. job' = [job EXCEPT ![j] = r]
    BY <1>1, <1>2, <1>5 DEF FindTenant, Shapes
  <2>2. r \in Request /\ r.at = "fill" /\ r.got = tenant /\ r.on = q.on /\ r.op = q.op
    BY <1>4 DEF Request, Steps
  <2>3. Fits(r)
    BY <1>3, <1>4, <2>2 DEF Fits, Row
  <2>. QED
    BY <1>3, <2>1, <2>2, <2>3, ElsewhereKeeps
<1>6. CASE ~tenant.is /\ q.op = "load"
  <2>1. job' = [job EXCEPT ![j] = WithoutTenant(q, Idle)]
    BY <1>1, <1>2, <1>6 DEF FindTenant, Shapes
  <2>2. WithoutTenant(q, Idle) \in Request /\ Fits(WithoutTenant(q, Idle))
    BY <1>1, <1>3, IdleFits, LoadedFits
  <2>. QED
    BY <1>3, <2>1, <2>2, ElsewhereKeeps
<1>7. CASE ~tenant.is /\ q.op # "load"
  <2>. DEFINE r == [q EXCEPT !.at = "detail"]
  <2>1. job' = [job EXCEPT ![j] = r]
    BY <1>1, <1>2, <1>7 DEF FindTenant, Shapes
  <2>2. r \in Request /\ r.at = "detail" /\ r.got = q.got /\ r.on = q.on /\ r.op = q.op
    BY DEF Request, Steps
  <2>3. due[q.on] = 0
    BY <1>1, <1>4, <1>7 DEF Counts
  <2>4. Fits(r)
    BY <1>3, <1>7, <2>2, <2>3 DEF Fits
  <2>. QED
    BY <1>3, <2>1, <2>2, <2>4, ElsewhereKeeps
<1>. QED
  BY <1>5, <1>6, <1>7

LEMMA TenantDetailKeeps ==
  ASSUME IInv, NEW j \in Jobs, TenantDetail(j)
  PROVE  IInv'
<1>1. Shapes /\ Fits(job[j])
  BY DEF IInv
<1>2. PICK q \in Request : q = job[j]
  BY <1>1 DEF Shapes
<1>3. /\ q.at = "detail" /\ q.on \in Servers /\ q.got.n <= tenant.n /\ (q.op = "load" => remote.is)
      /\ (~q.raced => due[q.on] = 0) /\ Elsewhere
  BY <1>1, <1>2 DEF TenantDetail, Fits
<1>4. CASE Mirrorable
  <2>. DEFINE r == [q EXCEPT !.at = "mirror"]
  <2>1. job' = [job EXCEPT ![j] = r]
    BY <1>1, <1>2, <1>4 DEF TenantDetail, Shapes
  <2>2. r \in Request /\ r.at = "mirror" /\ r.got = q.got /\ r.on = q.on /\ r.op = q.op /\ r.raced = q.raced
    BY DEF Request, Steps
  <2>3. Fits(r)
    BY <1>3, <2>2 DEF Fits
  <2>. QED
    BY <1>3, <2>1, <2>2, <2>3, ElsewhereKeeps
<1>5. CASE ~Mirrorable
  <2>1. job' = [job EXCEPT ![j] = WithoutTenant(q, NotFound)]
    BY <1>1, <1>2, <1>5 DEF TenantDetail, Shapes
  <2>2. NotFound \in Request /\ NotFound.got.n = 0 /\ NotFound.at = "missing" /\ NotFound.op = "none"
    BY Values DEF NotFound, Request, Steps, Idle
  <2>3. Fits(NotFound)
    BY <1>1, <2>2 DEF Fits, Shapes, Row
  <2>4. WithoutTenant(q, NotFound) \in Request /\ Fits(WithoutTenant(q, NotFound))
    BY <1>1, <1>3, <2>2, <2>3, LoadedFits
  <2>. QED
    BY <1>3, <2>1, <2>4, ElsewhereKeeps
<1>. QED
  BY <1>4, <1>5

LEMMA LoadFailsKeeps ==
  ASSUME IInv, NEW j \in Jobs, LoadFails(j)
  PROVE  IInv'
<1>1. Shapes /\ Fits(job[j])
  BY DEF IInv
<1>2. PICK q \in Request : q = job[j]
  BY <1>1 DEF Shapes
<1>3. q.on \in Servers /\ q.got.n <= tenant.n /\ (q.op = "load" => remote.is) /\ Elsewhere
  BY <1>1, <1>2 DEF LoadFails, Fits
<1>4. job' = [job EXCEPT ![j] = WithoutTenant(q, Idle)]
  BY <1>2 DEF LoadFails
<1>5. WithoutTenant(q, Idle) \in Request /\ Fits(WithoutTenant(q, Idle))
  BY <1>1, <1>3, IdleFits, LoadedFits
<1>. QED
  BY <1>3, <1>4, <1>5, ElsewhereKeeps

LEMMA MirrorKeeps ==
  ASSUME IInv, NEW j \in Jobs, Mirror(j)
  PROVE  IInv'
<1>1. Shapes /\ Counts /\ Fits(job[j]) /\ ToldIsThere /\ NoUnseenLicense /\ UpdatesShow
  BY DEF IInv
<1>2. PICK q \in Request : q = job[j]
  BY <1>1 DEF Shapes
<1>3. /\ q.at = "mirror" /\ q.on \in Servers /\ (q.op = "load" => remote.is)
      /\ (~q.raced => due[q.on] = 0)
      /\ remote' = remote /\ copy' = copy /\ told' = told /\ due' = due /\ tenant' = Mirrored
  BY <1>1, <1>2 DEF Mirror, Fits, Answers
<1>. PICK r \in Request : r = [q EXCEPT !.at = "fill", !.got = NoRow]
  BY Values DEF Request, Steps
<1>4. job' = [job EXCEPT ![j] = r]
  BY <1>1, <1>2 DEF Mirror, Shapes, Request
<1>5. r.at = "fill" /\ r.got.n = 0 /\ r.on = q.on /\ r.op = q.op /\ r.raced = q.raced
  BY Values DEF Request, Steps
<1>6. /\ tenant' \in Row /\ tenant'.n = tenant.n
      /\ (tenant.is => tenant' = tenant) /\ (~tenant.is => tenant'.pair = NoPair)
  <2>1. CASE tenant.is
    BY <1>1, <1>3, <2>1 DEF Mirrored, Shapes
  <2>2. CASE ~tenant.is
    BY <1>1, <1>3, <2>2, Values DEF Mirrored, Counts, Row, NoRow
  <2>. QED
    BY <2>1, <2>2
<1>7. tenant.n \in Nat
  BY <1>1 DEF Shapes, Row
<1>8. Fits(r)'
  BY <1>3, <1>5, <1>6, <1>7 DEF Fits
<1>9. Counts' /\ ToldIsThere' /\ NoUnseenLicense' /\ UpdatesShow'
  <2>1. Counts' /\ ToldIsThere' /\ UpdatesShow'
    BY <1>1, <1>3, <1>6 DEF Counts, ToldIsThere, UpdatesShow
  <2>2. NoUnseenLicense'
    BY <1>1, <1>3, <1>6 DEF NoUnseenLicense, NoPair
  <2>. QED
    BY <2>1, <2>2
<1>10. /\ remote' \in [is : BOOLEAN, pair : Halves, seen : SUBSET Halves]
       /\ copy' \in [Servers -> [is : BOOLEAN, pair : Halves, n : Nat, raced : BOOLEAN]]
       /\ told' \in BOOLEAN /\ remote.seen \subseteq remote'.seen /\ tenant.n <= tenant'.n
  BY <1>1, <1>3, <1>6, <1>7 DEF Shapes
<1>. QED
  BY <1>3, <1>4, <1>6, <1>8, <1>9, <1>10, StepKeeps

LEMMA FillKeeps ==
  ASSUME IInv, NEW j \in Jobs, Fill(j)
  PROVE  IInv'
<1>1. Shapes /\ Counts /\ Fits(job[j]) /\ ToldIsThere /\ NoUnseenLicense /\ UpdatesShow
  BY DEF IInv
<1>2. PICK q \in Request : q = job[j]
  BY <1>1 DEF Shapes
<1>3. /\ q.at = "fill" /\ q.on \in Servers /\ (q.op = "load" => remote.is) /\ q.got.n <= tenant.n
      /\ (~q.raced => q.got.n >= due[q.on])
      /\ remote' = remote /\ tenant' = tenant /\ told' = told /\ due' = due
  BY <1>1, <1>2 DEF Fill, Fits, Stores, Answers
<1>. DEFINE c == [is |-> TRUE, pair |-> q.got.pair, n |-> q.got.n, raced |-> q.raced]
            r == [q EXCEPT !.got = NoRow, !.raced = FALSE]
<1>4. copy' = [copy EXCEPT ![q.on] = c] /\ job' = [job EXCEPT ![j] = WithTenant(r, q.got)]
  BY <1>1, <1>2 DEF Fill, Shapes
<1>5. c \in [is : BOOLEAN, pair : Halves, n : Nat, raced : BOOLEAN] /\ c.n = q.got.n /\ c.raced = q.raced
  BY DEF Request, Row
<1>6. r \in Request /\ r.got.n = 0 /\ r.on = q.on /\ r.op = q.op
  BY Values DEF Request
<1>. HIDE DEF c, r
<1>7. WithTenant(r, q.got) \in Request /\ Fits(WithTenant(r, q.got))
  <2>1. r.got.n <= tenant.n
    BY <1>1, <1>6 DEF Shapes, Row
  <2>. QED
    BY <1>1, <1>3, <1>6, <2>1, IdleFits, LoadedFits
<1>8. /\ copy' \in [Servers -> [is : BOOLEAN, pair : Halves, n : Nat, raced : BOOLEAN]]
      /\ copy'[q.on] = c /\ \A p \in Servers : p # q.on => copy'[p] = copy[p]
  BY <1>1, <1>3, <1>4, <1>5 DEF Shapes
<1>9. Counts' /\ ToldIsThere' /\ NoUnseenLicense' /\ UpdatesShow'
  <2>1. Counts'
    BY <1>1, <1>3, <1>5, <1>8 DEF Counts
  <2>2. UpdatesShow'
    BY <1>1, <1>3, <1>5, <1>8 DEF UpdatesShow
  <2>. QED
    BY <1>1, <1>3, <2>1, <2>2 DEF ToldIsThere, NoUnseenLicense
<1>10. tenant.n <= tenant'.n
  BY <1>1, <1>3 DEF Shapes, Row
<1>11. Fits(WithTenant(r, q.got))'
  <2>1. PICK t \in Request : t = WithTenant(r, q.got)
    BY <1>7
  <2>2. Fits(t)'
    BY <1>3, <1>7, <2>1 DEF Fits
  <2>3. WithTenant(r, q.got)' = t
    BY <2>1 DEF WithTenant, Idle, NoRow, NoPair
  <2>. QED
    BY <2>2, <2>3
<1>. QED
  BY <1>1, <1>3, <1>4, <1>7, <1>8, <1>9, <1>10, <1>11, StepKeeps DEF Shapes

LEMMA CreateKeeps ==
  ASSUME IInv, NEW j \in Jobs, NEW p \in Servers, NEW c \in Licenses, Create(j, p, c)
  PROVE  IInv'
<1>. PICK r \in Request :
       r = [Idle EXCEPT !.at = "remote", !.op = "create", !.on = p, !.client = {c}, !.key = {c}]
  <2>1. {c} \in Optional({0} \union Licenses) /\ {c} \in Optional(Licenses)
    BY OptionalIs
  <2>. QED
    BY <2>1, Values DEF Request, Steps, Idle
<1>1. job' = [job EXCEPT ![j] = r] /\ Elsewhere
  BY DEF Create
<1>2. r.at = "remote" /\ r.op = "create" /\ r.on = p /\ Both(r) /\ r.got.n = 0
  BY Values DEF Both, Idle
<1>3. Fits(r)
  BY <1>2 DEF Fits, IInv, Shapes, Row
<1>. QED
  BY <1>1, <1>3, ElsewhereKeeps

(* What the tenancy service accepts it holds, and has seen. *)
LEMMA AcceptIs ==
  ASSUME Shapes, NEW pair \in Halves, Accept(pair)
  PROVE  /\ remote' \in [is : BOOLEAN, pair : Halves, seen : SUBSET Halves]
         /\ remote'.is /\ pair \in remote'.seen /\ remote.seen \subseteq remote'.seen
BY DEF Shapes, Accept

(* The service's record moves on, and the row and its copies stay. *)
LEMMA RemoteKeeps ==
  ASSUME IInv, NEW j \in Jobs, NEW r \in Request, job' = [job EXCEPT ![j] = r], Fits(r)',
         remote' \in [is : BOOLEAN, pair : Halves, seen : SUBSET Halves],
         remote.is => remote'.is, remote.seen \subseteq remote'.seen,
         tenant' = tenant, copy' = copy, told' = told, due' = due
  PROVE  IInv'
<1>1. Shapes /\ Counts /\ ToldIsThere /\ NoUnseenLicense /\ UpdatesShow
  BY DEF IInv
<1>2. Counts' /\ ToldIsThere' /\ NoUnseenLicense' /\ UpdatesShow'
  BY <1>1 DEF Counts, ToldIsThere, NoUnseenLicense, UpdatesShow
<1>3. tenant.n <= tenant'.n
  BY <1>1 DEF Shapes, Row
<1>. QED
  BY <1>1, <1>2, <1>3, StepKeeps DEF Shapes

LEMMA CreateSelfServeTenantKeeps ==
  ASSUME IInv, NEW j \in Jobs, CreateSelfServeTenant(j)
  PROVE  IInv'
<1>1. Shapes /\ Fits(job[j])
  BY DEF IInv
<1>2. PICK q \in Request : q = job[j]
  BY <1>1 DEF Shapes
<1>3. /\ q.at = "remote" /\ q.on \in Servers /\ Both(q) /\ q.got.n <= tenant.n /\ (q.op = "load" => remote.is)
      /\ tenant' = tenant /\ copy' = copy /\ told' = told /\ due' = due
  BY <1>1, <1>2 DEF CreateSelfServeTenant, Fits, Answers
<1>4. Idle \in Request /\ Fits(Idle)'
  BY <1>1, <1>3, Values DEF Fits, Shapes, Row
<1>5. CASE UNCHANGED remote /\ Finish(j)
  BY <1>1, <1>3, <1>4, <1>5, RemoteKeeps DEF Finish, Shapes
<1>6. CASE Accept(Carried(j, NoPair)) /\ (Goto(j, "insert") \/ Finish(j))
  <2>1. Carried(j, NoPair) \in Halves /\ Carried(j, NoPair) = Pair(q)
    BY <1>1, <1>2, <1>3, CarriedIs, Values
  <2>2. /\ remote' \in [is : BOOLEAN, pair : Halves, seen : SUBSET Halves]
        /\ remote'.is /\ Pair(q) \in remote'.seen /\ remote.seen \subseteq remote'.seen
    BY <1>1, <1>6, <2>1, AcceptIs
  <2>3. CASE Finish(j)
    BY <1>3, <1>4, <2>2, <2>3, RemoteKeeps DEF Finish
  <2>4. CASE Goto(j, "insert")
    <3>. PICK r \in Request : r = [q EXCEPT !.at = "insert"]
      BY DEF Request, Steps
    <3>1. job' = [job EXCEPT ![j] = r]
      BY <1>1, <1>2, <2>4 DEF Goto, Shapes
    <3>2. r.at = "insert" /\ r.on = q.on /\ r.op = q.op /\ r.got = q.got /\ Pair(r) = Pair(q) /\ Both(r)
      BY <1>3 DEF Request, Pair, Both
    <3>3. Fits(r)'
      BY <1>3, <2>2, <3>2 DEF Fits
    <3>. QED
      BY <1>3, <2>2, <3>1, <3>3, RemoteKeeps
  <2>. QED
    BY <1>6, <2>3, <2>4
<1>. QED
  BY <1>5, <1>6 DEF CreateSelfServeTenant

LEMMA InsertKeeps ==
  ASSUME IInv, NEW j \in Jobs, Insert(j)
  PROVE  IInv'
<1>1. Shapes /\ Counts /\ Fits(job[j]) /\ ToldIsThere /\ NoUnseenLicense /\ UpdatesShow
  BY DEF IInv
<1>2. PICK q \in Request : q = job[j]
  BY <1>1 DEF Shapes
<1>3. /\ q.at = "insert" /\ q.on \in Servers /\ Both(q) /\ q.got.n <= tenant.n /\ remote.is
      /\ Pair(q) \in remote.seen
      /\ remote' = remote /\ copy' = copy /\ told' = told /\ due' = due
  BY <1>1, <1>2 DEF Insert, Fits, Answers
<1>4. CASE UNCHANGED tenant /\ Goto(j, "created")
  <2>. PICK r \in Request : r = [q EXCEPT !.at = "created"]
    BY DEF Request, Steps
  <2>1. job' = [job EXCEPT ![j] = r]
    BY <1>1, <1>2, <1>4 DEF Goto, Shapes
  <2>2. r.at = "created" /\ r.on = q.on /\ r.op = q.op /\ r.got = q.got
    BY DEF Request
  <2>3. Fits(r)'
    BY <1>3, <1>4, <2>2 DEF Fits
  <2>. QED
    BY <1>1, <1>3, <1>4, <2>1, <2>3, RemoteKeeps DEF Shapes
<1>5. CASE InsertRow(Carried(j, NoPair)) /\ Look(j, job[j].on, [job[j] EXCEPT !.op = "load"])
  <2>. PICK l \in Request : l = [q EXCEPT !.op = "load"]
    BY DEF Request
  <2>1. l.got = q.got /\ l.on = q.on /\ l.op = "load" /\ l.at = q.at
    BY DEF Request
  <2>2. PICK r \in Request : job' = [job EXCEPT ![j] = r] /\ Fits(r)
    BY <1>2, <1>3, <1>5, <2>1, LookFits
  <2>3. Carried(j, NoPair) \in Halves /\ Carried(j, NoPair) = Pair(q)
    BY <1>1, <1>2, <1>3, CarriedIs, Values
  <2>4. tenant' \in Row /\ tenant'.n = 0 /\ tenant.n = 0 /\ tenant'.is /\ tenant'.pair = Pair(q)
    BY <1>1, <1>5, <2>3, Values DEF InsertRow, Row, NoRow, Counts
  <2>5. Shapes'
    BY <1>1, <1>3, <2>2, <2>4 DEF Shapes
  <2>6. Fits(r)'
    BY <1>1, <1>3, <2>2, <2>4, <2>5, FitsKept
  <2>7. Counts' /\ ToldIsThere' /\ UpdatesShow'
    BY <1>1, <1>3, <2>4 DEF Counts, ToldIsThere, UpdatesShow
  <2>8. NoUnseenLicense'
    BY <1>3, <2>4 DEF NoUnseenLicense
  <2>9. /\ remote' \in [is : BOOLEAN, pair : Halves, seen : SUBSET Halves]
        /\ copy' \in [Servers -> [is : BOOLEAN, pair : Halves, n : Nat, raced : BOOLEAN]]
        /\ told' \in BOOLEAN /\ remote.seen \subseteq remote'.seen /\ tenant.n <= tenant'.n
    BY <1>1, <1>3, <2>4 DEF Shapes
  <2>. QED
    BY <1>3, <2>2, <2>4, <2>6, <2>7, <2>8, <2>9, StepKeeps
<1>. QED
  BY <1>4, <1>5 DEF Insert

LEMMA CreatedKeeps ==
  ASSUME IInv, NEW j \in Jobs, Created(j)
  PROVE  IInv'
<1>1. Shapes /\ Counts /\ Fits(job[j]) /\ ToldIsThere /\ NoUnseenLicense /\ UpdatesShow
  BY DEF IInv
<1>2. /\ remote.is /\ remote' = remote /\ tenant' = tenant /\ copy' = copy /\ due' = due /\ told' = TRUE
      /\ job' = [job EXCEPT ![j] = Idle]
  BY <1>1 DEF Created, Fits, Stores, Finish
<1>3. Idle \in Request /\ Fits(Idle)'
  BY <1>1, <1>2, Values DEF Fits, Shapes, Row
<1>4. Counts' /\ ToldIsThere' /\ NoUnseenLicense' /\ UpdatesShow'
  BY <1>1, <1>2 DEF Counts, ToldIsThere, NoUnseenLicense, UpdatesShow
<1>5. tenant.n <= tenant'.n
  BY <1>1, <1>2 DEF Shapes, Row
<1>. QED
  BY <1>1, <1>2, <1>3, <1>4, <1>5, StepKeeps DEF Shapes

LEMMA PutTenantCredentialsKeeps ==
  ASSUME IInv, NEW j \in Jobs, PutTenantCredentials(j)
  PROVE  IInv'
<1>1. Shapes /\ Fits(job[j])
  BY DEF IInv
<1>2. PICK q \in Request : q = job[j]
  BY <1>1 DEF Shapes
<1>3. /\ q.at = "put" /\ q.on \in Servers /\ q.got.n <= tenant.n /\ (q.op = "load" => remote.is)
      /\ tenant' = tenant /\ copy' = copy /\ told' = told /\ due' = due
  BY <1>1, <1>2 DEF PutTenantCredentials, Fits, Answers
<1>4. Idle \in Request /\ Fits(Idle)'
  BY <1>1, <1>3, Values DEF Fits, Shapes, Row
<1>. PICK r \in Request : r = [q EXCEPT !.at = "read"]
  BY DEF Request, Steps
<1>5. /\ r.at = "read" /\ r.on = q.on /\ r.op = q.op /\ r.got = q.got /\ Pair(r) = Pair(q) /\ (Both(r) <=> Both(q))
      /\ Goto(j, "read") => job' = [job EXCEPT ![j] = r]
  BY <1>1, <1>2 DEF Request, Pair, Both, Goto, Shapes
<1>6. CASE ~Goes(j) /\ UNCHANGED remote /\ Goto(j, "read")
  <2>1. ~Both(q)
    BY <1>1, <1>2, <1>6, CarriedIs, Values DEF Goes
  <2>2. Fits(r)'
    BY <1>3, <1>5, <1>6, <2>1 DEF Fits
  <2>. QED
    BY <1>1, <1>3, <1>5, <1>6, <2>2, RemoteKeeps DEF Shapes
<1>7. CASE Goes(j) /\ remote.is /\ Accept(Carried(j, remote.pair)) /\ (Goto(j, "read") \/ Finish(j))
  <2>1. remote.pair \in Halves /\ Both(q)
    BY <1>1, <1>2, <1>7, CarriedIs, Values DEF Goes, Shapes
  <2>2. Carried(j, remote.pair) \in Halves /\ Carried(j, remote.pair) = Pair(q)
    BY <1>1, <1>2, <2>1, CarriedIs
  <2>3. /\ remote' \in [is : BOOLEAN, pair : Halves, seen : SUBSET Halves]
        /\ remote'.is /\ Pair(q) \in remote'.seen /\ remote.seen \subseteq remote'.seen
    BY <1>1, <1>7, <2>2, AcceptIs
  <2>4. CASE Finish(j)
    BY <1>3, <1>4, <2>3, <2>4, RemoteKeeps DEF Finish
  <2>5. CASE Goto(j, "read")
    <3>1. Fits(r)'
      BY <1>3, <1>5, <2>3 DEF Fits
    <3>. QED
      BY <1>3, <1>5, <2>3, <2>5, <3>1, RemoteKeeps
  <2>. QED
    BY <1>7, <2>4, <2>5
<1>8. CASE UNCHANGED remote /\ Finish(j)
  BY <1>1, <1>3, <1>4, <1>8, RemoteKeeps DEF Finish, Shapes
<1>. QED
  BY <1>6, <1>7, <1>8 DEF PutTenantCredentials

LEMMA ReadRowKeeps ==
  ASSUME IInv, NEW j \in Jobs, ReadRow(j)
  PROVE  IInv'
<1>1. Shapes /\ Fits(job[j]) /\ Elsewhere
  BY DEF IInv, ReadRow
<1>2. PICK q \in Request : q = job[j]
  BY <1>1 DEF Shapes
<1>3. q.at = "read" /\ q.on \in Servers /\ (q.op = "load" => remote.is) /\ (Both(q) => Pair(q) \in remote.seen)
  BY <1>1, <1>2 DEF ReadRow, Fits
<1>4. CASE Finish(j)
  BY <1>1, <1>4, IdleFits, ElsewhereKeeps DEF Finish
<1>5. CASE tenant.is /\ job' = [job EXCEPT ![j].at = "write", ![j].got = tenant]
  <2>. PICK r \in Request : r = [q EXCEPT !.at = "write", !.got = tenant]
    BY <1>1 DEF Request, Steps, Shapes
  <2>1. job' = [job EXCEPT ![j] = r]
    BY <1>1, <1>2, <1>5 DEF Shapes
  <2>2. r.at = "write" /\ r.on = q.on /\ r.op = q.op /\ r.got = tenant /\ Pair(r) = Pair(q) /\ (Both(r) <=> Both(q))
    BY DEF Request, Pair, Both
  <2>3. Fits(r)
    BY <1>1, <1>3, <2>2 DEF Fits, Shapes, Row
  <2>. QED
    BY <1>1, <2>1, <2>3, ElsewhereKeeps
<1>. QED
  BY <1>4, <1>5 DEF ReadRow

LEMMA WriteRowKeeps ==
  ASSUME IInv, NEW j \in Jobs, WriteRow(j)
  PROVE  IInv'
<1>1. Shapes /\ Counts /\ Fits(job[j]) /\ ToldIsThere /\ UpdatesShow
  BY DEF IInv
<1>2. PICK q \in Request : q = job[j]
  BY <1>1 DEF Shapes
<1>3. /\ q.at = "write" /\ q.on \in Servers /\ (q.op = "load" => remote.is)
      /\ (Both(q) => Pair(q) \in remote.seen)
      /\ remote' = remote /\ copy' = copy /\ told' = told /\ due' = due
      /\ UpdateRow(Carried(j, q.got.pair), Full(j))
  BY <1>1, <1>2 DEF WriteRow, Fits, Answers
<1>4. q.got \in Row /\ q.got.pair \in Halves /\ tenant.n \in Nat /\ tenant.n + 1 \in Nat
  BY <1>1 DEF Request, Row, Shapes
<1>5. /\ Carried(j, q.got.pair) \in Halves /\ (Full(j) <=> Both(q))
      /\ (Both(q) => Carried(j, q.got.pair) = Pair(q))
  BY <1>1, <1>2, <1>4, CarriedIs
<1>6. /\ tenant' \in Row /\ tenant'.is /\ tenant'.n = tenant.n + 1
      /\ tenant'.pair = Carried(j, q.got.pair) /\ tenant'.partial = ~Both(q)
  BY <1>3, <1>4, <1>5 DEF UpdateRow, Row
<1>. PICK g \in Row : g = [q.got EXCEPT !.n = tenant.n + 1]
  BY <1>4 DEF Row
<1>. PICK r \in Request : r = [q EXCEPT !.at = "drop", !.got = g]
  BY DEF Request, Steps
<1>7. job' = [job EXCEPT ![j] = r]
  BY <1>1, <1>2 DEF WriteRow, Shapes, Request
<1>8. r.at = "drop" /\ r.on = q.on /\ r.op = q.op /\ r.got = g /\ g.n = tenant.n + 1
  BY <1>4 DEF Request, Row
<1>9. Fits(r)'
  <2>1. r.got.n <= tenant'.n
    <3>1. r.got.n = tenant.n + 1 /\ tenant'.n = tenant.n + 1
      BY <1>6, <1>8
    <3>2. PICK n \in Nat : n = tenant.n + 1
      BY <1>4
    <3>. QED
      BY <3>1, <3>2
  <2>2. r.at = "drop" /\ r.on \in Servers /\ (r.op = "load" => remote'.is)
    BY <1>3, <1>8
  <2>. QED
    BY <2>1, <2>2 DEF Fits
<1>10. Counts' /\ ToldIsThere' /\ UpdatesShow'
  <2>1. \A p \in Servers : due[p] \in Nat /\ copy[p].n \in Nat
    BY <1>1 DEF Shapes
  <2>. QED
    BY <1>1, <1>3, <1>4, <1>6, <2>1 DEF Counts, ToldIsThere, UpdatesShow
<1>11. NoUnseenLicense'
  BY <1>3, <1>5, <1>6 DEF NoUnseenLicense
<1>12. /\ remote' \in [is : BOOLEAN, pair : Halves, seen : SUBSET Halves]
       /\ copy' \in [Servers -> [is : BOOLEAN, pair : Halves, n : Nat, raced : BOOLEAN]]
       /\ told' \in BOOLEAN /\ remote.seen \subseteq remote'.seen /\ tenant.n <= tenant'.n
  BY <1>1, <1>3, <1>4, <1>6 DEF Shapes
<1>. QED
  BY <1>3, <1>6, <1>7, <1>9, <1>10, <1>11, <1>12, StepKeeps

(* Only copies are lost. *)
LEMMA FewerCopies ==
  ASSUME Shapes, Counts, UpdatesShow, NEW p \in Servers, copy' = [copy EXCEPT ![p] = NoCopy],
         tenant' = tenant, due' = due
  PROVE  /\ copy' \in [Servers -> [is : BOOLEAN, pair : Halves, n : Nat, raced : BOOLEAN]]
         /\ Counts' /\ UpdatesShow'
<1>1. copy' \in [Servers -> [is : BOOLEAN, pair : Halves, n : Nat, raced : BOOLEAN]]
  BY Values DEF Shapes
<1>2. tenant.n \in Nat /\ ~copy'[p].is /\ copy'[p].n = 0 /\ \A s \in Servers : s # p => copy'[s] = copy[s]
  BY Values DEF Shapes, Row
<1>. QED
  BY <1>1, <1>2 DEF Counts, UpdatesShow

LEMMA DropCopyKeeps ==
  ASSUME IInv, NEW j \in Jobs, DropCopy(j)
  PROVE  IInv'
<1>1. /\ Shapes /\ Counts /\ ToldIsThere /\ NoUnseenLicense /\ UpdatesShow
      /\ \A k \in Jobs : Fits(job[k])
  BY DEF IInv
<1>2. PICK q \in Request : q = job[j]
  BY <1>1 DEF Shapes
<1>3. PICK p \in Servers : p = q.on
  BY <1>1, <1>2 DEF DropCopy, Fits
<1>4. PICK n \in Nat : n = q.got.n /\ n <= tenant.n
  BY <1>1, <1>2 DEF Fits, Request, Row
<1>5. /\ remote' = remote /\ tenant' = tenant /\ told' = told
      /\ copy' = [copy EXCEPT ![p] = NoCopy]
      /\ due' = [due EXCEPT ![p] = IF n > @ THEN n ELSE @]
      /\ job' = [k \in Jobs |-> IF k = j THEN Idle ELSE [job[k] EXCEPT !.raced = @ \/ job[k].on = p]]
  BY <1>2, <1>3, <1>4 DEF DropCopy, CopyAfterUpdate, Stores
<1>6. tenant.n \in Nat /\ \A s \in Servers : due[s] \in Nat /\ due[s] <= tenant.n
  BY <1>1 DEF Shapes, Row, Counts
<1>7. /\ due' \in [Servers -> Nat] /\ due'[p] <= tenant.n
      /\ \A s \in Servers : s # p => due'[s] = due[s]
  BY <1>1, <1>4, <1>5, <1>6 DEF Shapes
<1>8. /\ copy' \in [Servers -> [is : BOOLEAN, pair : Halves, n : Nat, raced : BOOLEAN]]
      /\ ~copy'[p].is /\ copy'[p].n = 0 /\ \A s \in Servers : s # p => copy'[s] = copy[s]
  BY <1>1, <1>5, Values DEF Shapes
<1>9. Counts' /\ ToldIsThere' /\ NoUnseenLicense' /\ UpdatesShow'
  BY <1>1, <1>5, <1>6, <1>7, <1>8 DEF Counts, ToldIsThere, NoUnseenLicense, UpdatesShow
<1>10. Idle \in Request /\ Fits(Idle)'
  BY <1>5, <1>6, Values DEF Fits
<1>11. ASSUME NEW k \in Jobs
       PROVE  job'[k] \in Request /\ Fits(job[k])'
  <2>1. CASE k = j
    BY <1>5, <1>10, <2>1
  <2>2. CASE k # j
    <3>1. PICK o \in Request : o = job[k] /\ Fits(o)
      BY <1>1 DEF Shapes
    <3>2. PICK r \in Request : r = [o EXCEPT !.raced = o.raced \/ o.on = p]
      BY DEF Request
    <3>3. job'[k] = r
      BY <1>5, <2>2, <3>1, <3>2
    <3>4. /\ r.at = o.at /\ r.op = o.op /\ r.on = o.on /\ r.client = o.client /\ r.key = o.key /\ r.got = o.got
          /\ (r.raced <=> o.raced \/ o.on = p)
      BY <3>2 DEF Request
    <3>5. (r.at # "idle" /\ r.at # "missing") => o.on \in Servers
      BY <3>1, <3>4 DEF Fits
    <3>6. Fits(r)'
      BY <1>5, <1>7, <3>1, <3>4, <3>5 DEF Fits, Both, Pair
    <3>. QED
      BY <3>3, <3>6
  <2>. QED
    BY <2>1, <2>2
<1>12. Shapes'
  <2>1. job' \in [Jobs -> Request]
    BY <1>5, <1>11
  <2>. QED
    BY <1>1, <1>5, <1>7, <1>8, <2>1 DEF Shapes
<1>. QED
  BY <1>9, <1>11, <1>12 DEF IInv

LEMMA AnswerKeeps ==
  ASSUME IInv, NEW j \in Jobs, Answer(j)
  PROVE  IInv'
BY IdleFits, ElsewhereKeeps DEF Answer, Finish, IInv

LEMMA ExpireKeeps ==
  ASSUME IInv, NEW p \in Servers, Expire(p)
  PROVE  IInv'
<1>1. /\ Shapes /\ Counts /\ ToldIsThere /\ NoUnseenLicense /\ UpdatesShow
      /\ \A k \in Jobs : Fits(job[k])
  BY DEF IInv
<1>2. /\ remote' = remote /\ tenant' = tenant /\ told' = told /\ due' = due /\ job' = job
      /\ copy' = [copy EXCEPT ![p] = NoCopy]
  BY DEF Expire, Stores, Answers
<1>3. /\ copy' \in [Servers -> [is : BOOLEAN, pair : Halves, n : Nat, raced : BOOLEAN]]
      /\ Counts' /\ UpdatesShow'
  BY <1>1, <1>2, FewerCopies
<1>4. Shapes' /\ ToldIsThere' /\ NoUnseenLicense' /\ \A k \in Jobs : Fits(job[k])'
  BY <1>1, <1>2, <1>3 DEF Shapes, ToldIsThere, NoUnseenLicense, Fits
<1>. QED
  BY <1>3, <1>4 DEF IInv

LEMMA RestartKeeps ==
  ASSUME IInv, NEW p \in Servers, Restart(p)
  PROVE  IInv'
<1>1. /\ Shapes /\ Counts /\ ToldIsThere /\ NoUnseenLicense /\ UpdatesShow
      /\ \A k \in Jobs : Fits(job[k])
  BY DEF IInv
<1>2. /\ remote' = remote /\ tenant' = tenant /\ told' = told /\ due' = due
      /\ copy' = [copy EXCEPT ![p] = NoCopy]
      /\ job' = [j \in Jobs |-> IF job[j].on = p THEN Idle ELSE job[j]]
  BY DEF Restart, Stores, Answers
<1>3. /\ copy' \in [Servers -> [is : BOOLEAN, pair : Halves, n : Nat, raced : BOOLEAN]]
      /\ Counts' /\ UpdatesShow'
  BY <1>1, <1>2, FewerCopies
<1>4. job' \in [Jobs -> Request]
  BY <1>1, <1>2, Values DEF Shapes
<1>5. ASSUME NEW k \in Jobs
      PROVE  Fits(job[k])'
  <2>1. PICK q \in Request : q = job'[k] /\ Fits(q)
    BY <1>1, <1>2, <1>4, IdleFits
  <2>2. Fits(q)'
    BY <1>2, <2>1 DEF Fits
  <2>. QED
    BY <2>1, <2>2
<1>6. Shapes' /\ ToldIsThere' /\ NoUnseenLicense'
  BY <1>1, <1>2, <1>3, <1>4 DEF Shapes, ToldIsThere, NoUnseenLicense
<1>. QED
  BY <1>3, <1>5, <1>6 DEF IInv

LEMMA StutterKeeps ==
  ASSUME IInv, UNCHANGED tenantVars
  PROVE  IInv'
BY DEF IInv, tenantVars, Shapes, Counts, ToldIsThere, Fits, NoUnseenLicense, UpdatesShow

LEMMA NextKeeps ==
  ASSUME IInv, [Next]_tenantVars
  PROVE  IInv'
<1>1. ASSUME NEW p \in Servers, Expire(p) \/ Restart(p)
      PROVE  IInv'
  BY <1>1, ExpireKeeps, RestartKeeps
<1>2. ASSUME NEW j \in Jobs, NEW p \in Servers, Open(j, p) \/ \E c \in Licenses : Create(j, p, c)
      PROVE  IInv'
  BY <1>2, OpenKeeps, CreateKeeps
<1>3. ASSUME NEW j \in Jobs, NEW p \in Servers,
             \E client \in Optional({0} \union Licenses), key \in Optional(Licenses) : Update(j, p, client, key)
      PROVE  IInv'
  BY <1>3, UpdateKeeps
<1>4. ASSUME NEW j \in Jobs,
             FindTenant(j) \/ TenantDetail(j) \/ LoadFails(j) \/ Mirror(j) \/ Fill(j)
      PROVE  IInv'
  BY <1>4, FindTenantKeeps, TenantDetailKeeps, LoadFailsKeeps, MirrorKeeps, FillKeeps
<1>5. ASSUME NEW j \in Jobs, CreateSelfServeTenant(j) \/ Insert(j) \/ Created(j)
      PROVE  IInv'
  BY <1>5, CreateSelfServeTenantKeeps, InsertKeeps, CreatedKeeps
<1>6. ASSUME NEW j \in Jobs,
             PutTenantCredentials(j) \/ ReadRow(j) \/ WriteRow(j) \/ DropCopy(j) \/ Answer(j)
      PROVE  IInv'
  BY <1>6, PutTenantCredentialsKeeps, ReadRowKeeps, WriteRowKeeps, DropCopyKeeps, AnswerKeeps
<1>. QED
  BY <1>1, <1>2, <1>3, <1>4, <1>5, <1>6, StutterKeeps DEF Next

LEMMA InitHolds == Init => IInv
<1>. SUFFICES ASSUME Init PROVE IInv
  OBVIOUS
<1>1. /\ tenant = NoRow /\ told = FALSE /\ remote.seen = {}
      /\ \A p \in Servers : copy[p] = NoCopy /\ due[p] = 0
      /\ \A j \in Jobs : job[j] = Idle
  BY DEF Init
<1>2. Shapes
  <2>1. remote \in [is : BOOLEAN, pair : Halves, seen : SUBSET Halves]
    BY Values DEF Init
  <2>. QED
    BY <2>1, Values DEF Init, Shapes
<1>3. Counts /\ ToldIsThere /\ NoUnseenLicense /\ UpdatesShow
  BY <1>1, Values DEF Counts, ToldIsThere, NoUnseenLicense, UpdatesShow
<1>4. \A j \in Jobs : Fits(job[j])
  BY <1>1, <1>2, IdleFits
<1>. QED
  BY <1>2, <1>3, <1>4 DEF IInv

LEMMA AlwaysIInv == Spec => []IInv
BY InitHolds, NextKeeps, PTL DEF Spec

-----------------------------------------------------------------------------
(* A tenant that was created is never said to be missing *)

(* A request that goes anywhere else says nothing of the kind. *)
LEMMA Elsewhither ==
  ASSUME Shapes, NEW j \in Jobs, NEW r, job' = [job EXCEPT ![j] = r], r.at # "missing"
  PROVE  NoNewMissing
<1>1. \A k \in Jobs : job'[k] = IF k = j THEN r ELSE job[k]
  BY DEF Shapes
<1>. QED
  BY <1>1 DEF NoNewMissing

LEMMA WithoutTenantFinds ==
  ASSUME NEW q \in Request, q.at # "missing", NEW answer, answer.at # "missing"
  PROVE  WithoutTenant(q, answer).at # "missing"
<1>1. CASE q.op = "update"
  BY <1>1 DEF WithoutTenant, Request
<1>2. CASE q.op = "load"
  BY <1>2 DEF WithoutTenant, Request
<1>3. CASE q.op \notin {"update", "load"}
  BY <1>3 DEF WithoutTenant
<1>. QED
  BY <1>1, <1>2, <1>3

LEMMA LookupsFind ==
  ASSUME IInv, NEW j \in Jobs,
         FindTenant(j) \/ TenantDetail(j) \/ LoadFails(j) \/ Mirror(j) \/ Fill(j)
  PROVE  NoNewMissing
<1>1. Shapes /\ ToldIsThere /\ Idle.at # "missing"
  BY Values DEF IInv
<1>2. PICK q \in Request : q = job[j]
  BY <1>1 DEF Shapes
<1>3. ASSUME q.at # "missing"
      PROVE  /\ WithoutTenant(q, Idle).at # "missing"
             /\ \A found : WithTenant(q, found).at # "missing"
  BY <1>1, <1>3, WithTenantFinds, WithoutTenantFinds
<1>4. CASE FindTenant(j)
  <2>1. PICK r : /\ job' = [job EXCEPT ![j] = r]
                 /\ \/ r = [q EXCEPT !.at = "fill", !.got = tenant]
                    \/ r = WithoutTenant(q, Idle)
                    \/ r = [q EXCEPT !.at = "detail"]
    <3>1. CASE tenant.is
      BY <1>1, <1>2, <1>4, <3>1 DEF FindTenant, Shapes
    <3>2. CASE ~tenant.is /\ job[j].op = "load"
      BY <1>1, <1>2, <1>4, <3>2 DEF FindTenant, Shapes
    <3>3. CASE ~tenant.is /\ job[j].op # "load"
      BY <1>1, <1>2, <1>4, <3>3 DEF FindTenant, Shapes
    <3>. QED
      BY <3>1, <3>2, <3>3
  <2>2. q.at # "missing"
    BY <1>2, <1>4 DEF FindTenant
  <2>3. r.at # "missing"
    BY <1>3, <2>1, <2>2 DEF Request
  <2>. QED
    BY <1>1, <2>1, <2>3, Elsewhither
<1>5. CASE TenantDetail(j)
  <2>1. CASE ~told
    BY <2>1 DEF NoNewMissing
  <2>2. CASE told
    <3>1. job' = [job EXCEPT ![j] = [q EXCEPT !.at = "mirror"]]
      BY <1>1, <1>2, <1>5, <2>2 DEF TenantDetail, Mirrorable, ToldIsThere
    <3>2. [q EXCEPT !.at = "mirror"].at # "missing"
      BY DEF Request
    <3>. QED
      BY <1>1, <3>1, <3>2, Elsewhither
  <2>. QED
    BY <1>1, <2>1, <2>2 DEF ToldIsThere, Shapes
<1>6. CASE LoadFails(j)
  BY <1>1, <1>2, <1>3, <1>6, Elsewhither DEF LoadFails
<1>7. CASE Mirror(j)
  <2>1. job' = [job EXCEPT ![j] = [q EXCEPT !.at = "fill", !.got = NoRow]]
    BY <1>1, <1>2, <1>7 DEF Mirror, Shapes, Request
  <2>2. [q EXCEPT !.at = "fill", !.got = NoRow].at # "missing"
    BY DEF Request
  <2>. QED
    BY <1>1, <2>1, <2>2, Elsewhither
<1>8. CASE Fill(j)
  <2>1. PICK r \in Request : r = [q EXCEPT !.got = NoRow, !.raced = FALSE]
    BY Values DEF Request
  <2>2. job' = [job EXCEPT ![j] = WithTenant(r, q.got)] /\ r.at # "missing"
    BY <1>1, <1>2, <1>8, <2>1 DEF Fill, Shapes, Request
  <2>. QED
    BY <1>1, <2>2, WithTenantFinds, Elsewhither
<1>. QED
  BY <1>4, <1>5, <1>6, <1>7, <1>8

LEMMA FinishFinds ==
  ASSUME IInv, NEW j \in Jobs, Finish(j)
  PROVE  NoNewMissing
BY Values, Elsewhither DEF IInv, Finish

LEMMA GotoFinds ==
  ASSUME IInv, NEW j \in Jobs, NEW at, at # "missing", Goto(j, at)
  PROVE  NoNewMissing
<1>1. PICK q \in Request : q = job[j] /\ Shapes
  BY DEF IInv, Shapes
<1>2. job' = [job EXCEPT ![j] = [q EXCEPT !.at = at]] /\ [q EXCEPT !.at = at].at = at
  BY <1>1 DEF Goto, Shapes, Request
<1>. QED
  BY <1>1, <1>2, Elsewhither

LEMMA WritesFind ==
  ASSUME IInv, NEW j \in Jobs,
         CreateSelfServeTenant(j) \/ Created(j) \/ PutTenantCredentials(j) \/ ReadRow(j)
           \/ WriteRow(j) \/ DropCopy(j) \/ Answer(j)
  PROVE  NoNewMissing
<1>1. CASE Finish(j) \/ Goto(j, "insert") \/ Goto(j, "read")
  BY <1>1, FinishFinds, GotoFinds
<1>2. PICK q \in Request : q = job[j] /\ Shapes
  BY DEF IInv, Shapes
<1>3. CASE job' = [job EXCEPT ![j].at = "write", ![j].got = tenant]
  <2>1. job' = [job EXCEPT ![j] = [q EXCEPT !.at = "write", !.got = tenant]]
    BY <1>2, <1>3 DEF Shapes
  <2>2. [q EXCEPT !.at = "write", !.got = tenant].at = "write"
    BY DEF Request
  <2>. QED
    BY <1>2, <2>1, <2>2, Elsewhither
<1>4. CASE job' = [job EXCEPT ![j].at = "drop", ![j].got.n = tenant.n + 1]
  <2>. DEFINE g == [q.got EXCEPT !.n = tenant.n + 1]
  <2>1. job' = [job EXCEPT ![j] = [q EXCEPT !.at = "drop", !.got = g]]
    BY <1>2, <1>4 DEF Shapes
  <2>2. [q EXCEPT !.at = "drop", !.got = g].at = "drop"
    BY DEF Request
  <2>. QED
    BY <1>2, <2>1, <2>2, Elsewhither
<1>5. CASE DropCopy(j)
  <2>1. ASSUME NEW k \in Jobs, job'[k].at = "missing"
        PROVE  job[k].at = "missing"
    <3>1. PICK o \in Request : o = job[k]
      BY <1>2 DEF Shapes
    <3>2. job'[k].at = o.at \/ job'[k] = Idle
      BY <1>5, <3>1 DEF DropCopy, Request
    <3>. QED
      BY <2>1, <3>1, <3>2, Values
  <2>. QED
    BY <2>1 DEF NoNewMissing
<1>. QED
  BY <1>1, <1>3, <1>4, <1>5
     DEF CreateSelfServeTenant, Created, PutTenantCredentials, ReadRow, WriteRow, Answer

LEMMA NoneIsMissed ==
  ASSUME IInv, [Next]_tenantVars
  PROVE  NoNewMissing
<1>1. Shapes
  BY DEF IInv
<1>2. ASSUME NEW p \in Servers, Expire(p) \/ Restart(p)
      PROVE  NoNewMissing
  BY <1>1, <1>2, Values DEF Expire, Restart, NoNewMissing
<1>3. ASSUME NEW j \in Jobs, NEW p \in Servers, Open(j, p)
      PROVE  NoNewMissing
  <2>1. PICK q \in Request : q = [Idle EXCEPT !.op = "open"]
    BY Values DEF Request
  <2>2. q.at # "missing" /\ q.op = "open" /\ q.got.n <= tenant.n
    <3>1. q.at = "idle" /\ q.op = "open" /\ q.got.n = 0
      BY <2>1, Values DEF Idle
    <3>. QED
      BY <1>1, <3>1 DEF Shapes, Row
  <2>3. Look(j, p, q)
    BY <1>3, <2>1 DEF Open
  <2>4. PICK r \in Request : job' = [job EXCEPT ![j] = r] /\ r.at # "missing"
    BY <2>2, <2>3, LookFits
  <2>. QED
    BY <1>1, <2>4, Elsewhither
<1>4. ASSUME NEW j \in Jobs, NEW p \in Servers, NEW c \in Licenses, Create(j, p, c)
      PROVE  NoNewMissing
  <2>1. [Idle EXCEPT !.at = "remote", !.op = "create", !.on = p, !.client = {c}, !.key = {c}].at = "remote"
    BY DEF Idle
  <2>. QED
    BY <1>1, <1>4, <2>1, Elsewhither DEF Create
<1>5. ASSUME NEW j \in Jobs, NEW p \in Servers,
             NEW client \in Optional({0} \union Licenses), NEW key \in Optional(Licenses),
             Update(j, p, client, key)
      PROVE  NoNewMissing
  <2>1. PICK q \in Request : q = [Idle EXCEPT !.op = "update", !.on = p, !.client = client, !.key = key]
    BY Values DEF Request
  <2>2. q.at # "missing" /\ q.op = "update" /\ q.on = p /\ q.got.n <= tenant.n
    <3>1. q.at = "idle" /\ q.op = "update" /\ q.on = p /\ q.got.n = 0
      BY <2>1, Values DEF Idle
    <3>. QED
      BY <1>1, <3>1 DEF Shapes, Row
  <2>3. Look(j, p, q)
    BY <1>5, <2>1 DEF Update
  <2>4. PICK r \in Request : job' = [job EXCEPT ![j] = r] /\ r.at # "missing"
    BY <2>2, <2>3, LookFits
  <2>. QED
    BY <1>1, <2>4, Elsewhither
<1>6. ASSUME NEW j \in Jobs, Insert(j)
      PROVE  NoNewMissing
  <2>1. CASE Goto(j, "created")
    BY <2>1, GotoFinds
  <2>2. CASE Look(j, job[j].on, [job[j] EXCEPT !.op = "load"])
    <3>1. PICK q \in Request : q = job[j] /\ Fits(q)
      BY <1>1 DEF Shapes, IInv
    <3>2. PICK l \in Request : l = [q EXCEPT !.op = "load"]
      BY DEF Request
    <3>3. q.at = "insert"
      BY <1>6, <3>1 DEF Insert
    <3>4. l.got = q.got /\ l.on = q.on /\ l.op = "load" /\ l.at = q.at
      BY <3>2 DEF Request
    <3>5. remote.is /\ q.on \in Servers /\ l.got.n <= tenant.n
      BY <3>1, <3>3, <3>4 DEF Fits
    <3>6. Look(j, l.on, l)
      BY <2>2, <3>1, <3>2, <3>4
    <3>7. PICK r \in Request : job' = [job EXCEPT ![j] = r] /\ r.at # "missing"
      BY <3>3, <3>4, <3>5, <3>6, LookFits
    <3>. QED
      BY <1>1, <3>7, Elsewhither
  <2>. QED
    BY <1>6, <2>1, <2>2 DEF Insert
<1>7. CASE UNCHANGED tenantVars
  BY <1>7 DEF tenantVars, NoNewMissing
<1>. QED
  BY <1>2, <1>3, <1>4, <1>5, <1>6, <1>7, LookupsFind, WritesFind DEF Next

(***************************************************************************)
(* A tenant whose creation was answered is never said to be missing, by    *)
(* any request at any replica, whether its row was written or not, whatever *)
(* statements and calls fail in between: the record in the tenancy service *)
(* is there, and who looks for the row mirrors it (app/tenant.go           *)
(* GetOrMirrorTenant, controllers/tenants.go CreateTenant).                *)
(***************************************************************************)
THEOREM CreatedTenantsOpen == Spec => CreatedOpens
<1>1. IInv /\ [Next]_tenantVars => [NoNewMissing]_tenantVars
  BY NoneIsMissed
<1>. QED
  BY <1>1, AlwaysIInv, PTL DEF Spec, CreatedOpens

-----------------------------------------------------------------------------
(* The license holds *)

(* The row changes only where it is mirrored, inserted or written back. *)
LEMMA RowStays ==
  ASSUME [Next]_tenantVars
  PROVE  tenant' = tenant \/ \E j \in Jobs : Mirror(j) \/ Insert(j) \/ WriteRow(j)
<1>1. ASSUME NEW p \in Servers, Expire(p) \/ Restart(p)
      PROVE  tenant' = tenant
  BY <1>1 DEF Expire, Restart, Stores
<1>2. ASSUME NEW j \in Jobs, NEW p \in Servers,
             \/ Open(j, p) \/ \E c \in Licenses : Create(j, p, c)
             \/ \E client \in Optional({0} \union Licenses), key \in Optional(Licenses) :
                  Update(j, p, client, key)
      PROVE  tenant' = tenant
  BY <1>2 DEF Open, Create, Update, Elsewhere, Stores
<1>3. ASSUME NEW j \in Jobs,
             \/ FindTenant(j) \/ TenantDetail(j) \/ LoadFails(j) \/ Fill(j) \/ ReadRow(j) \/ Answer(j)
             \/ CreateSelfServeTenant(j) \/ Created(j) \/ PutTenantCredentials(j) \/ DropCopy(j)
      PROVE  tenant' = tenant
  BY <1>3 DEF FindTenant, TenantDetail, LoadFails, Fill, ReadRow, Answer, CreateSelfServeTenant, Created,
              PutTenantCredentials, DropCopy, Elsewhere, Stores
<1>4. CASE UNCHANGED tenantVars
  BY <1>4 DEF tenantVars
<1>. QED
  BY <1>1, <1>2, <1>3, <1>4 DEF Next

LEMMA OnlyTheWriteTakes ==
  ASSUME IInv, [Next]_tenantVars
  PROVE  OnlyUpdatesTake
<1>1. Shapes /\ Counts
  BY DEF IInv
<1>2. CASE tenant' = tenant
  BY <1>2 DEF OnlyUpdatesTake
<1>3. ASSUME NEW j \in Jobs, Mirror(j)
      PROVE  OnlyUpdatesTake
  <2>1. tenant.is => tenant' = tenant
    BY <1>3 DEF Mirror, Mirrored
  <2>2. ~tenant.is => tenant.pair.client = 0
    BY <1>1 DEF Counts, NoPair
  <2>. QED
    BY <2>1, <2>2 DEF OnlyUpdatesTake
<1>4. ASSUME NEW j \in Jobs, Insert(j)
      PROVE  OnlyUpdatesTake
  BY <1>1, <1>4 DEF Insert, InsertRow, Counts, NoPair, OnlyUpdatesTake
<1>5. ASSUME NEW j \in Jobs, WriteRow(j)
      PROVE  OnlyUpdatesTake
  <2>1. tenant'.pair.client = IF job[j].client = {} THEN job[j].got.pair.client
                              ELSE CHOOSE c \in job[j].client : TRUE
    BY <1>5 DEF WriteRow, UpdateRow, Carried
  <2>2. job[j].client \in Optional({0} \union Licenses) /\ job[j].at = "write"
    BY <1>1, <1>5 DEF Shapes, Request, WriteRow
  <2>3. job[j].client # {} => job[j].client = {CHOOSE c \in job[j].client : TRUE}
    BY <2>2, OptionalIs
  <2>. QED
    BY <2>1, <2>2, <2>3 DEF OnlyUpdatesTake
<1>. QED
  BY <1>2, <1>3, <1>4, <1>5, RowStays

(***************************************************************************)
(* The license of a tenant holds, in whatever order openings, creations,   *)
(* updates, failures and restarts of any number of replicas come: a row    *)
(* whose last update was of a full pair, or that was inserted, has a pair  *)
(* the tenancy service accepted; nothing but an update takes a license     *)
(* away; and a copy that was not looked up before an update its replica    *)
(* acknowledged shows that update (tenant.go UpdateCredentials,            *)
(* GetOrMirrorTenant, controllers/tenants.go UpdateSettings).              *)
(***************************************************************************)
THEOREM TheLicenseHolds == Spec => LicenseHolds
<1>1. IInv => NoUnseenLicense /\ UpdatesShow
  BY DEF IInv
<1>2. IInv /\ [Next]_tenantVars => [OnlyUpdatesTake]_tenantVars
  BY OnlyTheWriteTakes
<1>. QED
  BY <1>1, <1>2, AlwaysIInv, PTL DEF Spec, LicenseHolds, LicensesStay

-----------------------------------------------------------------------------
(* Types *)

(* The bound on the writes is kept. *)
Bounded == tenant.n <= MaxWrites

LEMMA BoundKept ==
  ASSUME MaxWrites \in Nat, IInv, Bounded, [Next]_tenantVars
  PROVE  Bounded'
<1>1. Shapes /\ Counts /\ tenant.n \in Nat
  BY DEF IInv, Shapes, Row
<1>2. CASE tenant' = tenant
  BY <1>2 DEF Bounded
<1>3. ASSUME NEW j \in Jobs, Mirror(j)
      PROVE  Bounded'
  <2>1. tenant.is => tenant' = tenant
    BY <1>3 DEF Mirror, Mirrored
  <2>2. ~tenant.is => tenant'.n = 0
    BY <1>3 DEF Mirror, Mirrored, NoRow
  <2>. QED
    BY <2>1, <2>2 DEF Bounded
<1>4. ASSUME NEW j \in Jobs, Insert(j)
      PROVE  Bounded'
  <2>1. tenant' = tenant \/ tenant'.n = 0
    BY <1>4 DEF Insert, InsertRow, NoRow
  <2>. QED
    BY <2>1 DEF Bounded
<1>5. ASSUME NEW j \in Jobs, WriteRow(j)
      PROVE  Bounded'
  <2>1. tenant.n < MaxWrites /\ tenant'.n = tenant.n + 1
    BY <1>5 DEF WriteRow, UpdateRow
  <2>. QED
    BY <1>1, <2>1 DEF Bounded
<1>. QED
  BY <1>2, <1>3, <1>4, <1>5, RowStays

(***************************************************************************)
(* The row, its copies and the record in the tenancy service hold halves   *)
(* somebody entered, and nobody, reading a copy or about to fill one,      *)
(* knows of more updates than there were.                                  *)
(***************************************************************************)
THEOREM TypeCorrect ==
  ASSUME MaxWrites \in Nat
  PROVE  Spec => []TypeOK
<1>1. Init => Bounded
  BY Values DEF Init, Bounded
<1>2. IInv /\ Bounded /\ [Next]_tenantVars => Bounded'
  BY BoundKept
<1>3. IInv /\ Bounded => TypeOK
  <2>. SUFFICES ASSUME IInv, Bounded PROVE TypeOK
    OBVIOUS
  <2>1. Shapes /\ Counts /\ \A j \in Jobs : Fits(job[j])
    BY DEF IInv
  <2>2. tenant.n \in Nat /\ \A p \in Servers : copy[p].n \in Nat /\ copy[p].n <= tenant.n
    BY <2>1 DEF Shapes, Row, Counts
  <2>3. tenant.n \in 0..MaxWrites /\ \A p \in Servers : copy[p].n \in 0..MaxWrites
    BY <2>2 DEF Bounded
  <2>4. tenant \in [is : BOOLEAN, pair : Halves, n : 0..MaxWrites, partial : BOOLEAN]
    BY <2>1, <2>3 DEF Shapes, Row
  <2>5. copy \in [Servers -> [is : BOOLEAN, pair : Halves, n : 0..MaxWrites, raced : BOOLEAN]]
    BY <2>1, <2>3 DEF Shapes
  <2>6. remote.pair \in Halves /\ remote.seen \subseteq Halves
    BY <2>1 DEF Shapes
  <2>7. (\A p \in Servers : due[p] <= tenant.n) /\ \A j \in Jobs : job[j].got.n <= tenant.n
    BY <2>1 DEF Counts, Fits
  <2>. QED
    BY <2>4, <2>5, <2>6, <2>7 DEF TypeOK, Halves
<1>. QED
  BY <1>1, <1>2, <1>3, AlwaysIInv, PTL DEF Spec

=============================================================================

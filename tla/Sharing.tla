------------------------------ MODULE Sharing ------------------------------
(***************************************************************************)
(* Sharing one vehicle with one wallet and revoking it (sharing.go,        *)
(* controllers/sharing.go, sharing-service.ts).                            *)
(*                                                                         *)
(* A request only queues a job in the tenancy service, which works on its  *)
(* own time and in its own order; the page that asked polls the job until  *)
(* it ends or the page stops waiting, which does not stop the job.         *)
(***************************************************************************)
EXTENDS Naturals, FiniteSets

CONSTANTS
  Pages,            \* dialogs that can wait at a time
  PollAttempts,     \* POLL_ATTEMPTS
  ErrorsTolerated,  \* POLL_ERRORS_TOLERATED
  MaxJobs           \* bound: jobs queued

VARIABLES
  jobs,     \* the jobs, in the order they were queued; alone: no other was open
  shared,   \* the wallet has access
  page      \* the dialogs

shareVars == <<jobs, shared, page>>

NoPage  == [at |-> "idle", kind |-> "none", job |-> 0, attempt |-> 0, failed |-> 0, verdict |-> "none"]
Numbers == DOMAIN jobs
Open(j) == jobs[j].state \in {"queued", "retryable"}

(* Only a page that asks again forgets what it was told. *)
Ask(c, kind) ==
  /\ page[c].at = "idle"
  /\ page' = [page EXCEPT ![c] = [NoPage EXCEPT !.at = "request", !.kind = kind]]
  /\ UNCHANGED <<jobs, shared>>

ShareVehicle(c) == Ask(c, "share")
RevokeShare(c)  == Ask(c, "revoke")

(* 403, 404, 409 or 503 before anything is queued: the grantee is the      *)
(* fleet's own license, the caller may not manage vehicles, or the vehicle *)
(* is outside what it reaches.                                             *)
Refuse(c) ==
  /\ page[c].at = "request"
  /\ page' = [page EXCEPT ![c].at = "idle", ![c].verdict = "refused"]
  /\ UNCHANGED <<jobs, shared>>

(* 202 and the job's number; or the answer is lost and the job is not. *)
Queue(c) ==
  LET n == Cardinality(Numbers) + 1
  IN  /\ page[c].at = "request" /\ n <= MaxJobs
      /\ jobs' = [j \in Numbers \union {n} |->
           IF j \in Numbers THEN jobs[j]
           ELSE [kind |-> page[c].kind, state |-> "queued",
                 alone |-> \A k \in Numbers : ~Open(k)]]
      /\ page' \in { [page EXCEPT ![c].at = "poll", ![c].job = n],
                     [page EXCEPT ![c].at = "idle", ![c].verdict = "unavailable"] }
      /\ UNCHANGED shared

-----------------------------------------------------------------------------
Tell(c, verdict) == page' = [page EXCEPT ![c].at = "idle", ![c].verdict = verdict]

(* Mutant: a page that has waited long enough says that the job failed. *)
SayFailed(c) == Tell(c, "failed")

(* Out of attempts: the job may still land. *)
TimeOut(c) == Tell(c, "unknown")

(* Mutant: one more read than there are attempts. *)
KeepPolling(c, failed) ==
  IF page[c].attempt = PollAttempts THEN TimeOut(c)
  ELSE page' = [page EXCEPT ![c].attempt = @ + 1, ![c].failed = failed]

Continue(c, failed) ==
  IF page[c].attempt + 1 = PollAttempts THEN TimeOut(c)
  ELSE page' = [page EXCEPT ![c].attempt = @ + 1, ![c].failed = failed]

(* One read of waitForJob. *)
Poll(c) ==
  LET state == jobs[page[c].job].state
  IN  /\ page[c].at = "poll"
      /\ CASE state = "completed" -> Tell(c, "done")
           [] state \in {"discarded", "cancelled"} -> Tell(c, "failed")
           [] OTHER -> Continue(c, 0)
      /\ UNCHANGED <<jobs, shared>>

(* The read failed, not the job. *)
PollFails(c) ==
  /\ page[c].at = "poll"
  /\ IF page[c].failed + 1 >= ErrorsTolerated THEN TimeOut(c) ELSE Continue(c, page[c].failed + 1)
  /\ UNCHANGED <<jobs, shared>>

(* The dialog is closed. *)
Abort(c) ==
  /\ page[c].at = "poll"
  /\ page' = [page EXCEPT ![c] = NoPage]
  /\ UNCHANGED <<jobs, shared>>

(* External: a job lands, is tried again, or ends without effect. *)
Work(j) ==
  /\ Open(j)
  /\ \/ /\ jobs' = [jobs EXCEPT ![j].state = "completed"]
        /\ shared' = (jobs[j].kind = "share")
     \/ /\ jobs' \in { [jobs EXCEPT ![j].state = state] : state \in {"retryable", "discarded", "cancelled"} }
        /\ UNCHANGED shared
  /\ UNCHANGED page

-----------------------------------------------------------------------------
Init == /\ jobs = [j \in {} |-> NoPage]
        /\ shared = FALSE
        /\ page = [c \in Pages |-> NoPage]

Next ==
  \/ \E c \in Pages :
       \/ ShareVehicle(c) \/ RevokeShare(c)
       \/ Refuse(c) \/ Queue(c) \/ Poll(c) \/ PollFails(c) \/ Abort(c)
  \/ \E j \in Numbers : Work(j)

Spec == Init /\ [][Next]_shareVars

-----------------------------------------------------------------------------
TypeOK ==
  /\ Numbers \subseteq 1..MaxJobs /\ shared \in BOOLEAN
  /\ \A c \in Pages : page[c].attempt < PollAttempts /\ page[c].failed < ErrorsTolerated

(* What a page says is still so when it is read: a job it reports as done  *)
(* has given or taken the access, and, when no other job was open as it    *)
(* was queued and none was queued since, that is the access there is; a    *)
(* job it reports as failed never has an effect.  A page that stopped      *)
(* waiting, or could not read, says neither (waitForJob).                  *)
VerdictsStand ==
  \A c \in Pages :
    LET job == jobs[page[c].job]
    IN  /\ page[c].verdict = "done" =>
             /\ job.state = "completed"
             /\ job.alone /\ page[c].job + 1 \notin Numbers => shared = (page[c].kind = "share")
        /\ page[c].verdict = "failed" => job.state \in {"discarded", "cancelled"}
=============================================================================

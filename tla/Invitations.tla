---------------------------- MODULE Invitations ----------------------------
(***************************************************************************)
(* One invitation, from the member who issues it to the guest who follows  *)
(* its link and opens the tenant (invitation.go, controllers/invitations.go*)
(* and the Authz cache of tenancy_api.go).                                 *)
(*                                                                         *)
(* The invitation and the membership live in the tenancy service, each     *)
(* operation there is one transaction, and its answer may be lost.  What   *)
(* is kept here is what the service last said of a wallet, "not a member"  *)
(* included, for the lifetime the service gave the answer.                 *)
(***************************************************************************)
EXTENDS Naturals

CONSTANTS
  Calls,       \* requests that can overlap
  AnswerLife,  \* ticks an answer is cached
  CallTime,    \* ticks a call takes at most
  MaxLinks     \* bound: links mailed before another is asked for

VARIABLES
  invite,    \* external: its status and its current link
  rights,    \* external: the guest is a member; the inviter manages members
  heard,     \* per wallet, the cached answer
  call,      \* the requests
  turn,      \* history: ticks since the guest joined, since the inviter lost its rights
  late       \* history: the latest refusal of the guest, and use of lost rights

inviteVars == <<invite, rights, heard, call, turn, late>>

Wallets == {"guest", "inviter"}
Horizon == AnswerLife + 2 * CallTime + 1
NoHeard == [is |-> FALSE, ok |-> FALSE, left |-> 0]
NoCall  == [at |-> "idle", op |-> "none", link |-> 0, got |-> FALSE, age |-> 0]
Who(op) == IF op = "open" THEN "guest" ELSE "inviter"

Reply(r) == call' = [call EXCEPT ![r] = NoCall]

(* What a request does with the answer: an opening is let in or refused,   *)
(* the others go on or are refused.                                        *)
Decide(r, op, link, ok) ==
  CASE op = "open" -> /\ Reply(r)
                      /\ late' = IF ok THEN late ELSE [late EXCEPT !.refused = turn.joined]
    [] op # "open" /\ ok -> /\ call' = [call EXCEPT ![r] = [NoCall EXCEPT
                                 !.at = "send", !.op = op, !.link = link]]
                            /\ UNCHANGED late
    [] OTHER -> Reply(r) /\ UNCHANGED late

-----------------------------------------------------------------------------
(* Accepting needs no right here: the service knows the link. *)
Begin(r, op, link) ==
  LET known == heard[Who(op)]
  IN  /\ call[r].at = "idle"
      /\ op \in {"create", "resend"} => invite.link < MaxLinks
      /\ IF op = "accept"
         THEN /\ call' = [call EXCEPT ![r] = [NoCall EXCEPT !.at = "send", !.op = op, !.link = link]]
              /\ UNCHANGED late
         ELSE IF known.left > 0 THEN Decide(r, op, link, known.ok)
         ELSE /\ call' = [call EXCEPT ![r] = [NoCall EXCEPT !.at = "authz", !.op = op, !.link = link]]
              /\ UNCHANGED late
      /\ UNCHANGED <<invite, rights, heard, turn>>

(* The service answers; an error is 503, and nothing is kept. *)
Authz(r) ==
  /\ call[r].at = "authz"
  /\ \/ call' = [call EXCEPT ![r].at = "keep", ![r].got = rights[Who(call[r].op)]]
     \/ Reply(r)
  /\ UNCHANGED <<invite, rights, heard, turn, late>>

(* Mutant: the answer is kept until the process ends. *)
KeepForever(ok) == [is |-> TRUE, ok |-> ok, left |-> Horizon]

Keep(ok) == [is |-> TRUE, ok |-> ok, left |-> AnswerLife]

KeepAnswer(r) ==
  LET op == call[r].op
  IN  /\ call[r].at = "keep"
      /\ heard' = [heard EXCEPT ![Who(op)] = Keep(call[r].got)]
      /\ Decide(r, op, call[r].link, call[r].got)
      /\ UNCHANGED <<invite, rights, turn>>

-----------------------------------------------------------------------------
(* External: the invitation after a request.  The service has answers for  *)
(* what changes nothing (404, 410); answers and emails may be lost.        *)
Issued == [status |-> "pending", link |-> invite.link + 1]
Remote(op, link) ==
  CASE op = "create" -> Issued
    [] op = "resend" /\ invite.status = "pending" -> Issued
    [] op = "revoke" /\ invite.status = "pending" -> [invite EXCEPT !.status = "revoked"]
    [] op = "accept" /\ invite.status = "pending" /\ link = invite.link ->
         [invite EXCEPT !.status = "accepted"]
    [] OTHER -> invite

(* Accepted and a member in one transaction; the replica's answer about    *)
(* the guest is left as it is.                                             *)
Send(r) ==
  LET op    == call[r].op
      joins == op = "accept" /\ Remote(op, call[r].link) # invite
  IN  /\ call[r].at = "send"
      /\ invite' = Remote(op, call[r].link)
      /\ rights' = [rights EXCEPT !["guest"] = @ \/ joins]
      /\ turn' = [turn EXCEPT !.joined = IF joins THEN 0 ELSE @]
      /\ late' = [late EXCEPT !.used = IF op # "accept" /\ ~rights["inviter"] THEN turn.lost ELSE @]
      /\ Reply(r)
      /\ UNCHANGED heard

(* External: the inviter may no longer manage members. *)
LoseRights ==
  /\ rights["inviter"]
  /\ rights' = [rights EXCEPT !["inviter"] = FALSE]
  /\ turn' = [turn EXCEPT !.lost = 0]
  /\ UNCHANGED <<invite, heard, call, late>>

Tick ==
  /\ \A r \in Calls : call[r].at = "idle" \/ call[r].age < CallTime
  /\ heard' = [w \in Wallets |-> IF heard[w].left > 1 THEN [heard[w] EXCEPT !.left = @ - 1] ELSE NoHeard]
  /\ call' = [r \in Calls |-> IF call[r].at = "idle" THEN call[r] ELSE [call[r] EXCEPT !.age = @ + 1]]
  /\ turn' = [joined |-> IF rights["guest"] /\ turn.joined < Horizon THEN turn.joined + 1 ELSE turn.joined,
              lost   |-> IF ~rights["inviter"] /\ turn.lost < Horizon THEN turn.lost + 1 ELSE turn.lost]
  /\ UNCHANGED <<invite, rights, late>>

-----------------------------------------------------------------------------
Init ==
  /\ invite = [status |-> "none", link |-> 0]
  /\ rights = [w \in Wallets |-> w = "inviter"]
  /\ heard = [w \in Wallets |-> NoHeard]
  /\ call = [r \in Calls |-> NoCall]
  /\ turn = [joined |-> 0, lost |-> 0]
  /\ late = [refused |-> 0, used |-> 0]

Ops == {"create", "resend", "revoke", "accept", "open"}

(* A guest has the links that were mailed. *)
Next ==
  \/ \E r \in Calls :
       \/ \E op \in Ops, link \in 0..invite.link : ((op = "accept") <=> link > 0) /\ Begin(r, op, link)
       \/ Authz(r) \/ KeepAnswer(r) \/ Send(r)
  \/ LoseRights \/ Tick

Spec == Init /\ [][Next]_inviteVars

-----------------------------------------------------------------------------
TypeOK ==
  /\ invite.status \in {"none", "pending", "accepted", "revoked"} /\ invite.link \in 0..2 * MaxLinks
  /\ rights \in [Wallets -> BOOLEAN]
  /\ turn \in [joined : 0..Horizon, lost : 0..Horizon]

(* A membership that an accepted invitation made takes effect within the   *)
(* life of an answer and a call: a guest who had been refused before is    *)
(* then let in; and as late as that nobody issues, resends or revokes      *)
(* invitations on rights that are gone (Authz, requireManageMembers).      *)
AccessFollowsMembership ==
  late.refused <= AnswerLife + CallTime /\ late.used <= AnswerLife + 2 * CallTime
=============================================================================

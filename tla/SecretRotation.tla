--------------------------- MODULE SecretRotation ---------------------------
(***************************************************************************)
(* The command that rewrites every tenant's stored DIMO key from an old    *)
(* passphrase to the current one (reencrypt_tenant_secrets.go), while      *)
(* members go on changing their licenses (tenant.go UpdateCredentials).    *)
(*                                                                         *)
(* It reads the rows of its scope, proves that each opens under one of the *)
(* two passphrases, and writes what it re-encrypted in one transaction; it *)
(* can be run again.  An update rewrites the whole row it read, the key's  *)
(* ciphertext included when it brings no key of its own.                   *)
(***************************************************************************)
EXTENDS Naturals, FiniteSets

CONSTANTS
  Owners,       \* tenants
  MaxKeys       \* bound: keys entered per tenant

VARIABLES
  secret,       \* per tenant, the ciphertext: the key in it and its passphrase
  entered,      \* history: per tenant, the key its members entered last
  editor,       \* per tenant, an update: whether it read the row, and what
  rotation,     \* the command
  overlapped    \* history: tenants with an update during a run

secretVars == <<secret, entered, editor, rotation, overlapped>>

NoSecret   == [key |-> 0, pass |-> "none"]
Cipher     == [key : 1..MaxKeys, pass : {"old", "new", "empty"}]
NoEdit     == [is |-> FALSE, read |-> NoSecret, brings |-> FALSE]
NoRotation == [at |-> "idle", dry |-> FALSE, scope |-> {}, read |-> [t \in {} |-> NoSecret],
               todo |-> {}, tx |-> [t \in {} |-> NoSecret], wrote |-> {}]

(* GCM authenticates: a ciphertext opens under its own passphrase only. *)
Opens(c, pass) == c.pass = pass

-----------------------------------------------------------------------------
Secrets(scope) == [t \in scope |-> secret[t]]

(* All rows are read in one query. *)
Execute(scope, dry) ==
  /\ rotation.at \in {"idle", "done", "failed"}
  /\ rotation' = [NoRotation EXCEPT !.at = "verify", !.dry = dry, !.scope = scope,
                                    !.read = Secrets(scope)]
  /\ overlapped' = overlapped \union { t \in Owners : editor[t].is }
  /\ UNCHANGED <<secret, entered, editor>>

(* Pass 1: what is under the current passphrase, or empty, is left alone;  *)
(* one row that opens under neither stops the command.                     *)
Verify ==
  LET stored == { t \in rotation.scope : rotation.read[t] # NoSecret }
      todo   == { t \in stored : ~Opens(rotation.read[t], "new") }
  IN  /\ rotation.at = "verify"
      /\ rotation' = [rotation EXCEPT !.todo = todo,
           !.at = IF \E t \in todo : ~Opens(rotation.read[t], "old") THEN "failed"
                  ELSE IF rotation.dry \/ todo = {} THEN "done" ELSE "write"]
      /\ UNCHANGED <<secret, entered, editor, overlapped>>

Reencrypted(t) == [rotation.read[t] EXCEPT !.pass = "new"]

(* Mutant: every UPDATE is committed by itself. *)
Direct(t) == /\ secret' = [secret EXCEPT ![t] = Reencrypted(t)]
             /\ rotation' = [rotation EXCEPT !.todo = @ \ {t}, !.wrote = @ \union {t}]

(* Pass 2: UPDATEs of one column, inside the transaction. *)
InTx(t) == /\ UNCHANGED secret
           /\ rotation' = [rotation EXCEPT !.todo = @ \ {t},
                !.tx = [u \in DOMAIN @ \union {t} |-> Reencrypted(u)]]

UpdateSecret(t) ==
  /\ rotation.at = "write" /\ t \in rotation.todo
  /\ InTx(t)
  /\ UNCHANGED <<entered, editor, overlapped>>

Commit ==
  /\ rotation.at = "write" /\ rotation.todo = {}
  /\ secret' = [t \in Owners |-> IF t \in DOMAIN rotation.tx THEN rotation.tx[t] ELSE secret[t]]
  /\ rotation' = [rotation EXCEPT !.at = "done", !.wrote = @ \union DOMAIN rotation.tx]
  /\ UNCHANGED <<entered, editor, overlapped>>

(* A statement fails, or the process dies: the transaction is rolled back. *)
RotationFails ==
  /\ rotation.at \in {"verify", "write"}
  /\ rotation' = [rotation EXCEPT !.at = "failed"]
  /\ UNCHANGED <<secret, entered, editor, overlapped>>

-----------------------------------------------------------------------------
(* UpdateCredentials: reads the row, of a tenant that is not being written; *)
BeginEdit(t, brings) ==
  /\ ~editor[t].is
  /\ brings => entered[t] < MaxKeys
  /\ editor' = [editor EXCEPT ![t] = [is |-> TRUE, read |-> secret[t], brings |-> brings]]
  /\ overlapped' = IF rotation.at \in {"verify", "write"} THEN overlapped \union {t} ELSE overlapped
  /\ UNCHANGED <<secret, entered, rotation>>

(* it waits for the lock of a row the transaction wrote, and writes its own. *)
EndEdit(t) ==
  /\ editor[t].is
  /\ rotation.at = "write" => t \notin DOMAIN rotation.tx
  /\ editor' = [editor EXCEPT ![t] = NoEdit]
  /\ IF editor[t].brings
     THEN /\ entered' = [entered EXCEPT ![t] = @ + 1]
          /\ secret' = [secret EXCEPT ![t] = [key |-> entered[t] + 1, pass |-> "new"]]
     ELSE /\ secret' = [secret EXCEPT ![t] = editor[t].read]
          /\ UNCHANGED entered
  /\ UNCHANGED <<rotation, overlapped>>

Init ==
  /\ secret \in [Owners -> {NoSecret} \union { c \in Cipher : c.key = 1 }]
  /\ entered = [t \in Owners |-> secret[t].key]
  /\ editor = [t \in Owners |-> NoEdit]
  /\ rotation = NoRotation /\ overlapped = {}

Next ==
  \/ \E scope \in {Owners} \union { {t} : t \in Owners }, dry \in BOOLEAN : Execute(scope, dry)
  \/ Verify \/ Commit \/ RotationFails
  \/ \E t \in Owners : UpdateSecret(t) \/ EndEdit(t) \/ \E brings \in BOOLEAN : BeginEdit(t, brings)

Spec == Init /\ [][Next]_secretVars

-----------------------------------------------------------------------------
(* Types: a transaction holds re-encrypted rows of the scope. *)
TypeOK ==
  /\ secret \in [Owners -> {NoSecret} \union Cipher]
  /\ rotation.todo \subseteq rotation.scope /\ DOMAIN rotation.tx \subseteq rotation.scope
  /\ \A t \in DOMAIN rotation.tx : rotation.tx[t].pass = "new"
  /\ rotation.wrote \subseteq rotation.scope /\ overlapped \subseteq Owners

(***************************************************************************)
(* "Nothing is written unless every row in scope succeeds", and no row a   *)
(* run left alone or rewrote has lost its key: each holds the key that was *)
(* entered last, and after a complete run opens under the new passphrase,  *)
(* unless an update of that tenant overlapped a run.                       *)
(***************************************************************************)
RotationIsSafe ==
  /\ rotation.at = "failed" \/ rotation.dry => rotation.wrote = {}
  /\ \A t \in Owners \ overlapped :
       /\ ~editor[t].is => secret[t].key = entered[t]
       /\ rotation.at = "done" /\ ~rotation.dry /\ t \in rotation.scope /\ ~editor[t].is =>
            secret[t] = NoSecret \/ Opens(secret[t], "new")
=============================================================================

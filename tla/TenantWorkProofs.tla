-------------------------- MODULE TenantWorkProofs --------------------------
(***************************************************************************)
(* Proofs about the parts of TenantWork that TenantStoreProofs leaves, for *)
(* any number of requests, browsers, goroutines and replies.  Each part    *)
(* has an invariant of its own places; a behaviour of SubjectSpec keeps    *)
(* the one of its subject.  The invariant of a part says, of every read    *)
(* that is still to be acted upon, what it is still good for.              *)
(***************************************************************************)
EXTENDS TenantWork, FiniteSetTheorems, TLAPS

(* A step of SubjectSpec is one of the subject's part, or none at all. *)
LEMMA SubjectStays ==
  ASSUME [SubjectNext]_allVars
  PROVE  subject' = subject
BY DEF SubjectNext, OfTenants, OfTokens, OfSecrets, OfGeofences, OfShares, OfInvitations,
       OfPreferences, OfComparisons, OfInputs, OfShapes, OfLists, OfIntervals, allVars

-----------------------------------------------------------------------------
(***************************************************************************)
(* Tokens (Minter). A token leaves the cache the margin before its life    *)
(* ends, or was given with no more than the margin left; a request that    *)
(* got one holds what was minted.                                          *)
(* own s1, services s2, tokens s3, vehicle s4, caller s5.                  *)
(***************************************************************************)
LEMMA TokenSteps ==
  ASSUME subject = "tokens", [SubjectNext]_allVars
  PROVE  Minting!Next \/ UNCHANGED <<s1, s2, s3, s4, s5>>
BY DEF SubjectNext, OfTenants, OfTokens, OfSecrets, OfGeofences, OfShares, OfInvitations,
       OfPreferences, OfComparisons, OfInputs, OfShapes, OfLists, OfIntervals, allVars, places

Pair  == Minting!Pairs \union {Minting!None}
Token == [is : BOOLEAN, client : Clients \union {0}, left : Nat, life : 0..Life, short : BOOLEAN]
Call  == [at : {"idle", "dev", "got", "refused"}, id : Minting!Ids, pair : Pair, with : Pair, token : Token]

(* A token whose life is longer than the margin leaves the cache the       *)
(* margin before it ends.                                                  *)
EndsInTime(token) ==
  token.is => token.left > 0 /\ (~token.short => token.life = token.left + Margin)

TokensInv ==
  /\ s1 \in Pair /\ s2 \in [Minting!Ids -> Pair]
  /\ s3 \in [Minting!Ids -> Token] /\ s4 \in Token /\ s5 \in [Callers -> Call]
  /\ EndsInTime(s4) /\ \A id \in Minting!Ids : EndsInTime(s3[id])

LEMMA NoTokenIs == Minting!NoToken \in Token /\ EndsInTime(Minting!NoToken)
BY TokensAssumption DEF Minting!NoToken, Token, EndsInTime

LEMMA WaitingIs == Minting!Waiting \in Call /\ Minting!None \in Pair
<1>1. Minting!None \in Pair
  BY DEF Pair
<1> QED
  BY <1>1, NoTokenIs DEF Minting!Waiting, Call, Minting!Ids, Minting!TenantId

LEMMA CachedIs ==
  ASSUME NEW client \in Clients \union {0}, NEW life \in 0..Life
  PROVE  Minting!Cached(client, life, Fallback) \in Token /\ EndsInTime(Minting!Cached(client, life, Fallback))
<1>1. life \in Nat /\ life <= Life /\ Margin \in Nat /\ Fallback \in Nat \ {0}
  BY TokensAssumption
<1>2. Minting!cacheTTLFromJWT(life, Fallback) \in Nat \ {0}
  BY <1>1 DEF Minting!cacheTTLFromJWT
<1>3. life > Margin => life = Minting!cacheTTLFromJWT(life, Fallback) + Margin
  BY <1>1 DEF Minting!cacheTTLFromJWT
<1>4. (life <= Margin) \in BOOLEAN /\ Minting!cacheTTLFromJWT(life, Fallback) \in Nat
  BY <1>2
<1>5. Minting!Cached(client, life, Fallback) \in Token
  BY <1>4, Zenon DEF Minting!Cached, Token
<1>6. CASE life > Margin
  BY <1>1, <1>2, <1>3, <1>5, <1>6 DEF Minting!Cached, EndsInTime
<1>7. CASE life <= Margin
  <2>1. Minting!Cached(client, life, Fallback).short
    BY <1>7, Zenon DEF Minting!Cached
  <2> QED
    BY <1>2, <1>5, <2>1 DEF Minting!Cached, EndsInTime
<1> QED
  BY <1>1, <1>6, <1>7

LEMMA AgedIs ==
  ASSUME NEW token \in Token, EndsInTime(token)
  PROVE  Minting!Aged(token) \in Token /\ EndsInTime(Minting!Aged(token))
<1>1. CASE token.left <= 1
  BY <1>1, NoTokenIs DEF Minting!Aged
<1>2. CASE token.left > 1
  <2>1. Minting!Aged(token) = [token EXCEPT !.left = @ - 1, !.life = Minting!Less(@)]
    BY <1>2 DEF Minting!Aged, Token
  <2>2. Minting!Less(token.life) \in 0..Life /\ (token.life > 0 => Minting!Less(token.life) = token.life - 1)
    BY TokensAssumption DEF Minting!Less, Token
  <2>0. token.left - 1 \in Nat /\ Minting!Less(token.life) \in 0..Life
    BY <1>2, <2>2 DEF Token
  <2>3. Minting!Aged(token) \in Token
    BY <2>0, <2>1 DEF Token
  <2>4. token.is /\ ~token.short => token.life > 0
    BY <1>2, TokensAssumption DEF Token, EndsInTime
  <2>5. EndsInTime(Minting!Aged(token))
    BY <1>2, <2>1, <2>2, <2>4, TokensAssumption DEF Token, EndsInTime
  <2> QED
    BY <2>3, <2>5
<1> QED
  BY <1>1, <1>2 DEF Token

LEMMA TokensStart ==
  ASSUME Minting!Init
  PROVE  TokensInv
BY NoTokenIs, WaitingIs DEF Minting!Init, TokensInv, Pair

LEMMA TokensStep ==
  ASSUME TokensInv, Minting!Next
  PROVE  TokensInv'
<1> USE DEF TokensInv
<1>1. CASE Minting!Tick
  <2>1. s3' \in [Minting!Ids -> Token] /\ \A id \in Minting!Ids : EndsInTime(s3'[id])
    BY <1>1, AgedIs DEF Minting!Tick
  <2>2. s4' \in Token /\ EndsInTime(s4)'
    BY <1>1, AgedIs DEF Minting!Tick, EndsInTime
  <2>3. \A c \in Callers : [s5[c] EXCEPT !.token.life = Minting!Less(@)] \in Call
    <3> SUFFICES ASSUME NEW c \in Callers
                 PROVE  [s5[c] EXCEPT !.token.life = Minting!Less(@)] \in Call
      OBVIOUS
    <3>1. PICK o \in Call : o = s5[c]
      OBVIOUS
    <3>2. o.token.life \in 0..Life
      BY DEF Call, Token
    <3>3. Minting!Less(o.token.life) \in 0..Life
      BY <3>2, TokensAssumption DEF Minting!Less
    <3>4. [o.token EXCEPT !.life = Minting!Less(@)] \in Token
      BY <3>3 DEF Call, Token
    <3> QED
      BY <3>1, <3>4 DEF Call
  <2>4. s5' \in [Callers -> Call]
    BY <1>1, <2>3 DEF Minting!Tick
  <2> QED
    BY <1>1, <2>1, <2>2, <2>4 DEF Minting!Tick, EndsInTime
<1>2. CASE Minting!Restart
  BY <1>2, NoTokenIs, WaitingIs DEF Minting!Restart
<1>3. ASSUME NEW pair \in Minting!Pairs, Minting!Rotate(pair)
      PROVE  TokensInv'
  BY <1>3 DEF Minting!Rotate, Pair, EndsInTime
<1>4. ASSUME NEW c \in Callers, NEW pair \in Pair, NEW id \in Minting!Ids, Minting!Call(c, id, pair)
      PROVE  TokensInv'
  BY <1>4, WaitingIs DEF Minting!Call, Call, EndsInTime
<1>5. ASSUME NEW c \in Callers, Minting!CachedJWT(c)
      PROVE  TokensInv'
  BY <1>5 DEF Minting!CachedJWT, Minting!Got, Call, EndsInTime
<1>6. ASSUME NEW c \in Callers, Minting!MintJWT(c)
      PROVE  TokensInv'
  <2>1. PICK with \in Pair : with = Minting!ServiceFor(s5[c].id, s5[c].pair)
    BY DEF Minting!ServiceFor, Call
  <2>2. s2' = [s2 EXCEPT ![s5[c].id] = with]
    BY <1>6, <2>1 DEF Minting!MintJWT
  <2>3. CASE s3' = s3 /\ s5' = [s5 EXCEPT ![c] = [@ EXCEPT !.at = "refused", !.with = with]]
    <3>1. s5' \in [Callers -> Call] /\ s2' \in [Minting!Ids -> Pair]
      BY <2>1, <2>2, <2>3 DEF Call
    <3> QED
      BY <1>6, <2>3, <3>1 DEF Minting!MintJWT, EndsInTime
  <2>4. ASSUME NEW token \in Token, EndsInTime(token), s3' = [s3 EXCEPT ![s5[c].id] = token],
               s5' = [s5 EXCEPT ![c] = [@ EXCEPT !.at = "got", !.token = token, !.with = with]]
        PROVE  TokensInv'
    <3>1. s5' \in [Callers -> Call]
      BY <2>1, <2>4 DEF Call
    <3>2. s5[c].id \in Minting!Ids
      BY DEF Call
    <3> QED
      BY <1>6, <2>1, <2>2, <2>4, <3>1, <3>2 DEF Minting!MintJWT, EndsInTime
  <2>5. Minting!Mintable(with) => with.client \in Clients
    BY DEF Minting!Mintable, Pair, Minting!Pairs, Minting!None
  <2>6. Life \in 0..Life
    BY TokensAssumption
  <2> QED
    BY <1>6, <2>1, <2>3, <2>4, <2>5, <2>6, CachedIs DEF Minting!MintJWT, Minting!Got
<1>7. ASSUME NEW c \in Callers, Minting!Exchange(c)
      PROVE  TokensInv'
  <2>1. s5[c].token.client \in Clients \union {0} /\ Life \in 0..Life /\ Minting!TenantId \in Minting!Ids
    BY TokensAssumption DEF Call, Token, Minting!Ids
  <2>2. s4' \in Token /\ EndsInTime(s4)'
    BY <1>7, <2>1, CachedIs DEF Minting!Exchange, EndsInTime
  <2>3. s2' \in [Minting!Ids -> Pair]
    BY <1>7, <2>1 DEF Minting!Exchange, Minting!ServiceFor, Call
  <2> QED
    BY <1>7, <2>2, <2>3, WaitingIs DEF Minting!Exchange, EndsInTime
<1>8. ASSUME NEW c \in Callers, Minting!Return(c)
      PROVE  TokensInv'
  BY <1>8, WaitingIs DEF Minting!Return, EndsInTime
<1>9. ASSUME NEW c \in Callers, NEW life \in 0..Life, Minting!RemoteJWT(c, life)
      PROVE  TokensInv'
  <2>1. s5[c].id \in Minting!Ids
    BY DEF Call
  <2>2. CASE s3' = s3 /\ s5' = [s5 EXCEPT ![c] = Minting!Waiting]
    BY <1>9, <2>2, WaitingIs DEF Minting!RemoteJWT, EndsInTime
  <2>3. ASSUME NEW token \in Token, EndsInTime(token), s3' = [s3 EXCEPT ![s5[c].id] = token],
               s5' = [s5 EXCEPT ![c] = [@ EXCEPT !.at = "got", !.token = token, !.with = Minting!None]]
        PROVE  TokensInv'
    <3>1. s5' \in [Callers -> Call]
      BY <2>3, WaitingIs DEF Call
    <3> QED
      BY <1>9, <2>1, <2>3, <3>1 DEF Minting!RemoteJWT, EndsInTime
  <2> QED
    BY <1>9, <2>2, <2>3, CachedIs DEF Minting!RemoteJWT, Minting!Got
<1> QED
  BY <1>1, <1>2, <1>3, <1>4, <1>5, <1>6, <1>7, <1>8, <1>9 DEF Minting!Next, Pair

LEMMA TokensRest ==
  ASSUME TokensInv, UNCHANGED <<s1, s2, s3, s4, s5>>
  PROVE  TokensInv'
BY DEF TokensInv

-----------------------------------------------------------------------------
(***************************************************************************)
(* The re-encryption (SecretRotation). The run knows the rows that no      *)
(* update overlapped; what is in its transaction is what it read, under    *)
(* the new passphrase, and with what is still to be written that is all    *)
(* that needs it.                                                          *)
(* secret s1, entered s2, editor s3, rotation s4, overlapped s5.           *)
(***************************************************************************)
LEMMA SecretSteps ==
  ASSUME subject = "secrets", [SubjectNext]_allVars
  PROVE  Rotating!Next \/ UNCHANGED <<s1, s2, s3, s4, s5>>
BY DEF SubjectNext, OfTenants, OfTokens, OfSecrets, OfGeofences, OfShares, OfInvitations,
       OfPreferences, OfComparisons, OfInputs, OfShapes, OfLists, OfIntervals, allVars, places

Secret     == {Rotating!NoSecret} \union Rotating!Cipher
SecretRows == UNION { [scope -> Secret] : scope \in SUBSET Owners }

SecretTypes ==
  /\ s1 \in [Owners -> Secret] /\ s2 \in [Owners -> 0..MaxKeys]
  /\ s3 \in [Owners -> [is : BOOLEAN, read : Secret, brings : BOOLEAN]]
  /\ s4 \in [at : {"idle", "verify", "write", "done", "failed"}, dry : BOOLEAN,
             scope : SUBSET Owners, read : SecretRows, todo : SUBSET Owners, tx : SecretRows,
             wrote : SUBSET Owners]
  /\ s5 \subseteq Owners

(* A run knows the rows that it reads and that nothing overlapped; what is *)
(* in its transaction is what it read, under the new passphrase, and what  *)
(* is still to be written or is there is all that needs it.                *)
Needy(o) == { t \in o.scope : o.read[t] # Rotating!NoSecret /\ o.read[t].pass # "new" }

RunKnows ==
  /\ s4.todo \subseteq s4.scope /\ DOMAIN s4.tx \subseteq s4.scope /\ s4.wrote \subseteq s4.scope
  /\ s4.wrote # {} => s4.at = "done" /\ ~s4.dry
  /\ s4.at \in {"verify", "write"} =>
       /\ DOMAIN s4.read = s4.scope /\ s4.wrote = {}
       /\ \A t \in Owners \ s5 : ~s3[t].is /\ (t \in s4.scope => s4.read[t] = s1[t])
  /\ s4.at = "verify" => s4.tx = [t \in {} |-> Rotating!NoSecret]
  /\ s4.at = "write" => ~s4.dry /\ Needy(s4) = s4.todo \union DOMAIN s4.tx
  /\ \A t \in DOMAIN s4.tx :
       s4.tx[t] \in Rotating!Cipher /\ s4.tx[t] = [s4.read[t] EXCEPT !.pass = "new"]

(* What no update overlapped holds the key entered last, and once a run is *)
(* done, under the new passphrase.                                         *)
KeysKept ==
  \A t \in Owners \ s5 :
    /\ s1[t].key = s2[t]
    /\ s3[t].is => s3[t].read = s1[t]
    /\ s4.at = "done" /\ ~s4.dry /\ t \in s4.scope => s1[t] = Rotating!NoSecret \/ s1[t].pass = "new"

EditsFit == \A t \in Owners : s3[t].is /\ s3[t].brings => s2[t] < MaxKeys

SecretsInv == SecretTypes /\ RunKnows /\ KeysKept /\ EditsFit

LEMMA SecretIs ==
  /\ Rotating!NoSecret \in Secret /\ Rotating!Cipher \subseteq Secret
  /\ \A c \in Rotating!Cipher : [c EXCEPT !.pass = "new"] \in Rotating!Cipher
  /\ [t \in {} |-> Rotating!NoSecret] \in SecretRows
BY DEF Secret, SecretRows, Rotating!Cipher, Rotating!NoSecret

LEMMA SecretsStart ==
  ASSUME Rotating!Init, MaxKeys \in Nat
  PROVE  SecretsInv
<1>1. Rotating!NoEdit \in [is : BOOLEAN, read : Secret, brings : BOOLEAN]
  BY SecretIs DEF Rotating!NoEdit
<1>2. SecretTypes
  <2>1. s1 \in [Owners -> Secret]
    BY SecretIs DEF Rotating!Init
  <2>2. \A t \in Owners : s1[t].key \in 0..MaxKeys
    BY <2>1 DEF Secret, Rotating!Cipher, Rotating!NoSecret
  <2>3. s4 \in [at : {"idle", "verify", "write", "done", "failed"}, dry : BOOLEAN,
             scope : SUBSET Owners, read : SecretRows, todo : SUBSET Owners, tx : SecretRows,
             wrote : SUBSET Owners]
    BY SecretIs DEF Rotating!Init, Rotating!NoRotation
  <2> QED
    BY <1>1, <2>1, <2>2, <2>3 DEF Rotating!Init, SecretTypes
<1>3. RunKnows
  BY DEF Rotating!Init, Rotating!NoRotation, RunKnows
<1> QED
  BY <1>2, <1>3 DEF Rotating!Init, Rotating!NoRotation, Rotating!NoEdit, SecretsInv, KeysKept, EditsFit

LEMMA ExecuteKeeps ==
  ASSUME SecretsInv, NEW scope \in {Owners} \union { {t} : t \in Owners }, NEW dry \in BOOLEAN,
         Rotating!Execute(scope, dry)
  PROVE  SecretsInv'
<1> USE DEF SecretsInv
<1>1. scope \subseteq Owners
  OBVIOUS
<1>2. Rotating!Secrets(scope) \in [scope -> Secret] /\ \A t \in scope : Rotating!Secrets(scope)[t] = s1[t]
  BY <1>1 DEF Rotating!Secrets, SecretTypes
<1>3. Rotating!Secrets(scope) \in SecretRows
  BY <1>1, <1>2 DEF SecretRows
<1>4. s4' = [at |-> "verify", dry |-> dry, scope |-> scope, read |-> Rotating!Secrets(scope), todo |-> {},
             tx |-> [t \in {} |-> Rotating!NoSecret], wrote |-> {}]
  BY DEF Rotating!Execute, Rotating!NoRotation
<1>5. s5' = s5 \union { t \in Owners : s3[t].is } /\ UNCHANGED <<s1, s2, s3>>
  BY DEF Rotating!Execute
<1>6. SecretTypes'
  BY <1>1, <1>3, <1>4, <1>5, SecretIs DEF SecretTypes
<1>7. RunKnows'
  BY <1>2, <1>4, <1>5 DEF RunKnows
<1>8. KeysKept' /\ EditsFit'
  BY <1>4, <1>5 DEF KeysKept, EditsFit
<1> QED
  BY <1>6, <1>7, <1>8

LEMMA VerifyKeeps ==
  ASSUME SecretsInv, Rotating!Verify
  PROVE  SecretsInv'
<1> USE DEF SecretsInv
<1>1. PICK at \in {"failed", "done", "write"} :
        /\ s4' = [s4 EXCEPT !.todo = Needy(s4), !.at = at]
        /\ at = "done" => s4.dry \/ Needy(s4) = {}
        /\ at = "write" => ~s4.dry
  <2> DEFINE stored == { t \in s4.scope : s4.read[t] # Rotating!NoSecret }
             todo   == { t \in stored : ~Rotating!Opens(s4.read[t], "new") }
  <2>1. todo = Needy(s4)
    BY DEF Needy, Rotating!Opens
  <2> HIDE DEF todo
  <2>2. s4' = [s4 EXCEPT !.todo = todo,
           !.at = IF \E t \in todo : ~Rotating!Opens(s4.read[t], "old") THEN "failed"
                  ELSE IF s4.dry \/ todo = {} THEN "done" ELSE "write"]
    BY DEF Rotating!Verify, todo
  <2> QED
    BY <2>1, <2>2
<1>2. s4.at = "verify" /\ UNCHANGED <<s1, s2, s3, s5>>
  BY DEF Rotating!Verify
<1>3. Needy(s4) \subseteq s4.scope
  BY DEF Needy
<1>4. SecretTypes'
  BY <1>1, <1>2, <1>3 DEF SecretTypes
<1>5. Needy(s4)' = Needy(s4) /\ s4'.scope = s4.scope /\ s4'.at = at /\ s4'.todo = Needy(s4)
      /\ s4'.tx = s4.tx /\ s4'.wrote = s4.wrote /\ s4'.dry = s4.dry /\ s4'.read = s4.read
  BY <1>1 DEF Needy, SecretTypes
<1>6. RunKnows'
  BY <1>1, <1>2, <1>3, <1>5 DEF RunKnows
<1>7. KeysKept' /\ EditsFit'
  <2>1. \A t \in Owners \ s5 : t \in s4.scope => s4.read[t] = s1[t]
    BY <1>2 DEF RunKnows
  <2>2. ASSUME NEW t \in Owners \ s5, at = "done", ~s4.dry, t \in s4.scope
        PROVE  s1[t] = Rotating!NoSecret \/ s1[t].pass = "new"
    BY <1>1, <2>1, <2>2 DEF Needy
  <2> QED
    BY <1>2, <1>5, <2>2 DEF KeysKept, EditsFit
<1> QED
  BY <1>4, <1>6, <1>7

LEMMA UpdateSecretKeeps ==
  ASSUME SecretsInv, NEW t \in Owners, Rotating!UpdateSecret(t)
  PROVE  SecretsInv'
<1> USE DEF SecretsInv
<1> DEFINE tx == [u \in DOMAIN s4.tx \union {t} |-> Rotating!Reencrypted(u)]
<1>1. /\ s4.at = "write" /\ t \in s4.todo /\ UNCHANGED <<s1, s2, s3, s5>>
      /\ s4' = [s4 EXCEPT !.todo = @ \ {t}, !.tx = tx]
  BY DEF Rotating!UpdateSecret, Rotating!InTx
<1>2. t \in Needy(s4) /\ DOMAIN s4.tx \subseteq Needy(s4) /\ Needy(s4) \subseteq s4.scope
  BY <1>1 DEF RunKnows, Needy
<1>3. \A u \in Needy(s4) : s4.read[u] \in Rotating!Cipher
  BY <1>1 DEF Needy, RunKnows, SecretTypes, SecretRows, Secret
<1>4. \A u \in DOMAIN tx : tx[u] = [s4.read[u] EXCEPT !.pass = "new"] /\ tx[u] \in Rotating!Cipher
  BY <1>2, <1>3, SecretIs DEF Rotating!Reencrypted
<1>5. DOMAIN tx = DOMAIN s4.tx \union {t}
  OBVIOUS
<1>6. tx \in [DOMAIN s4.tx \union {t} -> Secret]
  BY <1>4, <1>5, SecretIs
<1> HIDE DEF tx
<1>7. tx \in SecretRows
  <2>1. DOMAIN s4.tx \union {t} \in SUBSET Owners
    BY <1>2 DEF SecretTypes
  <2> QED
    BY <1>6, <2>1 DEF SecretRows
<1>8. SecretTypes'
  BY <1>1, <1>7 DEF SecretTypes
<1>9. /\ s4'.scope = s4.scope /\ s4'.at = s4.at /\ s4'.todo = s4.todo \ {t} /\ s4'.tx = tx
      /\ s4'.wrote = s4.wrote /\ s4'.dry = s4.dry /\ s4'.read = s4.read
  BY <1>1 DEF SecretTypes
<1>10. Needy(s4)' = Needy(s4)
  BY <1>9 DEF Needy
<1>11. RunKnows'
  <2>1. DOMAIN s4'.tx \subseteq s4'.scope /\ Needy(s4') = s4'.todo \union DOMAIN s4'.tx
    BY <1>1, <1>2, <1>5, <1>9, <1>10 DEF RunKnows, Needy
  <2>2. \A u \in DOMAIN s4'.tx :
          s4'.tx[u] \in Rotating!Cipher /\ s4'.tx[u] = [s4'.read[u] EXCEPT !.pass = "new"]
    BY <1>4, <1>5, <1>9
  <2> QED
    BY <1>1, <1>9, <2>1, <2>2 DEF RunKnows
<1>12. KeysKept' /\ EditsFit'
  BY <1>1, <1>9 DEF KeysKept, EditsFit
<1> QED
  BY <1>8, <1>11, <1>12

LEMMA CommitKeeps ==
  ASSUME SecretsInv, Rotating!Commit
  PROVE  SecretsInv'
<1> USE DEF SecretsInv
<1>1. /\ s4.at = "write" /\ s4.todo = {} /\ UNCHANGED <<s2, s3, s5>>
      /\ s1' = [t \in Owners |-> IF t \in DOMAIN s4.tx THEN s4.tx[t] ELSE s1[t]]
      /\ s4' = [s4 EXCEPT !.at = "done", !.wrote = @ \union DOMAIN s4.tx]
  BY DEF Rotating!Commit
<1>2. /\ s4'.scope = s4.scope /\ s4'.at = "done" /\ s4'.todo = s4.todo /\ s4'.tx = s4.tx
      /\ s4'.wrote = s4.wrote \union DOMAIN s4.tx /\ s4'.dry = s4.dry /\ s4'.read = s4.read
  BY <1>1 DEF SecretTypes
<1>3. SecretTypes'
  <2>1. DOMAIN s4.tx \subseteq Owners /\ \A t \in DOMAIN s4.tx : s4.tx[t] \in Secret
    BY SecretIs DEF RunKnows, SecretTypes
  <2> QED
    BY <1>1, <2>1 DEF SecretTypes
<1>4. RunKnows'
  BY <1>1, <1>2 DEF RunKnows
<1>5. Needy(s4) = DOMAIN s4.tx
  BY <1>1 DEF RunKnows
<1>6. ASSUME NEW t \in Owners \ s5
      PROVE  /\ ~s3[t].is /\ s1'[t].key = s1[t].key
             /\ t \in s4.scope => s1'[t] = Rotating!NoSecret \/ s1'[t].pass = "new"
  <2>1. ~s3[t].is /\ (t \in s4.scope => s4.read[t] = s1[t])
    BY <1>1 DEF RunKnows
  <2>2. CASE t \in DOMAIN s4.tx
    <3>1. s1'[t] = [s1[t] EXCEPT !.pass = "new"] /\ s1[t] \in Rotating!Cipher
      BY <1>1, <1>5, <2>1, <2>2 DEF RunKnows, Needy, SecretTypes, Secret
    <3> QED
      BY <2>1, <3>1 DEF Rotating!Cipher
  <2>3. CASE t \notin DOMAIN s4.tx
    BY <1>1, <1>5, <2>1, <2>3 DEF Needy
  <2> QED
    BY <2>2, <2>3
<1>7. KeysKept' /\ EditsFit'
  BY <1>1, <1>2, <1>6 DEF KeysKept, EditsFit
<1> QED
  BY <1>3, <1>4, <1>7

LEMMA EditKeeps ==
  ASSUME SecretsInv, MaxKeys \in Nat, NEW t \in Owners,
         Rotating!EndEdit(t) \/ \E brings \in BOOLEAN : Rotating!BeginEdit(t, brings)
  PROVE  SecretsInv'
<1> USE DEF SecretsInv
<1>1. ASSUME NEW brings \in BOOLEAN, Rotating!BeginEdit(t, brings)
      PROVE  SecretsInv'
  <2>1. /\ UNCHANGED <<s1, s2, s4>> /\ (brings => s2[t] < MaxKeys)
        /\ s3' = [s3 EXCEPT ![t] = [is |-> TRUE, read |-> s1[t], brings |-> brings]]
        /\ s5' = IF s4.at \in {"verify", "write"} THEN s5 \union {t} ELSE s5
    BY <1>1 DEF Rotating!BeginEdit
  <2>2. SecretTypes'
    BY <2>1 DEF SecretTypes
  <2>3. RunKnows'
    BY <2>1 DEF RunKnows, SecretTypes, Needy
  <2>4. KeysKept' /\ EditsFit'
    BY <2>1 DEF KeysKept, EditsFit, SecretTypes
  <2> QED
    BY <2>2, <2>3, <2>4
<1>2. ASSUME Rotating!EndEdit(t)
      PROVE  SecretsInv'
  <2>1. /\ s3[t].is /\ UNCHANGED <<s4, s5>> /\ s3' = [s3 EXCEPT ![t] = Rotating!NoEdit]
    BY <1>2 DEF Rotating!EndEdit
  <2>2. PICK row \in Secret, key \in 0..MaxKeys :
          /\ s1' = [s1 EXCEPT ![t] = row] /\ s2' = [s2 EXCEPT ![t] = key]
          /\ t \notin s5 => row.key = key
                            /\ ((s1[t] = Rotating!NoSecret \/ s1[t].pass = "new")
                                 => (row = Rotating!NoSecret \/ row.pass = "new"))
    <3>1. CASE s3[t].brings
      <4>1. s2[t] + 1 \in 1..MaxKeys
        BY <2>1, <3>1 DEF EditsFit, SecretTypes
      <4>2. [key |-> s2[t] + 1, pass |-> "new"] \in Secret
        BY <4>1 DEF Secret, Rotating!Cipher
      <4> QED
        BY <1>2, <3>1, <4>1, <4>2 DEF Rotating!EndEdit
    <3>2. CASE ~s3[t].brings
      <4>1. s3[t].read \in Secret /\ s2[t] \in 0..MaxKeys /\ s2 = [s2 EXCEPT ![t] = s2[t]]
        BY DEF SecretTypes
      <4>2. t \notin s5 => s3[t].read = s1[t] /\ s1[t].key = s2[t]
        BY <2>1 DEF KeysKept
      <4>3. s1' = [s1 EXCEPT ![t] = s3[t].read] /\ s2' = s2
        BY <1>2, <3>2 DEF Rotating!EndEdit
      <4> QED
        BY <4>1, <4>2, <4>3
    <3> QED
      BY <3>1, <3>2
  <2>3. SecretTypes'
    BY <2>1, <2>2, SecretIs DEF SecretTypes, Rotating!NoEdit
  <2>4. s4.at \in {"verify", "write"} => t \in s5
    BY <2>1 DEF RunKnows
  <2>5. RunKnows'
    BY <2>1, <2>2, <2>4 DEF RunKnows, SecretTypes, Needy, Rotating!NoEdit
  <2>6. KeysKept' /\ EditsFit'
    BY <2>1, <2>2 DEF KeysKept, EditsFit, SecretTypes, Rotating!NoEdit
  <2> QED
    BY <2>3, <2>5, <2>6
<1> QED
  BY <1>1, <1>2

LEMMA SecretsStep ==
  ASSUME SecretsInv, Rotating!Next
  PROVE  SecretsInv'
<1>1. CASE Rotating!RotationFails
  <2> USE DEF SecretsInv
  <2>1. /\ UNCHANGED <<s1, s2, s3, s5>> /\ s4' = [s4 EXCEPT !.at = "failed"]
        /\ s4.at \in {"verify", "write"}
    BY <1>1 DEF Rotating!RotationFails
  <2>2. SecretTypes'
    BY <2>1 DEF SecretTypes
  <2> QED
    BY <2>1, <2>2 DEF RunKnows, KeysKept, EditsFit, SecretTypes
<1> QED
  BY <1>1, ExecuteKeeps, VerifyKeeps, UpdateSecretKeeps, CommitKeeps, EditKeeps, KeysAssumption DEF Rotating!Next

LEMMA SecretsSafe ==
  ASSUME SecretsInv
  PROVE  Rotating!RotationIsSafe
BY DEF SecretsInv, SecretTypes, RunKnows, KeysKept, Rotating!RotationIsSafe, Rotating!Opens

LEMMA SecretsRest ==
  ASSUME SecretsInv, UNCHANGED <<s1, s2, s3, s4, s5>>
  PROVE  SecretsInv'
BY DEF SecretsInv, SecretTypes, RunKnows, KeysKept, EditsFit

-----------------------------------------------------------------------------
(***************************************************************************)
(* What is published of geofences (GeofenceCatalog). Whatever the tables   *)
(* say of a tenant's catalog and of each vehicle is attested, or a         *)
(* goroutine sends it or is about to read it, or a request that has not    *)
(* answered will start one; a step that changes the tables starts a        *)
(* goroutine, and no step takes away what was coming.                      *)
(* fences s1, assigned s2, edit s3, publisher s4, published s5, astray s6, *)
(* refusal s7, edits s8.                                                   *)
(***************************************************************************)
LEMMA FenceSteps ==
  ASSUME subject = "geofences", [SubjectNext]_allVars
  PROVE  Fencing!Next \/ UNCHANGED <<s1, s2, s3, s4, s5, s6, s7, s8>>
BY DEF SubjectNext, OfTenants, OfTokens, OfSecrets, OfGeofences, OfShares, OfInvitations,
       OfPreferences, OfComparisons, OfInputs, OfShapes, OfLists, OfIntervals, allVars, places

FenceRow == [of : Operators, name : Names, scope : Fencing!Scopes, shape : {1, 2}]

IsEdit(x) ==
  \/ x.at = "idle"
  \/ /\ x.at \in {"update", "members", "delete", "row", "add", "remove"}
     /\ x.req.of \in Operators /\ x.req.id \in Slugs /\ x.row \in FenceRow
     /\ x.at = "update" => x.req.patch \in Fencing!Patches
     /\ x.at \in {"add", "remove"} => x.req.car \in Cars
     /\ x.at # "row" => x = [at |-> x.at, req |-> x.req, row |-> x.row]

IsPublisher(x) ==
  \/ x.at = "idle"
  \/ /\ x.at \in {"load", "send"} /\ x.of \in Operators /\ x.what \in {"catalog", "vehicles"}
     /\ x = [at |-> x.at, of |-> x.of, what |-> x.what, cars |-> x.cars, read |-> x.read]

FenceTypes ==
  /\ s1 \in [Slugs -> {Fencing!NoFence} \union FenceRow]
  /\ s2 \subseteq Operators \X Slugs \X Cars
  /\ s3 = [e \in Edits |-> s3[e]] /\ \A e \in Edits : IsEdit(s3[e])
  /\ s4 = [p \in Goroutines |-> s4[p]] /\ \A p \in Goroutines : IsPublisher(s4[p])
  /\ s5 = [catalog |-> s5.catalog, member |-> s5.member]
  /\ s5.catalog = [o \in Operators |-> s5.catalog[o]]
  /\ s5.member = [o \in Operators |-> s5.member[o]]
  /\ \A o \in Operators : s5.member[o] = [v \in Cars |-> s5.member[o][v]]

Edited(e) == s3[e].at # "idle"

(* Edits of a geofence do not overlap: each has the row as it is; only a    *)
(* manual geofence has vehicles, or one whose vehicles are about to go.     *)
EditsAreAlone ==
  /\ \A e, f \in Edits : Edited(e) /\ Edited(f) /\ s3[e].req.id = s3[f].req.id => e = f
  /\ \A e \in Edits : Edited(e) => s1[s3[e].req.id] = s3[e].row /\ s3[e].row.of = s3[e].req.of

VehiclesAreOfManual ==
  /\ \A a \in s2 : s1[a[2]].of = a[1]
  /\ \A a \in s2 : s1[a[2]].scope # "manual" => \E e \in Edits : s3[e].at = "members" /\ s3[e].req.id = a[2]
  /\ \A e \in Edits : s3[e].at = "row" =>
       s3[e].members = Fencing!AssignedTo(s3[e].req.of, s3[e].req.id)

(* The catalog is attested, or is being, or is about to be.                 *)
IsEditing(o)      == \E e \in Edits : s3[e].at = "members" /\ s3[e].req.of = o
LoadsCatalog(o)   == \E p \in Goroutines : s4[p].at = "load" /\ s4[p].of = o /\ s4[p].what = "catalog"
SendsCatalog(p, o) == s4[p].at = "send" /\ s4[p].of = o /\ s4[p].what = "catalog"

CatalogComes(o) ==
  \/ IsEditing(o) \/ LoadsCatalog(o)
  \/ \E p \in Goroutines : SendsCatalog(p, o) /\ s4[p].read = Fencing!TenantGeofenceDefs(o)
  \/ (\A p \in Goroutines : ~SendsCatalog(p, o)) /\ s5.catalog[o] = Fencing!TenantGeofenceDefs(o)

LoadsVehicle(o, v)    == \E p \in Goroutines : s4[p].at = "load" /\ s4[p].of = o /\ s4[p].what = "vehicles" /\ v \in s4[p].cars
SendsVehicle(p, o, v) == s4[p].at = "send" /\ s4[p].of = o /\ s4[p].what = "vehicles" /\ v \in s4[p].cars

VehicleComes(o, v) ==
  \/ LoadsVehicle(o, v)
  \/ \E p \in Goroutines : SendsVehicle(p, o, v) /\ s4[p].read[v] = Fencing!VehicleManualGeofenceIDs(o, v)
  \/ (\A p \in Goroutines : ~SendsVehicle(p, o, v)) /\ s5.member[o][v] = Fencing!VehicleManualGeofenceIDs(o, v)

AllComes == \A o \in Operators : CatalogComes(o) /\ \A v \in Cars : VehicleComes(o, v)

FenceInv == FenceTypes /\ (~s6 => EditsAreAlone /\ VehiclesAreOfManual /\ AllComes)

LEMMA RowsAreNotNone ==
  ASSUME NEW row \in FenceRow
  PROVE  row # Fencing!NoFence /\ row.of # "none"
BY OperatorsAssumption DEF FenceRow, Fencing!NoFence

LEMMA FencesStart ==
  ASSUME Fencing!Init
  PROVE  FenceInv
<1>1. Fencing!NoEdit.at = "idle" /\ Fencing!NoJob.at = "idle"
  BY DEF Fencing!NoEdit, Fencing!NoJob
<1>2. FenceTypes
  BY <1>1 DEF Fencing!Init, FenceTypes, IsEdit, IsPublisher
<1>3. EditsAreAlone /\ VehiclesAreOfManual
  BY <1>1 DEF Fencing!Init, EditsAreAlone, VehiclesAreOfManual, Edited
<1>4. ASSUME NEW o \in Operators
      PROVE  CatalogComes(o)
  <2>1. Fencing!Owned(o) = {}
    BY OperatorsAssumption DEF Fencing!Init, Fencing!Owned, Fencing!NoFence
  <2>2. s5.catalog[o] = [id \in {} |-> Fencing!NoFence]
    BY DEF Fencing!Init
  <2>3. s5.catalog[o] = Fencing!TenantGeofenceDefs(o)
    BY <2>1, <2>2 DEF Fencing!TenantGeofenceDefs
  <2> QED
    BY <1>1, <2>3 DEF Fencing!Init, CatalogComes, SendsCatalog
<1>5. ASSUME NEW o \in Operators, NEW v \in Cars
      PROVE  VehicleComes(o, v)
  BY <1>1 DEF Fencing!Init, VehicleComes, SendsVehicle, Fencing!VehicleManualGeofenceIDs
<1> QED
  BY <1>2, <1>3, <1>4, <1>5 DEF FenceInv, AllComes

LEMMA PatchedIs ==
  ASSUME NEW row \in FenceRow, NEW patch \in Fencing!Patches
  PROVE  Fencing!Patched(row, patch) \in FenceRow /\ Fencing!Patched(row, patch).of = row.of
<1>1. DOMAIN row = {"of", "name", "scope", "shape"}
  BY DEF FenceRow
<1>2. CASE patch \in [{"name"} -> Names]
  <2>1. Fencing!Patched(row, patch) = [of |-> row.of, name |-> patch["name"], scope |-> row.scope, shape |-> row.shape]
    BY <1>1, <1>2 DEF Fencing!Patched
  <2> QED
    BY <1>2, <2>1 DEF FenceRow
<1>3. CASE patch \in [{"scope"} -> Fencing!Scopes]
  <2>1. Fencing!Patched(row, patch) = [of |-> row.of, name |-> row.name, scope |-> patch["scope"], shape |-> row.shape]
    BY <1>1, <1>3 DEF Fencing!Patched
  <2> QED
    BY <1>3, <2>1 DEF FenceRow
<1>4. CASE patch \in [{"shape"} -> {2}]
  <2>1. Fencing!Patched(row, patch) = [of |-> row.of, name |-> row.name, scope |-> row.scope, shape |-> patch["shape"]]
    BY <1>1, <1>4 DEF Fencing!Patched
  <2> QED
    BY <1>4, <2>1 DEF FenceRow
<1> QED
  BY <1>2, <1>3, <1>4 DEF Fencing!Patches

(* The catalog of a tenant is made of its own rows.                         *)
LEMMA DefsStay ==
  ASSUME NEW o \in Operators,
         \A id \in Slugs : s1'[id] = s1[id] \/ (s1[id].of # o /\ s1'[id].of # o)
  PROVE  Fencing!TenantGeofenceDefs(o)' = Fencing!TenantGeofenceDefs(o)
<1>1. Fencing!Owned(o)' = Fencing!Owned(o)
  BY DEF Fencing!Owned
<1>2. \A id \in Fencing!Owned(o) : s1'[id] = s1[id]
  BY DEF Fencing!Owned
<1> QED
  BY <1>1, <1>2 DEF Fencing!TenantGeofenceDefs, Fencing!toGeofenceDef

OnlyStarts == \A p \in Goroutines : s4'[p] = s4[p] \/ (s4[p].at = "idle" /\ s4'[p].at = "load")

LEMMA LaunchIs ==
  ASSUME FenceTypes, NEW jobs, \A j \in jobs : IsPublisher(j) /\ j.at = "load", Fencing!Launch(jobs)
  PROVE  /\ s4' = [p \in Goroutines |-> s4'[p]] /\ \A p \in Goroutines : IsPublisher(s4'[p])
         /\ OnlyStarts
         /\ \A j \in jobs : \E p \in Goroutines : s4'[p] = j
<1> DEFINE free == { p \in Goroutines : s4[p].at = "idle" }
<1>1. PICK f \in [jobs -> free] :
        /\ \A i, j \in jobs : f[i] = f[j] => i = j
        /\ s4' = [p \in Goroutines |-> IF \E j \in jobs : f[j] = p THEN CHOOSE j \in jobs : f[j] = p ELSE s4[p]]
  BY DEF Fencing!Launch
<1>2. ASSUME NEW j \in jobs
      PROVE  f[j] \in Goroutines /\ s4[f[j]].at = "idle" /\ s4'[f[j]] = j
  <2>1. f[j] \in free
    BY <1>1
  <2>2. (CHOOSE i \in jobs : f[i] = f[j]) = j
    BY <1>1
  <2> QED
    BY <1>1, <2>1, <2>2
<1>3. \A p \in Goroutines : s4'[p] = s4[p] \/ \E j \in jobs : f[j] = p
  BY <1>1
<1>4. \A p \in Goroutines : s4'[p] = s4[p] \/ (s4[p].at = "idle" /\ s4'[p] \in jobs)
  BY <1>2, <1>3
<1>5. s4' = [p \in Goroutines |-> s4'[p]]
  BY <1>1
<1>6. \A p \in Goroutines : IsPublisher(s4'[p])
  BY <1>4 DEF FenceTypes
<1> QED
  BY <1>2, <1>4, <1>5, <1>6 DEF OnlyStarts

LEMMA CatalogStays ==
  ASSUME NEW o \in Operators, CatalogComes(o), OnlyStarts, s5' = s5,
         IsEditing(o) => IsEditing(o)' \/ LoadsCatalog(o)',
         LoadsCatalog(o)' \/ Fencing!TenantGeofenceDefs(o)' = Fencing!TenantGeofenceDefs(o)
  PROVE  CatalogComes(o)'
<1>1. LoadsCatalog(o) => LoadsCatalog(o)'
  BY DEF LoadsCatalog, OnlyStarts
<1>2. \A p \in Goroutines : SendsCatalog(p, o)' <=> SendsCatalog(p, o)
  BY DEF SendsCatalog, OnlyStarts
<1>3. \A p \in Goroutines : SendsCatalog(p, o) => s4'[p].read = s4[p].read
  BY DEF SendsCatalog, OnlyStarts
<1>4. CASE LoadsCatalog(o)'
  BY <1>4 DEF CatalogComes
<1>5. CASE ~LoadsCatalog(o)'
  <2>1. Fencing!TenantGeofenceDefs(o)' = Fencing!TenantGeofenceDefs(o)
    BY <1>5
  <2>2. IsEditing(o) => IsEditing(o)'
    BY <1>5
  <2> QED
    BY <1>1, <1>2, <1>3, <1>5, <2>1, <2>2 DEF CatalogComes
<1> QED
  BY <1>4, <1>5

LEMMA VehicleStays ==
  ASSUME NEW o \in Operators, NEW v \in Cars, VehicleComes(o, v), OnlyStarts, s5' = s5,
         LoadsVehicle(o, v)' \/ Fencing!VehicleManualGeofenceIDs(o, v)' = Fencing!VehicleManualGeofenceIDs(o, v)
  PROVE  VehicleComes(o, v)'
<1>1. LoadsVehicle(o, v) => LoadsVehicle(o, v)'
  BY DEF LoadsVehicle, OnlyStarts
<1>2. \A p \in Goroutines : SendsVehicle(p, o, v)' <=> SendsVehicle(p, o, v)
  BY DEF SendsVehicle, OnlyStarts
<1>3. \A p \in Goroutines : SendsVehicle(p, o, v) => s4'[p].read = s4[p].read
  BY DEF SendsVehicle, OnlyStarts
<1>4. CASE LoadsVehicle(o, v)'
  BY <1>4 DEF VehicleComes
<1>5. CASE ~LoadsVehicle(o, v)'
  <2>1. Fencing!VehicleManualGeofenceIDs(o, v)' = Fencing!VehicleManualGeofenceIDs(o, v)
    BY <1>5
  <2> QED
    BY <1>1, <1>2, <1>3, <1>5, <2>1 DEF VehicleComes
<1> QED
  BY <1>4, <1>5

(* republish starts a goroutine for the catalog, and one for the vehicles.  *)
LEMMA RepublishIs ==
  ASSUME FenceTypes, NEW o \in Operators, NEW V, Fencing!republish(o, V)
  PROVE  /\ s4' = [p \in Goroutines |-> s4'[p]] /\ \A p \in Goroutines : IsPublisher(s4'[p])
         /\ OnlyStarts /\ LoadsCatalog(o)' /\ \A v \in V : LoadsVehicle(o, v)'
<1> DEFINE jobs == { Fencing!CatalogJob(o) } \union (IF V = {} THEN {} ELSE { Fencing!VehiclesJob(o, V) })
<1>1. Fencing!Launch(jobs)
  BY DEF Fencing!republish
<1>2. \A j \in jobs : IsPublisher(j) /\ j.at = "load"
  BY DEF Fencing!CatalogJob, Fencing!VehiclesJob, IsPublisher
<1>3. Fencing!CatalogJob(o) \in jobs /\ (V # {} => Fencing!VehiclesJob(o, V) \in jobs)
  OBVIOUS
<1> HIDE DEF jobs
<1>4. /\ s4' = [p \in Goroutines |-> s4'[p]] /\ \A p \in Goroutines : IsPublisher(s4'[p])
      /\ OnlyStarts
      /\ \A j \in jobs : \E p \in Goroutines : s4'[p] = j
  BY <1>1, <1>2, LaunchIs
<1>5. LoadsCatalog(o)'
  BY <1>3, <1>4 DEF LoadsCatalog, Fencing!CatalogJob
<1>6. ASSUME NEW v \in V
      PROVE  LoadsVehicle(o, v)'
  <2>1. PICK p \in Goroutines : s4'[p] = Fencing!VehiclesJob(o, V)
    BY <1>3, <1>4, <1>6
  <2> QED
    BY <2>1 DEF LoadsVehicle, Fencing!VehiclesJob
<1> QED
  BY <1>4, <1>5, <1>6

LEMMA LaunchVehicleIs ==
  ASSUME FenceTypes, NEW o \in Operators, NEW v \in Cars, Fencing!Launch({ Fencing!VehiclesJob(o, {v}) })
  PROVE  /\ s4' = [p \in Goroutines |-> s4'[p]] /\ \A p \in Goroutines : IsPublisher(s4'[p])
         /\ OnlyStarts /\ LoadsVehicle(o, v)'
<1> DEFINE jobs == { Fencing!VehiclesJob(o, {v}) }
<1>1. \A j \in jobs : IsPublisher(j) /\ j.at = "load"
  BY DEF Fencing!VehiclesJob, IsPublisher
<1>2. Fencing!VehiclesJob(o, {v}) \in jobs
  OBVIOUS
<1>3. Fencing!Launch(jobs)
  OBVIOUS
<1> HIDE DEF jobs
<1>4. /\ s4' = [p \in Goroutines |-> s4'[p]] /\ \A p \in Goroutines : IsPublisher(s4'[p])
      /\ OnlyStarts
      /\ \A j \in jobs : \E p \in Goroutines : s4'[p] = j
  BY <1>1, <1>3, LaunchIs
<1>5. LoadsVehicle(o, v)'
  <2>1. PICK p \in Goroutines : s4'[p] = Fencing!VehiclesJob(o, {v})
    BY <1>2, <1>4
  <2> QED
    BY <2>1 DEF LoadsVehicle, Fencing!VehiclesJob
<1> QED
  BY <1>4, <1>5

LEMMA FencesRest ==
  ASSUME FenceInv, UNCHANGED <<s1, s2, s3, s4, s5, s6>>
  PROVE  FenceInv'
<1>1. FenceTypes'
  BY DEF FenceInv, FenceTypes
<1>2. EditsAreAlone => EditsAreAlone'
  BY DEF EditsAreAlone, Edited
<1>3. VehiclesAreOfManual => VehiclesAreOfManual'
  BY DEF VehiclesAreOfManual, Fencing!AssignedTo
<1>4. ASSUME NEW o \in Operators, CatalogComes(o)
      PROVE  CatalogComes(o)'
  <2>1. Fencing!TenantGeofenceDefs(o)' = Fencing!TenantGeofenceDefs(o)
    BY DefsStay
  <2> QED
    BY <1>4, <2>1, CatalogStays DEF OnlyStarts, IsEditing
<1>5. ASSUME NEW o \in Operators, NEW v \in Cars, VehicleComes(o, v)
      PROVE  VehicleComes(o, v)'
  <2>1. Fencing!VehicleManualGeofenceIDs(o, v)' = Fencing!VehicleManualGeofenceIDs(o, v)
    BY DEF Fencing!VehicleManualGeofenceIDs
  <2> QED
    BY <1>5, <2>1, VehicleStays DEF OnlyStarts
<1> QED
  BY <1>1, <1>2, <1>3, <1>4, <1>5 DEF FenceInv, AllComes

LEMMA CreateFenceKeeps ==
  ASSUME FenceInv, NEW o \in Operators, NEW name \in Names, NEW scope \in Fencing!Scopes,
         Fencing!CreateGeofence(o, name, scope)
  PROVE  FenceInv'
<1>1. UNCHANGED <<s2, s3, s5, s6>>
  BY DEF Fencing!CreateGeofence
<1>2. CASE UNCHANGED <<s1, s4>>
  BY <1>1, <1>2, FencesRest
<1>3. CASE ~Fencing!Clash(o, name) /\ Fencing!InsertFence(o, name, scope) /\ Fencing!republish(o, {})
  <2> DEFINE id  == Fencing!slug(name)
             row == [of |-> o, name |-> name, scope |-> scope, shape |-> 1]
  <2>1. s1[id] = Fencing!NoFence /\ s1' = [s1 EXCEPT ![id] = row]
    BY <1>3 DEF Fencing!Clash, Fencing!InsertFence
  <2>2. row \in FenceRow /\ row.of = o
    BY DEF FenceRow
  <2> HIDE DEF id, row
  <2>3. FenceTypes
    BY DEF FenceInv
  <2>4. /\ s1' \in [Slugs -> {Fencing!NoFence} \union FenceRow]
        /\ \A i \in Slugs \ {id} : s1'[i] = s1[i]
        /\ id \in Slugs => s1'[id].of = o
    BY <2>1, <2>2, <2>3 DEF FenceTypes
  <2>5. /\ s4' = [p \in Goroutines |-> s4'[p]] /\ \A p \in Goroutines : IsPublisher(s4'[p])
        /\ OnlyStarts /\ LoadsCatalog(o)'
    BY <1>3, <2>3, RepublishIs
  <2>6. FenceTypes'
    BY <1>1, <2>3, <2>4, <2>5 DEF FenceTypes
  <2>7. ASSUME ~s6
        PROVE  EditsAreAlone' /\ VehiclesAreOfManual' /\ AllComes'
    <3>1. EditsAreAlone /\ VehiclesAreOfManual /\ AllComes
      BY <2>7 DEF FenceInv
    <3>2. \A e \in Edits : Edited(e) => s3[e].req.id \in Slugs /\ s3[e].req.id # id
      BY <2>1, <2>3, <3>1, RowsAreNotNone DEF FenceTypes, IsEdit, Edited, EditsAreAlone
    <3>3. EditsAreAlone'
      BY <1>1, <2>4, <3>1, <3>2 DEF EditsAreAlone, Edited
    <3>4. \A a \in s2 : a[1] \in Operators /\ a[2] \in Slugs
      BY <2>3 DEF FenceTypes
    <3>5. \A a \in s2 : a[2] # id
      BY <2>1, <3>1, <3>4, OperatorsAssumption DEF VehiclesAreOfManual, Fencing!NoFence
    <3>6. VehiclesAreOfManual'
      BY <1>1, <2>4, <3>1, <3>4, <3>5 DEF VehiclesAreOfManual, Fencing!AssignedTo
    <3>7. ASSUME NEW x \in Operators
          PROVE  CatalogComes(x)'
      <4>1. CASE x = o
        BY <2>5, <4>1 DEF CatalogComes
      <4>2. CASE x # o
        <5>1. s1[id].of # x
          BY <2>1, OperatorsAssumption DEF Fencing!NoFence
        <5>2. Fencing!TenantGeofenceDefs(x)' = Fencing!TenantGeofenceDefs(x)
          BY <2>4, <4>2, <5>1, DefsStay
        <5>3. IsEditing(x) => IsEditing(x)'
          BY <1>1 DEF IsEditing
        <5> QED
          BY <1>1, <2>5, <3>1, <5>2, <5>3, CatalogStays DEF AllComes
      <4> QED
        BY <4>1, <4>2
    <3>8. ASSUME NEW x \in Operators, NEW v \in Cars
          PROVE  VehicleComes(x, v)'
      <4>1. Fencing!VehicleManualGeofenceIDs(x, v)' = Fencing!VehicleManualGeofenceIDs(x, v)
        BY <1>1 DEF Fencing!VehicleManualGeofenceIDs
      <4> QED
        BY <1>1, <2>5, <3>1, <4>1, VehicleStays DEF AllComes
    <3> QED
      BY <3>3, <3>6, <3>7, <3>8 DEF AllComes
  <2> QED
    BY <1>1, <2>6, <2>7 DEF FenceInv
<1> QED
  BY <1>2, <1>3 DEF Fencing!CreateGeofence

(* A request that only reads, or that finds nothing to do, moves one edit:  *)
(* what it leaves in place of it is an edit, alone as it was, and members   *)
(* that were about to lose their geofence still are.                        *)
LEMMA EditMoves ==
  ASSUME FenceTypes, NEW e \in Edits, NEW x, s3' = [s3 EXCEPT ![e] = x], IsEdit(x),
         UNCHANGED <<s1, s2, s4, s5>>
  PROVE  FenceTypes'
BY DEF FenceTypes

LEMMA GetFenceKeeps ==
  ASSUME FenceInv, NEW e \in Edits, NEW o \in Operators, NEW id \in Slugs, NEW req,
         req.of = o, req.id = id, req.op \in {"update", "delete", "add", "remove"},
         req.op = "update" => req.patch \in Fencing!Patches,
         req.op \in {"add", "remove"} => req.car \in Cars,
         Fencing!GetGeofence(e, req)
  PROVE  FenceInv'
<1> DEFINE x == [at |-> req.op, req |-> req, row |-> s1[id]]
<1>1. /\ s3[e].at = "idle" /\ s1[id].of = o /\ s3' = [s3 EXCEPT ![e] = x]
      /\ UNCHANGED <<s1, s2, s4, s5>>
  BY DEF Fencing!GetGeofence, Fencing!IsFence, Fencing!Owned
<1>2. ~s6' => ~s6 /\ \A f \in Edits : Edited(f) => s3[f].req.id # id
  BY Zenon DEF Fencing!GetGeofence, Edited
<1>3. FenceTypes
  BY DEF FenceInv
<1>4. s1[id] \in FenceRow
  BY <1>1, <1>3, OperatorsAssumption DEF FenceTypes, Fencing!NoFence
<1>5. IsEdit(x) /\ x.at \in {"update", "delete", "add", "remove"} /\ x.req = req /\ x.row = s1[id]
  BY <1>4 DEF IsEdit
<1> HIDE DEF x
<1>6. FenceTypes'
  BY <1>1, <1>3, <1>5, EditMoves
<1>7. s3'[e] = x /\ \A f \in Edits \ {e} : s3'[f] = s3[f]
  BY <1>1, <1>3 DEF FenceTypes
<1>8. ASSUME ~s6'
      PROVE  EditsAreAlone' /\ VehiclesAreOfManual' /\ AllComes'
  <2>1. EditsAreAlone /\ VehiclesAreOfManual /\ AllComes
    BY <1>2, <1>8 DEF FenceInv
  <2>2. EditsAreAlone'
    BY <1>1, <1>2, <1>5, <1>7, <1>8, <2>1 DEF EditsAreAlone, Edited
  <2>3. VehiclesAreOfManual'
    BY <1>1, <1>5, <1>7, <2>1 DEF VehiclesAreOfManual, Fencing!AssignedTo
  <2>4. ASSUME NEW q \in Operators
        PROVE  CatalogComes(q)'
    <3>1. IsEditing(q) => IsEditing(q)'
      BY <1>1, <1>7 DEF IsEditing
    <3>2. Fencing!TenantGeofenceDefs(q)' = Fencing!TenantGeofenceDefs(q)
      BY <1>1, DefsStay
    <3> QED
      BY <1>1, <2>1, <3>1, <3>2, CatalogStays DEF OnlyStarts, AllComes
  <2>5. ASSUME NEW q \in Operators, NEW v \in Cars
        PROVE  VehicleComes(q, v)'
    <3>1. Fencing!VehicleManualGeofenceIDs(q, v)' = Fencing!VehicleManualGeofenceIDs(q, v)
      BY <1>1 DEF Fencing!VehicleManualGeofenceIDs
    <3> QED
      BY <1>1, <2>1, <3>1, VehicleStays DEF OnlyStarts, AllComes
  <2> QED
    BY <2>2, <2>3, <2>4, <2>5 DEF AllComes
<1> QED
  BY <1>6, <1>8 DEF FenceInv

LEMMA EditIsPatched ==
  ASSUME NEW edit, NEW req, NEW patch, edit = [at |-> "update", req |-> req, row |-> edit.row]
  PROVE  [edit EXCEPT !.at = "members", !.row = Fencing!Patched(@, patch)]
           = [at |-> "members", req |-> req, row |-> Fencing!Patched(edit.row, patch)]
<1>0. PICK row, p : row = edit.row /\ p = Fencing!Patched(row, patch)
  OBVIOUS
<1> DEFINE b == [edit EXCEPT !.at = "members", !.row = p]
<1>1. edit \in [at : {"update", "members"}, req : {req}, row : {row, p}]
  BY <1>0
<1>2. b \in [at : {"update", "members"}, req : {req}, row : {row, p}]
  BY <1>1
<1>3. b.at = "members" /\ b.req = req /\ b.row = p
  BY <1>1
<1>4. [edit EXCEPT !.at = "members", !.row = Fencing!Patched(@, patch)] = b
  BY <1>0
<1> HIDE DEF b
<1>5. b = [at |-> "members", req |-> req, row |-> p]
  BY <1>2, <1>3
<1> QED
  BY <1>0, <1>4, <1>5, Zenon

LEMMA UpdateFenceKeeps ==
  ASSUME FenceInv, NEW e \in Edits, Fencing!UpdateGeofence(e)
  PROVE  FenceInv'
<1>0. PICK id, o : id = s3[e].req.id /\ o = s3[e].req.of
  OBVIOUS
<1> DEFINE req == s3[e].req
           x   == [s3[e] EXCEPT !.at = "members", !.row = Fencing!Patched(@, req.patch)]
<1>1. s3[e].at = "update" /\ UNCHANGED <<s2, s4, s5, s6>>
  BY DEF Fencing!UpdateGeofence, Fencing!Elsewhere
<1>2. FenceTypes /\ req.patch \in Fencing!Patches /\ s3[e].row \in FenceRow /\ id \in Slugs /\ o \in Operators
      /\ s3[e] = [at |-> "update", req |-> req, row |-> s3[e].row]
  BY <1>0, <1>1 DEF FenceInv, FenceTypes, IsEdit
<1>3. CASE s1' = s1 /\ s3' = [s3 EXCEPT ![e] = Fencing!NoEdit]
  <2>1. IsEdit(Fencing!NoEdit) /\ Fencing!NoEdit.at = "idle"
    BY DEF IsEdit, Fencing!NoEdit
  <2>2. FenceTypes'
    BY <1>1, <1>2, <1>3, <2>1, EditMoves
  <2>3. s3'[e].at = "idle" /\ \A f \in Edits \ {e} : s3'[f] = s3[f]
    BY <1>2, <1>3, <2>1 DEF FenceTypes
  <2>4. ASSUME ~s6
        PROVE  EditsAreAlone' /\ VehiclesAreOfManual' /\ AllComes'
    <3>1. EditsAreAlone /\ VehiclesAreOfManual /\ AllComes
      BY <2>4 DEF FenceInv
    <3>2. EditsAreAlone'
      BY <1>3, <2>3, <3>1 DEF EditsAreAlone, Edited
    <3>3. VehiclesAreOfManual'
      BY <1>1, <1>3, <2>3, <3>1 DEF VehiclesAreOfManual, Fencing!AssignedTo
    <3>4. ASSUME NEW q \in Operators
          PROVE  CatalogComes(q)'
      <4>1. IsEditing(q) => IsEditing(q)'
        BY <1>1, <2>3 DEF IsEditing
      <4>2. Fencing!TenantGeofenceDefs(q)' = Fencing!TenantGeofenceDefs(q)
        BY <1>3, DefsStay
      <4> QED
        BY <1>1, <3>1, <4>1, <4>2, CatalogStays DEF OnlyStarts, AllComes
    <3>5. ASSUME NEW q \in Operators, NEW v \in Cars
          PROVE  VehicleComes(q, v)'
      <4>1. Fencing!VehicleManualGeofenceIDs(q, v)' = Fencing!VehicleManualGeofenceIDs(q, v)
        BY <1>1 DEF Fencing!VehicleManualGeofenceIDs
      <4> QED
        BY <1>1, <3>1, <4>1, VehicleStays DEF OnlyStarts, AllComes
    <3> QED
      BY <3>2, <3>3, <3>4, <3>5 DEF AllComes
  <2> QED
    BY <1>1, <2>2, <2>4 DEF FenceInv
<1>4. CASE Fencing!UpdateFence(req.id, req.patch) /\ s3' = [s3 EXCEPT ![e] = x]
  <2>1. x = [at |-> "members", req |-> req, row |-> Fencing!Patched(s3[e].row, req.patch)]
    BY <1>2, EditIsPatched, Zenon
  <2>2. Fencing!Patched(s3[e].row, req.patch) \in FenceRow /\ Fencing!Patched(s3[e].row, req.patch).of = s3[e].row.of
    BY <1>2, PatchedIs
  <2>3. IsEdit(x) /\ x.at = "members" /\ x.req = req /\ x.row = Fencing!Patched(s3[e].row, req.patch)
    BY <1>0, <1>2, <2>1, <2>2 DEF IsEdit
  <2> HIDE DEF x
  <2>4. s3' = [f \in Edits |-> s3'[f]] /\ s3'[e] = x /\ \A f \in Edits \ {e} : s3'[f] = s3[f]
    BY <1>2, <1>4 DEF FenceTypes
  <2>5. s1' = [s1 EXCEPT ![id] = IF @ = Fencing!NoFence THEN @ ELSE Fencing!Patched(@, req.patch)]
    BY <1>0, <1>4 DEF Fencing!UpdateFence
  <2>6. \A row \in FenceRow : Fencing!Patched(row, req.patch) \in FenceRow
    BY <1>2, PatchedIs
  <2>7. /\ s1' \in [Slugs -> {Fencing!NoFence} \union FenceRow] /\ \A i \in Slugs \ {id} : s1'[i] = s1[i]
        /\ s1[id] \in FenceRow => s1'[id] = Fencing!Patched(s1[id], req.patch)
    BY <1>2, <2>5, <2>6, RowsAreNotNone DEF FenceTypes
  <2>8. FenceTypes'
    <3>1. \A f \in Edits : IsEdit(s3'[f])
      BY <1>2, <2>3, <2>4 DEF FenceTypes
    <3> QED
      BY <1>1, <1>2, <2>4, <2>7, <3>1 DEF FenceTypes
  <2>9. ASSUME ~s6
        PROVE  EditsAreAlone' /\ VehiclesAreOfManual' /\ AllComes'
    <3>1. EditsAreAlone /\ VehiclesAreOfManual /\ AllComes
      BY <2>9 DEF FenceInv
    <3>2. s1[id] = s3[e].row /\ s1[id].of = o /\ s1'[id] = x.row /\ s1'[id].of = o
      BY <1>0, <1>1, <1>2, <2>2, <2>3, <2>7, <3>1 DEF EditsAreAlone, Edited
    <3>3. \A f \in Edits : Edited(f) /\ f # e => s3[f].req.id # id /\ s3[f].req.id \in Slugs
      BY <1>0, <1>1, <1>2, <3>1 DEF EditsAreAlone, Edited, FenceTypes, IsEdit
    <3>4. EditsAreAlone'
      <4>1. ASSUME NEW f \in Edits, Edited(f)'
            PROVE  s1'[s3'[f].req.id] = s3'[f].row /\ s3'[f].row.of = s3'[f].req.of
        BY <1>0, <2>3, <2>4, <2>7, <3>1, <3>2, <3>3, <4>1 DEF EditsAreAlone, Edited
      <4>2. ASSUME NEW f \in Edits, NEW g \in Edits, Edited(f)', Edited(g)', s3'[f].req.id = s3'[g].req.id
            PROVE  f = g
        BY <1>0, <2>3, <2>4, <3>1, <3>3, <4>2 DEF EditsAreAlone, Edited
      <4> QED
        BY <4>1, <4>2 DEF EditsAreAlone
    <3>5. VehiclesAreOfManual'
      <4>1. \A a \in s2 : a[2] \in Slugs
        BY <1>2 DEF FenceTypes
      <4>2. \A a \in s2 : s1'[a[2]].of = a[1]
        BY <2>7, <3>1, <3>2, <4>1 DEF VehiclesAreOfManual
      <4>3. ASSUME NEW a \in s2, s1'[a[2]].scope # "manual"
            PROVE  \E f \in Edits : s3'[f].at = "members" /\ s3'[f].req.id = a[2]
        <5>1. CASE a[2] = id
          BY <1>0, <2>3, <2>4, <5>1
        <5>2. CASE a[2] # id
          BY <1>1, <2>4, <2>7, <3>1, <4>1, <4>3, <5>2 DEF VehiclesAreOfManual
        <5> QED
          BY <5>1, <5>2
      <4>4. ASSUME NEW f \in Edits, s3'[f].at = "row"
            PROVE  s3'[f].members = Fencing!AssignedTo(s3'[f].req.of, s3'[f].req.id)
        BY <2>3, <2>4, <3>1, <4>4 DEF VehiclesAreOfManual
      <4>5. \A f \in Edits : Fencing!AssignedTo(s3[f].req.of, s3[f].req.id)' = Fencing!AssignedTo(s3'[f].req.of, s3'[f].req.id)
        BY <1>1 DEF Fencing!AssignedTo
      <4> QED
        BY <1>1, <4>2, <4>3, <4>4, <4>5 DEF VehiclesAreOfManual
    <3>6. ASSUME NEW q \in Operators
          PROVE  CatalogComes(q)'
      <4>1. CASE q = o
        <5>1. s3'[e].at = "members" /\ s3'[e].req.of = q
          BY <1>0, <2>3, <2>4, <4>1
        <5> QED
          BY <5>1 DEF CatalogComes, IsEditing
      <4>2. CASE q # o
        <5>1. IsEditing(q) => IsEditing(q)'
          BY <1>1, <2>4 DEF IsEditing
        <5>2. Fencing!TenantGeofenceDefs(q)' = Fencing!TenantGeofenceDefs(q)
          BY <2>7, <3>2, <4>2, DefsStay
        <5> QED
          BY <1>1, <3>1, <5>1, <5>2, CatalogStays DEF OnlyStarts, AllComes
      <4> QED
        BY <4>1, <4>2
    <3>7. ASSUME NEW q \in Operators, NEW v \in Cars
          PROVE  VehicleComes(q, v)'
      <4>1. Fencing!VehicleManualGeofenceIDs(q, v)' = Fencing!VehicleManualGeofenceIDs(q, v)
        BY <1>1 DEF Fencing!VehicleManualGeofenceIDs
      <4> QED
        BY <1>1, <3>1, <4>1, VehicleStays DEF OnlyStarts, AllComes
    <3> QED
      BY <3>4, <3>5, <3>6, <3>7 DEF AllComes
  <2> QED
    BY <1>1, <2>8, <2>9 DEF FenceInv
<1> QED
  BY <1>3, <1>4, Zenon DEF Fencing!UpdateGeofence, Fencing!Finish

(* An assignment is of a tenant, a geofence and a vehicle.                  *)
LEMMA AssignmentIs ==
  ASSUME FenceTypes, NEW a \in s2
  PROVE  /\ a[1] \in Operators /\ a[2] \in Slugs /\ a[3] \in Cars /\ a = <<a[1], a[2], a[3]>>
BY DEF FenceTypes

(* A request that is done: what it took from the tables is of its own       *)
(* geofence, and of that one the catalog and the vehicles are asked for.    *)
LEMMA DropKeeps ==
  ASSUME FenceInv, NEW e \in Edits, Fencing!DropAssignments(e)
  PROVE  FenceInv'
<1>0. PICK id, o : id = s3[e].req.id /\ o = s3[e].req.of
  OBVIOUS
<1> DEFINE dropped == IF s3[e].row.scope = "manual" THEN {} ELSE Fencing!AssignedTo(o, id)
<1>1. /\ s3[e].at = "members" /\ s2' = s2 \ ({o} \X {id} \X dropped)
      /\ s3' = [s3 EXCEPT ![e] = Fencing!NoEdit] /\ Fencing!republish(o, dropped)
      /\ UNCHANGED <<s1, s5, s6>>
  BY <1>0, Zenon DEF Fencing!DropAssignments, Fencing!DeleteAssignments, Fencing!Finish
<1>2. FenceTypes /\ id \in Slugs /\ o \in Operators
  BY <1>0, <1>1 DEF FenceInv, FenceTypes, IsEdit
<1>3. \A v \in dropped : <<o, id, v>> \in s2
  BY DEF Fencing!AssignedTo
<1>3a. s3[e].row.scope # "manual" => \A v \in Cars : <<o, id, v>> \in s2 => v \in dropped
  BY DEF Fencing!AssignedTo
<1>3b. s3[e].row.scope = "manual" => dropped = {}
  OBVIOUS
<1> HIDE DEF dropped
<1>4. IsEdit(Fencing!NoEdit) /\ Fencing!NoEdit.at = "idle"
  BY DEF IsEdit, Fencing!NoEdit
<1>5. /\ s3' = [f \in Edits |-> s3'[f]] /\ s3'[e].at = "idle" /\ IsEdit(s3'[e])
      /\ \A f \in Edits \ {e} : s3'[f] = s3[f]
  BY <1>1, <1>2, <1>4 DEF FenceTypes
<1>6. /\ s4' = [p \in Goroutines |-> s4'[p]] /\ \A p \in Goroutines : IsPublisher(s4'[p])
      /\ OnlyStarts /\ LoadsCatalog(o)' /\ \A v \in dropped : LoadsVehicle(o, v)'
  BY <1>1, <1>2, RepublishIs
<1>7. FenceTypes'
  <2>1. s2' \subseteq Operators \X Slugs \X Cars
    BY <1>1, <1>2 DEF FenceTypes
  <2>2. \A f \in Edits : IsEdit(s3'[f])
    BY <1>2, <1>5 DEF FenceTypes
  <2> QED
    BY <1>1, <1>2, <1>5, <1>6, <2>1, <2>2 DEF FenceTypes
<1>8. ASSUME NEW q \in Operators, NEW i \in Slugs, NEW v \in Cars, ~(q = o /\ i = id /\ v \in dropped)
      PROVE  <<q, i, v>> \in s2' <=> <<q, i, v>> \in s2
  BY <1>1, <1>8
<1>9. ASSUME ~s6
      PROVE  EditsAreAlone' /\ VehiclesAreOfManual' /\ AllComes'
  <2>1. EditsAreAlone /\ VehiclesAreOfManual /\ AllComes
    BY <1>9 DEF FenceInv
  <2>2. EditsAreAlone'
    BY <1>1, <1>5, <2>1 DEF EditsAreAlone, Edited
  <2>3. s1[id] = s3[e].row /\ s1[id].of = o
    BY <1>0, <1>1, <2>1 DEF EditsAreAlone, Edited
  <2>4. \A f \in Edits \ {e} : Edited(f) => s3[f].req.id # id /\ s3[f].req.id \in Slugs /\ s3[f].req.of \in Operators
    BY <1>0, <1>1, <1>2, <2>1 DEF EditsAreAlone, Edited, FenceTypes, IsEdit
  <2>5. VehiclesAreOfManual'
    <3>1. \A a \in s2' : a \in s2
      BY <1>1
    <3>2. \A a \in s2' : s1[a[2]].of = a[1]
      BY <2>1, <3>1 DEF VehiclesAreOfManual
    <3>3. ASSUME NEW a \in s2', s1[a[2]].scope # "manual"
          PROVE  \E f \in Edits : s3'[f].at = "members" /\ s3'[f].req.id = a[2]
      <4>1. a \in s2 /\ a[1] \in Operators /\ a[2] \in Slugs /\ a[3] \in Cars /\ a = <<a[1], a[2], a[3]>>
        BY <1>2, <3>1, <3>3, AssignmentIs
      <4>2. ASSUME a[2] = id
            PROVE  FALSE
        <5>1. a[1] = o
          BY <2>3, <3>2, <3>3, <4>2
        <5>2. a[3] \in dropped
          BY <1>3a, <2>3, <3>3, <4>1, <4>2, <5>1
        <5>3. a \in {o} \X {id} \X dropped
          BY <4>1, <4>2, <5>1, <5>2
        <5> QED
          BY <1>1, <3>3, <5>3
      <4>3. PICK f \in Edits : s3[f].at = "members" /\ s3[f].req.id = a[2]
        BY <2>1, <3>3, <4>1 DEF VehiclesAreOfManual
      <4> QED
        BY <1>0, <1>5, <4>2, <4>3
    <3>4. ASSUME NEW f \in Edits, s3'[f].at = "row"
          PROVE  s3'[f].members = { v \in Cars : <<s3'[f].req.of, s3'[f].req.id, v>> \in s2' }
      <4>1. f # e /\ s3'[f] = s3[f] /\ s3[f].at = "row"
        BY <1>5, <3>4
      <4>2. s3[f].members = { v \in Cars : <<s3[f].req.of, s3[f].req.id, v>> \in s2 }
        BY <2>1, <4>1 DEF VehiclesAreOfManual, Fencing!AssignedTo
      <4>3. s3[f].req.id # id /\ s3[f].req.id \in Slugs /\ s3[f].req.of \in Operators
        BY <2>4, <4>1 DEF Edited
      <4>4. \A v \in Cars : <<s3[f].req.of, s3[f].req.id, v>> \in s2' <=> <<s3[f].req.of, s3[f].req.id, v>> \in s2
        BY <1>8, <4>3
      <4> QED
        BY <4>1, <4>2, <4>4
    <3> QED
      BY <1>1, <3>2, <3>3, <3>4 DEF VehiclesAreOfManual, Fencing!AssignedTo
  <2>6. ASSUME NEW q \in Operators
        PROVE  CatalogComes(q)'
    <3>1. CASE q = o
      BY <1>6, <3>1 DEF CatalogComes
    <3>2. CASE q # o
      <4>1. IsEditing(q) => IsEditing(q)'
        BY <1>0, <1>5, <3>2 DEF IsEditing
      <4>2. Fencing!TenantGeofenceDefs(q)' = Fencing!TenantGeofenceDefs(q)
        BY <1>1, DefsStay
      <4> QED
        BY <1>1, <1>6, <2>1, <4>1, <4>2, CatalogStays DEF AllComes
    <3> QED
      BY <3>1, <3>2
  <2>7. ASSUME NEW q \in Operators, NEW v \in Cars
        PROVE  VehicleComes(q, v)'
    <3>1. CASE q = o /\ v \in dropped
      BY <1>6, <3>1 DEF VehicleComes
    <3>2. CASE ~(q = o /\ v \in dropped)
      <4>1. \A i \in Slugs : <<q, i, v>> \in s2' <=> <<q, i, v>> \in s2
        BY <1>8, <3>2
      <4>2. Fencing!VehicleManualGeofenceIDs(q, v)' = Fencing!VehicleManualGeofenceIDs(q, v)
        BY <4>1 DEF Fencing!VehicleManualGeofenceIDs
      <4> QED
        BY <1>1, <1>6, <2>1, <4>2, VehicleStays DEF AllComes
    <3> QED
      BY <3>1, <3>2
  <2> QED
    BY <2>2, <2>5, <2>6, <2>7 DEF AllComes
<1> QED
  BY <1>1, <1>7, <1>9 DEF FenceInv

LEMMA ReadMembersKeeps ==
  ASSUME FenceInv, NEW e \in Edits, Fencing!ReadMembers(e)
  PROVE  FenceInv'
<1>0. PICK id, o : id = s3[e].req.id /\ o = s3[e].req.of
  OBVIOUS
<1> DEFINE members == IF s3[e].row.scope # "manual" THEN {} ELSE Fencing!AssignedTo(o, id)
           x == [at |-> "row", req |-> s3[e].req, row |-> s3[e].row, members |-> members]
<1>1. /\ s3[e].at = "delete" /\ s3' = [s3 EXCEPT ![e] = x]
      /\ UNCHANGED <<s1, s2, s4, s5, s6>>
  BY <1>0 DEF Fencing!ReadMembers, Fencing!Elsewhere
<1>2. FenceTypes /\ id \in Slugs /\ o \in Operators /\ s3[e].row \in FenceRow
  BY <1>0, <1>1 DEF FenceInv, FenceTypes, IsEdit
<1>3. IsEdit(x) /\ x.at = "row" /\ x.req = s3[e].req /\ x.row = s3[e].row /\ x.members = members
  BY <1>0, <1>2 DEF IsEdit
<1> HIDE DEF x
<1>4. FenceTypes'
  BY <1>1, <1>2, <1>3, EditMoves
<1>5. s3'[e] = x /\ \A f \in Edits \ {e} : s3'[f] = s3[f]
  BY <1>1, <1>2 DEF FenceTypes
<1>6. ASSUME ~s6
      PROVE  EditsAreAlone' /\ VehiclesAreOfManual' /\ AllComes'
  <2>1. EditsAreAlone /\ VehiclesAreOfManual /\ AllComes
    BY <1>6 DEF FenceInv
  <2>2. EditsAreAlone'
    BY <1>1, <1>3, <1>5, <2>1 DEF EditsAreAlone, Edited
  <2>3. members = Fencing!AssignedTo(o, id)
    <3>1. CASE s3[e].row.scope # "manual"
      <4>1. s1[id].scope # "manual"
        BY <1>0, <1>1, <2>1, <3>1 DEF EditsAreAlone, Edited
      <4>2. \A f \in Edits : s3[f].at = "members" => s3[f].req.id # id
        BY <1>0, <1>1, <2>1 DEF EditsAreAlone, Edited
      <4>3. \A a \in s2 : a[2] # id
        BY <2>1, <4>1, <4>2 DEF VehiclesAreOfManual
      <4> QED
        BY <3>1, <4>3 DEF Fencing!AssignedTo
    <3> QED
      BY <3>1
  <2>4. VehiclesAreOfManual'
    <3>1. \A a \in s2 : s1[a[2]].scope # "manual" => \E f \in Edits : s3'[f].at = "members" /\ s3'[f].req.id = a[2]
      BY <1>1, <1>5, <2>1 DEF VehiclesAreOfManual
    <3>2. \A f \in Edits : s3'[f].at = "row" =>
            s3'[f].members = { v \in Cars : <<s3'[f].req.of, s3'[f].req.id, v>> \in s2 }
      BY <1>0, <1>3, <1>5, <2>1, <2>3 DEF VehiclesAreOfManual, Fencing!AssignedTo
    <3> QED
      BY <1>1, <2>1, <3>1, <3>2 DEF VehiclesAreOfManual, Fencing!AssignedTo
  <2>5. ASSUME NEW q \in Operators
        PROVE  CatalogComes(q)'
    <3>1. IsEditing(q) => IsEditing(q)'
      BY <1>1, <1>5 DEF IsEditing
    <3>2. Fencing!TenantGeofenceDefs(q)' = Fencing!TenantGeofenceDefs(q)
      BY <1>1, DefsStay
    <3> QED
      BY <1>1, <2>1, <3>1, <3>2, CatalogStays DEF OnlyStarts, AllComes
  <2>6. ASSUME NEW q \in Operators, NEW v \in Cars
        PROVE  VehicleComes(q, v)'
    <3>1. Fencing!VehicleManualGeofenceIDs(q, v)' = Fencing!VehicleManualGeofenceIDs(q, v)
      BY <1>1 DEF Fencing!VehicleManualGeofenceIDs
    <3> QED
      BY <1>1, <2>1, <3>1, VehicleStays DEF OnlyStarts, AllComes
  <2> QED
    BY <2>2, <2>4, <2>5, <2>6 DEF AllComes
<1> QED
  BY <1>1, <1>4, <1>6 DEF FenceInv

LEMMA DeleteFenceKeeps ==
  ASSUME FenceInv, NEW e \in Edits, Fencing!DeleteGeofence(e)
  PROVE  FenceInv'
<1>0. PICK id, o, members : id = s3[e].req.id /\ o = s3[e].req.of /\ members = s3[e].members
  OBVIOUS
<1>1. /\ s3[e].at = "row" /\ s1' = [s1 EXCEPT ![id] = Fencing!NoFence] /\ s2' = { a \in s2 : a[2] # id }
      /\ s3' = [s3 EXCEPT ![e] = Fencing!NoEdit] /\ Fencing!republish(o, members)
      /\ UNCHANGED <<s5, s6>>
  BY <1>0, Zenon DEF Fencing!DeleteGeofence, Fencing!DeleteFence, Fencing!Finish
<1>2. FenceTypes /\ id \in Slugs /\ o \in Operators
  BY <1>0, <1>1 DEF FenceInv, FenceTypes, IsEdit
<1>3. IsEdit(Fencing!NoEdit) /\ Fencing!NoEdit.at = "idle"
  BY DEF IsEdit, Fencing!NoEdit
<1>4. /\ s3' = [f \in Edits |-> s3'[f]] /\ s3'[e].at = "idle" /\ IsEdit(s3'[e])
      /\ \A f \in Edits \ {e} : s3'[f] = s3[f]
  BY <1>1, <1>2, <1>3 DEF FenceTypes
<1>5. /\ s4' = [p \in Goroutines |-> s4'[p]] /\ \A p \in Goroutines : IsPublisher(s4'[p])
      /\ OnlyStarts /\ LoadsCatalog(o)' /\ \A v \in members : LoadsVehicle(o, v)'
  BY <1>1, <1>2, RepublishIs
<1>6. /\ s1' \in [Slugs -> {Fencing!NoFence} \union FenceRow] /\ s1'[id].of = "none"
      /\ \A i \in Slugs \ {id} : s1'[i] = s1[i]
  BY <1>1, <1>2 DEF FenceTypes, Fencing!NoFence
<1>7. FenceTypes'
  <2>1. \A f \in Edits : IsEdit(s3'[f])
    BY <1>2, <1>4 DEF FenceTypes
  <2>2. s2' \subseteq Operators \X Slugs \X Cars
    BY <1>1, <1>2 DEF FenceTypes
  <2> QED
    BY <1>1, <1>2, <1>4, <1>5, <1>6, <2>1, <2>2 DEF FenceTypes
<1>8. ASSUME NEW q \in Operators, NEW i \in Slugs, NEW v \in Cars, i # id
      PROVE  <<q, i, v>> \in s2' <=> <<q, i, v>> \in s2
  BY <1>1, <1>8
<1>9. ASSUME ~s6
      PROVE  EditsAreAlone' /\ VehiclesAreOfManual' /\ AllComes'
  <2>1. EditsAreAlone /\ VehiclesAreOfManual /\ AllComes
    BY <1>9 DEF FenceInv
  <2>2. \A f \in Edits \ {e} : Edited(f) => s3[f].req.id # id /\ s3[f].req.id \in Slugs /\ s3[f].req.of \in Operators
    BY <1>0, <1>1, <1>2, <2>1 DEF EditsAreAlone, Edited, FenceTypes, IsEdit
  <2>3. EditsAreAlone'
    <3>1. ASSUME NEW f \in Edits, Edited(f)'
          PROVE  s1'[s3'[f].req.id] = s3'[f].row /\ s3'[f].row.of = s3'[f].req.of
      BY <1>4, <1>6, <2>1, <2>2, <3>1 DEF EditsAreAlone, Edited
    <3>2. ASSUME NEW f \in Edits, NEW g \in Edits, Edited(f)', Edited(g)', s3'[f].req.id = s3'[g].req.id
          PROVE  f = g
      BY <1>4, <2>1, <3>2 DEF EditsAreAlone, Edited
    <3> QED
      BY <3>1, <3>2 DEF EditsAreAlone
  <2>4. s1[id].of = o /\ members = Fencing!AssignedTo(o, id)
    BY <1>0, <1>1, <2>1 DEF EditsAreAlone, VehiclesAreOfManual, Edited
  <2>5. \A a \in s2 : a[2] \in Slugs
    BY <1>2 DEF FenceTypes
  <2>6. VehiclesAreOfManual'
    <3>1. \A a \in s2' : a \in s2 /\ a[2] # id /\ s1'[a[2]] = s1[a[2]]
      BY <1>1, <1>6, <2>5
    <3>2. \A a \in s2' : s1'[a[2]].of = a[1]
      BY <2>1, <3>1 DEF VehiclesAreOfManual
    <3>3. ASSUME NEW a \in s2', s1'[a[2]].scope # "manual"
          PROVE  \E f \in Edits : s3'[f].at = "members" /\ s3'[f].req.id = a[2]
      <4>1. PICK f \in Edits : s3[f].at = "members" /\ s3[f].req.id = a[2]
        BY <2>1, <3>1, <3>3 DEF VehiclesAreOfManual
      <4> QED
        BY <1>1, <1>4, <4>1
    <3>4. ASSUME NEW f \in Edits, s3'[f].at = "row"
          PROVE  s3'[f].members = { v \in Cars : <<s3'[f].req.of, s3'[f].req.id, v>> \in s2' }
      <4>1. f # e /\ s3'[f] = s3[f] /\ s3[f].at = "row"
        BY <1>4, <3>4
      <4>2. s3[f].members = { v \in Cars : <<s3[f].req.of, s3[f].req.id, v>> \in s2 }
        BY <2>1, <4>1 DEF VehiclesAreOfManual, Fencing!AssignedTo
      <4>3. s3[f].req.id # id /\ s3[f].req.id \in Slugs /\ s3[f].req.of \in Operators
        BY <2>2, <4>1 DEF Edited
      <4>4. \A v \in Cars : <<s3[f].req.of, s3[f].req.id, v>> \in s2' <=> <<s3[f].req.of, s3[f].req.id, v>> \in s2
        BY <1>8, <4>3
      <4> QED
        BY <4>1, <4>2, <4>4
    <3> QED
      BY <3>2, <3>3, <3>4 DEF VehiclesAreOfManual, Fencing!AssignedTo
  <2>7. ASSUME NEW q \in Operators
        PROVE  CatalogComes(q)'
    <3>1. CASE q = o
      BY <1>5, <3>1 DEF CatalogComes
    <3>2. CASE q # o
      <4>1. IsEditing(q) => IsEditing(q)'
        BY <1>1, <1>4 DEF IsEditing
      <4>2. q # "none"
        BY OperatorsAssumption
      <4>3. Fencing!TenantGeofenceDefs(q)' = Fencing!TenantGeofenceDefs(q)
        BY <1>6, <2>4, <3>2, <4>2, DefsStay
      <4> QED
        BY <1>1, <1>5, <2>1, <4>1, <4>3, CatalogStays DEF AllComes
    <3> QED
      BY <3>1, <3>2
  <2>8. ASSUME NEW q \in Operators, NEW v \in Cars
        PROVE  VehicleComes(q, v)'
    <3>1. CASE q = o /\ v \in members
      BY <1>5, <3>1 DEF VehicleComes
    <3>2. CASE ~(q = o /\ v \in members)
      <4>1. <<q, id, v>> \notin s2
        <5>1. CASE q = o
          BY <2>4, <3>2, <5>1 DEF Fencing!AssignedTo
        <5>2. CASE q # o
          <6>1. \A a \in s2 : a[2] = id => a[1] = o
            BY <2>1, <2>4 DEF VehiclesAreOfManual
          <6> QED
            BY <5>2, <6>1
        <5> QED
          BY <5>1, <5>2
      <4>2. \A i \in Slugs : <<q, i, v>> \in s2' <=> <<q, i, v>> \in s2
        BY <1>1, <4>1
      <4>3. Fencing!VehicleManualGeofenceIDs(q, v)' = Fencing!VehicleManualGeofenceIDs(q, v)
        BY <4>2 DEF Fencing!VehicleManualGeofenceIDs
      <4> QED
        BY <1>1, <1>5, <2>1, <4>3, VehicleStays DEF AllComes
    <3> QED
      BY <3>1, <3>2
  <2> QED
    BY <2>3, <2>6, <2>7, <2>8 DEF AllComes
<1> QED
  BY <1>1, <1>7, <1>9 DEF FenceInv

(* One vehicle is added to a manual geofence, or taken from one.            *)
Assigns(e, id, o, car) ==
  /\ id = s3[e].req.id /\ o = s3[e].req.of /\ s3[e].at \in {"add", "remove"}
  /\ s3' = [s3 EXCEPT ![e] = Fencing!NoEdit]
  /\ s2' \subseteq s2 \/ s3[e].row.scope = "manual"
  /\ s2' \subseteq Operators \X Slugs \X Cars
  /\ \A a \in s2' : a \in s2 \/ a = <<o, id, car>>
  /\ \A q \in Operators, i \in Slugs, v \in Cars :
       ~(q = o /\ i = id /\ v = car) => (<<q, i, v>> \in s2' <=> <<q, i, v>> \in s2)
  /\ Fencing!Launch({ Fencing!VehiclesJob(o, {car}) })
  /\ UNCHANGED <<s1, s5, s6>>

LEMMA AssignmentKeeps ==
  ASSUME FenceInv, NEW e \in Edits, NEW id \in Slugs, NEW o \in Operators, NEW car \in Cars,
         Assigns(e, id, o, car)
  PROVE  FenceInv'
<1> USE DEF Assigns
<1>1. FenceTypes
  BY DEF FenceInv
<1>2. IsEdit(Fencing!NoEdit) /\ Fencing!NoEdit.at = "idle"
  BY DEF IsEdit, Fencing!NoEdit
<1>3. /\ s3' = [f \in Edits |-> s3'[f]] /\ s3'[e].at = "idle" /\ IsEdit(s3'[e])
      /\ \A f \in Edits \ {e} : s3'[f] = s3[f]
  BY <1>1, <1>2 DEF FenceTypes
<1>4. /\ s4' = [p \in Goroutines |-> s4'[p]] /\ \A p \in Goroutines : IsPublisher(s4'[p])
      /\ OnlyStarts /\ LoadsVehicle(o, car)'
  BY <1>1, LaunchVehicleIs
<1>5. FenceTypes'
  <2>1. \A f \in Edits : IsEdit(s3'[f])
    BY <1>1, <1>3 DEF FenceTypes
  <2> QED
    BY <1>1, <1>3, <1>4, <2>1 DEF FenceTypes
<1>6. ASSUME ~s6
      PROVE  EditsAreAlone' /\ VehiclesAreOfManual' /\ AllComes'
  <2>1. EditsAreAlone /\ VehiclesAreOfManual /\ AllComes
    BY <1>6 DEF FenceInv
  <2>2. EditsAreAlone'
    BY <1>3, <2>1 DEF EditsAreAlone, Edited
  <2>3. s1[id] = s3[e].row /\ s1[id].of = o
    BY <2>1 DEF EditsAreAlone, Edited
  <2>4. \A f \in Edits \ {e} : Edited(f) => s3[f].req.id # id /\ s3[f].req.id \in Slugs /\ s3[f].req.of \in Operators
    BY <1>1, <2>1 DEF EditsAreAlone, Edited, FenceTypes, IsEdit
  <2>5. VehiclesAreOfManual'
    <3>1. \A a \in s2' : s1[a[2]].of = a[1]
      BY <2>1, <2>3 DEF VehiclesAreOfManual
    <3>2. ASSUME NEW a \in s2', s1[a[2]].scope # "manual"
          PROVE  \E f \in Edits : s3'[f].at = "members" /\ s3'[f].req.id = a[2]
      <4>1. a \in s2
        BY <2>3, <3>2
      <4>2. PICK f \in Edits : s3[f].at = "members" /\ s3[f].req.id = a[2]
        BY <2>1, <3>2, <4>1 DEF VehiclesAreOfManual
      <4> QED
        BY <1>3, <4>2
    <3>3. ASSUME NEW f \in Edits, s3'[f].at = "row"
          PROVE  s3'[f].members = { v \in Cars : <<s3'[f].req.of, s3'[f].req.id, v>> \in s2' }
      <4>1. f # e /\ s3'[f] = s3[f] /\ s3[f].at = "row"
        BY <1>3, <3>3
      <4>2. s3[f].members = { v \in Cars : <<s3[f].req.of, s3[f].req.id, v>> \in s2 }
        BY <2>1, <4>1 DEF VehiclesAreOfManual, Fencing!AssignedTo
      <4>3. s3[f].req.id # id /\ s3[f].req.id \in Slugs /\ s3[f].req.of \in Operators
        BY <2>4, <4>1 DEF Edited
      <4>4. \A v \in Cars : <<s3[f].req.of, s3[f].req.id, v>> \in s2' <=> <<s3[f].req.of, s3[f].req.id, v>> \in s2
        BY <4>3
      <4> QED
        BY <4>1, <4>2, <4>4
    <3> QED
      BY <3>1, <3>2, <3>3 DEF VehiclesAreOfManual, Fencing!AssignedTo
  <2>6. ASSUME NEW q \in Operators
        PROVE  CatalogComes(q)'
    <3>1. IsEditing(q) => IsEditing(q)'
      BY <1>3 DEF IsEditing
    <3>2. Fencing!TenantGeofenceDefs(q)' = Fencing!TenantGeofenceDefs(q)
      BY DefsStay
    <3> QED
      BY <1>4, <2>1, <3>1, <3>2, CatalogStays DEF AllComes
  <2>7. ASSUME NEW q \in Operators, NEW v \in Cars
        PROVE  VehicleComes(q, v)'
    <3>1. CASE q = o /\ v = car
      BY <1>4, <3>1 DEF VehicleComes
    <3>2. CASE ~(q = o /\ v = car)
      <4>1. \A i \in Slugs : <<q, i, v>> \in s2' <=> <<q, i, v>> \in s2
        BY <3>2
      <4>2. Fencing!VehicleManualGeofenceIDs(q, v)' = Fencing!VehicleManualGeofenceIDs(q, v)
        BY <4>1 DEF Fencing!VehicleManualGeofenceIDs
      <4> QED
        BY <1>4, <2>1, <4>2, VehicleStays DEF AllComes
    <3> QED
      BY <3>1, <3>2
  <2> QED
    BY <2>2, <2>5, <2>6, <2>7 DEF AllComes
<1> QED
  BY <1>5, <1>6 DEF FenceInv

(* A request that is done without a change.                                 *)
LEMMA EditEnds ==
  ASSUME FenceInv, NEW e \in Edits, s3[e].at # "members",
         s3' = [s3 EXCEPT ![e] = Fencing!NoEdit], UNCHANGED <<s1, s2, s4, s5, s6>>
  PROVE  FenceInv'
<1>1. IsEdit(Fencing!NoEdit) /\ Fencing!NoEdit.at = "idle" /\ FenceTypes
  BY DEF IsEdit, Fencing!NoEdit, FenceInv
<1>2. FenceTypes'
  BY <1>1, EditMoves
<1>3. s3'[e].at = "idle" /\ \A f \in Edits \ {e} : s3'[f] = s3[f]
  BY <1>1 DEF FenceTypes
<1>4. ASSUME ~s6
      PROVE  EditsAreAlone' /\ VehiclesAreOfManual' /\ AllComes'
  <2>1. EditsAreAlone /\ VehiclesAreOfManual /\ AllComes
    BY <1>4 DEF FenceInv
  <2>2. EditsAreAlone'
    BY <1>3, <2>1 DEF EditsAreAlone, Edited
  <2>3. VehiclesAreOfManual'
    BY <1>3, <2>1 DEF VehiclesAreOfManual, Fencing!AssignedTo
  <2>4. ASSUME NEW q \in Operators
        PROVE  CatalogComes(q)'
    <3>1. IsEditing(q) => IsEditing(q)'
      BY <1>3 DEF IsEditing
    <3>2. Fencing!TenantGeofenceDefs(q)' = Fencing!TenantGeofenceDefs(q)
      BY DefsStay
    <3> QED
      BY <2>1, <3>1, <3>2, CatalogStays DEF OnlyStarts, AllComes
  <2>5. ASSUME NEW q \in Operators, NEW v \in Cars
        PROVE  VehicleComes(q, v)'
    <3>1. Fencing!VehicleManualGeofenceIDs(q, v)' = Fencing!VehicleManualGeofenceIDs(q, v)
      BY DEF Fencing!VehicleManualGeofenceIDs
    <3> QED
      BY <2>1, <3>1, VehicleStays DEF OnlyStarts, AllComes
  <2> QED
    BY <2>2, <2>3, <2>4, <2>5 DEF AllComes
<1> QED
  BY <1>2, <1>4 DEF FenceInv

LEMMA AddVehicleKeeps ==
  ASSUME FenceInv, NEW e \in Edits, Fencing!AddVehicle(e)
  PROVE  FenceInv'
<1>0. PICK id, o, car : id = s3[e].req.id /\ o = s3[e].req.of /\ car = s3[e].req.car
  OBVIOUS
<1>1. /\ s3[e].at = "add" /\ s3' = [s3 EXCEPT ![e] = Fencing!NoEdit] /\ UNCHANGED <<s1, s5, s6>>
      /\ \/ UNCHANGED <<s2, s4>>
         \/ /\ s3[e].row.scope = "manual" /\ s2' = s2 \union {<<o, id, car>>}
            /\ Fencing!Launch({ Fencing!VehiclesJob(o, {car}) })
  BY <1>0, Zenon DEF Fencing!AddVehicle, Fencing!InsertAssignment, Fencing!Finish
<1>2. FenceTypes /\ id \in Slugs /\ o \in Operators /\ car \in Cars
  BY <1>0, <1>1 DEF FenceInv, FenceTypes, IsEdit
<1>3. CASE UNCHANGED <<s2, s4>>
  BY <1>1, <1>3, EditEnds
<1>4. CASE s3[e].row.scope = "manual" /\ s2' = s2 \union {<<o, id, car>>}
           /\ Fencing!Launch({ Fencing!VehiclesJob(o, {car}) })
  <2>1. s2' \subseteq Operators \X Slugs \X Cars
    BY <1>2, <1>4 DEF FenceTypes
  <2>2. \A a \in s2' : a \in s2 \/ a = <<o, id, car>>
    BY <1>4
  <2>3. \A q \in Operators, i \in Slugs, v \in Cars : ~(q = o /\ i = id /\ v = car) => (<<q, i, v>> \in s2' <=> <<q, i, v>> \in s2)
    BY <1>4
  <2>4. Assigns(e, id, o, car)
    BY <1>0, <1>1, <1>4, <2>1, <2>2, <2>3 DEF Assigns
  <2> QED
    BY <1>2, <2>4, AssignmentKeeps
<1> QED
  BY <1>1, <1>3, <1>4

LEMMA RemoveVehicleKeeps ==
  ASSUME FenceInv, NEW e \in Edits, Fencing!RemoveVehicle(e)
  PROVE  FenceInv'
<1>0. PICK id, o, car : id = s3[e].req.id /\ o = s3[e].req.of /\ car = s3[e].req.car
  OBVIOUS
<1>1. /\ s3[e].at = "remove" /\ s3' = [s3 EXCEPT ![e] = Fencing!NoEdit] /\ UNCHANGED <<s1, s5, s6>>
      /\ s2' = s2 \ ({o} \X {id} \X {car})
      /\ Fencing!Launch({ Fencing!VehiclesJob(o, {car}) })
  BY <1>0, Zenon DEF Fencing!RemoveVehicle, Fencing!DeleteAssignments, Fencing!Finish
<1>2. FenceTypes /\ id \in Slugs /\ o \in Operators /\ car \in Cars
  BY <1>0, <1>1 DEF FenceInv, FenceTypes, IsEdit
<1>3. s2' \subseteq s2 /\ s2' \subseteq Operators \X Slugs \X Cars
  BY <1>1, <1>2 DEF FenceTypes
<1>4. \A q \in Operators, i \in Slugs, v \in Cars : ~(q = o /\ i = id /\ v = car) => (<<q, i, v>> \in s2' <=> <<q, i, v>> \in s2)
  BY <1>1
<1>5. \A a \in s2' : a \in s2 \/ a = <<o, id, car>>
  BY <1>3
<1>6. Assigns(e, id, o, car)
  BY <1>0, <1>1, <1>3, <1>4, <1>5 DEF Assigns
<1> QED
  BY <1>2, <1>6, AssignmentKeeps

(* What a goroutine does changes neither tables nor requests.               *)
LEMMA PublisherMoves ==
  ASSUME FenceTypes, NEW p \in Goroutines, NEW task, IsPublisher(task), s4' = [s4 EXCEPT ![p] = task],
         UNCHANGED <<s1, s2, s3, s5>>
  PROVE  /\ FenceTypes'
         /\ s4'[p] = task /\ \A q \in Goroutines \ {p} : s4'[q] = s4[q]
BY DEF FenceTypes

LEMMA TablesStay ==
  ASSUME UNCHANGED <<s1, s2, s3>>
  PROVE  /\ EditsAreAlone /\ VehiclesAreOfManual => EditsAreAlone' /\ VehiclesAreOfManual'
         /\ \A o \in Operators : IsEditing(o)' <=> IsEditing(o)
         /\ \A o \in Operators : Fencing!TenantGeofenceDefs(o)' = Fencing!TenantGeofenceDefs(o)
         /\ \A o \in Operators, v \in Cars :
              Fencing!VehicleManualGeofenceIDs(o, v)' = Fencing!VehicleManualGeofenceIDs(o, v)
<1>1. EditsAreAlone /\ VehiclesAreOfManual => EditsAreAlone' /\ VehiclesAreOfManual'
  BY DEF EditsAreAlone, VehiclesAreOfManual, Edited, Fencing!AssignedTo
<1>2. \A o \in Operators : IsEditing(o)' <=> IsEditing(o)
  BY DEF IsEditing
<1>3. \A o \in Operators : Fencing!TenantGeofenceDefs(o)' = Fencing!TenantGeofenceDefs(o)
  BY DefsStay
<1> QED
  BY <1>1, <1>2, <1>3 DEF Fencing!VehicleManualGeofenceIDs

LEMMA TaskIsRead ==
  ASSUME NEW old, NEW read,
         old = [at |-> old.at, of |-> old.of, what |-> old.what, cars |-> old.cars, read |-> old.read]
  PROVE  [old EXCEPT !.at = "send", !.read = read]
           = [at |-> "send", of |-> old.of, what |-> old.what, cars |-> old.cars, read |-> read]
<1>0. PICK at, of, what, cars, was :
        at = old.at /\ of = old.of /\ what = old.what /\ cars = old.cars /\ was = old.read
  OBVIOUS
<1> DEFINE new == [old EXCEPT !.at = "send", !.read = read]
<1>1. old \in [at : {at, "send"}, of : {of}, what : {what}, cars : {cars}, read : {was, read}]
  BY <1>0
<1>2. new \in [at : {at, "send"}, of : {of}, what : {what}, cars : {cars}, read : {was, read}]
  BY <1>1
<1>3. new.at = "send" /\ new.of = of /\ new.what = what /\ new.cars = cars /\ new.read = read
  BY <1>1
<1> HIDE DEF new
<1>4. new = [at |-> "send", of |-> of, what |-> what, cars |-> cars, read |-> read]
  BY <1>2, <1>3
<1> QED
  BY <1>0, <1>4 DEF new

LEMMA LoadKeeps ==
  ASSUME FenceInv, NEW p \in Goroutines, Fencing!Load(p)
  PROVE  FenceInv'
<1>1. s4[p].at = "load" /\ UNCHANGED <<s1, s2, s3, s5>>
  BY DEF Fencing!Load
<1>2. FenceTypes /\ s4[p].of \in Operators /\ s4[p].what \in {"catalog", "vehicles"}
      /\ s4[p] = [at |-> s4[p].at, of |-> s4[p].of, what |-> s4[p].what, cars |-> s4[p].cars, read |-> s4[p].read]
  BY <1>1 DEF FenceInv, FenceTypes, IsPublisher
<1> DEFINE read == IF s4[p].what = "catalog" THEN Fencing!TenantGeofenceDefs(s4[p].of)
                   ELSE [v \in s4[p].cars |-> Fencing!VehicleManualGeofenceIDs(s4[p].of, v)]
           task  == [at |-> "send", of |-> s4[p].of, what |-> s4[p].what, cars |-> s4[p].cars, read |-> read]
<1>3. CASE s4' = [s4 EXCEPT ![p].at = "send", ![p].read = read] /\ s6' = s6
  <2>1. s4' = [s4 EXCEPT ![p] = task]
    <3>1. s4' = [s4 EXCEPT ![p] = [s4[p] EXCEPT !.at = "send", !.read = read]]
      BY <1>2, <1>3 DEF FenceTypes
    <3>2. [s4[p] EXCEPT !.at = "send", !.read = read] = task
      BY <1>2, TaskIsRead, Zenon
    <3> QED
      BY <3>1, <3>2, Zenon
  <2>2. IsPublisher(task)
    BY <1>2 DEF IsPublisher
  <2>3. task.at = "send" /\ task.of = s4[p].of /\ task.what = s4[p].what /\ task.cars = s4[p].cars /\ task.read = read
    OBVIOUS
  <2> HIDE DEF task
  <2>4. FenceTypes' /\ s4'[p] = task /\ \A q \in Goroutines \ {p} : s4'[q] = s4[q]
    BY <1>1, <1>2, <2>1, <2>2, PublisherMoves
  <2>5. ASSUME NEW o \in Operators, CatalogComes(o)
        PROVE  CatalogComes(o)'
    <3>1. CASE s4[p].of = o /\ s4[p].what = "catalog"
      <4>1. read = Fencing!TenantGeofenceDefs(o)
        BY <3>1
      <4>2. SendsCatalog(p, o)' /\ s4'[p].read = Fencing!TenantGeofenceDefs(o)'
        BY <1>1, <2>3, <2>4, <3>1, <4>1, TablesStay DEF SendsCatalog
      <4> QED
        BY <4>2 DEF CatalogComes
    <3>2. CASE ~(s4[p].of = o /\ s4[p].what = "catalog")
      <4>1. \A q \in Goroutines : SendsCatalog(q, o)' <=> SendsCatalog(q, o)
        BY <1>1, <2>3, <2>4, <3>2 DEF SendsCatalog
      <4>2. \A q \in Goroutines : SendsCatalog(q, o) => s4'[q].read = s4[q].read
        BY <1>1, <2>4 DEF SendsCatalog
      <4>3. LoadsCatalog(o) => LoadsCatalog(o)'
        BY <2>4, <3>2 DEF LoadsCatalog
      <4> QED
        BY <1>1, <2>5, <4>1, <4>2, <4>3, TablesStay DEF CatalogComes
    <3> QED
      BY <3>1, <3>2
  <2>6. ASSUME NEW o \in Operators, NEW v \in Cars, VehicleComes(o, v)
        PROVE  VehicleComes(o, v)'
    <3>1. CASE s4[p].of = o /\ s4[p].what = "vehicles" /\ v \in s4[p].cars
      <4>1. read[v] = Fencing!VehicleManualGeofenceIDs(o, v)
        BY <3>1
      <4>2. SendsVehicle(p, o, v)' /\ s4'[p].read[v] = Fencing!VehicleManualGeofenceIDs(o, v)'
        BY <1>1, <2>3, <2>4, <3>1, <4>1, TablesStay DEF SendsVehicle
      <4> QED
        BY <4>2 DEF VehicleComes
    <3>2. CASE ~(s4[p].of = o /\ s4[p].what = "vehicles" /\ v \in s4[p].cars)
      <4>1. \A q \in Goroutines : SendsVehicle(q, o, v)' <=> SendsVehicle(q, o, v)
        BY <1>1, <2>3, <2>4, <3>2 DEF SendsVehicle
      <4>2. \A q \in Goroutines : SendsVehicle(q, o, v) => s4'[q].read = s4[q].read
        BY <1>1, <2>4 DEF SendsVehicle
      <4>3. LoadsVehicle(o, v) => LoadsVehicle(o, v)'
        BY <2>4, <3>2 DEF LoadsVehicle
      <4> QED
        BY <1>1, <2>6, <4>1, <4>2, <4>3, TablesStay DEF VehicleComes
    <3> QED
      BY <3>1, <3>2
  <2> QED
    BY <1>1, <1>3, <2>4, <2>5, <2>6, TablesStay DEF FenceInv, AllComes
<1>4. CASE s4' = [s4 EXCEPT ![p] = Fencing!NoJob] /\ s6' = TRUE
  <2>1. IsPublisher(Fencing!NoJob)
    BY DEF IsPublisher, Fencing!NoJob
  <2> QED
    BY <1>1, <1>2, <1>4, <2>1, PublisherMoves DEF FenceInv
<1> QED
  BY <1>3, <1>4, Zenon DEF Fencing!Load

LEMMA GiveUpKeeps ==
  ASSUME FenceInv, NEW p \in Goroutines, Fencing!GiveUp(p)
  PROVE  FenceInv'
<1>1. s4' = [s4 EXCEPT ![p] = Fencing!NoJob] /\ s6' = TRUE /\ UNCHANGED <<s1, s2, s3, s5>>
  BY DEF Fencing!GiveUp
<1>2. IsPublisher(Fencing!NoJob)
  BY DEF IsPublisher, Fencing!NoJob
<1> QED
  BY <1>1, <1>2, PublisherMoves DEF FenceInv

LEMMA AttestKeeps ==
  ASSUME FenceInv, NEW p \in Goroutines, Fencing!attestWithRetry(p)
  PROVE  FenceInv'
<1>0. PICK o : o = s4[p].of
  OBVIOUS
<1>1. /\ s4[p].at = "send" /\ s4' = [s4 EXCEPT ![p] = Fencing!NoJob]
      /\ s5' = IF s4[p].what = "catalog"
               THEN Fencing!AttestTenantGeofences(o, s4[p].read)
               ELSE Fencing!AttestVehicleGeofences(o, s4[p].cars, s4[p].read)
      /\ UNCHANGED <<s1, s2, s3>>
  BY <1>0 DEF Fencing!attestWithRetry
<1>2. ~s6' => ~s6 /\ \A q \in Goroutines \ {p} : ~(s4[q].at = "send" /\ s4[q].of = o /\ s4[q].what = s4[p].what)
  BY <1>0, Zenon DEF Fencing!attestWithRetry, Fencing!Collides
<1>3. FenceTypes /\ o \in Operators /\ s4[p].what \in {"catalog", "vehicles"}
  BY <1>0, <1>1 DEF FenceInv, FenceTypes, IsPublisher
<1>4. IsPublisher(Fencing!NoJob) /\ Fencing!NoJob.at = "idle"
  BY DEF IsPublisher, Fencing!NoJob
<1>5. /\ s4' = [q \in Goroutines |-> s4'[q]] /\ s4'[p].at = "idle" /\ IsPublisher(s4'[p])
      /\ \A q \in Goroutines \ {p} : s4'[q] = s4[q]
  BY <1>1, <1>3, <1>4 DEF FenceTypes
<1>6. \A q \in Goroutines : IsPublisher(s4'[q])
  BY <1>3, <1>5 DEF FenceTypes
<1>7. CASE s4[p].what = "catalog"
  <2>1. s5' = [s5 EXCEPT !.catalog[o] = s4[p].read]
    BY <1>1, <1>7 DEF Fencing!AttestTenantGeofences
  <2>2. s5' = [catalog |-> [s5.catalog EXCEPT ![o] = s4[p].read], member |-> s5.member]
    BY <1>3, <2>1 DEF FenceTypes
  <2>3. /\ s5' = [catalog |-> s5'.catalog, member |-> s5'.member] /\ s5'.member = s5.member
        /\ s5'.catalog = [q \in Operators |-> s5'.catalog[q]] /\ s5'.catalog[o] = s4[p].read
        /\ \A q \in Operators \ {o} : s5'.catalog[q] = s5.catalog[q]
    BY <1>3, <2>2 DEF FenceTypes
  <2>4. FenceTypes'
    BY <1>1, <1>3, <1>5, <1>6, <2>3 DEF FenceTypes
  <2>5. ASSUME ~s6', NEW q \in Operators, CatalogComes(q)
        PROVE  CatalogComes(q)'
    <3>1. LoadsCatalog(q) => LoadsCatalog(q)'
      BY <1>1, <1>5 DEF LoadsCatalog
    <3>2. CASE q = o
      <4>1. \A r \in Goroutines : ~SendsCatalog(r, o)' /\ (SendsCatalog(r, o) => r = p)
        BY <1>2, <1>5, <1>7, <2>5 DEF SendsCatalog
      <4>2. SendsCatalog(p, o)
        BY <1>0, <1>1, <1>7 DEF SendsCatalog
      <4> QED
        BY <1>1, <2>3, <2>5, <3>1, <3>2, <4>1, <4>2, TablesStay DEF CatalogComes
    <3>3. CASE q # o
      <4>1. \A r \in Goroutines : (SendsCatalog(r, q)' <=> SendsCatalog(r, q)) /\ (SendsCatalog(r, q) => s4'[r].read = s4[r].read)
        BY <1>0, <1>5, <3>3 DEF SendsCatalog
      <4> QED
        BY <1>1, <2>3, <2>5, <3>1, <3>3, <4>1, TablesStay DEF CatalogComes
    <3> QED
      BY <3>2, <3>3
  <2>6. ASSUME NEW q \in Operators, NEW v \in Cars, VehicleComes(q, v)
        PROVE  VehicleComes(q, v)'
    <3>1. \A r \in Goroutines : (SendsVehicle(r, q, v)' <=> SendsVehicle(r, q, v)) /\ (SendsVehicle(r, q, v) => s4'[r].read = s4[r].read)
      BY <1>5, <1>7 DEF SendsVehicle
    <3>2. LoadsVehicle(q, v) => LoadsVehicle(q, v)'
      BY <1>1, <1>5 DEF LoadsVehicle
    <3> QED
      BY <1>1, <2>3, <2>6, <3>1, <3>2, TablesStay DEF VehicleComes
  <2> QED
    BY <1>1, <1>2, <2>4, <2>5, <2>6, TablesStay DEF FenceInv, AllComes
<1>8. CASE s4[p].what = "vehicles"
  <2>1. s5' = [s5 EXCEPT !.member[o] = [v \in Cars |-> IF v \in s4[p].cars THEN s4[p].read[v] ELSE @[v]]]
    BY <1>1, <1>8 DEF Fencing!AttestVehicleGeofences
  <2>2. s5' = [catalog |-> s5.catalog, member |-> [s5.member EXCEPT ![o] =
                 [v \in Cars |-> IF v \in s4[p].cars THEN s4[p].read[v] ELSE s5.member[o][v]]]]
    BY <1>3, <2>1 DEF FenceTypes
  <2>3. /\ s5' = [catalog |-> s5'.catalog, member |-> s5'.member] /\ s5'.catalog = s5.catalog
        /\ s5'.member = [q \in Operators |-> s5'.member[q]]
        /\ s5'.member[o] = [v \in Cars |-> IF v \in s4[p].cars THEN s4[p].read[v] ELSE s5.member[o][v]]
        /\ \A q \in Operators \ {o} : s5'.member[q] = s5.member[q]
    BY <1>3, <2>2 DEF FenceTypes
  <2>4. \A q \in Operators : s5'.member[q] = [v \in Cars |-> s5'.member[q][v]]
    BY <1>3, <2>3 DEF FenceTypes
  <2>5. FenceTypes'
    BY <1>1, <1>3, <1>5, <1>6, <2>3, <2>4 DEF FenceTypes
  <2>6. ASSUME NEW q \in Operators, CatalogComes(q)
        PROVE  CatalogComes(q)'
    <3>1. \A r \in Goroutines : (SendsCatalog(r, q)' <=> SendsCatalog(r, q)) /\ (SendsCatalog(r, q) => s4'[r].read = s4[r].read)
      BY <1>5, <1>8 DEF SendsCatalog
    <3>2. LoadsCatalog(q) => LoadsCatalog(q)'
      BY <1>1, <1>5 DEF LoadsCatalog
    <3> QED
      BY <1>1, <2>3, <2>6, <3>1, <3>2, TablesStay DEF CatalogComes
  <2>7. ASSUME ~s6', NEW q \in Operators, NEW v \in Cars, VehicleComes(q, v)
        PROVE  VehicleComes(q, v)'
    <3>1. LoadsVehicle(q, v) => LoadsVehicle(q, v)'
      BY <1>1, <1>5 DEF LoadsVehicle
    <3>2. CASE q = o /\ v \in s4[p].cars
      <4>1. \A r \in Goroutines : ~SendsVehicle(r, o, v)' /\ (SendsVehicle(r, o, v) => r = p)
        BY <1>2, <1>5, <1>8, <2>7 DEF SendsVehicle
      <4>2. SendsVehicle(p, o, v) /\ s5'.member[o][v] = s4[p].read[v]
        BY <1>0, <1>1, <1>8, <2>3, <3>2 DEF SendsVehicle
      <4> QED
        BY <1>1, <2>7, <3>1, <3>2, <4>1, <4>2, TablesStay DEF VehicleComes
    <3>3. CASE ~(q = o /\ v \in s4[p].cars)
      <4>1. \A r \in Goroutines : (SendsVehicle(r, q, v)' <=> SendsVehicle(r, q, v)) /\ (SendsVehicle(r, q, v) => s4'[r].read = s4[r].read)
        BY <1>0, <1>5, <3>3 DEF SendsVehicle
      <4>2. s5'.member[q][v] = s5.member[q][v]
        BY <2>3, <3>3
      <4> QED
        BY <1>1, <2>7, <3>1, <4>1, <4>2, TablesStay DEF VehicleComes
    <3> QED
      BY <3>2, <3>3
  <2> QED
    BY <1>1, <1>2, <2>5, <2>6, <2>7, TablesStay DEF FenceInv, AllComes
<1> QED
  BY <1>3, <1>7, <1>8

LEMMA AskKeeps ==
  ASSUME FenceInv, NEW e \in Edits, NEW o \in Operators, NEW id \in Slugs, Fencing!Ask(e, o, id)
  PROVE  FenceInv'
<1>1. ASSUME NEW patch \in Fencing!Patches, Fencing!GetGeofence(e, [op |-> "update", of |-> o, id |-> id, patch |-> patch])
      PROVE  FenceInv'
  <2>1. PICK req : req = [op |-> "update", of |-> o, id |-> id, patch |-> patch]
    OBVIOUS
  <2> QED
    BY <1>1, <2>1, GetFenceKeeps
<1>2. ASSUME Fencing!GetGeofence(e, [op |-> "delete", of |-> o, id |-> id])
      PROVE  FenceInv'
  <2>1. PICK req : req = [op |-> "delete", of |-> o, id |-> id]
    OBVIOUS
  <2> QED
    BY <1>2, <2>1, GetFenceKeeps
<1>3. ASSUME NEW op \in {"add", "remove"}, NEW car \in Cars,
             Fencing!GetGeofence(e, [op |-> op, of |-> o, id |-> id, car |-> car])
      PROVE  FenceInv'
  <2>1. PICK req : req = [op |-> op, of |-> o, id |-> id, car |-> car]
    OBVIOUS
  <2> QED
    BY <1>3, <2>1, GetFenceKeeps
<1> QED
  BY <1>1, <1>2, <1>3 DEF Fencing!Ask

LEMMA FencesStep ==
  ASSUME FenceInv, Fencing!Next
  PROVE  FenceInv'
<1>1. ASSUME NEW e \in Edits,
             \/ \E o \in Operators, id \in Slugs : Fencing!Ask(e, o, id)
             \/ Fencing!UpdateGeofence(e) \/ Fencing!DropAssignments(e)
             \/ Fencing!ReadMembers(e) \/ Fencing!DeleteGeofence(e)
             \/ Fencing!AddVehicle(e) \/ Fencing!RemoveVehicle(e)
      PROVE  FenceInv'
  BY <1>1, AskKeeps, UpdateFenceKeeps, DropKeeps, ReadMembersKeeps, DeleteFenceKeeps, AddVehicleKeeps, RemoveVehicleKeeps
<1>2. ASSUME NEW p \in Goroutines, Fencing!Load(p) \/ Fencing!attestWithRetry(p) \/ Fencing!GiveUp(p)
      PROVE  FenceInv'
  BY <1>2, LoadKeeps, AttestKeeps, GiveUpKeeps
<1> QED
  BY <1>1, <1>2, CreateFenceKeeps DEF Fencing!Next

LEMMA FencesAreCurrent ==
  ASSUME FenceInv
  PROVE  Fencing!PublishedIsCurrent
<1>1. ASSUME ~s6, \A e \in Edits : s3[e].at = "idle", \A p \in Goroutines : s4[p].at = "idle", NEW o \in Operators
      PROVE  /\ s5.catalog[o] = Fencing!TenantGeofenceDefs(o)
             /\ \A v \in Cars : s5.member[o][v] = Fencing!VehicleManualGeofenceIDs(o, v)
  BY <1>1 DEF FenceInv, AllComes, CatalogComes, VehicleComes, IsEditing, LoadsCatalog, SendsCatalog, LoadsVehicle, SendsVehicle
<1> QED
  BY <1>1 DEF Fencing!PublishedIsCurrent

-----------------------------------------------------------------------------
(***************************************************************************)
(* The scope and the groups of a geofence's row (GeofenceInput). A row has *)
(* groups just if its scope is one of groups, and an update that nothing   *)
(* overlapped has read the scope as it is. What a request goes by is of    *)
(* some age: at most a call's when it is fetched, with the time it was     *)
(* kept for when it is found, and another call's when the row is written.  *)
(* row s1, known s2, index s3, writer s4, reply s5, there s6, away s7,     *)
(* knownThen s8, overlapped s9, writes s10.                                *)
(***************************************************************************)
LEMMA InputSteps ==
  ASSUME subject = "inputs", [SubjectNext]_allVars
  PROVE  Entering!Next \/ UNCHANGED <<s1, s2, s3, s4, s5, s6, s7, s8, s9>>
BY DEF SubjectNext, OfTenants, OfTokens, OfSecrets, OfGeofences, OfShares, OfInvitations,
       OfPreferences, OfComparisons, OfInputs, OfShapes, OfLists, OfIntervals, allVars, places

InputRow  == [scope : Entering!Scopes, groups : SUBSET Groups]
KeptIndex == [groups : SUBSET Groups, left : Nat]
Writing   == [at : {"idle", "index", "fill", "save"}, kind : {"none", "create", "update", "view"},
              server : Servers \union {"none"}, was : Entering!Scopes, scope : Entering!Scopes,
              groups : SUBSET Groups, got : SUBSET Groups, age : Nat]

InputTypes ==
  /\ s1 = {} \/ \E r \in InputRow : s1 = {r}
  /\ s2 \subseteq Groups /\ s3 \in [Servers -> KeptIndex] /\ s4 \in [Writers -> Writing]
  /\ s6 \in [Groups -> Nat] /\ s7 \in [Groups -> Nat] /\ s9 \in BOOLEAN

(* What a request has come by at each stage. *)
StageHolds(q) ==
  /\ q.at = "idle" => q.kind = "none"
  /\ q.at # "idle" => q.server \in Servers
  /\ q.at = "index" => q.kind # "view"
  /\ q.at \in {"index", "fill"} /\ q.kind # "view" => q.scope = "group" /\ q.groups # {}
  /\ q.at = "save" => (q.scope = "group" <=> q.groups # {})

(* How old what it goes by is. *)
Timely(q) ==
  /\ q.at \in {"fill", "save"} => q.age <= CallTime
  /\ q.at = "fill" => /\ \A g \in q.got : s6[g] <= q.age
                      /\ \A g \in Groups \ q.got : s7[g] <= q.age
  /\ q.at = "save" => \A g \in q.groups : s6[g] <= AnswerLife + CallTime + q.age

KeptIsRecent(entry) ==
  entry.left > 0 => /\ \A g \in entry.groups : s6[g] + entry.left <= AnswerLife + CallTime
                    /\ \A g \in Groups \ entry.groups : s7[g] + entry.left <= AnswerLife + CallTime

AgesHold ==
  /\ \A g \in s2 : s6[g] = 0
  /\ \A g \in Groups \ s2 : s7[g] = 0
  /\ \A s \in Servers : KeptIsRecent(s3[s])
  /\ \A w \in Writers : Timely(s4[w])

(* An update has a row, and if nothing overlapped it, has read its scope. *)
ReadsHold ==
  /\ \A w \in Writers : s4[w].kind = "update" => s1 # {}
  /\ ~s9 => /\ \A v, w \in Writers : s4[v].kind = "update" /\ s4[w].kind = "update" => v = w
            /\ \A w \in Writers, r \in s1 : s4[w].kind = "update" => r.scope = s4[w].was
            /\ \A r \in s1 : r.scope = "group" <=> r.groups # {}

(* What a row names was the tenant's lately, and what a request is told of *)
(* its groups is so.                                                       *)
NamesHold == \A r \in s1 : r.groups \subseteq s8

TellsTrue ==
  /\ s5.why = "needs groups"  => s5.groups = {}
  /\ s5.why = "unknown group" => \E g \in s5.groups : s7[g] <= AnswerLife + CallTime

InputsInv ==
  /\ InputTypes
  /\ \A w \in Writers : StageHolds(s4[w])
  /\ AgesHold
  /\ ReadsHold
  /\ NamesHold
  /\ TellsTrue

LEMMA InputsStart ==
  ASSUME Entering!Init
  PROVE  InputsInv
<1>1. s1 = {} \/ \E r \in InputRow : s1 = {r} /\ (r.scope = "group" <=> r.groups # {}) /\ r.groups \subseteq Groups
  <2>1. ASSUME NEW s \in {"group", "manual"}, s1 = {[scope |-> s, groups |-> IF s = "group" THEN Groups ELSE {}]}
        PROVE  \E r \in InputRow : s1 = {r} /\ (r.scope = "group" <=> r.groups # {}) /\ r.groups \subseteq Groups
    <3>1. PICK groups \in SUBSET Groups : groups = (IF s = "group" THEN Groups ELSE {})
      OBVIOUS
    <3>2. [scope |-> s, groups |-> groups] \in InputRow
      BY DEF InputRow, Entering!Scopes
    <3> QED
      BY <2>1, <3>1, <3>2, GroupsAssumption
  <2> QED
    BY <2>1 DEF Entering!Init
<1>2. Entering!Idle \in Writing /\ Entering!Idle.at = "idle" /\ Entering!Idle.kind = "none"
  BY DEF Entering!Idle, Writing, Entering!Scopes
<1>3. Entering!Nothing \in KeptIndex /\ Entering!Nothing.left = 0
  BY DEF Entering!Nothing, KeptIndex
<1>4. Entering!Horizon \in Nat
  BY AnswersAssumption DEF Entering!Horizon
<1>5. /\ s2 = Groups /\ s8 = Groups /\ s9 = FALSE /\ s5 = Entering!NoReply
      /\ s3 = [s \in Servers |-> Entering!Nothing] /\ s4 = [w \in Writers |-> Entering!Idle]
      /\ s6 = [g \in Groups |-> 0] /\ s7 = [g \in Groups |-> Entering!Horizon]
  BY DEF Entering!Init
<1>6. InputTypes
  BY <1>1, <1>2, <1>3, <1>4, <1>5 DEF InputTypes
<1>7. \A w \in Writers : StageHolds(s4[w])
  BY <1>2, <1>5 DEF StageHolds
<1>8. AgesHold
  BY <1>2, <1>3, <1>5 DEF AgesHold, KeptIsRecent, Timely
<1>9. ReadsHold /\ NamesHold
  BY <1>1, <1>2, <1>5 DEF ReadsHold, NamesHold
<1>10. TellsTrue
  BY <1>5 DEF TellsTrue, Entering!NoReply
<1> QED
  BY <1>6, <1>7, <1>8, <1>9, <1>10 DEF InputsInv

(* A request that is not running goes by nothing. *)
LEMMA IdleInput ==
  /\ Entering!Idle \in Writing /\ StageHolds(Entering!Idle) /\ Timely(Entering!Idle)
  /\ Entering!Idle.kind = "none" /\ Entering!Idle.at = "idle"
BY DEF Entering!Idle, Writing, Entering!Scopes, StageHolds, Timely

(* A request that moves on, with the row and the ages as they were. *)
LEMMA RequestMoves ==
  ASSUME InputsInv, NEW w \in Writers, NEW q \in Writing, StageHolds(q), Timely(q),
         s4' = [s4 EXCEPT ![w] = q], UNCHANGED <<s1, s2, s6, s7, s8, s9>>,
         q.kind = "update" => s4[w].kind = "update" /\ q.was = s4[w].was,
         TellsTrue', s3' \in [Servers -> KeptIndex], \A s \in Servers : KeptIsRecent(s3'[s])
  PROVE  InputsInv'
<1> USE DEF InputsInv
<1>1. \A v \in Writers : s4'[v] = IF v = w THEN q ELSE s4[v]
  BY DEF InputTypes
<1>2. InputTypes'
  BY DEF InputTypes
<1>3. \A v \in Writers : StageHolds(s4[v])'
  BY <1>1 DEF StageHolds
<1>4. AgesHold'
  <2>1. \A v \in Writers : Timely(s4[v])'
    BY <1>1 DEF AgesHold, Timely
  <2>2. \A s \in Servers : KeptIsRecent(s3[s])'
    BY DEF KeptIsRecent
  <2> QED
    BY <2>1, <2>2 DEF AgesHold
<1>5. ReadsHold'
  BY <1>1 DEF ReadsHold
<1> QED
  BY <1>2, <1>3, <1>4, <1>5 DEF NamesHold

(* What a request is told when it is told nothing is so. *)
LEMMA NothingTold ==
  ASSUME s5' = Entering!NoReply
  PROVE  TellsTrue'
BY DEF TellsTrue, Entering!NoReply

LEMMA EnterIs ==
  ASSUME NEW q \in Writing, NEW stage \in {"fill", "save"}, NEW got \in SUBSET Groups,
         NEW n, n = Entering!Enter(q, stage, got)
  PROVE  /\ n \in Writing /\ n.at = stage /\ n.got = got /\ n.age = 0 /\ n.kind = q.kind /\ n.server = q.server
         /\ n.was = q.was /\ n.scope = q.scope /\ n.groups = q.groups
<1>1. n = [at |-> stage, kind |-> q.kind, server |-> q.server, was |-> q.was, scope |-> q.scope,
           groups |-> q.groups, got |-> got, age |-> 0]
  BY DEF Entering!Enter, Writing
<1> QED
  BY <1>1 DEF Writing

(* An index of some age decides: the request goes on to the row, or is     *)
(* told that a group is unknown.                                           *)
LEMMA DecisionKeeps ==
  ASSUME InputsInv, NEW w \in Writers, NEW groups \in SUBSET Groups, Entering!Decide(w, groups),
         s4[w].at \in {"index", "fill"}, s4[w].kind # "view",
         \A g \in groups : s6[g] <= AnswerLife + CallTime,
         \A g \in Groups \ groups : s7[g] <= AnswerLife + CallTime,
         s3' \in [Servers -> KeptIndex], \A s \in Servers : KeptIsRecent(s3'[s]),
         UNCHANGED <<s1, s2, s6, s7, s8, s9>>
  PROVE  InputsInv'
<1>1. PICK q \in Writing : q = s4[w]
  BY DEF InputsInv, InputTypes
<1>2. StageHolds(q)
  BY <1>1 DEF InputsInv
<1>3. CASE q.groups \subseteq groups /\ s4' = [s4 EXCEPT ![w] = Entering!Enter(q, "save", {})] /\ s5' = Entering!NoReply
  <2>1. PICK n : n = Entering!Enter(q, "save", {})
    OBVIOUS
  <2>2. /\ n \in Writing /\ n.at = "save" /\ n.age = 0 /\ n.kind = q.kind /\ n.server = q.server
        /\ n.was = q.was /\ n.scope = q.scope /\ n.groups = q.groups
    BY <2>1, EnterIs
  <2>3. StageHolds(n)
    BY <1>1, <1>2, <2>2 DEF StageHolds
  <2>4. Timely(n)
    <3>1. \A g \in n.groups : s6[g] <= AnswerLife + CallTime
      BY <1>3, <2>2
    <3> QED
      BY <2>2, <3>1, AnswersAssumption DEF Timely
  <2> QED
    BY <1>1, <1>3, <2>1, <2>2, <2>3, <2>4, NothingTold, RequestMoves
<1>4. CASE ~(q.groups \subseteq groups) /\ s4' = [s4 EXCEPT ![w] = Entering!Idle]
           /\ s5' = [why |-> "unknown group", groups |-> q.groups]
  <2>1. PICK g \in Groups : g \in q.groups /\ g \notin groups
    BY <1>4 DEF Writing
  <2>2. TellsTrue'
    BY <1>4, <2>1 DEF TellsTrue
  <2> QED
    BY <1>4, <2>2, IdleInput, RequestMoves
<1> QED
  BY <1>1, <1>3, <1>4 DEF Entering!Decide, Entering!AllExist

LEMMA StartKeeps ==
  ASSUME InputsInv, NEW w \in Writers, NEW s \in Servers, NEW kind \in {"create", "update"}, NEW old \in InputRow,
         NEW scope \in Entering!Scopes \union {Entering!Blank, "another"},
         NEW ids \in Entering!Lists \union {Entering!Absent}, Entering!Start(w, s, kind, old, scope, ids),
         s9' \in BOOLEAN, ~s9' => ~s9,
         kind = "update" => old \in s1 /\ (~s9' => \A v \in Writers : s4[v].kind # "update")
  PROVE  InputsInv'
<1> USE DEF InputsInv
<1>1. PICK asked : asked = Entering!ScopeAsked(old, scope)
  OBVIOUS
<1>2. PICK listed : listed = Entering!GroupsAsked(old, ids)
  OBVIOUS
<1>3. PICK check : check = Entering!normalizeGroups(asked, listed)
  OBVIOUS
<1>4. Entering!dedupeNonEmpty(listed) = (IF ids = Entering!Absent THEN old.groups ELSE ids \ {Entering!Blank})
      /\ Entering!dedupeNonEmpty(listed) \in SUBSET Groups
  BY <1>2, GroupsAssumption
  DEF Entering!GroupsAsked, Entering!dedupeNonEmpty, Entering!Blank, Entering!Absent, Entering!Lists, InputRow
<1>5. s4[w].at = "idle" /\ UNCHANGED <<s1, s2, s3, s6, s7, s8>>
  BY DEF Entering!Start
<1>6. CASE asked \in Entering!Scopes /\ check.next # "needs groups"
  <2>1. PICK q : q = [Entering!Idle EXCEPT !.at = check.next, !.kind = kind, !.server = s,
                        !.was = old.scope, !.scope = asked, !.groups = check.groups]
    OBVIOUS
  <2>2. s4' = [s4 EXCEPT ![w] = q] /\ s5' = Entering!NoReply
    BY <1>1, <1>2, <1>3, <1>6, <2>1 DEF Entering!Start, Entering!validScope
  <2>3. /\ check.groups \in SUBSET Groups /\ check.next \in {"index", "save"}
        /\ check.next = "index" => asked = "group" /\ check.groups # {}
        /\ check.next = "save" => asked # "group" /\ check.groups = {}
    BY <1>3, <1>4, <1>6 DEF Entering!normalizeGroups
  <2>4. q = [at |-> check.next, kind |-> kind, server |-> s, was |-> old.scope, scope |-> asked,
             groups |-> check.groups, got |-> {}, age |-> 0]
    BY <2>1 DEF Entering!Idle
  <2>5. q \in Writing /\ q.at \in {"index", "save"} /\ q.kind = kind /\ q.was = old.scope /\ q.age = 0
    BY <1>6, <2>3, <2>4 DEF Writing, InputRow
  <2>6. StageHolds(q)
    BY <2>3, <2>4 DEF StageHolds
  <2>7. Timely(q)
    BY <2>3, <2>4, <2>5, AnswersAssumption DEF Timely
  <2>8. \A v \in Writers : s4'[v] = IF v = w THEN q ELSE s4[v]
    BY <2>2 DEF InputTypes
  <2>9. InputTypes'
    BY <1>5, <2>2, <2>5 DEF InputTypes
  <2>10. \A v \in Writers : StageHolds(s4[v])'
    BY <2>6, <2>8 DEF StageHolds
  <2>11. AgesHold'
    <3>1. \A v \in Writers : Timely(s4[v])'
      BY <1>5, <2>7, <2>8 DEF AgesHold, Timely
    <3> QED
      BY <1>5, <3>1 DEF AgesHold, KeptIsRecent
  <2>12. ReadsHold'
    <3>1. CASE kind = "create"
      BY <1>5, <2>5, <2>8, <3>1 DEF ReadsHold
    <3>2. CASE kind = "update"
      <4>1. s1 = {old}
        BY <3>2 DEF InputTypes
      <4> QED
        BY <1>5, <2>5, <2>8, <3>2, <4>1 DEF ReadsHold
    <3> QED
      BY <3>1, <3>2
  <2>13. NamesHold' /\ TellsTrue'
    BY <1>5, <2>2, NothingTold DEF NamesHold
  <2> QED
    BY <2>9, <2>10, <2>11, <2>12, <2>13
<1>7. CASE ~(asked \in Entering!Scopes /\ check.next # "needs groups")
  <2>1. /\ UNCHANGED s4
        /\ s5' = IF asked \notin Entering!Scopes THEN Entering!NoReply
                 ELSE [why |-> "needs groups", groups |-> IF ids = Entering!Absent THEN old.groups ELSE ids \ {Entering!Blank}]
    BY <1>1, <1>2, <1>3, <1>7 DEF Entering!Start, Entering!validScope
  <2>2. TellsTrue'
    <3>1. CASE asked \notin Entering!Scopes
      BY <2>1, <3>1, NothingTold
    <3>2. CASE asked \in Entering!Scopes
      <4>1. check.next = "needs groups"
        BY <1>7, <3>2
      <4>2. Entering!dedupeNonEmpty(listed) = {}
        BY <1>3, <4>1 DEF Entering!normalizeGroups
      <4>3. s5'.why = "needs groups" /\ s5'.groups = {}
        BY <1>4, <2>1, <3>2, <4>2
      <4> QED
        BY <4>3 DEF TellsTrue
    <3> QED
      BY <3>1, <3>2
  <2>3. InputTypes' /\ NamesHold'
    BY <1>5, <2>1 DEF InputTypes, NamesHold
  <2>4. (\A v \in Writers : StageHolds(s4[v])') /\ AgesHold'
    BY <1>5, <2>1 DEF StageHolds, AgesHold, Timely, KeptIsRecent
  <2>5. ReadsHold'
    BY <1>5, <2>1 DEF ReadsHold
  <2> QED
    BY <2>2, <2>3, <2>4, <2>5
<1> QED
  BY <1>6, <1>7

LEMMA RequestStarts ==
  ASSUME InputsInv, NEW w \in Writers, NEW s \in Servers, Entering!Asked(w, s)
  PROVE  InputsInv'
<1>1. PICK scope \in Entering!Scopes \union {Entering!Blank, "another"} :
        \/ \E ids \in Entering!Lists : Entering!CreateGeofence(w, s, scope, ids)
        \/ \E ids \in Entering!Lists \union {Entering!Absent} : Entering!LoadGeofence(w, s, scope, ids)
  BY DEF Entering!Asked
<1>2. ASSUME NEW ids \in Entering!Lists, Entering!CreateGeofence(w, s, scope, ids)
      PROVE  InputsInv'
  <2>1. Entering!NewRow \in InputRow
    BY DEF Entering!NewRow, InputRow, Entering!Scopes
  <2>2. s9' \in BOOLEAN /\ (~s9' => ~s9)
    BY <1>2 DEF Entering!CreateGeofence, InputsInv, InputTypes
  <2> QED
    BY <1>2, <2>1, <2>2, StartKeeps DEF Entering!CreateGeofence
<1>3. ASSUME NEW ids \in Entering!Lists \union {Entering!Absent}, Entering!LoadGeofence(w, s, scope, ids)
      PROVE  InputsInv'
  <2>1. PICK r \in s1 : Entering!Start(w, s, "update", r, scope, ids)
    BY <1>3 DEF Entering!LoadGeofence
  <2>2. r \in InputRow
    BY DEF InputsInv, InputTypes
  <2>3. s9' = (s9 \/ \E v \in Writers : s4[v].kind = "update")
    BY <1>3 DEF Entering!LoadGeofence
  <2>4. s9' \in BOOLEAN /\ (~s9' => ~s9 /\ \A v \in Writers : s4[v].kind # "update")
    BY <2>3, Zenon
  <2> QED
    BY <2>1, <2>2, <2>4, StartKeeps
<1> QED
  BY <1>1, <1>2, <1>3

LEMMA IndexHit ==
  ASSUME InputsInv, NEW w \in Writers, Entering!Hit(w)
  PROVE  InputsInv'
<1>1. PICK q \in Writing : q = s4[w]
  BY DEF InputsInv, InputTypes
<1>2. q.at = "index" /\ StageHolds(q)
  BY <1>1 DEF Entering!Hit, InputsInv
<1>3. q.server \in Servers /\ q.kind # "view"
  BY <1>2 DEF StageHolds
<1>4. PICK entry \in KeptIndex : entry = s3[q.server]
  BY <1>3 DEF InputsInv, InputTypes
<1>5. /\ entry.left > 0 /\ Entering!Decide(w, entry.groups)
      /\ UNCHANGED <<s1, s2, s3, s6, s7, s8, s9>>
  BY <1>1, <1>4 DEF Entering!Hit
<1>6. entry.groups \in SUBSET Groups /\ entry.left \in Nat /\ KeptIsRecent(entry)
  BY <1>3, <1>4 DEF InputsInv, AgesHold, KeptIndex
<1>7. /\ \A g \in entry.groups : s6[g] <= AnswerLife + CallTime
      /\ \A g \in Groups \ entry.groups : s7[g] <= AnswerLife + CallTime
  BY <1>5, <1>6, AnswersAssumption DEF KeptIsRecent, InputsInv, InputTypes
<1>8. s3' \in [Servers -> KeptIndex] /\ \A s \in Servers : KeptIsRecent(s3'[s])
  BY <1>5 DEF InputsInv, InputTypes, AgesHold
<1> QED
  BY <1>1, <1>2, <1>3, <1>5, <1>6, <1>7, <1>8, DecisionKeeps

LEMMA IndexAsked ==
  ASSUME InputsInv, NEW w \in Writers, Entering!Ask(w)
  PROVE  InputsInv'
<1>1. PICK q \in Writing : q = s4[w]
  BY DEF InputsInv, InputTypes
<1>2. q.at = "index" /\ StageHolds(q)
  BY <1>1 DEF Entering!Ask, InputsInv
<1>3. PICK n : n = Entering!Enter(q, "fill", s2)
  OBVIOUS
<1>4. s4' = [s4 EXCEPT ![w] = n] /\ s5' = Entering!NoReply /\ UNCHANGED <<s1, s2, s3, s6, s7, s8, s9>>
  BY <1>1, <1>3 DEF Entering!Ask
<1>5. /\ n \in Writing /\ n.at = "fill" /\ n.got = s2 /\ n.age = 0 /\ n.kind = q.kind /\ n.server = q.server
      /\ n.was = q.was /\ n.scope = q.scope /\ n.groups = q.groups
  BY <1>3, EnterIs DEF InputsInv, InputTypes
<1>6. StageHolds(n)
  BY <1>2, <1>5 DEF StageHolds
<1>7. Timely(n)
  BY <1>5, AnswersAssumption DEF Timely, InputsInv, AgesHold
<1>8. s3' \in [Servers -> KeptIndex] /\ \A s \in Servers : KeptIsRecent(s3'[s])
  BY <1>4 DEF InputsInv, InputTypes, AgesHold
<1> QED
  BY <1>1, <1>4, <1>5, <1>6, <1>7, <1>8, NothingTold, RequestMoves

LEMMA IndexViewed ==
  ASSUME InputsInv, NEW w \in Writers, NEW s \in Servers, Entering!View(w, s)
  PROVE  InputsInv'
<1>1. PICK n : n = [Entering!Idle EXCEPT !.at = "fill", !.kind = "view", !.server = s, !.got = s2]
  OBVIOUS
<1>2. s4' = [s4 EXCEPT ![w] = n] /\ s5' = Entering!NoReply /\ UNCHANGED <<s1, s2, s3, s6, s7, s8, s9>>
  BY <1>1 DEF Entering!View
<1>3. n = [at |-> "fill", kind |-> "view", server |-> s, was |-> "all", scope |-> "all",
           groups |-> {}, got |-> s2, age |-> 0]
  BY <1>1 DEF Entering!Idle
<1>4. n \in Writing
  BY <1>3 DEF Writing, Entering!Scopes, InputsInv, InputTypes
<1>5. StageHolds(n)
  BY <1>3 DEF StageHolds
<1>6. Timely(n)
  BY <1>3, AnswersAssumption DEF Timely, InputsInv, AgesHold
<1>7. s3' \in [Servers -> KeptIndex] /\ \A x \in Servers : KeptIsRecent(s3'[x])
  BY <1>2 DEF InputsInv, InputTypes, AgesHold
<1>8. n.kind # "update"
  BY <1>3
<1> QED
  BY <1>2, <1>4, <1>5, <1>6, <1>7, <1>8, NothingTold, RequestMoves

LEMMA IndexFilled ==
  ASSUME InputsInv, NEW w \in Writers, Entering!Fill(w)
  PROVE  InputsInv'
<1>1. PICK q \in Writing : q = s4[w]
  BY DEF InputsInv, InputTypes
<1>2. q.at = "fill" /\ StageHolds(q) /\ Timely(q)
  BY <1>1 DEF Entering!Fill, InputsInv, AgesHold
<1>3. q.server \in Servers /\ q.got \in SUBSET Groups /\ q.age \in Nat
  BY <1>2 DEF StageHolds, Writing
<1>4. PICK entry : entry = [groups |-> q.got, left |-> AnswerLife]
  OBVIOUS
<1>5. s3' = [s3 EXCEPT ![q.server] = entry] /\ UNCHANGED <<s1, s2, s6, s7, s8, s9>>
  BY <1>1, <1>4 DEF Entering!Fill
<1>6. /\ \A g \in q.got : s6[g] <= CallTime
      /\ \A g \in Groups \ q.got : s7[g] <= CallTime
  BY <1>2, <1>3, AnswersAssumption DEF Timely, InputsInv, InputTypes
<1>7. entry \in KeptIndex
  BY <1>3, <1>4, AnswersAssumption DEF KeptIndex
<1>8. KeptIsRecent(entry)
  BY <1>3, <1>4, <1>6, AnswersAssumption DEF KeptIsRecent, InputsInv, InputTypes
<1>9. s3' \in [Servers -> KeptIndex]
  BY <1>5, <1>7 DEF InputsInv, InputTypes
<1>10. \A s \in Servers : KeptIsRecent(s3'[s])
  <2>1. \A s \in Servers : s3'[s] = IF s = q.server THEN entry ELSE s3[s]
    BY <1>5 DEF InputsInv, InputTypes
  <2> QED
    BY <1>8, <2>1 DEF InputsInv, AgesHold
<1>11. CASE q.kind # "view" /\ Entering!Decide(w, q.got)
  <2>1. /\ \A g \in q.got : s6[g] <= AnswerLife + CallTime
        /\ \A g \in Groups \ q.got : s7[g] <= AnswerLife + CallTime
    BY <1>3, <1>6, AnswersAssumption DEF InputsInv, InputTypes
  <2> QED
    BY <1>1, <1>2, <1>3, <1>5, <1>9, <1>10, <1>11, <2>1, DecisionKeeps
<1>12. CASE s4' = [s4 EXCEPT ![w] = Entering!Idle] /\ s5' = Entering!NoReply
  BY <1>5, <1>9, <1>10, <1>12, IdleInput, NothingTold, RequestMoves
<1> QED
  BY <1>1, <1>11, <1>12 DEF Entering!Fill

LEMMA RequestFails ==
  ASSUME InputsInv, NEW w \in Writers, Entering!Fail(w)
  PROVE  InputsInv'
<1>1. s4' = [s4 EXCEPT ![w] = Entering!Idle] /\ s5' = Entering!NoReply /\ UNCHANGED <<s1, s2, s3, s6, s7, s8, s9>>
  BY DEF Entering!Fail
<1>2. s3' \in [Servers -> KeptIndex] /\ \A s \in Servers : KeptIsRecent(s3'[s])
  BY <1>1 DEF InputsInv, InputTypes, AgesHold
<1> QED
  BY <1>1, <1>2, IdleInput, NothingTold, RequestMoves

(* What a request may write was the tenant's lately. *)
LEMMA SavedIsLately ==
  ASSUME InputsInv, NEW w \in Writers, s4[w].at = "save"
  PROVE  s4[w].groups \subseteq Entering!Lately
<1>1. PICK q \in Writing : q = s4[w]
  BY DEF InputsInv, InputTypes
<1>2. Timely(q) /\ q.groups \subseteq Groups /\ q.age \in Nat
  BY <1>1 DEF InputsInv, AgesHold, Writing
<1>3. \A g \in q.groups : s6[g] <= AnswerLife + 2 * CallTime
  <2>1. q.age <= CallTime /\ \A g \in q.groups : s6[g] <= AnswerLife + CallTime + q.age
    BY <1>1, <1>2 DEF Timely
  <2> QED
    BY <1>2, <2>1, AnswersAssumption DEF InputsInv, InputTypes
<1> QED
  BY <1>1, <1>2, <1>3 DEF Entering!Lately

(* The row is written, and the request is done. *)
LEMMA RowWritten ==
  ASSUME InputsInv, NEW w \in Writers, s4' = [s4 EXCEPT ![w] = Entering!Idle], s5' = Entering!NoReply,
         UNCHANGED <<s2, s3, s6, s7, s9>>, NEW now \in InputRow, s1' = {now}, now.groups \subseteq s8',
         ~s9 => (now.scope = "group" <=> now.groups # {}),
         ~s9 => \A v \in Writers \ {w} : s4[v].kind # "update"
  PROVE  InputsInv'
<1> USE DEF InputsInv
<1>1. \A v \in Writers : s4'[v] = IF v = w THEN Entering!Idle ELSE s4[v]
  BY DEF InputTypes
<1>2. InputTypes'
  BY IdleInput DEF InputTypes
<1>3. \A v \in Writers : StageHolds(s4[v])'
  BY <1>1, IdleInput DEF StageHolds
<1>4. AgesHold'
  <2>1. \A v \in Writers : Timely(s4[v])'
    BY <1>1, IdleInput DEF AgesHold, Timely
  <2> QED
    BY <2>1 DEF AgesHold, KeptIsRecent
<1>5. ReadsHold'
  BY <1>1, IdleInput DEF ReadsHold
<1>6. NamesHold' /\ TellsTrue'
  BY NothingTold DEF NamesHold
<1> QED
  BY <1>2, <1>3, <1>4, <1>5, <1>6

LEMMA RowInserted ==
  ASSUME InputsInv, NEW w \in Writers, Entering!Insert(w)
  PROVE  InputsInv'
<1>1. PICK q \in Writing : q = s4[w]
  BY DEF InputsInv, InputTypes
<1>2. /\ q.at = "save" /\ s4' = [s4 EXCEPT ![w] = Entering!Idle] /\ s5' = Entering!NoReply
      /\ UNCHANGED <<s2, s3, s6, s7, s9>>
  BY <1>1 DEF Entering!Insert
<1>3. CASE s1 = {}
  <2>1. PICK now : now = [scope |-> q.scope, groups |-> q.groups]
    OBVIOUS
  <2>2. s1' = {now} /\ s8' = Entering!Lately
    BY <1>1, <1>3, <2>1 DEF Entering!Insert
  <2>3. now \in InputRow /\ now.scope = q.scope /\ now.groups = q.groups
    BY <2>1 DEF InputRow, Writing
  <2>4. now.groups \subseteq s8'
    BY <1>1, <1>2, <2>2, <2>3, SavedIsLately
  <2>5. now.scope = "group" <=> now.groups # {}
    BY <1>1, <1>2, <2>3 DEF InputsInv, StageHolds
  <2>6. \A v \in Writers : s4[v].kind # "update"
    BY <1>3 DEF InputsInv, ReadsHold
  <2> QED
    BY <1>2, <2>2, <2>3, <2>4, <2>5, <2>6, RowWritten
<1>4. CASE s1 # {}
  <2>1. UNCHANGED <<s1, s8>>
    BY <1>4 DEF Entering!Insert
  <2>2. s3' \in [Servers -> KeptIndex] /\ \A s \in Servers : KeptIsRecent(s3'[s])
    BY <1>2 DEF InputsInv, InputTypes, AgesHold
  <2> QED
    BY <1>2, <2>1, <2>2, IdleInput, NothingTold, RequestMoves
<1> QED
  BY <1>3, <1>4

LEMMA RowUpdated ==
  ASSUME InputsInv, NEW w \in Writers, Entering!UpdateGeofence(w)
  PROVE  InputsInv'
<1>1. PICK q \in Writing : q = s4[w]
  BY DEF InputsInv, InputTypes
<1>2. /\ q.at = "save" /\ q.kind = "update" /\ s4' = [s4 EXCEPT ![w] = Entering!Idle] /\ s5' = Entering!NoReply
      /\ s1' = { Entering!Columns(r, q) : r \in s1 } /\ s8' = Entering!Lately
      /\ UNCHANGED <<s2, s3, s6, s7, s9>>
  BY <1>1 DEF Entering!UpdateGeofence
<1>3. PICK r \in InputRow : s1 = {r}
  BY <1>1, <1>2 DEF InputsInv, ReadsHold, InputTypes
<1>4. PICK now : now = Entering!Columns(r, q)
  OBVIOUS
<1>5. now = [scope |-> IF q.scope # q.was THEN q.scope ELSE r.scope, groups |-> q.groups]
  BY <1>4 DEF Entering!Columns
<1>6. s1' = {now}
  BY <1>2, <1>3, <1>4
<1>7. now \in InputRow
  BY <1>5 DEF InputRow, Writing
<1>8. now.groups \subseteq s8'
  BY <1>1, <1>2, <1>5, SavedIsLately
<1>9. ~s9 => (now.scope = "group" <=> now.groups # {})
  <2>1. ~s9 => r.scope = q.was
    BY <1>1, <1>2, <1>3 DEF InputsInv, ReadsHold
  <2>2. ~s9 => now.scope = q.scope
    BY <1>5, <2>1
  <2>3. q.scope = "group" <=> q.groups # {}
    BY <1>1, <1>2 DEF InputsInv, StageHolds
  <2> QED
    BY <1>5, <2>2, <2>3
<1>10. ~s9 => \A v \in Writers \ {w} : s4[v].kind # "update"
  BY <1>1, <1>2 DEF InputsInv, ReadsHold
<1> QED
  BY <1>2, <1>6, <1>7, <1>8, <1>9, <1>10, RowWritten

LEMMA IndexDropped ==
  ASSUME InputsInv, NEW s \in Servers, Entering!invalidateGroupIndex(s)
  PROVE  InputsInv'
<1> USE DEF InputsInv
<1>1. s3' = [s3 EXCEPT ![s] = Entering!Nothing] /\ s5' = Entering!NoReply /\ UNCHANGED <<s1, s2, s4, s6, s7, s8, s9>>
  BY DEF Entering!invalidateGroupIndex
<1>2. Entering!Nothing \in KeptIndex /\ Entering!Nothing.left = 0
  BY DEF Entering!Nothing, KeptIndex
<1>3. InputTypes'
  BY <1>1, <1>2 DEF InputTypes
<1>4. AgesHold'
  <2>1. \A x \in Servers : s3'[x] = IF x = s THEN Entering!Nothing ELSE s3[x]
    BY <1>1 DEF InputTypes
  <2>2. \A x \in Servers : KeptIsRecent(s3[x])'
    BY <1>1, <1>2, <2>1 DEF AgesHold, KeptIsRecent
  <2> QED
    BY <1>1, <2>2 DEF AgesHold, Timely
<1>5. (\A w \in Writers : StageHolds(s4[w])') /\ ReadsHold' /\ NamesHold'
  BY <1>1 DEF StageHolds, ReadsHold, NamesHold
<1> QED
  BY <1>1, <1>3, <1>4, <1>5, NothingTold

(* A group that comes was lacked till now, one that goes was had. *)
LEMMA GroupComesOrGoes ==
  ASSUME InputsInv, NEW g \in Groups, Entering!GroupChanges(g)
  PROVE  InputsInv'
<1> USE DEF InputsInv
<1>1. s5' = Entering!NoReply /\ UNCHANGED <<s1, s3, s4, s8, s9>>
  BY DEF Entering!GroupChanges
<1>2. /\ s2' \subseteq Groups /\ s6' \in [Groups -> Nat] /\ s7' \in [Groups -> Nat]
      /\ \A x \in Groups : s6'[x] <= s6[x] /\ s7'[x] <= s7[x]
      /\ \A x \in s2' : s6'[x] = 0
      /\ \A x \in Groups \ s2' : s7'[x] = 0
  <2>1. CASE g \in s2
    BY <2>1 DEF Entering!GroupChanges, InputTypes, AgesHold
  <2>2. CASE g \notin s2
    BY <2>2 DEF Entering!GroupChanges, InputTypes, AgesHold
  <2> QED
    BY <2>1, <2>2
<1>3. InputTypes'
  BY <1>1, <1>2 DEF InputTypes
<1>4. \A w \in Writers : Timely(s4[w])'
  <2>1. SUFFICES ASSUME NEW w \in Writers PROVE Timely(s4[w])'
    OBVIOUS
  <2>2. PICK q \in Writing : q = s4[w]
    BY DEF InputTypes
  <2>3. Timely(q) /\ q.groups \subseteq Groups /\ q.got \subseteq Groups /\ q.age \in Nat
    BY <2>2 DEF AgesHold, Writing
  <2> QED
    BY <1>1, <1>2, <2>2, <2>3, AnswersAssumption DEF Timely, InputTypes
<1>5. \A s \in Servers : KeptIsRecent(s3[s])'
  <2>1. SUFFICES ASSUME NEW s \in Servers PROVE KeptIsRecent(s3[s])'
    OBVIOUS
  <2>2. PICK entry \in KeptIndex : entry = s3[s]
    BY DEF InputTypes
  <2>3. KeptIsRecent(entry) /\ entry.groups \subseteq Groups /\ entry.left \in Nat
    BY <2>2 DEF AgesHold, KeptIndex
  <2> QED
    BY <1>1, <1>2, <2>2, <2>3, AnswersAssumption DEF KeptIsRecent, InputTypes
<1>6. AgesHold'
  BY <1>2, <1>4, <1>5 DEF AgesHold
<1>7. (\A w \in Writers : StageHolds(s4[w])') /\ ReadsHold' /\ NamesHold'
  BY <1>1 DEF StageHolds, ReadsHold, NamesHold
<1> QED
  BY <1>1, <1>3, <1>6, <1>7, NothingTold

(* Time passes: what is held and what is asked for grow older together. *)
LEMMA IndexAges ==
  ASSUME InputsInv, Entering!Tick
  PROVE  InputsInv'
<1> USE DEF InputsInv
<1>1. /\ \A w \in Writers : s4[w].at \in {"fill", "save"} => s4[w].age < CallTime
      /\ s4' = [w \in Writers |-> Entering!Waited(s4[w])] /\ s3' = [s \in Servers |-> Entering!Aged(s3[s])]
      /\ s6' = [g \in Groups |-> IF g \in s2 THEN 0 ELSE Entering!Later(s6[g])]
      /\ s7' = [g \in Groups |-> IF g \in s2 THEN Entering!Later(s7[g]) ELSE 0]
      /\ s5' = Entering!NoReply /\ UNCHANGED <<s1, s2, s8, s9>>
  BY DEF Entering!Tick, Entering!Waits
<1>2. Entering!Horizon \in Nat
  BY AnswersAssumption DEF Entering!Horizon
<1>3. \A n \in Nat : Entering!Later(n) \in Nat /\ Entering!Later(n) <= n + 1
  BY <1>2 DEF Entering!Later
<1>4. /\ s6' \in [Groups -> Nat] /\ s7' \in [Groups -> Nat]
      /\ \A g \in Groups : s6'[g] <= s6[g] + 1 /\ s7'[g] <= s7[g] + 1
      /\ \A g \in s2 : s6'[g] = 0
      /\ \A g \in Groups \ s2 : s7'[g] = 0
  BY <1>1, <1>3 DEF InputTypes
<1>5. \A w \in Writers : /\ s4'[w] \in Writing /\ Timely(s4[w])' /\ StageHolds(s4[w])'
                         /\ s4'[w].kind = s4[w].kind /\ s4'[w].was = s4[w].was
  <2>1. SUFFICES ASSUME NEW w \in Writers
                 PROVE  /\ s4'[w] \in Writing /\ Timely(s4[w])' /\ StageHolds(s4[w])'
                        /\ s4'[w].kind = s4[w].kind /\ s4'[w].was = s4[w].was
    OBVIOUS
  <2>2. PICK q \in Writing : q = s4[w]
    BY DEF InputTypes
  <2>3. Timely(q) /\ StageHolds(q) /\ q.groups \subseteq Groups /\ q.got \subseteq Groups /\ q.age \in Nat
    BY <2>2 DEF AgesHold, Writing
  <2>4. CASE q.at \in {"fill", "save"}
    <3>1. PICK n : n = [q EXCEPT !.age = @ + 1]
      OBVIOUS
    <3>2. n = [at |-> q.at, kind |-> q.kind, server |-> q.server, was |-> q.was, scope |-> q.scope,
               groups |-> q.groups, got |-> q.got, age |-> q.age + 1]
      BY <3>1 DEF Writing
    <3>3. s4'[w] = n /\ q.age < CallTime
      BY <1>1, <2>2, <2>4, <3>1 DEF Entering!Waited, Entering!Waits
    <3>4. /\ n \in Writing /\ n.at = q.at /\ n.kind = q.kind /\ n.server = q.server /\ n.was = q.was
          /\ n.scope = q.scope /\ n.groups = q.groups /\ n.got = q.got /\ n.age = q.age + 1
      BY <2>3, <3>2 DEF Writing
    <3>5. StageHolds(n)
      BY <2>3, <3>4 DEF StageHolds
    <3>6. StageHolds(s4[w])'
      BY <3>3, <3>5 DEF StageHolds
    <3>7. Timely(s4[w])'
      <4>1. n.age <= CallTime
        BY <2>3, <3>3, <3>4, AnswersAssumption
      <4>2. CASE q.at = "fill"
        <5>1. \A g \in q.got : s6[g] <= q.age
          BY <2>3, <4>2 DEF Timely
        <5>2. \A g \in Groups \ q.got : s7[g] <= q.age
          BY <2>3, <4>2 DEF Timely
        <5>3. \A g \in n.got : s6'[g] <= n.age
          BY <1>4, <2>3, <3>4, <5>1 DEF InputTypes
        <5>4. \A g \in Groups \ n.got : s7'[g] <= n.age
          BY <1>4, <2>3, <3>4, <5>2 DEF InputTypes
        <5> QED
          BY <3>3, <3>4, <4>1, <4>2, <5>3, <5>4 DEF Timely
      <4>3. CASE q.at = "save"
        <5>1. \A g \in q.groups : s6[g] <= AnswerLife + CallTime + q.age
          BY <2>3, <4>3 DEF Timely
        <5>2. \A g \in n.groups : s6'[g] <= AnswerLife + CallTime + n.age
          BY <1>4, <2>3, <3>4, <5>1, AnswersAssumption DEF InputTypes
        <5> QED
          BY <3>3, <3>4, <4>1, <4>3, <5>2 DEF Timely
      <4> QED
        BY <2>4, <4>2, <4>3
    <3> QED
      BY <2>2, <3>3, <3>4, <3>6, <3>7
  <2>5. CASE q.at \notin {"fill", "save"}
    <3>1. s4'[w] = q
      BY <1>1, <2>2, <2>5 DEF Entering!Waited, Entering!Waits
    <3> QED
      BY <2>2, <2>3, <2>5, <3>1 DEF StageHolds, Timely
  <2> QED
    BY <2>4, <2>5
<1>6. \A s \in Servers : s3'[s] \in KeptIndex /\ KeptIsRecent(s3[s])'
  <2>1. SUFFICES ASSUME NEW s \in Servers PROVE s3'[s] \in KeptIndex /\ KeptIsRecent(s3[s])'
    OBVIOUS
  <2>2. PICK entry \in KeptIndex : entry = s3[s]
    BY DEF InputTypes
  <2>3. KeptIsRecent(entry) /\ entry.groups \subseteq Groups /\ entry.left \in Nat
    BY <2>2 DEF AgesHold, KeptIndex
  <2>4. PICK n : n = Entering!Aged(entry)
    OBVIOUS
  <2>5. s3'[s] = n
    BY <1>1, <2>2, <2>4
  <2>6. CASE entry.left > 1
    <3>1. n = [groups |-> entry.groups, left |-> entry.left - 1]
      BY <2>4, <2>6 DEF Entering!Aged, KeptIndex
    <3>2. n \in KeptIndex /\ n.groups = entry.groups /\ n.left = entry.left - 1 /\ n.left \in Nat
      BY <2>3, <2>6, <3>1 DEF KeptIndex
    <3>3. \A g \in entry.groups : s6[g] + entry.left <= AnswerLife + CallTime
      BY <2>3, <2>6 DEF KeptIsRecent
    <3>4. \A g \in Groups \ entry.groups : s7[g] + entry.left <= AnswerLife + CallTime
      BY <2>3, <2>6 DEF KeptIsRecent
    <3>5. \A g \in n.groups : s6'[g] + n.left <= AnswerLife + CallTime
      BY <1>4, <2>3, <3>2, <3>3, AnswersAssumption DEF InputTypes
    <3>6. \A g \in Groups \ n.groups : s7'[g] + n.left <= AnswerLife + CallTime
      BY <1>4, <2>3, <3>2, <3>4, AnswersAssumption DEF InputTypes
    <3> QED
      BY <2>5, <3>2, <3>5, <3>6 DEF KeptIsRecent
  <2>7. CASE ~(entry.left > 1)
    <3>1. n = [groups |-> {}, left |-> 0]
      BY <2>4, <2>7 DEF Entering!Aged, Entering!Nothing
    <3> QED
      BY <2>5, <3>1 DEF KeptIsRecent, KeptIndex
  <2> QED
    BY <2>6, <2>7
<1>7. InputTypes'
  <2>1. s4' \in [Writers -> Writing] /\ s3' \in [Servers -> KeptIndex]
    BY <1>1, <1>5, <1>6
  <2> QED
    BY <1>1, <1>4, <2>1 DEF InputTypes
<1>8. AgesHold'
  BY <1>1, <1>4, <1>5, <1>6 DEF AgesHold
<1>9. ReadsHold' /\ NamesHold'
  BY <1>1, <1>5 DEF ReadsHold, NamesHold
<1> QED
  BY <1>1, <1>5, <1>7, <1>8, <1>9, NothingTold

LEMMA InputsStep ==
  ASSUME InputsInv, Entering!Next
  PROVE  InputsInv'
BY RequestStarts, IndexViewed, IndexHit, IndexAsked, IndexFilled, RowInserted, RowUpdated, RequestFails,
   IndexDropped, GroupComesOrGoes, IndexAges DEF Entering!Next

LEMMA InputsFit ==
  ASSUME InputsInv
  PROVE  Entering!ScopeHasItsGroups
BY DEF InputsInv, ReadsHold, NamesHold, TellsTrue, Entering!ScopeHasItsGroups

LEMMA InputsRest ==
  ASSUME InputsInv, UNCHANGED <<s1, s2, s3, s4, s5, s6, s7, s8, s9>>
  PROVE  InputsInv'
<1> USE DEF InputsInv
<1>1. InputTypes' /\ ReadsHold' /\ NamesHold' /\ TellsTrue'
  BY DEF InputTypes, ReadsHold, NamesHold, TellsTrue
<1>2. (\A w \in Writers : StageHolds(s4[w])') /\ AgesHold'
  BY DEF StageHolds, AgesHold, Timely, KeptIsRecent
<1> QED
  BY <1>1, <1>2

-----------------------------------------------------------------------------
(***************************************************************************)
(* Shares (Sharing). A job that was queued when no other was open finds    *)
(* none open until another is queued, so that what it did stands; a dialog *)
(* polls its own job, and says what that has come to.                      *)
(* jobs s1, shared s2, page s3.                                            *)
(***************************************************************************)
LEMMA ShareSteps ==
  ASSUME subject = "shares", [SubjectNext]_allVars
  PROVE  Shares!Next \/ UNCHANGED <<s1, s2, s3>>
BY DEF SubjectNext, OfTenants, OfTokens, OfSecrets, OfGeofences, OfShares, OfInvitations,
       OfPreferences, OfComparisons, OfInputs, OfShapes, OfLists, OfIntervals, allVars, places

ShareJob == [kind : {"share", "revoke"}, state : {"queued", "retryable", "completed", "discarded", "cancelled"},
             alone : BOOLEAN]
Dialog   == [at : {"idle", "request", "poll"}, kind : {"none", "share", "revoke"}, job : Nat, attempt : Nat,
             failed : Nat, verdict : {"none", "refused", "unavailable", "unknown", "done", "failed"}]

ShareTypes ==
  /\ \E n \in 0..MaxJobs : s1 \in [1..n -> ShareJob]
  /\ s2 \in BOOLEAN /\ s3 \in [Dialogs -> Dialog]

(* A job that was queued when no other was open finds none open, until     *)
(* another is queued, and what it did stands.                              *)
LoneJobsStand ==
  \A j \in DOMAIN s1 : s1[j].alone /\ j + 1 \notin DOMAIN s1 =>
    /\ \A k \in DOMAIN s1 \ {j} : s1[k].state \notin {"queued", "retryable"}
    /\ s1[j].state = "completed" => s2 = (s1[j].kind = "share")

(* A dialog polls its own job, and tells what that has come to. *)
DialogsKnow ==
  \A c \in Dialogs :
    /\ s3[c].attempt < PollAttempts /\ s3[c].failed < ErrorsTolerated
    /\ s3[c].at = "request" => s3[c].kind # "none"
    /\ s3[c].at # "idle" => s3[c].verdict = "none"
    /\ s3[c].at = "poll" \/ s3[c].verdict \in {"done", "failed"} =>
         s3[c].job \in DOMAIN s1 /\ s1[s3[c].job].kind = s3[c].kind
    /\ s3[c].verdict = "done" => s1[s3[c].job].state = "completed"
    /\ s3[c].verdict = "failed" => s1[s3[c].job].state \in {"discarded", "cancelled"}

SharesInv == ShareTypes /\ LoneJobsStand /\ DialogsKnow

LEMMA CardinalityIs == \A S : Shares!Cardinality(S) = Cardinality(S)
BY DEF Shares!Cardinality, Cardinality

LEMMA NoPageIs ==
  /\ Shares!NoPage \in Dialog /\ Shares!NoPage.at = "idle" /\ Shares!NoPage.verdict = "none"
  /\ Shares!NoPage.attempt = 0 /\ Shares!NoPage.failed = 0
BY DEF Shares!NoPage, Dialog

LEMMA SharesStart ==
  ASSUME Shares!Init
  PROVE  SharesInv
<1>1. s1 \in [1..0 -> ShareJob] /\ DOMAIN s1 = {}
  BY DEF Shares!Init
<1>2. 0 \in 0..MaxJobs /\ 0 < PollAttempts /\ 0 < ErrorsTolerated
  BY PollingAssumption
<1>3. ShareTypes
  BY <1>1, <1>2, NoPageIs DEF Shares!Init, ShareTypes
<1>4. LoneJobsStand
  BY <1>1 DEF LoneJobsStand
<1>5. DialogsKnow
  BY <1>2, NoPageIs DEF Shares!Init, DialogsKnow
<1> QED
  BY <1>3, <1>4, <1>5 DEF SharesInv

(* A dialog goes on as allowed, while jobs and access stay as they are. *)
LEMMA DialogMoves ==
  ASSUME SharesInv, NEW c \in Dialogs, NEW to \in Dialog, UNCHANGED <<s1, s2>>,
         s3' = [s3 EXCEPT ![c] = to],
         to.attempt < PollAttempts, to.failed < ErrorsTolerated,
         to.at = "request" => to.kind # "none",
         to.at # "idle" => to.verdict = "none",
         to.at = "poll" \/ to.verdict \in {"done", "failed"} =>
           to.job \in DOMAIN s1 /\ s1[to.job].kind = to.kind,
         to.verdict = "done" => s1[to.job].state = "completed",
         to.verdict = "failed" => s1[to.job].state \in {"discarded", "cancelled"}
  PROVE  SharesInv'
BY DEF SharesInv, ShareTypes, LoneJobsStand, DialogsKnow

LEMMA AsksKeep ==
  ASSUME SharesInv, NEW c \in Dialogs,
         Shares!ShareVehicle(c) \/ Shares!RevokeShare(c) \/ Shares!Refuse(c) \/ Shares!Abort(c)
  PROVE  SharesInv'
<1>0. 0 < PollAttempts /\ 0 < ErrorsTolerated
  BY PollingAssumption
<1>1. ASSUME NEW kind \in {"share", "revoke"}, Shares!Ask(c, kind)
      PROVE  SharesInv'
  <2>1. PICK to \in Dialog : to = [Shares!NoPage EXCEPT !.at = "request", !.kind = kind]
    BY NoPageIs DEF Dialog
  <2>2. /\ to.at = "request" /\ to.kind = kind /\ to.verdict = "none"
        /\ to.attempt = 0 /\ to.failed = 0
    BY <2>1, NoPageIs DEF Dialog
  <2>3. s3' = [s3 EXCEPT ![c] = to] /\ UNCHANGED <<s1, s2>>
    BY <1>1, <2>1 DEF Shares!Ask
  <2> QED
    BY <1>0, <2>2, <2>3, DialogMoves
<1>2. CASE Shares!Refuse(c)
  <2>1. PICK to \in Dialog : to = [s3[c] EXCEPT !.at = "idle", !.verdict = "refused"]
    BY DEF SharesInv, ShareTypes, Dialog
  <2>2. s3' = [s3 EXCEPT ![c] = to] /\ UNCHANGED <<s1, s2>>
    BY <1>2, <2>1 DEF Shares!Refuse, SharesInv, ShareTypes
  <2>3. to.at = "idle" /\ to.verdict = "refused" /\ to.attempt = s3[c].attempt /\ to.failed = s3[c].failed
    BY <2>1 DEF SharesInv, ShareTypes, Dialog
  <2> QED
    BY <2>2, <2>3, DialogMoves DEF SharesInv, DialogsKnow
<1>3. CASE Shares!Abort(c)
  <2>1. PICK to \in Dialog : to = Shares!NoPage
    BY NoPageIs
  <2>2. s3' = [s3 EXCEPT ![c] = to] /\ UNCHANGED <<s1, s2>>
    BY <1>3, <2>1 DEF Shares!Abort
  <2> QED
    BY <1>0, <2>1, <2>2, NoPageIs, DialogMoves
<1> QED
  BY <1>1, <1>2, <1>3 DEF Shares!ShareVehicle, Shares!RevokeShare

LEMMA PollsKeep ==
  ASSUME SharesInv, NEW c \in Dialogs, Shares!Poll(c) \/ Shares!PollFails(c)
  PROVE  SharesInv'
<1> USE DEF SharesInv
<1>1. s3[c].at = "poll" /\ UNCHANGED <<s1, s2>>
  BY DEF Shares!Poll, Shares!PollFails
<1>2. /\ s3[c] \in Dialog /\ s3[c].job \in DOMAIN s1 /\ s1[s3[c].job].kind = s3[c].kind
      /\ s3[c].attempt < PollAttempts /\ s3[c].failed < ErrorsTolerated
      /\ s1[s3[c].job] \in ShareJob
  BY <1>1 DEF ShareTypes, DialogsKnow
<1>3. ASSUME NEW verdict \in {"unknown", "done", "failed"}, Shares!Tell(c, verdict),
             verdict = "done" => s1[s3[c].job].state = "completed",
             verdict = "failed" => s1[s3[c].job].state \in {"discarded", "cancelled"}
      PROVE  SharesInv'
  <2>1. PICK to \in Dialog : to = [s3[c] EXCEPT !.at = "idle", !.verdict = verdict]
    BY <1>2 DEF Dialog
  <2>2. s3' = [s3 EXCEPT ![c] = to]
    BY <1>3, <2>1 DEF Shares!Tell, ShareTypes
  <2>3. /\ to.at = "idle" /\ to.verdict = verdict /\ to.attempt = s3[c].attempt /\ to.failed = s3[c].failed
        /\ to.job = s3[c].job /\ to.kind = s3[c].kind
    BY <1>2, <2>1 DEF Dialog
  <2> QED
    BY <1>1, <1>2, <1>3, <2>2, <2>3, DialogMoves
<1>4. ASSUME NEW failed \in Nat, failed < ErrorsTolerated, Shares!Continue(c, failed)
      PROVE  SharesInv'
  <2>1. CASE Shares!Tell(c, "unknown")
    BY <1>3, <2>1
  <2>2. CASE s3[c].attempt + 1 # PollAttempts
             /\ s3' = [s3 EXCEPT ![c].attempt = @ + 1, ![c].failed = failed]
    <3>1. s3[c].attempt \in Nat
      BY <1>2 DEF Dialog
    <3>2. PICK to \in Dialog : to = [s3[c] EXCEPT !.attempt = @ + 1, !.failed = failed]
      <4>1. s3[c].attempt + 1 \in Nat
        BY <3>1
      <4> QED
        BY <1>2, <4>1 DEF Dialog
    <3>3. s3' = [s3 EXCEPT ![c] = to]
      BY <2>2, <3>2 DEF ShareTypes
    <3>4. to.attempt = s3[c].attempt + 1 /\ to.failed = failed
      BY <1>2, <3>2 DEF Dialog
    <3>5. to.at = "poll" /\ to.job = s3[c].job /\ to.kind = s3[c].kind /\ to.verdict = s3[c].verdict
      BY <1>1, <1>2, <3>2 DEF Dialog
    <3>6. to.attempt < PollAttempts
      BY <1>2, <2>2, <3>1, <3>4, PollingAssumption
    <3>7. to.verdict = "none"
      BY <1>1, <3>5 DEF DialogsKnow
    <3> QED
      BY <1>1, <1>2, <1>4, <3>3, <3>4, <3>5, <3>6, <3>7, DialogMoves
  <2> QED
    BY <1>4, <2>1, <2>2 DEF Shares!Continue, Shares!TimeOut
<1>5. CASE Shares!Poll(c)
  <2>1. 0 \in Nat /\ 0 < ErrorsTolerated
    BY PollingAssumption
  <2> QED
    BY <1>3, <1>4, <1>5, <2>1 DEF Shares!Poll
<1>6. CASE Shares!PollFails(c)
  <2>1. s3[c].failed + 1 \in Nat
    BY <1>2 DEF Dialog
  <2>2. s3[c].failed + 1 >= ErrorsTolerated \/ s3[c].failed + 1 < ErrorsTolerated
    BY <2>1, PollingAssumption
  <2> QED
    BY <1>3, <1>4, <1>6, <2>1, <2>2 DEF Shares!PollFails, Shares!TimeOut
<1> QED
  BY <1>5, <1>6

LEMMA QueueKeeps ==
  ASSUME SharesInv, NEW c \in Dialogs, Shares!Queue(c)
  PROVE  SharesInv'
<1> USE DEF SharesInv
<1>1. PICK m \in 0..MaxJobs : s1 \in [1..m -> ShareJob]
  BY DEF ShareTypes
<1>2. m \in Nat /\ m + 1 \in Nat /\ DOMAIN s1 = 1..m /\ Cardinality(1..m) = m
  BY <1>1, FS_Interval
<1> DEFINE n   == m + 1
           queued == [kind |-> s3[c].kind, state |-> "queued", alone |-> \A k \in Shares!Numbers : ~Shares!Open(k)]
<1>3. Shares!Numbers = 1..m /\ Cardinality(Shares!Numbers) + 1 = n
  BY <1>2 DEF Shares!Numbers
<1>4. /\ s3[c].at = "request" /\ n <= MaxJobs /\ UNCHANGED s2
      /\ s1' = [j \in Shares!Numbers \union {n} |-> IF j \in Shares!Numbers THEN s1[j] ELSE queued]
      /\ \/ s3' = [s3 EXCEPT ![c].at = "poll", ![c].job = n]
         \/ s3' = [s3 EXCEPT ![c].at = "idle", ![c].verdict = "unavailable"]
  <2> DEFINE q == Shares!Cardinality(Shares!Numbers) + 1
  <2>1. /\ s3[c].at = "request" /\ q <= MaxJobs /\ UNCHANGED s2
        /\ s1' = [j \in Shares!Numbers \union {q} |-> IF j \in Shares!Numbers THEN s1[j] ELSE queued]
        /\ s3' \in { [s3 EXCEPT ![c].at = "poll", ![c].job = q],
                      [s3 EXCEPT ![c].at = "idle", ![c].verdict = "unavailable"] }
    BY DEF Shares!Queue
  <2>2. q = n
    BY <1>3, CardinalityIs
  <2> HIDE DEF q, n, queued
  <2> QED
    BY <2>1, <2>2
<1>5. 1..m \union {n} = 1..n /\ n \notin 1..m /\ n \in 0..MaxJobs
  BY <1>2, <1>4, PollingAssumption
<1>6. s3[c] \in Dialog /\ s3[c].kind \in {"share", "revoke"} /\ s3[c].verdict = "none"
  BY <1>4 DEF ShareTypes, DialogsKnow, Dialog
<1>7. queued \in ShareJob
  <2>1. (\A k \in Shares!Numbers : ~Shares!Open(k)) \in BOOLEAN
    OBVIOUS
  <2> QED
    BY <1>6, <2>1, Zenon DEF ShareJob
<1>8. queued.alone => \A k \in 1..m : s1[k].state \notin {"queued", "retryable"}
  <2>1. queued.alone = (\A k \in Shares!Numbers : ~Shares!Open(k))
    BY Zenon
  <2> QED
    BY <1>3, <2>1 DEF Shares!Open
<1>9. queued.state = "queued" /\ queued.kind = s3[c].kind
  BY Zenon
<1> HIDE DEF queued
<1>10. s1' \in [1..n -> ShareJob] /\ s1'[n] = queued /\ \A j \in 1..m : s1'[j] = s1[j]
  BY <1>1, <1>3, <1>4, <1>5, <1>7
<1>11. \E to \in Dialog :
         /\ s3' = [s3 EXCEPT ![c] = to] /\ to.attempt = s3[c].attempt /\ to.failed = s3[c].failed
         /\ to.kind = s3[c].kind
         /\ \/ to.at = "poll" /\ to.job = n /\ to.verdict = "none"
            \/ to.at = "idle" /\ to.verdict = "unavailable"
  <2>1. CASE s3' = [s3 EXCEPT ![c].at = "poll", ![c].job = n]
    <3>1. PICK to \in Dialog : to = [s3[c] EXCEPT !.at = "poll", !.job = n]
      BY <1>2, <1>6 DEF Dialog
    <3> QED
      BY <1>6, <2>1, <3>1 DEF Dialog, ShareTypes
  <2>2. CASE s3' = [s3 EXCEPT ![c].at = "idle", ![c].verdict = "unavailable"]
    <3>1. PICK to \in Dialog : to = [s3[c] EXCEPT !.at = "idle", !.verdict = "unavailable"]
      BY <1>6 DEF Dialog
    <3> QED
      BY <1>6, <2>2, <3>1 DEF Dialog, ShareTypes
  <2> QED
    BY <1>4, <2>1, <2>2
<1>12. ShareTypes'
  BY <1>4, <1>5, <1>10, <1>11 DEF ShareTypes
<1>13. LoneJobsStand'
  <2>1. DOMAIN s1' = 1..n
    BY <1>10
  <2>2. \A j \in 1..m : j + 1 \in 1..n
    BY <1>2
  <2> QED
    BY <1>2, <1>5, <1>8, <1>9, <1>10, <2>1, <2>2 DEF LoneJobsStand
<1>14. DialogsKnow'
  <2>1. DOMAIN s1' = 1..n /\ DOMAIN s1 = 1..m /\ n \in 1..n
    BY <1>2, <1>10
  <2> SUFFICES ASSUME NEW d \in Dialogs
               PROVE  /\ s3'[d].attempt < PollAttempts /\ s3'[d].failed < ErrorsTolerated
                      /\ s3'[d].at = "request" => s3'[d].kind # "none"
                      /\ s3'[d].at # "idle" => s3'[d].verdict = "none"
                      /\ s3'[d].at = "poll" \/ s3'[d].verdict \in {"done", "failed"} =>
                           s3'[d].job \in DOMAIN s1' /\ s1'[s3'[d].job].kind = s3'[d].kind
                      /\ s3'[d].verdict = "done" => s1'[s3'[d].job].state = "completed"
                      /\ s3'[d].verdict = "failed" => s1'[s3'[d].job].state \in {"discarded", "cancelled"}
    BY DEF DialogsKnow
  <2>2. CASE d = c
    BY <1>9, <1>10, <1>11, <2>1, <2>2 DEF DialogsKnow, ShareTypes
  <2>3. CASE d # c
    <3>1. s3'[d] = s3[d]
      BY <1>11, <2>3 DEF ShareTypes
    <3> QED
      BY <1>5, <1>10, <2>1, <3>1 DEF DialogsKnow
  <2> QED
    BY <2>2, <2>3
<1> QED
  BY <1>12, <1>13, <1>14

LEMMA WorkKeeps ==
  ASSUME SharesInv, NEW j \in DOMAIN s1, Shares!Work(j)
  PROVE  SharesInv'
<1> USE DEF SharesInv
<1>1. s1[j].state \in {"queued", "retryable"} /\ UNCHANGED s3
  BY DEF Shares!Work, Shares!Open
<1>2. PICK m \in 0..MaxJobs : s1 \in [1..m -> ShareJob]
  BY DEF ShareTypes
<1>3. PICK state \in {"completed", "retryable", "discarded", "cancelled"} :
        /\ s1' = [s1 EXCEPT ![j] = [s1[j] EXCEPT !.state = state]]
        /\ IF state = "completed" THEN s2' = (s1[j].kind = "share") ELSE s2' = s2
  BY <1>2 DEF Shares!Work
<1>4. PICK turned \in ShareJob : turned = [s1[j] EXCEPT !.state = state]
  BY <1>2 DEF ShareJob
<1>5. turned.state = state /\ turned.kind = s1[j].kind /\ turned.alone = s1[j].alone
  BY <1>2, <1>4 DEF ShareJob
<1>6. s1' \in [1..m -> ShareJob] /\ s1'[j] = turned /\ \A k \in 1..m \ {j} : s1'[k] = s1[k]
  BY <1>2, <1>3, <1>4
<1>7. s2' \in BOOLEAN
  BY <1>3 DEF ShareTypes
<1>8. ShareTypes'
  BY <1>1, <1>6, <1>7 DEF ShareTypes
<1>9. LoneJobsStand'
  <2>1. DOMAIN s1' = 1..m /\ DOMAIN s1 = 1..m
    BY <1>2, <1>6
  <2> SUFFICES ASSUME NEW k \in 1..m, s1'[k].alone, k + 1 \notin 1..m
               PROVE  /\ \A i \in 1..m \ {k} : s1'[i].state \notin {"queued", "retryable"}
                      /\ s1'[k].state = "completed" => s2' = (s1'[k].kind = "share")
    BY <2>1 DEF LoneJobsStand
  <2>2. s1[k].alone
    BY <1>5, <1>6
  <2>3. k = j
    BY <1>1, <2>1, <2>2 DEF LoneJobsStand
  <2>4. \A i \in 1..m \ {k} : s1'[i].state \notin {"queued", "retryable"}
    BY <1>6, <2>1, <2>2, <2>3 DEF LoneJobsStand
  <2> QED
    BY <1>3, <1>5, <1>6, <2>3, <2>4
<1>10. DialogsKnow'
  <2>1. DOMAIN s1' = DOMAIN s1 /\ \A k \in DOMAIN s1 : s1'[k].kind = s1[k].kind
    BY <1>2, <1>5, <1>6
  <2>2. \A k \in DOMAIN s1 : s1[k].state \in {"completed", "discarded", "cancelled"} => s1'[k] = s1[k]
    BY <1>1, <1>2, <1>6
  <2> QED
    BY <1>1, <2>1, <2>2 DEF DialogsKnow
<1> QED
  BY <1>8, <1>9, <1>10

LEMMA SharesStep ==
  ASSUME SharesInv, Shares!Next
  PROVE  SharesInv'
BY AsksKeep, PollsKeep, QueueKeeps, WorkKeeps DEF Shares!Next, Shares!Numbers

LEMMA SharesStand ==
  ASSUME SharesInv
  PROVE  Shares!VerdictsStand
<1> USE DEF SharesInv
<1>1. ASSUME NEW c \in Dialogs, s3[c].verdict = "done"
      PROVE  /\ s1[s3[c].job].state = "completed"
             /\ s1[s3[c].job].alone /\ s3[c].job + 1 \notin DOMAIN s1 => s2 = (s3[c].kind = "share")
  BY <1>1 DEF LoneJobsStand, DialogsKnow
<1>2. ASSUME NEW c \in Dialogs, s3[c].verdict = "failed"
      PROVE  s1[s3[c].job].state \in {"discarded", "cancelled"}
  BY <1>2 DEF DialogsKnow
<1> QED
  BY <1>1, <1>2 DEF Shares!VerdictsStand, Shares!Numbers

LEMMA SharedRest ==
  ASSUME SharesInv, UNCHANGED <<s1, s2, s3>>
  PROVE  SharesInv'
BY DEF SharesInv, ShareTypes, LoneJobsStand, DialogsKnow

-----------------------------------------------------------------------------
(***************************************************************************)
(* Invitations (Invitations). A "no" that is cached or under way was true  *)
(* of the guest that long ago; a "yes" of the inviter was true that long   *)
(* ago, whether it is cached, under way or about to be acted upon.         *)
(* invite s1, rights s2, heard s3, call s4, turn s5, late s6.              *)
(***************************************************************************)
LEMMA InviteSteps ==
  ASSUME subject = "invitations", [SubjectNext]_allVars
  PROVE  Inviting!Next \/ UNCHANGED <<s1, s2, s3, s4, s5, s6>>
BY DEF SubjectNext, OfTenants, OfTokens, OfSecrets, OfGeofences, OfShares, OfInvitations,
       OfPreferences, OfComparisons, OfInputs, OfShapes, OfLists, OfIntervals, allVars, places

Invite == [status : {"none", "pending", "accepted", "revoked"}, link : Nat]
Heard  == [is : BOOLEAN, ok : BOOLEAN, left : 0..AnswerLife]
Asking == [at : {"idle", "authz", "keep", "send"}, op : Inviting!Ops \union {"none"}, link : Nat,
           got : BOOLEAN, age : 0..CallTime]

InviteTypes ==
  /\ s1 \in Invite /\ s2 \in [Inviting!Wallets -> BOOLEAN] /\ s3 \in [Inviting!Wallets -> Heard]
  /\ s4 \in [Calls -> Asking]
  /\ s5 \in [joined : 0..Inviting!Horizon, lost : 0..Inviting!Horizon]
  /\ s6 \in [refused : Nat, used : Nat]

(* Only an opening is decided where it asks; an acceptance never asks. *)
StagesFit == \A r \in Calls :
  /\ s4[r].at \in {"authz", "keep"} => s4[r].op \in Inviting!Ops \ {"accept"}
  /\ s4[r].at = "send" => s4[r].op \in Inviting!Ops \ {"open"}

(* A "no" that is held or under way was true of the guest that long ago. *)
RefusalsAreRecent ==
  /\ ~s2["guest"] => s5.joined = 0
  /\ s3["guest"].left > 0 /\ ~s3["guest"].ok => s5.joined + s3["guest"].left <= AnswerLife + CallTime
  /\ \A r \in Calls : s4[r].at = "keep" /\ s4[r].op = "open" /\ ~s4[r].got => s5.joined <= s4[r].age
  /\ s6.refused <= AnswerLife + CallTime

(* And a "yes" of the inviter, which another call may still act upon. *)
RightsWereRecent ==
  /\ s2["inviter"] => s5.lost = 0
  /\ s3["inviter"].left > 0 /\ s3["inviter"].ok => s5.lost + s3["inviter"].left <= AnswerLife + CallTime
  /\ \A r \in Calls :
       /\ s4[r].at = "keep" /\ s4[r].op # "open" /\ s4[r].got => s5.lost <= s4[r].age
       /\ s4[r].at = "send" /\ s4[r].op # "accept" => s5.lost <= AnswerLife + CallTime + s4[r].age
  /\ s6.used <= AnswerLife + 2 * CallTime

InvitesInv == InviteTypes /\ StagesFit /\ RefusalsAreRecent /\ RightsWereRecent

LEMMA NoCallIs ==
  /\ Inviting!NoCall \in Asking /\ Inviting!NoCall.at = "idle" /\ Inviting!NoHeard \in Heard
  /\ Inviting!NoHeard.left = 0
BY AnswersAssumption DEF Inviting!NoCall, Inviting!NoHeard, Asking, Heard

LEMMA InvitesStart ==
  ASSUME Inviting!Init
  PROVE  InvitesInv
<1>1. Inviting!Horizon \in Nat /\ 0 \in 0..Inviting!Horizon
  BY AnswersAssumption DEF Inviting!Horizon
<1>2. InviteTypes
  BY <1>1, NoCallIs DEF Inviting!Init, InviteTypes, Invite
<1>3. StagesFit
  BY NoCallIs DEF Inviting!Init, StagesFit
<1>4. RefusalsAreRecent /\ RightsWereRecent
  BY NoCallIs, AnswersAssumption DEF Inviting!Init, RefusalsAreRecent, RightsWereRecent, Inviting!Wallets
<1> QED
  BY <1>2, <1>3, <1>4 DEF InvitesInv

(* What a request does with an answer, whether it is kept or was held: an   *)
(* opening ends, any other request ends or goes on with a "yes".            *)
LEMMA DecideMoves ==
  ASSUME NEW r \in Calls, NEW op, NEW link \in Nat, NEW ok, Inviting!Decide(r, op, link, ok),
         op \in Inviting!Ops \ {"accept"}
  PROVE  /\ \E to \in Asking : /\ s4' = [s4 EXCEPT ![r] = to]
                              /\ \/ to.at = "idle"
                                 \/ to.at = "send" /\ to.op = op /\ op # "open" /\ ok /\ to.age = 0
         /\ s6' = s6 \/ (op = "open" /\ ~ok /\ s6' = [s6 EXCEPT !.refused = s5.joined])
<1> DEFINE Moves(to) == \/ to.at = "idle"
                        \/ to.at = "send" /\ to.op = op /\ op # "open" /\ ok /\ to.age = 0
<1>1. ASSUME Inviting!Reply(r)
      PROVE  \E to \in Asking : s4' = [s4 EXCEPT ![r] = to] /\ Moves(to)
  <2>1. s4' = [s4 EXCEPT ![r] = Inviting!NoCall] /\ Moves(Inviting!NoCall)
    BY <1>1, NoCallIs DEF Inviting!Reply
  <2> HIDE DEF Moves
  <2> QED
    BY <2>1, NoCallIs
<1>2. CASE op = "open"
  <2>1. Inviting!Reply(r) /\ s6' = IF ok THEN s6 ELSE [s6 EXCEPT !.refused = s5.joined]
    BY <1>2, Zenon DEF Inviting!Decide
  <2>2. \E to \in Asking : s4' = [s4 EXCEPT ![r] = to] /\ Moves(to)
    BY <1>1, <2>1
  <2> HIDE DEF Moves
  <2>3. s6' = s6 \/ (op = "open" /\ ~ok /\ s6' = [s6 EXCEPT !.refused = s5.joined])
    <3>1. CASE ok
      BY <2>1, <3>1, Zenon
    <3>2. CASE ~ok
      BY <1>2, <2>1, <3>2, Zenon
    <3> QED
      BY <3>1, <3>2
  <2> QED
    BY <2>2, <2>3, Zenon DEF Moves
<1>3. CASE op # "open" /\ ok
  <2>1. PICK to \in Asking : to = [Inviting!NoCall EXCEPT !.at = "send", !.op = op, !.link = link]
    BY NoCallIs DEF Asking
  <2>2. to.at = "send" /\ to.op = op /\ to.age = 0
    BY <2>1 DEF Asking, Inviting!NoCall
  <2>3. s4' = [s4 EXCEPT ![r] = to] /\ s6' = s6
    BY <1>3, <2>1, Zenon DEF Inviting!Decide
  <2>4. Moves(to)
    BY <1>3, <2>2, Zenon
  <2> HIDE DEF Moves
  <2>5. \E w \in Asking : s4' = [s4 EXCEPT ![r] = w] /\ Moves(w)
    BY <2>3, <2>4
  <2>6. s6' = s6 \/ (op = "open" /\ ~ok /\ s6' = [s6 EXCEPT !.refused = s5.joined])
    BY <2>3
  <2> QED
    BY <2>5, <2>6, Zenon DEF Moves
<1>4. CASE op # "open" /\ ~ok
  <2>1. Inviting!Reply(r) /\ s6' = s6
    BY <1>4, Zenon DEF Inviting!Decide
  <2>2. \E to \in Asking : s4' = [s4 EXCEPT ![r] = to] /\ Moves(to)
    BY <1>1, <2>1
  <2> HIDE DEF Moves
  <2>3. s6' = s6 \/ (op = "open" /\ ~ok /\ s6' = [s6 EXCEPT !.refused = s5.joined])
    BY <2>1
  <2> QED
    BY <2>2, <2>3, Zenon DEF Moves
<1> QED
  BY <1>2, <1>3, <1>4, Zenon

LEMMA DecidedFits ==
  ASSUME InvitesInv, NEW r \in Calls, NEW op \in Inviting!Ops, NEW to \in Asking, s4' = [s4 EXCEPT ![r] = to],
         to.at = "idle" \/ (to.at = "send" /\ op # "open" /\ to.op = op /\ to.age = 0 /\ s5.lost <= AnswerLife + CallTime),
         s6' \in [refused : Nat, used : Nat], s6'.used = s6.used, s6'.refused <= AnswerLife + CallTime,
         NEW heard \in [Inviting!Wallets -> Heard], s3' = heard, UNCHANGED <<s1, s2, s5>>,
         heard["guest"].left > 0 /\ ~heard["guest"].ok =>
           s5.joined + heard["guest"].left <= AnswerLife + CallTime,
         heard["inviter"].left > 0 /\ heard["inviter"].ok =>
           s5.lost + heard["inviter"].left <= AnswerLife + CallTime
  PROVE  InvitesInv'
<1> USE DEF InvitesInv
<1>1. InviteTypes'
  BY DEF InviteTypes
<1>2. \A c \in Calls : s4'[c] = IF c = r THEN to ELSE s4[c]
  BY DEF InviteTypes
<1>3. StagesFit'
  BY <1>2 DEF StagesFit
<1>4. RefusalsAreRecent'
  BY <1>2 DEF RefusalsAreRecent
<1>5. \A c \in Calls : s4'[c].at = "keep" => s4'[c] = s4[c]
  BY <1>2
<1>6. s5.lost \in Nat /\ AnswerLife + CallTime \in Nat
  BY AnswersAssumption DEF InviteTypes
<1>7. \A c \in Calls : s4'[c].at = "send" => \/ s4'[c] = s4[c]
                                             \/ s5.lost <= AnswerLife + CallTime + s4'[c].age
  BY <1>2, <1>6
<1>8. RightsWereRecent'
  BY <1>5, <1>7 DEF RightsWereRecent
<1> QED
  BY <1>1, <1>3, <1>4, <1>8

LEMMA DecideKeeps ==
  ASSUME InvitesInv, NEW r \in Calls, NEW op \in Inviting!Ops \ {"accept"}, NEW link \in Nat, NEW ok \in BOOLEAN,
         Inviting!Decide(r, op, link, ok),
         op = "open" /\ ~ok => s5.joined <= AnswerLife + CallTime,
         op # "open" /\ ok => s5.lost <= AnswerLife + CallTime,
         NEW heard \in [Inviting!Wallets -> Heard], s3' = heard, UNCHANGED <<s1, s2, s5>>,
         heard["guest"].left > 0 /\ ~heard["guest"].ok =>
           s5.joined + heard["guest"].left <= AnswerLife + CallTime,
         heard["inviter"].left > 0 /\ heard["inviter"].ok =>
           s5.lost + heard["inviter"].left <= AnswerLife + CallTime
  PROVE  InvitesInv'
<1>1. /\ \E to \in Asking : /\ s4' = [s4 EXCEPT ![r] = to]
                            /\ \/ to.at = "idle"
                               \/ to.at = "send" /\ to.op = op /\ op # "open" /\ ok /\ to.age = 0
      /\ s6' = s6 \/ (op = "open" /\ ~ok /\ s6' = [s6 EXCEPT !.refused = s5.joined])
  BY DecideMoves, Zenon
<1>2. s6' = s6 \/ (s5.joined <= AnswerLife + CallTime /\ s6' = [s6 EXCEPT !.refused = s5.joined])
  BY <1>1, Zenon
<1>3. PICK to \in Asking : /\ s4' = [s4 EXCEPT ![r] = to]
                           /\ \/ to.at = "idle"
                              \/ /\ to.at = "send" /\ op # "open" /\ to.op = op /\ to.age = 0
                                 /\ s5.lost <= AnswerLife + CallTime
  BY <1>1, Zenon
<1>4. s5.joined \in Nat /\ s6 \in [refused : Nat, used : Nat] /\ s6.refused <= AnswerLife + CallTime
  BY DEF InvitesInv, InviteTypes, RefusalsAreRecent
<1>5. /\ s6' \in [refused : Nat, used : Nat] /\ s6'.used = s6.used
      /\ s6'.refused <= AnswerLife + CallTime
  BY <1>2, <1>4
<1>6. op \in Inviting!Ops /\ UNCHANGED <<s1, s2, s5>>
  OBVIOUS
<1> QED
  BY <1>3, <1>5, <1>6, DecidedFits, Zenon

LEMMA InviteBeginKeeps ==
  ASSUME InvitesInv, NEW r \in Calls, NEW op \in Inviting!Ops, NEW link \in Nat, Inviting!Begin(r, op, link)
  PROVE  InvitesInv'
<1> USE DEF InvitesInv
<1>1. ASSUME NEW at \in {"authz", "send"}, at = "authz" => op # "accept", at = "send" => op = "accept",
             s4' = [s4 EXCEPT ![r] = [Inviting!NoCall EXCEPT !.at = at, !.op = op, !.link = link]],
             UNCHANGED <<s1, s2, s3, s5, s6>>
      PROVE  InvitesInv'
  <2>1. PICK to \in Asking : to = [Inviting!NoCall EXCEPT !.at = at, !.op = op, !.link = link]
    BY NoCallIs DEF Asking
  <2>2. to.at = at /\ to.op = op /\ s4' = [s4 EXCEPT ![r] = to]
    BY <1>1, <2>1 DEF Asking, Inviting!NoCall
  <2>3. InviteTypes'
    BY <1>1, <2>2 DEF InviteTypes
  <2>4. StagesFit'
    BY <1>1, <2>2 DEF StagesFit, InviteTypes, Inviting!Ops
  <2>5. RefusalsAreRecent' /\ RightsWereRecent'
    BY <1>1, <2>2 DEF RefusalsAreRecent, RightsWereRecent, InviteTypes
  <2> QED
    BY <2>3, <2>4, <2>5
<1>2. Inviting!Who(op) \in Inviting!Wallets /\ (op = "open" => Inviting!Who(op) = "guest")
      /\ (op # "open" => Inviting!Who(op) = "inviter")
  BY DEF Inviting!Who, Inviting!Wallets
<1>3. CASE op # "accept" /\ s3[Inviting!Who(op)].left > 0
  <2>1. /\ Inviting!Decide(r, op, link, s3[Inviting!Who(op)].ok) /\ UNCHANGED <<s1, s2, s3, s5>>
    BY <1>3 DEF Inviting!Begin
  <2>2. s3[Inviting!Who(op)].ok \in BOOLEAN /\ s3 \in [Inviting!Wallets -> Heard]
    BY <1>2 DEF InviteTypes, Heard
  <2>3. /\ s3[Inviting!Who(op)].left \in Nat /\ s5.joined \in Nat /\ s5.lost \in Nat
        /\ AnswerLife + CallTime \in Nat
    BY <1>2, AnswersAssumption DEF InviteTypes, Heard
  <2>4. /\ op = "open" /\ ~s3[Inviting!Who(op)].ok => s5.joined <= AnswerLife + CallTime
        /\ op # "open" /\ s3[Inviting!Who(op)].ok => s5.lost <= AnswerLife + CallTime
    BY <1>2, <1>3, <2>3 DEF RefusalsAreRecent, RightsWereRecent
  <2> QED
    BY <1>3, <2>1, <2>2, <2>4, DecideKeeps DEF RefusalsAreRecent, RightsWereRecent
<1> QED
  BY <1>1, <1>3 DEF Inviting!Begin

LEMMA AuthzKeeps ==
  ASSUME InvitesInv, NEW r \in Calls, Inviting!Authz(r)
  PROVE  InvitesInv'
<1> USE DEF InvitesInv
<1>1. s4[r] \in Asking /\ s4[r].at = "authz" /\ UNCHANGED <<s1, s2, s3, s5, s6>>
  BY DEF Inviting!Authz, InviteTypes
<1>2. PICK to \in Asking : /\ s4' = [s4 EXCEPT ![r] = to]
                           /\ \/ to.at = "idle"
                              \/ /\ to.at = "keep" /\ to.op = s4[r].op
                                 /\ to.got = s2[Inviting!Who(s4[r].op)]
  <2>1. CASE Inviting!Reply(r)
    BY <2>1, NoCallIs DEF Inviting!Reply
  <2>2. CASE s4' = [s4 EXCEPT ![r].at = "keep", ![r].got = s2[Inviting!Who(s4[r].op)]]
    <3>1. s2[Inviting!Who(s4[r].op)] \in BOOLEAN
      BY DEF InviteTypes, Inviting!Who, Inviting!Wallets
    <3>2. PICK to \in Asking : to = [s4[r] EXCEPT !.at = "keep", !.got = s2[Inviting!Who(s4[r].op)]]
      BY <1>1, <3>1 DEF Asking
    <3>3. s4' = [s4 EXCEPT ![r] = to]
      BY <2>2, <3>2 DEF InviteTypes
    <3>4. to.at = "keep" /\ to.op = s4[r].op /\ to.got = s2[Inviting!Who(s4[r].op)]
      BY <1>1, <3>2 DEF Asking
    <3> QED
      BY <3>3, <3>4
  <2> QED
    BY <2>1, <2>2 DEF Inviting!Authz
<1>3. InviteTypes'
  BY <1>1, <1>2 DEF InviteTypes
<1>4. StagesFit'
  BY <1>1, <1>2 DEF StagesFit, InviteTypes
<1>5. \A c \in Calls : c # r => s4'[c] = s4[c]
  BY <1>2 DEF InviteTypes
<1>6. s4'[r] = to /\ to.age \in Nat
  BY <1>2, AnswersAssumption DEF InviteTypes, Asking
<1>7. RefusalsAreRecent'
  BY <1>1, <1>2, <1>5, <1>6 DEF RefusalsAreRecent, Inviting!Who
<1>8. RightsWereRecent'
  BY <1>1, <1>2, <1>5, <1>6 DEF RightsWereRecent, Inviting!Who
<1> QED
  BY <1>3, <1>4, <1>7, <1>8

LEMMA KeepAnswerKeeps ==
  ASSUME InvitesInv, NEW r \in Calls, Inviting!KeepAnswer(r)
  PROVE  InvitesInv'
<1> USE DEF InvitesInv
<1>1. /\ s4[r] \in Asking /\ s4[r].at = "keep" /\ s4[r].op \in Inviting!Ops \ {"accept"}
      /\ UNCHANGED <<s1, s2, s5>> /\ Inviting!Decide(r, s4[r].op, s4[r].link, s4[r].got)
      /\ s3' = [s3 EXCEPT ![Inviting!Who(s4[r].op)] = Inviting!Keep(s4[r].got)]
  BY DEF Inviting!KeepAnswer, InviteTypes, StagesFit
<1>2. PICK heard \in [Inviting!Wallets -> Heard] :
        /\ heard = [s3 EXCEPT ![Inviting!Who(s4[r].op)] = Inviting!Keep(s4[r].got)]
  <2>1. Inviting!Keep(s4[r].got) \in Heard
    BY <1>1, AnswersAssumption DEF Inviting!Keep, Heard, Asking
  <2> QED
    BY <2>1 DEF InviteTypes
<1>3. Inviting!Keep(s4[r].got).left = AnswerLife /\ Inviting!Keep(s4[r].got).ok = s4[r].got
  BY DEF Inviting!Keep
<1>4. /\ s4[r].age \in Nat /\ s4[r].age <= CallTime /\ s5.joined \in Nat /\ s5.lost \in Nat
      /\ AnswerLife \in Nat /\ CallTime \in Nat /\ s4[r].got \in BOOLEAN /\ s4[r].link \in Nat
  BY <1>1, AnswersAssumption DEF InviteTypes, Asking
<1>5. /\ s4[r].op = "open" /\ ~s4[r].got => s5.joined <= CallTime
      /\ s4[r].op # "open" /\ s4[r].got => s5.lost <= CallTime
  BY <1>1, <1>4 DEF RefusalsAreRecent, RightsWereRecent
<1>6. /\ s4[r].op = "open" /\ ~s4[r].got =>
           s5.joined <= AnswerLife + CallTime /\ s5.joined + AnswerLife <= AnswerLife + CallTime
      /\ s4[r].op # "open" /\ s4[r].got =>
           s5.lost <= AnswerLife + CallTime /\ s5.lost + AnswerLife <= AnswerLife + CallTime
  BY <1>4, <1>5
<1>7. /\ heard["guest"] = IF s4[r].op = "open" THEN Inviting!Keep(s4[r].got) ELSE s3["guest"]
      /\ heard["inviter"] = IF s4[r].op = "open" THEN s3["inviter"] ELSE Inviting!Keep(s4[r].got)
  BY <1>2 DEF InviteTypes, Inviting!Who, Inviting!Wallets
<1>8. heard["guest"].left > 0 /\ ~heard["guest"].ok =>
           s5.joined + heard["guest"].left <= AnswerLife + CallTime
  BY <1>3, <1>6, <1>7 DEF RefusalsAreRecent
<1>9. heard["inviter"].left > 0 /\ heard["inviter"].ok =>
           s5.lost + heard["inviter"].left <= AnswerLife + CallTime
  BY <1>3, <1>6, <1>7 DEF RightsWereRecent
<1>10. s3' = heard /\ s4[r].op \in Inviting!Ops \ {"accept"} /\ s4[r].link \in Nat /\ s4[r].got \in BOOLEAN
  BY <1>1, <1>2, <1>4
<1>11. Inviting!Decide(r, s4[r].op, s4[r].link, s4[r].got) /\ UNCHANGED <<s1, s2, s5>>
  BY <1>1
<1>12. /\ s4[r].op = "open" /\ ~s4[r].got => s5.joined <= AnswerLife + CallTime
       /\ s4[r].op # "open" /\ s4[r].got => s5.lost <= AnswerLife + CallTime
  BY <1>6
<1> HIDE DEF InvitesInv
<1> QED
  BY <1>2, <1>8, <1>9, <1>10, <1>11, <1>12, DecideKeeps

LEMMA SendKeeps ==
  ASSUME InvitesInv, NEW r \in Calls, Inviting!Send(r)
  PROVE  InvitesInv'
<1> USE DEF InvitesInv
<1>1. s4[r] \in Asking /\ s4[r].at = "send" /\ s3' = s3 /\ s4' = [s4 EXCEPT ![r] = Inviting!NoCall]
      /\ s1' = Inviting!Remote(s4[r].op, s4[r].link)
  BY DEF Inviting!Send, Inviting!Reply, InviteTypes
<1>2. PICK joins \in BOOLEAN :
        /\ s2' = [s2 EXCEPT !["guest"] = @ \/ joins]
        /\ s5' = [s5 EXCEPT !.joined = IF joins THEN 0 ELSE @]
  <2> DEFINE joins == s4[r].op = "accept" /\ Inviting!Remote(s4[r].op, s4[r].link) # s1
  <2>1. joins \in BOOLEAN /\ s2' = [s2 EXCEPT !["guest"] = @ \/ joins]
        /\ s5' = [s5 EXCEPT !.joined = IF joins THEN 0 ELSE @]
    BY Zenon DEF Inviting!Send
  <2> HIDE DEF joins
  <2> QED
    BY <2>1
<1>3. s6' = [s6 EXCEPT !.used = IF s4[r].op # "accept" /\ ~s2["inviter"] THEN s5.lost ELSE @]
  BY DEF Inviting!Send
<1>4. s1' \in Invite
  BY <1>1 DEF Inviting!Remote, Inviting!Issued, InviteTypes, Invite
<1>5. s2' \in [Inviting!Wallets -> BOOLEAN] /\ s2'["inviter"] = s2["inviter"]
      /\ (~s2'["guest"] => ~s2["guest"] /\ ~joins)
  BY <1>2 DEF InviteTypes, Inviting!Wallets
<1>6. /\ s5' \in [joined : 0..Inviting!Horizon, lost : 0..Inviting!Horizon]
      /\ s5'.lost = s5.lost /\ s5'.joined = IF joins THEN 0 ELSE s5.joined
  <2>1. 0 \in 0..Inviting!Horizon
    BY AnswersAssumption DEF Inviting!Horizon
  <2> QED
    BY <1>2, <2>1 DEF InviteTypes
<1>7. s6' \in [refused : Nat, used : Nat] /\ s6'.refused = s6.refused /\ s6'.used <= AnswerLife + 2 * CallTime
  <2>1. s5.lost \in Nat /\ s4[r].age \in Nat /\ s4[r].age <= CallTime
    BY <1>1, AnswersAssumption DEF InviteTypes, Asking
  <2>2. s4[r].op # "accept" => s5.lost <= AnswerLife + 2 * CallTime
    BY <1>1, <2>1, AnswersAssumption DEF RightsWereRecent
  <2> QED
    BY <1>3, <2>1, <2>2 DEF InviteTypes, RightsWereRecent
<1>8. InviteTypes'
  BY <1>1, <1>4, <1>5, <1>6, <1>7, NoCallIs DEF InviteTypes
<1>9. \A c \in Calls : s4'[c] = IF c = r THEN Inviting!NoCall ELSE s4[c]
  BY <1>1 DEF InviteTypes
<1>10. StagesFit'
  BY <1>9, NoCallIs DEF StagesFit
<1>11. RefusalsAreRecent'
  <2>1. s5'.joined \in Nat /\ s5.joined \in Nat /\ s5'.joined <= s5.joined
    BY <1>6 DEF InviteTypes
  <2>2. s3["guest"].left \in Nat /\ \A c \in Calls : s4[c].age \in Nat
    BY AnswersAssumption DEF InviteTypes, Heard, Asking, Inviting!Wallets
  <2>3. \A c \in Calls : s4'[c].at = "keep" => s4'[c] = s4[c]
    BY <1>9, NoCallIs
  <2>4. ~s2'["guest"] => s5'.joined = 0
    BY <1>5, <1>6 DEF RefusalsAreRecent
  <2>5. s3["guest"].left > 0 /\ ~s3["guest"].ok => s5'.joined + s3["guest"].left <= AnswerLife + CallTime
    BY <2>1, <2>2, AnswersAssumption DEF RefusalsAreRecent
  <2>6. \A c \in Calls : s4'[c].at = "keep" /\ s4'[c].op = "open" /\ ~s4'[c].got => s5'.joined <= s4'[c].age
    BY <2>1, <2>2, <2>3 DEF RefusalsAreRecent
  <2> QED
    BY <1>1, <1>7, <2>4, <2>5, <2>6 DEF RefusalsAreRecent
<1>12. RightsWereRecent'
  <2>1. \A c \in Calls : s4'[c].at \in {"keep", "send"} => s4'[c] = s4[c]
    BY <1>9, NoCallIs
  <2> QED
    BY <1>1, <1>5, <1>6, <1>7, <2>1 DEF RightsWereRecent
<1> QED
  BY <1>8, <1>10, <1>11, <1>12

LEMMA InviteTickKeeps ==
  ASSUME InvitesInv, Inviting!Tick
  PROVE  InvitesInv'
<1> USE DEF InvitesInv
<1>1. AnswerLife \in Nat /\ CallTime \in Nat /\ Inviting!Horizon \in Nat
  BY AnswersAssumption DEF Inviting!Horizon
<1>2. UNCHANGED <<s1, s2, s6>>
  BY DEF Inviting!Tick
<1>3. /\ s5' \in [joined : 0..Inviting!Horizon, lost : 0..Inviting!Horizon]
      /\ s5.joined \in Nat /\ s5.lost \in Nat
      /\ s5'.joined <= s5.joined + 1 /\ s5'.lost <= s5.lost + 1
      /\ (~s2["guest"] => s5'.joined = s5.joined) /\ (s2["inviter"] => s5'.lost = s5.lost)
  BY <1>1 DEF Inviting!Tick, InviteTypes
<1>4. ASSUME NEW w \in Inviting!Wallets
      PROVE  /\ s3'[w] \in Heard /\ s3[w].left \in Nat /\ s3'[w].left \in Nat
             /\ s3'[w].left > 0 => s3'[w].left + 1 = s3[w].left /\ s3'[w].ok = s3[w].ok
  <2>1. s3[w] \in Heard /\ s3[w].left \in 0..AnswerLife
    BY DEF InviteTypes, Heard
  <2>2. CASE s3[w].left > 1
    <3>1. s3'[w] = [s3[w] EXCEPT !.left = @ - 1]
      BY <2>2 DEF Inviting!Tick
    <3>2. s3[w].left - 1 \in 0..AnswerLife
      BY <1>1, <2>1, <2>2
    <3>3. s3'[w] \in Heard /\ s3'[w].left = s3[w].left - 1 /\ s3'[w].ok = s3[w].ok
      BY <2>1, <3>1, <3>2 DEF Heard
    <3> QED
      BY <1>1, <2>1, <3>2, <3>3
  <2>3. CASE ~(s3[w].left > 1)
    BY <1>1, <2>1, <2>3, NoCallIs DEF Inviting!Tick
  <2> QED
    BY <2>2, <2>3
<1>5. ASSUME NEW c \in Calls
      PROVE  /\ s4'[c] \in Asking /\ s4[c].age \in Nat /\ s4'[c].at = s4[c].at /\ s4'[c].op = s4[c].op
             /\ s4'[c].got = s4[c].got
             /\ s4[c].at # "idle" => s4'[c].age = s4[c].age + 1
  <2>1. s4[c] \in Asking /\ s4[c].age \in 0..CallTime
    BY DEF InviteTypes, Asking
  <2>2. CASE s4[c].at = "idle"
    BY <1>1, <2>1, <2>2 DEF Inviting!Tick
  <2>3. CASE s4[c].at # "idle"
    <3>1. s4'[c] = [s4[c] EXCEPT !.age = @ + 1] /\ s4[c].age < CallTime
      BY <2>3 DEF Inviting!Tick
    <3>2. s4[c].age + 1 \in 0..CallTime
      BY <1>1, <2>1, <3>1
    <3> QED
      BY <1>1, <2>1, <3>1, <3>2 DEF Asking
  <2> QED
    BY <2>2, <2>3
<1>6. InviteTypes'
  <2>1. s3' \in [Inviting!Wallets -> Heard] /\ s4' \in [Calls -> Asking]
    BY <1>4, <1>5 DEF Inviting!Tick
  <2> QED
    BY <1>2, <1>3, <2>1 DEF InviteTypes
<1>7. StagesFit'
  BY <1>5 DEF StagesFit
<1>8. s5'.joined \in Nat /\ s5'.lost \in Nat /\ "guest" \in Inviting!Wallets /\ "inviter" \in Inviting!Wallets
  BY <1>1, <1>3 DEF Inviting!Wallets
<1>9. RefusalsAreRecent'
  <2>1. s3'["guest"].left > 0 /\ ~s3'["guest"].ok => s5'.joined + s3'["guest"].left <= AnswerLife + CallTime
    BY <1>1, <1>3, <1>4, <1>8 DEF RefusalsAreRecent
  <2>2. \A c \in Calls : s4'[c].at = "keep" /\ s4'[c].op = "open" /\ ~s4'[c].got => s5'.joined <= s4'[c].age
    BY <1>3, <1>5, <1>8 DEF RefusalsAreRecent
  <2> QED
    BY <1>2, <1>3, <2>1, <2>2 DEF RefusalsAreRecent
<1>10. RightsWereRecent'
  <2>1. s3'["inviter"].left > 0 /\ s3'["inviter"].ok => s5'.lost + s3'["inviter"].left <= AnswerLife + CallTime
    BY <1>1, <1>3, <1>4, <1>8 DEF RightsWereRecent
  <2>2. ASSUME NEW c \in Calls
        PROVE  /\ s4'[c].at = "keep" /\ s4'[c].op # "open" /\ s4'[c].got => s5'.lost <= s4'[c].age
               /\ s4'[c].at = "send" /\ s4'[c].op # "accept" => s5'.lost <= AnswerLife + CallTime + s4'[c].age
    BY <1>1, <1>3, <1>5, <1>8 DEF RightsWereRecent
  <2> QED
    BY <1>2, <1>3, <2>1, <2>2 DEF RightsWereRecent
<1> QED
  BY <1>6, <1>7, <1>9, <1>10

LEMMA InvitesStep ==
  ASSUME InvitesInv, Inviting!Next
  PROVE  InvitesInv'
<1> USE DEF InvitesInv
<1>1. CASE Inviting!LoseRights
  <2>1. /\ s2' = [s2 EXCEPT !["inviter"] = FALSE] /\ s5' = [s5 EXCEPT !.lost = 0] /\ UNCHANGED <<s1, s3, s4, s6>>
        /\ s2["inviter"]
    BY <1>1 DEF Inviting!LoseRights
  <2>2. 0 \in 0..Inviting!Horizon
    BY AnswersAssumption DEF Inviting!Horizon
  <2>3. s5' \in [joined : 0..Inviting!Horizon, lost : 0..Inviting!Horizon]
        /\ s5'.lost = 0 /\ s5'.joined = s5.joined /\ s5.lost = 0
    BY <2>1, <2>2 DEF InviteTypes, RightsWereRecent
  <2>4. InviteTypes'
    BY <2>1, <2>3 DEF InviteTypes
  <2>5. s2'["guest"] = s2["guest"] /\ ~s2'["inviter"]
    BY <2>1 DEF InviteTypes, Inviting!Wallets
  <2> QED
    BY <2>1, <2>3, <2>4, <2>5 DEF StagesFit, RefusalsAreRecent, RightsWereRecent
<1>2. \A link \in 0..s1.link : link \in Nat
  BY DEF InviteTypes, Invite
<1> QED
  BY <1>1, <1>2, InviteBeginKeeps, AuthzKeeps, KeepAnswerKeeps, SendKeeps, InviteTickKeeps DEF Inviting!Next

LEMMA InvitesFollow ==
  ASSUME InvitesInv
  PROVE  Inviting!AccessFollowsMembership
BY DEF InvitesInv, RefusalsAreRecent, RightsWereRecent, Inviting!AccessFollowsMembership

LEMMA InvitesRest ==
  ASSUME InvitesInv, UNCHANGED <<s1, s2, s3, s4, s5, s6>>
  PROVE  InvitesInv'
BY DEF InvitesInv, InviteTypes, StagesFit, RefusalsAreRecent, RightsWereRecent

-----------------------------------------------------------------------------
(***************************************************************************)
(* Preferences (Preferences). While nothing overlaps there is one request  *)
(* at a time, what it carries has every latest choice, and when none is    *)
(* under way the server has them.                                          *)
(* local s1, stored s2, session s3, puts s4, chosen s5, fresh s6, astray   *)
(* s7, made s8, begun s9.                                                  *)
(***************************************************************************)
LEMMA PreferSteps ==
  ASSUME subject = "preferences", [SubjectNext]_allVars
  PROVE  Preferring!Next \/ UNCHANGED <<s1, s2, s3, s4, s5, s6, s7, s8, s9>>
BY DEF SubjectNext, OfTenants, OfTokens, OfSecrets, OfGeofences, OfShares, OfInvitations,
       OfPreferences, OfComparisons, OfInputs, OfShapes, OfLists, OfIntervals, allVars, places

Choices == [Keys -> Nat]
Session == [at : {"out", "asking", "answered", "in"}, got : Choices]

PreferTypes ==
  /\ s1 \in [Browsers -> Choices] /\ s2 \in Choices /\ s3 \in [Browsers -> Session]
  /\ s4 \subseteq [from : Browsers, prefs : Choices] /\ s5 \in Choices
  /\ s6 \subseteq Browsers /\ s8 \in Nat
  /\ \A b \in s6 : s3[b].at = "in"

Asks(b) == s3[b].at \in {"asking", "answered"}

(* One request at a time; what it carries has every latest choice.         *)
OneRequest ==
  /\ \A p, q \in s4 : p = q
  /\ \A b \in Browsers : Asks(b) => s4 = {}
  /\ \A b, c \in Browsers : Asks(b) /\ Asks(c) => b = c
  /\ \A b \in Browsers : s3[b].at = "answered" => s3[b].got = s2

HasChosen(prefs) == \A k \in Keys : s5[k] # 0 => prefs[k] = s5[k]

NoneIsLost ==
  /\ s4 = {} => HasChosen(s2) /\ \A b \in s6 : s1[b] = s2
  /\ \A p \in s4 : HasChosen(p.prefs) /\ (p.from \in s6 => s1[p.from] = p.prefs)

PreferInv == PreferTypes /\ (~s7 => OneRequest /\ NoneIsLost)

LEMMA PreferStart ==
  ASSUME Preferring!Init
  PROVE  PreferInv
<1>1. Preferring!Nothing \in Choices /\ \A k \in Keys : Preferring!Nothing[k] = 0
  BY DEF Preferring!Nothing, Choices
<1>2. Preferring!Out \in Session /\ Preferring!Out.at = "out"
  BY <1>1 DEF Preferring!Out, Session
<1>3. PreferTypes
  BY <1>1, <1>2 DEF Preferring!Init, PreferTypes
<1>4. OneRequest /\ NoneIsLost
  BY <1>1, <1>2 DEF Preferring!Init, OneRequest, NoneIsLost, HasChosen, Asks
<1> QED
  BY <1>3, <1>4 DEF PreferInv

(* Nothing under way is what Busy says. *)
LEMMA NotBusyIs == ~Preferring!Busy <=> (s4 = {} /\ \A b \in Browsers : ~Asks(b))
BY DEF Preferring!Busy, Asks

LEMMA ChooseKeeps ==
  ASSUME PreferInv, NEW b \in Browsers, NEW k \in Keys, Preferring!Choose(b, k)
  PROVE  PreferInv'
<1> DEFINE chose == [s1[b] EXCEPT ![k] = s8 + 1]
<1>1. PreferTypes /\ s1[b] \in Choices /\ s8 + 1 \in Nat /\ s8 + 1 # 0
  BY DEF PreferInv, PreferTypes
<1>2. chose \in Choices /\ chose[k] = s8 + 1 /\ \A i \in Keys \ {k} : chose[i] = s1[b][i]
  BY <1>1 DEF Choices
<1>3. s1' = [s1 EXCEPT ![b] = chose] /\ UNCHANGED <<s2, s3, s6, s9>> /\ s8' = s8 + 1
  BY <1>1 DEF Preferring!Choose, PreferTypes
<1> HIDE DEF chose
<1>4. s1' \in [Browsers -> Choices] /\ s1'[b] = chose /\ \A c \in Browsers \ {b} : s1'[c] = s1[c]
  BY <1>1, <1>2, <1>3 DEF PreferTypes
<1>5. CASE s3[b].at = "out"
  <2>1. UNCHANGED <<s4, s5, s7>> /\ b \notin s6
    BY <1>1, <1>5 DEF Preferring!Choose, PreferTypes
  <2>2. PreferTypes'
    BY <1>1, <1>3, <1>4, <2>1 DEF PreferTypes
  <2>3. OneRequest => OneRequest'
    BY <1>3, <2>1 DEF OneRequest, Asks
  <2>4. NoneIsLost => NoneIsLost'
    BY <1>1, <1>3, <1>4, <2>1 DEF NoneIsLost, HasChosen, PreferTypes
  <2> QED
    BY <2>1, <2>2, <2>3, <2>4 DEF PreferInv
<1>6. CASE s3[b].at # "out"
  <2>1. /\ s4' = s4 \union {[from |-> b, prefs |-> s1'[b]]}
        /\ s5' = [s5 EXCEPT ![k] = s8 + 1]
    BY <1>6 DEF Preferring!Choose, Preferring!pushToServer
  <2>2. s7' = (s7 \/ Preferring!Busy \/ b \notin s6)
    BY <1>6, Zenon DEF Preferring!Choose
  <2>3. PreferTypes'
    BY <1>1, <1>2, <1>3, <1>4, <2>1 DEF PreferTypes, Choices
  <2>4. ASSUME ~s7'
        PROVE  OneRequest' /\ NoneIsLost'
    <3>1. ~s7 /\ s4 = {} /\ b \in s6 /\ \A c \in Browsers : ~Asks(c)
      BY <2>2, <2>4, NotBusyIs, Zenon
    <3>2. OneRequest /\ HasChosen(s2) /\ s1[b] = s2
      BY <3>1 DEF PreferInv, NoneIsLost
    <3>3. s4' = {[from |-> b, prefs |-> chose]}
      BY <1>4, <2>1, <3>1
    <3>4. OneRequest'
      BY <1>3, <3>1, <3>3 DEF OneRequest, Asks
    <3>5. \A i \in Keys : s5'[i] # 0 => chose[i] = s5'[i]
      BY <1>1, <1>2, <2>1, <3>2 DEF HasChosen, PreferTypes, Choices
    <3>6. s4' # {} /\ \A p \in s4' : p.from = b /\ p.prefs = chose
      BY <3>3
    <3>7. NoneIsLost'
      BY <1>4, <3>5, <3>6 DEF NoneIsLost, HasChosen
    <3> QED
      BY <3>4, <3>7
  <2> QED
    BY <2>3, <2>4 DEF PreferInv
<1> QED
  BY <1>5, <1>6

LEMMA SignInKeeps ==
  ASSUME PreferInv, NEW b \in Browsers, Preferring!SignIn(b)
  PROVE  PreferInv'
<1>1. /\ s3[b].at = "out" /\ s3' = [s3 EXCEPT ![b].at = "asking"] /\ UNCHANGED <<s1, s2, s4, s5, s6, s8>>
  BY DEF Preferring!SignIn
<1>2. s7' = (s7 \/ Preferring!Busy)
  BY Zenon DEF Preferring!SignIn
<1>3. /\ s3' \in [Browsers -> Session] /\ s3'[b].at = "asking"
      /\ \A c \in Browsers \ {b} : s3'[c] = s3[c]
  BY <1>1 DEF PreferInv, PreferTypes, Session
<1>4. PreferTypes'
  BY <1>1, <1>3 DEF PreferInv, PreferTypes
<1>5. ASSUME ~s7'
      PROVE  OneRequest' /\ NoneIsLost'
  <2>1. ~s7 /\ s4 = {} /\ \A c \in Browsers : ~Asks(c)
    BY <1>2, <1>5, NotBusyIs, Zenon
  <2>2. OneRequest'
    BY <1>1, <1>3, <2>1 DEF PreferInv, OneRequest, Asks
  <2>3. NoneIsLost'
    BY <1>1, <2>1 DEF PreferInv, NoneIsLost, HasChosen
  <2> QED
    BY <2>2, <2>3
<1> QED
  BY <1>4, <1>5 DEF PreferInv

LEMMA SignOutKeeps ==
  ASSUME PreferInv, NEW b \in Browsers, Preferring!SignOut(b)
  PROVE  PreferInv'
<1>1. /\ s3' = [s3 EXCEPT ![b] = Preferring!Out] /\ s6' = s6 \ {b} /\ UNCHANGED <<s1, s2, s4, s5, s7, s8>>
  BY DEF Preferring!SignOut
<1>2. Preferring!Out \in Session /\ Preferring!Out.at = "out"
  BY DEF Preferring!Out, Preferring!Nothing, Session, Choices
<1>3. s3' \in [Browsers -> Session] /\ s3'[b].at = "out" /\ \A c \in Browsers \ {b} : s3'[c] = s3[c]
  BY <1>1, <1>2 DEF PreferInv, PreferTypes
<1>4. PreferTypes'
  BY <1>1, <1>3 DEF PreferInv, PreferTypes
<1>5. OneRequest => OneRequest'
  BY <1>1, <1>3 DEF OneRequest, Asks
<1>6. NoneIsLost => NoneIsLost'
  BY <1>1 DEF NoneIsLost, HasChosen
<1> QED
  BY <1>1, <1>4, <1>5, <1>6 DEF PreferInv

LEMMA GetKeeps ==
  ASSUME PreferInv, NEW b \in Browsers, Preferring!GetPreferences(b)
  PROVE  PreferInv'
<1>1. s3[b].at = "asking" /\ UNCHANGED <<s1, s2, s4, s5, s6, s7, s8>>
  BY DEF Preferring!GetPreferences
<1>2. PICK to \in Session : /\ s3' = [s3 EXCEPT ![b] = to]
                            /\ to.at = "in" \/ (to.at = "answered" /\ to.got = s2)
  <2>1. CASE s3' = [s3 EXCEPT ![b] = [at |-> "answered", got |-> s2]]
    <3>1. PICK to \in Session : to = [at |-> "answered", got |-> s2]
      BY DEF PreferInv, PreferTypes, Session
    <3> QED
      BY <2>1, <3>1
  <2>2. CASE s3' = [s3 EXCEPT ![b].at = "in"]
    <3>1. PICK to \in Session : to = [s3[b] EXCEPT !.at = "in"]
      BY DEF PreferInv, PreferTypes, Session
    <3>2. to.at = "in"
      BY <3>1 DEF PreferInv, PreferTypes, Session
    <3> QED
      BY <2>2, <3>1, <3>2
  <2> QED
    BY <2>1, <2>2 DEF Preferring!GetPreferences, Preferring!FindUserPreference
<1>3. s3' \in [Browsers -> Session] /\ s3'[b] = to /\ \A c \in Browsers \ {b} : s3'[c] = s3[c]
  BY <1>2 DEF PreferInv, PreferTypes
<1>4. PreferTypes'
  BY <1>1, <1>3 DEF PreferInv, PreferTypes
<1>5. OneRequest => OneRequest'
  BY <1>1, <1>2, <1>3 DEF OneRequest, Asks
<1>6. NoneIsLost => NoneIsLost'
  BY <1>1 DEF NoneIsLost, HasChosen
<1> QED
  BY <1>1, <1>4, <1>5, <1>6 DEF PreferInv

LEMMA HydrateKeeps ==
  ASSUME PreferInv, NEW b \in Browsers, Preferring!hydrateFromServer(b)
  PROVE  PreferInv'
<1> DEFINE server == s3[b].got
           merged == Preferring!Merged(b, server)
<1>1. /\ s3[b].at = "answered" /\ s1' = [s1 EXCEPT ![b] = merged] /\ s6' = s6 \union {b}
      /\ s3' = [s3 EXCEPT ![b] = [at |-> "in", got |-> Preferring!Nothing]] /\ UNCHANGED <<s2, s5, s7, s8>>
      /\ IF \E k \in Keys : merged[k] # server[k] THEN s4' = s4 \union {[from |-> b, prefs |-> merged]} ELSE s4' = s4
  BY DEF Preferring!hydrateFromServer, Preferring!pushToServer
<1>2. PreferTypes /\ server \in Choices
  BY DEF PreferInv, PreferTypes, Session
<1>3. merged \in Choices /\ \A k \in Keys : server[k] # 0 => merged[k] = server[k]
  BY <1>2 DEF Preferring!Merged, PreferTypes, Choices
<1> HIDE DEF merged, server
<1>4. s1' \in [Browsers -> Choices] /\ s1'[b] = merged /\ \A c \in Browsers \ {b} : s1'[c] = s1[c]
  BY <1>1, <1>2, <1>3 DEF PreferTypes
<1>5. s3' \in [Browsers -> Session] /\ s3'[b].at = "in" /\ \A c \in Browsers \ {b} : s3'[c] = s3[c]
  BY <1>1, <1>2 DEF PreferTypes, Session, Preferring!Nothing, Choices
<1>6. PreferTypes'
  BY <1>1, <1>2, <1>3, <1>4, <1>5 DEF PreferTypes
<1>7. ASSUME ~s7
      PROVE  OneRequest' /\ NoneIsLost'
  <2>1. s4 = {} /\ server = s2 /\ \A c \in Browsers \ {b} : ~Asks(c)
    BY <1>1, <1>7 DEF PreferInv, OneRequest, Asks, server
  <2>2. HasChosen(s2) /\ \A c \in s6 : s1[c] = s2
    BY <1>7, <2>1 DEF PreferInv, NoneIsLost
  <2>3. b \notin s6
    BY <1>1, <1>2 DEF PreferTypes
  <2>4. \A k \in Keys : s5'[k] # 0 => merged[k] = s5'[k]
    BY <1>1, <1>3, <2>1, <2>2 DEF HasChosen
  <2>5. OneRequest'
    BY <1>1, <1>5, <2>1 DEF OneRequest, Asks
  <2>6. CASE \E k \in Keys : merged[k] # server[k]
    <3>1. s4' = {[from |-> b, prefs |-> merged]}
      BY <1>1, <2>1, <2>6
    <3>2. s4' # {} /\ \A p \in s4' : p.from = b /\ p.prefs = merged
      BY <3>1
    <3>3. NoneIsLost'
      BY <1>4, <2>4, <3>2 DEF NoneIsLost, HasChosen
    <3> QED
      BY <2>5, <3>3
  <2>7. CASE ~\E k \in Keys : merged[k] # server[k]
    <3>1. merged = s2 /\ s4' = {}
      BY <1>1, <1>2, <1>3, <2>1, <2>7 DEF Choices
    <3>2. \A c \in s6' : s1'[c] = s2
      BY <1>1, <1>2, <1>4, <2>2, <2>3, <3>1 DEF PreferTypes
    <3> QED
      BY <1>1, <2>4, <2>5, <3>1, <3>2 DEF NoneIsLost, HasChosen
  <2> QED
    BY <2>6, <2>7
<1> QED
  BY <1>1, <1>6, <1>7 DEF PreferInv

LEMMA PutKeeps ==
  ASSUME PreferInv, NEW p \in s4, Preferring!PutPreferences(p)
  PROVE  PreferInv'
<1>1. s4' = s4 \ {p} /\ UNCHANGED <<s1, s3, s5, s8>>
  BY DEF Preferring!PutPreferences
<1>2. CASE s2' = p.prefs /\ s6' = s6 \intersect {p.from} /\ s7' = s7
  <2>1. PreferTypes'
    BY <1>1, <1>2 DEF PreferInv, PreferTypes
  <2>2. ASSUME ~s7
        PROVE  OneRequest' /\ NoneIsLost'
    <3>1. OneRequest /\ NoneIsLost /\ s4' = {} /\ \A b \in Browsers : ~Asks(b)
      BY <1>1, <2>2 DEF PreferInv, OneRequest
    <3>2. OneRequest'
      BY <1>1, <3>1 DEF OneRequest, Asks
    <3>3. NoneIsLost'
      BY <1>1, <1>2, <3>1 DEF NoneIsLost, HasChosen
    <3> QED
      BY <3>2, <3>3
  <2> QED
    BY <1>2, <2>1, <2>2 DEF PreferInv
<1>3. CASE s2' = s2 /\ s6' = s6 /\ s7' = TRUE
  BY <1>1, <1>3 DEF PreferInv, PreferTypes
<1> QED
  BY <1>2, <1>3 DEF Preferring!PutPreferences, Preferring!Upsert

LEMMA PreferStep ==
  ASSUME PreferInv, Preferring!Next
  PROVE  PreferInv'
BY ChooseKeeps, SignInKeeps, SignOutKeeps, GetKeeps, HydrateKeeps, PutKeeps DEF Preferring!Next

LEMMA LatestShows ==
  ASSUME PreferInv
  PROVE  Preferring!LatestChoiceShows
<1>1. ASSUME ~s7, ~Preferring!Busy
      PROVE  HasChosen(s2) /\ \A b \in s6 : s1[b] = s2
  BY <1>1, NotBusyIs DEF PreferInv, NoneIsLost
<1> QED
  BY <1>1 DEF Preferring!LatestChoiceShows, HasChosen

LEMMA PreferencesRest ==
  ASSUME PreferInv, UNCHANGED <<s1, s2, s3, s4, s5, s6, s7, s8, s9>>
  PROVE  PreferInv'
BY DEF PreferInv, PreferTypes, OneRequest, NoneIsLost, Asks, HasChosen

-----------------------------------------------------------------------------
(***************************************************************************)
(* The lists that browsers keep (FleetCache). A page and the loads it      *)
(* asked for are of the fleet of the address bar, unless a load crossed a  *)
(* switch; what is kept has what this browser had acknowledged, unless a   *)
(* load raced it.                                                          *)
(* world s1, address s2, memory s3, disk s4, noted s5, page s6, load s7,   *)
(* asked s8, past s9, begun s10, turns s11.                                *)
(***************************************************************************)
LEMMA ListSteps ==
  ASSUME subject = "lists", [SubjectNext]_allVars
  PROVE  Listed!Next \/ UNCHANGED <<s1, s2, s3, s4, s5, s6, s7, s8, s9, s10, s11>>
BY DEF SubjectNext, OfTenants, OfTokens, OfSecrets, OfGeofences, OfShares, OfInvitations,
       OfPreferences, OfComparisons, OfInputs, OfShapes, OfLists, OfIntervals, allVars, places

KeptList == [fleet : Fleets, version : Nat, enforced : {"on", "off"}, heard : BOOLEAN]
ListPage == [up : BOOLEAN, fleet : Fleets \union {"none"}, loading : BOOLEAN, error : BOOLEAN,
             latest : SUBSET Loads, shown : SUBSET Fleets]
ListLoad == [at : {"idle", "disk", "vehicles", "positions"}, page : Pages \union {"none"},
             fleet : Fleets \union {"none"}, force : BOOLEAN, list : SUBSET KeptList]
ListPast == [mine : [Fleets -> Nat], raced : BOOLEAN, crossed : BOOLEAN]

Runs(l)    == s7[l].at # "idle"
AsksFor(v) == \E l \in Loads : s7[l].page = v /\ s7[l].at \in {"disk", "vehicles"}

PageTypes ==
  /\ s6 \in [Pages -> ListPage] /\ s7 \in [Loads -> ListLoad]
  /\ \A l \in Loads : Runs(l) => s7[l].page \in Pages /\ s7[l].fleet \in Fleets
  /\ \A v, w \in Pages : s6[v].up /\ s6[w].up => v = w

ListTypes ==
  /\ s1 \in [Fleets -> [version : Nat, enforced : {"on", "off"}]] /\ s2 \in Fleets
  /\ \A m \in s3 : m.list \in KeptList
  /\ s4 \in [Fleets -> SUBSET Fleets] /\ s5 \in [Fleets -> {"none", "on", "off"}]
  /\ s9 \in ListPast /\ s11 \in Nat

(* What was acknowledged, and what was asked, the server has.               *)
ListFresh ==
  /\ \A f \in Fleets : s9.mine[f] <= s1[f].version /\ s1[f].version <= s11
  /\ \A a \in s8 : a.what = "favourite" =>
       a.fleet \in Fleets /\ a.version \in Nat /\ a.version <= s1[a.fleet].version
  /\ \A a \in s8 : a.what = "access" => a.enforced \in {"on", "off"}

OwnKept ==
  /\ \A m \in s3 : m.list.fleet = m.fleet
  /\ \A f \in Fleets : s4[f] \subseteq {f}

(* A page that is not asking shows what it asked for, of the fleet of the   *)
(* address bar, of which is every load, too.                                *)
OwnPages ==
  /\ \A v \in Pages : s6[v].up => s6[v].fleet = s2
  /\ \A l \in Loads : Runs(l) =>
       s7[l].fleet = s2 /\ s6[s7[l].page].fleet = s2 /\ \A k \in s7[l].list : k.fleet = s2
  /\ \A v \in Pages : s6[v].up /\ ~AsksFor(v) =>
       ~s6[v].loading /\ (s6[v].error \/ s6[v].shown \subseteq {s6[v].fleet})

HasMine(k)  == k.version >= s9.mine[k.fleet]
IsOfState(k) == k.heard /\ s5[k.fleet] # "none" => k.enforced = s5[k.fleet]

ListVersions ==
  /\ \A m \in s3 : HasMine(m.list)
  /\ \A l \in Loads : Runs(l) => \A k \in s7[l].list : HasMine(k)

ListStates ==
  /\ \A m \in s3 : IsOfState(m.list)
  /\ \A l \in Loads : Runs(l) => \A k \in s7[l].list : IsOfState(k)

ListInv ==
  /\ PageTypes /\ ListTypes /\ ListFresh
  /\ ~s9.crossed => OwnKept /\ OwnPages
  /\ ~s9.raced => ListVersions /\ ListStates

LEMMA ListsStart ==
  ASSUME Listed!Init
  PROVE  ListInv
<1>1. Listed!Away \in ListPage /\ ~Listed!Away.up
  BY DEF Listed!Away, ListPage
<1>2. Listed!Idle \in ListLoad /\ Listed!Idle.at = "idle"
  BY DEF Listed!Idle, ListLoad
<1>3. PageTypes
  BY <1>1, <1>2 DEF Listed!Init, PageTypes, Runs
<1>4. ListTypes
  BY DEF Listed!Init, ListTypes, ListPast
<1>5. ListFresh
  BY DEF Listed!Init, ListFresh
<1>6. OwnKept /\ OwnPages
  BY <1>1, <1>2 DEF Listed!Init, OwnKept, OwnPages, Runs
<1>7. ListVersions /\ ListStates
  BY <1>2 DEF Listed!Init, ListVersions, ListStates, Runs
<1> QED
  BY <1>3, <1>4, <1>5, <1>6, <1>7 DEF ListInv

(* A step that sets one page and, at most, one load.                        *)
LEMMA PagesMove ==
  ASSUME PageTypes, NEW v \in Pages, NEW p \in ListPage, NEW l,
         s6' = [s6 EXCEPT ![v] = p],
         s7' \in [Loads -> ListLoad], \A k \in Loads \ {l} : s7'[k] = s7[k],
         l \in Loads /\ s7'[l].at # "idle" => s7'[l].page = v /\ s7'[l].fleet \in Fleets,
         p.up => \A w \in Pages : s6[w].up => w = v
  PROVE  PageTypes'
<1>1. s6' \in [Pages -> ListPage] /\ s6'[v] = p /\ \A w \in Pages \ {v} : s6'[w] = s6[w]
  BY DEF PageTypes
<1>2. \A k \in Loads : Runs(k)' => s7'[k].page \in Pages /\ s7'[k].fleet \in Fleets
  BY DEF PageTypes, Runs
<1>3. \A w, x \in Pages : s6'[w].up /\ s6'[x].up => w = x
  BY <1>1 DEF PageTypes
<1> QED
  BY <1>1, <1>2, <1>3 DEF PageTypes

(* What such a step has to see to: the page is of the fleet of the address  *)
(* bar, and so is the load, which is of this page; and if the page asks for *)
(* nothing any more it shows what it asked for.                             *)
SeesTo(v, p, l) ==
  /\ s6' = [s6 EXCEPT ![v] = p]
  /\ \A k \in Loads \ {l} : s7'[k] = s7[k]
  /\ s2' = s2 \/ ((\A k \in Loads : ~Runs(k)) /\ (\A w \in Pages : s6[w].up => w = v))
  /\ l \in Loads /\ s7[l].at # "idle" => s7[l].page = v
  /\ l \in Loads /\ s7'[l].at # "idle" =>
       s7'[l].page = v /\ s7'[l].fleet = s2' /\ \A k \in s7'[l].list : k.fleet = s2'
  /\ p.up => p.fleet = s2'
  /\ \A k \in Loads : s7'[k].at # "idle" /\ s7'[k].page = v => p.fleet = s2'
  /\ p.up /\ ~AsksFor(v)' => ~p.loading /\ (p.error \/ p.shown \subseteq {p.fleet})

LEMMA PagesOwn ==
  ASSUME PageTypes, OwnPages, NEW v \in Pages, NEW p \in ListPage, NEW l, SeesTo(v, p, l)
  PROVE  OwnPages'
<1> USE DEF SeesTo
<1>1. s6'[v] = p /\ \A w \in Pages \ {v} : s6'[w] = s6[w]
  BY DEF PageTypes
<1>2. \A w \in Pages : s6'[w].up => s6'[w].fleet = s2'
  BY <1>1 DEF OwnPages
<1>3. ASSUME NEW k \in Loads, s7'[k].at # "idle"
      PROVE  s7'[k].fleet = s2' /\ s6'[s7'[k].page].fleet = s2' /\ \A x \in s7'[k].list : x.fleet = s2'
  <2>1. CASE k = l
    BY <1>1, <1>3, <2>1
  <2>2. CASE k # l
    BY <1>1, <1>3, <2>2 DEF OwnPages, Runs, PageTypes
  <2> QED
    BY <2>1, <2>2
<1>4. ASSUME NEW w \in Pages \ {v}, AsksFor(w)
      PROVE  AsksFor(w)'
  BY <1>4 DEF AsksFor
<1>5. ASSUME NEW w \in Pages, s6'[w].up, ~AsksFor(w)'
      PROVE  ~s6'[w].loading /\ (s6'[w].error \/ s6'[w].shown \subseteq {s6'[w].fleet})
  <2>1. CASE w = v
    BY <1>1, <1>5, <2>1
  <2>2. CASE w # v
    BY <1>1, <1>4, <1>5, <2>2 DEF OwnPages
  <2> QED
    BY <2>1, <2>2
<1> QED
  BY <1>2, <1>3, <1>5 DEF OwnPages, Runs

(* What is kept in memory and by loads is no more than it was.              *)
NoNewLists ==
  \A k \in Loads : Runs(k)' => (Runs(k) /\ s7'[k].list = s7[k].list) \/ s7'[k].list = {}

LEMMA ListsStay ==
  ASSUME s3' \subseteq s3, NoNewLists, s5' = s5, s9'.mine = s9.mine
  PROVE  (ListVersions => ListVersions') /\ (ListStates => ListStates')
<1>1. ListVersions => ListVersions'
  BY DEF NoNewLists, ListVersions, HasMine
<1>2. ListStates => ListStates'
  BY DEF NoNewLists, ListStates, IsOfState
<1> QED
  BY <1>1, <1>2

LEMMA BeginMoves ==
  ASSUME PageTypes, ListTypes, NEW v \in Pages, NEW l \in Loads,
         NEW fleet \in Fleets \union {"none"}, NEW force \in BOOLEAN, force \/ fleet \in Fleets,
         Listed!Begin(v, l, fleet, force), ~Runs(l), \A w \in Pages : s6[w].up => w = v
  PROVE  /\ PageTypes' /\ NoNewLists
         /\ OwnKept /\ OwnPages /\ s2' = fleet /\ (force => s2' = s2)
              /\ (s2' = s2 \/ \A k \in Loads : ~Runs(k)) => OwnPages'
<1> DEFINE here == [(IF Listed!IsUp(v) THEN s6[v] ELSE Listed!Away) EXCEPT !.up = TRUE, !.error = FALSE]
<1>1. here \in ListPage /\ here.up
  BY DEF PageTypes, ListPage, Listed!Away, Listed!IsUp
<1>2. CASE ~force /\ Listed!get(fleet) # {}
  <2> DEFINE now == [here EXCEPT !.fleet = fleet, !.loading = FALSE,
                                 !.shown = { list.fleet : list \in Listed!get(fleet) }]
  <2>1. s6' = [s6 EXCEPT ![v] = now] /\ s7' = s7
    BY <1>2 DEF Listed!Begin
  <2>2. { list.fleet : list \in Listed!get(fleet) } \in SUBSET Fleets
    BY DEF Listed!get, ListTypes, KeptList
  <2>3. now \in ListPage /\ now.up /\ now.fleet = fleet /\ ~now.loading
        /\ now.shown = { list.fleet : list \in Listed!get(fleet) }
    BY <1>1, <2>2 DEF ListPage
  <2> HIDE DEF now
  <2>4. PageTypes'
    BY <2>1, <2>3, PagesMove DEF Runs, PageTypes
  <2>5. NoNewLists
    BY <2>1 DEF NoNewLists, Runs
  <2>6. ASSUME OwnKept, OwnPages, s2' = fleet, s2' = s2 \/ \A k \in Loads : ~Runs(k)
        PROVE  OwnPages'
    <3>1. now.shown \subseteq {now.fleet}
      BY <2>3, <2>6 DEF Listed!get, OwnKept
    <3>2. \A k \in Loads : s7'[k].at # "idle" /\ s7'[k].page = v => now.fleet = s2'
      BY <2>3, <2>6
    <3>3. SeesTo(v, now, l)
      BY <2>1, <2>3, <2>6, <3>1, <3>2 DEF SeesTo, Runs
    <3> QED
      BY <2>3, <2>6, <3>3, PagesOwn
  <2> QED
    BY <2>4, <2>5, <2>6
<1>3. CASE ~(~force /\ Listed!get(fleet) # {})
  <2> DEFINE now  == [here EXCEPT !.fleet = fleet, !.loading = @ \/ ~force]
             from == IF force THEN s2 ELSE fleet
             to   == [Listed!Idle EXCEPT !.at = IF force THEN "vehicles" ELSE "disk",
                                         !.page = v, !.fleet = from, !.force = force]
  <2>1. s6' = [s6 EXCEPT ![v] = now] /\ s7' = [s7 EXCEPT ![l] = to]
    BY <1>3 DEF Listed!Begin
  <2>2. now \in ListPage /\ now.up /\ now.fleet = fleet
    BY <1>1 DEF ListPage
  <2>3. from \in Fleets
    BY DEF ListTypes
  <2>4. to \in ListLoad /\ to.at \in {"disk", "vehicles"} /\ to.page = v /\ to.fleet = from /\ to.list = {}
    BY <2>3 DEF Listed!Idle, ListLoad
  <2> HIDE DEF now, to
  <2>5. s7' \in [Loads -> ListLoad] /\ s7'[l] = to /\ \A k \in Loads \ {l} : s7'[k] = s7[k]
    BY <2>1, <2>4 DEF PageTypes
  <2>6. PageTypes'
    BY <2>1, <2>2, <2>3, <2>4, <2>5, PagesMove
  <2>7. NoNewLists
    BY <2>4, <2>5 DEF NoNewLists, Runs
  <2>8. ASSUME OwnPages, s2' = fleet, force => s2' = s2, s2' = s2 \/ \A k \in Loads : ~Runs(k)
        PROVE  OwnPages'
    <3>1. AsksFor(v)'
      BY <2>4, <2>5 DEF AsksFor
    <3>2. to.fleet = s2' /\ now.fleet = s2'
      BY <2>2, <2>4, <2>8
    <3>3. s7'[l].page = v /\ s7'[l].fleet = s2' /\ s7[l].at = "idle" /\ \A k \in s7'[l].list : k.fleet = s2'
      BY <2>4, <2>5, <3>2 DEF Runs
    <3>4. s2' = s2 \/ ((\A k \in Loads : ~Runs(k)) /\ (\A w \in Pages : s6[w].up => w = v))
      BY <2>8
    <3>5. SeesTo(v, now, l)
      BY <2>1, <2>2, <2>5, <2>8, <3>1, <3>2, <3>3, <3>4 DEF SeesTo
    <3> QED
      BY <2>2, <2>8, <3>5, PagesOwn
  <2> QED
    BY <2>6, <2>7, <2>8
<1> QED
  BY <1>2, <1>3

LEMMA OpenKeeps ==
  ASSUME ListInv, NEW v \in Pages, NEW l \in Loads, Listed!Open(v, l)
  PROVE  ListInv'
<1>1. /\ \A w \in Pages : ~s6[w].up
      /\ ~Runs(l) /\ Listed!Begin(v, l, s2, FALSE) /\ UNCHANGED <<s1, s2, s3, s4, s5, s8, s9, s11>>
  BY DEF Listed!Open, Listed!IsUp, Runs
<1>2. PageTypes /\ ListTypes /\ s2 \in Fleets
  BY DEF ListInv, ListTypes
<1>3. PageTypes' /\ NoNewLists /\ (OwnKept /\ OwnPages => OwnPages')
  BY <1>1, <1>2, BeginMoves
<1>4. ListTypes' /\ ListFresh' /\ (OwnKept => OwnKept')
  BY <1>1 DEF ListInv, ListTypes, ListFresh, OwnKept
<1> QED
  BY <1>1, <1>3, <1>4, ListsStay DEF ListInv

LEMMA RefreshKeeps ==
  ASSUME ListInv, NEW v \in Pages, NEW l \in Loads, Listed!refreshVehicles(v, l)
  PROVE  ListInv'
<1>1. /\ s6[v].up /\ ~Runs(l) /\ Listed!Begin(v, l, s6[v].fleet, TRUE)
      /\ UNCHANGED <<s1, s2, s3, s4, s5, s8, s9, s11>>
  BY DEF Listed!refreshVehicles, Listed!IsUp, Runs
<1>2. PageTypes /\ ListTypes /\ \A w \in Pages : s6[w].up => w = v
  BY <1>1 DEF ListInv, PageTypes
<1>3. s6[v].fleet \in Fleets \union {"none"}
  BY <1>2 DEF PageTypes, ListPage
<1>4. PageTypes' /\ NoNewLists /\ (OwnKept /\ OwnPages /\ s2' = s6[v].fleet => OwnPages')
  BY <1>1, <1>2, <1>3, BeginMoves
<1>5. OwnPages => s2' = s6[v].fleet
  BY <1>1 DEF OwnPages
<1>6. ListTypes' /\ ListFresh' /\ (OwnKept => OwnKept')
  BY <1>1 DEF ListInv, ListTypes, ListFresh, OwnKept
<1> QED
  BY <1>1, <1>4, <1>5, <1>6, ListsStay DEF ListInv

LEMMA PastCrosses ==
  ASSUME NEW past \in ListPast, NEW is \in BOOLEAN
  PROVE  [past EXCEPT !.crossed = is] = [mine |-> past.mine, raced |-> past.raced, crossed |-> is]
BY DEF ListPast

LEMMA PastRaces ==
  ASSUME NEW past \in ListPast, NEW is \in BOOLEAN
  PROVE  [past EXCEPT !.raced = is] = [mine |-> past.mine, raced |-> is, crossed |-> past.crossed]
BY DEF ListPast

LEMMA SwitchKeeps ==
  ASSUME ListInv, NEW fleet \in Fleets, NEW l \in Loads, Listed!SwitchTenant(fleet, l)
  PROVE  ListInv'
<1>1. /\ s2' = fleet /\ s11' = s11 + 1 /\ UNCHANGED <<s1, s3, s4, s5, s8>>
      /\ s9' = [s9 EXCEPT !.crossed = @ \/ Listed!Running # {} \/ s8 # {}]
  BY DEF Listed!SwitchTenant, Listed!Turn
<1>2. PageTypes /\ ListTypes
  BY DEF ListInv
<1> DEFINE is == s9.crossed \/ Listed!Running # {} \/ s8 # {}
<1>a. s9' = [s9 EXCEPT !.crossed = is] /\ s9 \in ListPast /\ is \in BOOLEAN
  BY <1>1, <1>2, Zenon DEF ListTypes, ListPast
<1>b. ~is => ~s9.crossed /\ \A k \in Loads : ~Runs(k)
  BY DEF Listed!Running, Runs
<1> HIDE DEF is
<1>c. s9' = [mine |-> s9.mine, raced |-> s9.raced, crossed |-> is]
  BY <1>a, PastCrosses, Zenon
<1>d. s9' \in ListPast /\ s9'.mine = s9.mine /\ s9'.raced = s9.raced /\ s9'.crossed = is
  BY <1>a, <1>c DEF ListPast
<1>3. ListTypes' /\ ListFresh'
  BY <1>1, <1>d DEF ListInv, ListTypes, ListFresh
<1>4. ~s9'.crossed => ~s9.crossed /\ \A k \in Loads : ~Runs(k)
  BY <1>b, <1>d
<1>5. OwnKept => OwnKept'
  BY <1>1 DEF OwnKept
<1>6. ASSUME PageTypes', NoNewLists, OwnKept /\ OwnPages /\ (\A k \in Loads : ~Runs(k)) => OwnPages'
      PROVE  ListInv'
  BY <1>1, <1>3, <1>4, <1>5, <1>6, <1>d, ListsStay DEF ListInv
<1>7. CASE \E w \in Pages : s6[w].up
  <2> DEFINE v == CHOOSE w \in Pages : Listed!IsUp(w)
  <2>1. v \in Pages /\ s6[v].up /\ \A w \in Pages : s6[w].up => w = v
    BY <1>2, <1>7 DEF Listed!IsUp, PageTypes
  <2>2. IF s6[v].loading THEN s6' = [s6 EXCEPT ![v].fleet = fleet] /\ s7' = s7
        ELSE s7[l].at = "idle" /\ Listed!Begin(v, l, fleet, FALSE)
    BY <1>7 DEF Listed!SwitchTenant, Listed!IsUp
  <2> HIDE DEF v
  <2>3. CASE s6[v].loading
    <3> DEFINE now == [s6[v] EXCEPT !.fleet = fleet]
    <3>1. s6' = [s6 EXCEPT ![v] = now] /\ s7' = s7 /\ now \in ListPage /\ now.up
      BY <1>2, <2>1, <2>2, <2>3 DEF PageTypes, ListPage
    <3> HIDE DEF now
    <3>2. PageTypes'
      BY <1>2, <2>1, <3>1, PagesMove DEF PageTypes, Runs
    <3>3. NoNewLists
      BY <3>1 DEF NoNewLists, Runs
    <3>4. OwnPages => \E k \in Loads : Runs(k)
      BY <2>1, <2>3 DEF OwnPages, AsksFor, Runs
    <3> QED
      BY <1>6, <3>2, <3>3, <3>4
  <2>4. CASE ~s6[v].loading
    <3>1. Listed!Begin(v, l, fleet, FALSE) /\ ~Runs(l)
      BY <2>2, <2>4 DEF Runs
    <3>2. /\ PageTypes' /\ NoNewLists
          /\ OwnKept /\ OwnPages /\ s2' = fleet /\ (s2' = s2 \/ \A k \in Loads : ~Runs(k)) => OwnPages'
      BY <1>2, <2>1, <3>1, BeginMoves
    <3> QED
      BY <1>1, <1>6, <3>2
  <2> QED
    BY <2>3, <2>4
<1>8. CASE ~\E w \in Pages : s6[w].up
  <2>1. s6' = s6 /\ s7' = s7
    BY <1>8 DEF Listed!SwitchTenant, Listed!IsUp
  <2>2. PageTypes' /\ NoNewLists
    BY <1>2, <2>1 DEF PageTypes, NoNewLists, Runs
  <2>3. OwnPages /\ (\A k \in Loads : ~Runs(k)) => OwnPages'
    BY <1>8, <2>1 DEF OwnPages, Runs, AsksFor
  <2> QED
    BY <1>6, <2>2, <2>3
<1> QED
  BY <1>7, <1>8

LEMMA LeaveKeeps ==
  ASSUME ListInv, NEW v \in Pages, Listed!Leave(v)
  PROVE  ListInv'
<1>1. s6[v].up /\ UNCHANGED <<s1, s2, s3, s4, s5, s7, s8, s9, s11>>
  BY DEF Listed!Leave, Listed!IsUp
<1>2. PageTypes /\ ListTypes
  BY DEF ListInv
<1>3. PICK now \in ListPage : /\ s6' = [s6 EXCEPT ![v] = now] /\ ~now.up
                              /\ (\E l \in Loads : s7[l].page = v) => now.fleet = s6[v].fleet
  <2> DEFINE left == [Listed!Away EXCEPT !.fleet = s6[v].fleet, !.latest = s6[v].latest]
  <2>1. left \in ListPage /\ ~left.up /\ left.fleet = s6[v].fleet
    BY <1>2 DEF PageTypes, ListPage, Listed!Away
  <2>2. Listed!Away \in ListPage /\ ~Listed!Away.up
    BY DEF ListPage, Listed!Away
  <2>3. s6' = [s6 EXCEPT ![v] = IF \E l \in Loads : s7[l].page = v THEN left ELSE Listed!Away]
    BY DEF Listed!Leave
  <2> HIDE DEF left
  <2> QED
    BY <2>1, <2>2, <2>3
<1>4. PageTypes'
  BY <1>1, <1>2, <1>3, PagesMove DEF PageTypes, Runs
<1>5. NoNewLists
  BY <1>1 DEF NoNewLists, Runs
<1>6. ListTypes' /\ ListFresh' /\ (OwnKept => OwnKept')
  BY <1>1 DEF ListInv, ListTypes, ListFresh, OwnKept
<1>7. ASSUME OwnPages
      PROVE  OwnPages'
  <2>1. \A l \in Loads : s7'[l].at # "idle" /\ s7'[l].page = v => now.fleet = s2'
    BY <1>1, <1>3, <1>7 DEF OwnPages
  <2>2. PICK none : none \notin Loads
    BY NoSetContainsEverything
  <2>3. SeesTo(v, now, none)
    BY <1>1, <1>2, <1>3, <1>7, <2>1, <2>2 DEF SeesTo
  <2> QED
    BY <1>2, <1>7, <2>3, PagesOwn
<1> QED
  BY <1>1, <1>4, <1>5, <1>6, <1>7, ListsStay DEF ListInv

LEMMA PaintKeeps ==
  ASSUME ListInv, NEW l \in Loads, Listed!loadPersisted(l)
  PROVE  ListInv'
<1> DEFINE to == [s7[l] EXCEPT !.at = "vehicles", !.fleet = s2]
<1>0. PICK v : v = s7[l].page
  OBVIOUS
<1>1. s7[l].at = "disk" /\ s7' = [s7 EXCEPT ![l] = to] /\ UNCHANGED <<s1, s2, s3, s4, s5, s8, s9, s11>>
  BY DEF Listed!loadPersisted, ListInv, PageTypes, ListLoad
<1>2. PageTypes /\ ListTypes /\ v \in Pages /\ s7[l].fleet \in Fleets
  BY <1>0, <1>1 DEF ListInv, PageTypes, Runs
<1>3. to \in ListLoad /\ to.at = "vehicles" /\ to.page = v /\ to.fleet = s2 /\ to.list = s7[l].list
  BY <1>0, <1>2 DEF PageTypes, ListTypes, ListLoad
<1>4. PICK now \in ListPage : /\ s6' = [s6 EXCEPT ![v] = now]
                              /\ now.up = s6[v].up /\ now.fleet = s6[v].fleet
  <2>1. PICK kept \in {{}, s4[s7[l].fleet]} :
           s6' = IF Listed!IsUp(v) /\ kept # {} /\ s7[l].fleet = s6[v].fleet
                 THEN [s6 EXCEPT ![v] = [@ EXCEPT !.shown = kept, !.loading = FALSE]] ELSE s6
    BY <1>0 DEF Listed!loadPersisted
  <2>2. kept \in SUBSET Fleets
    BY <1>2 DEF ListTypes
  <2>3. CASE s6' = s6
    BY <1>2, <2>3 DEF PageTypes
  <2>4. CASE s6' = [s6 EXCEPT ![v] = [@ EXCEPT !.shown = kept, !.loading = FALSE]]
    <3> DEFINE now == [s6[v] EXCEPT !.shown = kept, !.loading = FALSE]
    <3>0. s6[v] \in ListPage
      BY <1>2 DEF PageTypes
    <3>1. now \in ListPage /\ now.up = s6[v].up /\ now.fleet = s6[v].fleet
      BY <2>2, <3>0 DEF ListPage
    <3>2. s6' = [s6 EXCEPT ![v] = now]
      BY <2>4
    <3> QED
      BY <3>1, <3>2
  <2> QED
    BY <2>1, <2>3, <2>4
<1> HIDE DEF to
<1>5. s7' \in [Loads -> ListLoad] /\ s7'[l] = to /\ \A k \in Loads \ {l} : s7'[k] = s7[k]
  BY <1>1, <1>2, <1>3 DEF PageTypes
<1>6. PageTypes'
  <2>1. s7'[l].page = v /\ s7'[l].fleet \in Fleets
    BY <1>2, <1>3, <1>5 DEF ListTypes
  <2>2. now.up => \A w \in Pages : s6[w].up => w = v
    BY <1>2, <1>4 DEF PageTypes
  <2> QED
    BY <1>2, <1>4, <1>5, <2>1, <2>2, PagesMove
<1>7. NoNewLists
  BY <1>1, <1>3, <1>5 DEF NoNewLists, Runs
<1>8. ListTypes' /\ ListFresh' /\ (OwnKept => OwnKept')
  BY <1>1 DEF ListInv, ListTypes, ListFresh, OwnKept
<1>9. ASSUME OwnPages
      PROVE  OwnPages'
  <2>1. now.fleet = s2' /\ \A k \in to.list : k.fleet = s2'
    BY <1>0, <1>1, <1>3, <1>4, <1>9 DEF OwnPages, Runs
  <2>2. AsksFor(v)'
    BY <1>3, <1>5 DEF AsksFor
  <2>3. /\ s7'[l].page = v /\ s7'[l].fleet = s2' /\ \A k \in s7'[l].list : k.fleet = s2'
        /\ s7[l].page = v /\ s2' = s2
    BY <1>0, <1>1, <1>3, <1>5, <2>1
  <2>4. /\ PageTypes /\ v \in Pages /\ now \in ListPage /\ s6' = [s6 EXCEPT ![v] = now]
        /\ \A k \in Loads \ {l} : s7'[k] = s7[k]
    BY <1>2, <1>4, <1>5
  <2>5. SeesTo(v, now, l)
    BY <2>1, <2>2, <2>3, <2>4 DEF SeesTo
  <2> QED
    BY <1>9, <2>4, <2>5, PagesOwn
<1> QED
  BY <1>1, <1>6, <1>7, <1>8, <1>9, ListsStay DEF ListInv

LEMMA AnswerKeeps ==
  ASSUME ListInv, NEW l \in Loads, Listed!Answer(l)
  PROVE  ListInv'
<1> DEFINE list == Listed!Vehicles(s7[l].fleet)
           to   == [s7[l] EXCEPT !.at = "positions", !.list = {list}]
<1>0. PICK v : v = s7[l].page
  OBVIOUS
<1>1. s7[l].at = "vehicles" /\ s7' = [s7 EXCEPT ![l] = to] /\ UNCHANGED <<s1, s2, s3, s4, s5, s8, s9, s11>>
  BY DEF Listed!Answer
<1>2. PageTypes /\ ListTypes /\ v \in Pages /\ s7[l].fleet \in Fleets
  BY <1>0, <1>1 DEF ListInv, PageTypes, Runs
<1>3. list.fleet = s7[l].fleet /\ list.version = s1[s7[l].fleet].version
      /\ list.heard = (s5[s7[l].fleet] \in {"none", s1[s7[l].fleet].enforced})
      /\ list.enforced = s1[s7[l].fleet].enforced
  BY DEF Listed!Vehicles
<1>4. list \in KeptList
  <2>1. s1[s7[l].fleet].version \in Nat /\ s1[s7[l].fleet].enforced \in {"on", "off"}
    BY <1>2 DEF ListTypes
  <2>2. (s5[s7[l].fleet] \in {"none", s1[s7[l].fleet].enforced}) \in BOOLEAN
    OBVIOUS
  <2> QED
    BY <1>2, <2>1, <2>2, Zenon DEF Listed!Vehicles, KeptList
<1> HIDE DEF list
<1>5. to \in ListLoad /\ to.at = "positions" /\ to.page = v /\ to.fleet = s7[l].fleet /\ to.list = {list}
  BY <1>0, <1>2, <1>4 DEF PageTypes, ListLoad
<1> HIDE DEF to
<1>6. s7' \in [Loads -> ListLoad] /\ s7'[l] = to /\ \A k \in Loads \ {l} : s7'[k] = s7[k]
  BY <1>1, <1>2, <1>5 DEF PageTypes
<1>7. PICK now \in ListPage :
         /\ s6' = [s6 EXCEPT ![v] = now] /\ now.up = s6[v].up /\ now.fleet = s6[v].fleet
         /\ ~now.loading /\ (now.up => now.shown = {list.fleet})
  <2> DEFINE now == [s6[v] EXCEPT !.shown = IF Listed!IsUp(v) THEN {list.fleet} ELSE {},
                                  !.loading = FALSE, !.latest = {l}]
  <2>1. s6' = [s6 EXCEPT ![v] = now]
    BY <1>0 DEF Listed!Answer, list
  <2>2. s6[v] \in ListPage /\ list.fleet \in Fleets
    BY <1>2, <1>3 DEF PageTypes
  <2>3. now \in ListPage /\ now.up = s6[v].up /\ now.fleet = s6[v].fleet /\ ~now.loading
        /\ now.shown = IF s6[v].up THEN {list.fleet} ELSE {}
    BY <2>2 DEF ListPage, Listed!IsUp
  <2> QED
    BY <2>1, <2>3
<1>8. PageTypes'
  <2>1. s7'[l].page = v /\ s7'[l].fleet \in Fleets
    BY <1>2, <1>5, <1>6
  <2>2. now.up => \A w \in Pages : s6[w].up => w = v
    BY <1>2, <1>7 DEF PageTypes
  <2> QED
    BY <1>2, <1>6, <1>7, <2>1, <2>2, PagesMove
<1>9. ListTypes' /\ ListFresh' /\ (OwnKept => OwnKept')
  BY <1>1 DEF ListInv, ListTypes, ListFresh, OwnKept
<1>10. ASSUME OwnPages
       PROVE  OwnPages'
  <2>1. s7[l].fleet = s2 /\ now.fleet = s2
    BY <1>0, <1>1, <1>7, <1>10 DEF OwnPages, Runs
  <2>2. now.fleet = s2' /\ list.fleet = s2'
    BY <1>1, <1>3, <2>1
  <2>3. /\ s7'[l].page = v /\ s7'[l].fleet = s2' /\ \A k \in s7'[l].list : k.fleet = s2'
        /\ s7[l].page = v /\ s2' = s2
    BY <1>0, <1>1, <1>3, <1>5, <1>6, <2>1, <2>2
  <2>4. now.up /\ ~AsksFor(v)' => ~now.loading /\ (now.error \/ now.shown \subseteq {now.fleet})
    <3>1. now.up => now.shown \subseteq {now.fleet}
      BY <1>7, <2>2
    <3> QED
      BY <1>7, <3>1, Zenon
  <2>5. /\ PageTypes /\ v \in Pages /\ now \in ListPage /\ s6' = [s6 EXCEPT ![v] = now]
        /\ \A k \in Loads \ {l} : s7'[k] = s7[k]
    BY <1>2, <1>6, <1>7
  <2>6. \A k \in Loads : s7'[k].at # "idle" /\ s7'[k].page = v => now.fleet = s2'
    BY <2>2
  <2>7. SeesTo(v, now, l)
    BY <2>2, <2>3, <2>4, <2>5, <2>6, Zenon DEF SeesTo
  <2> QED
    BY <1>10, <2>5, <2>7, PagesOwn
<1>11. HasMine(list)
  BY <1>2, <1>3 DEF ListInv, ListFresh, ListTypes, ListPast, HasMine
<1>12. IsOfState(list)
  BY <1>2, <1>3 DEF IsOfState
<1>13. ListVersions => ListVersions'
  BY <1>1, <1>5, <1>6, <1>11 DEF ListVersions, HasMine, Runs
<1>14. ListStates => ListStates'
  BY <1>1, <1>5, <1>6, <1>12 DEF ListStates, IsOfState, Runs
<1> QED
  BY <1>1, <1>8, <1>9, <1>10, <1>13, <1>14 DEF ListInv

(* A load that ends takes a page that was left with it.                     *)
LEMMA EndMoves ==
  ASSUME PageTypes, NEW l \in Loads, NEW v \in Pages, v = s7[l].page, s7[l].at # "idle",
         NEW now \in ListPage,
         s6' = Listed!Ended(l, now), s7' = [s7 EXCEPT ![l] = Listed!Idle],
         now.up = s6[v].up, now.fleet = s6[v].fleet, s2' = s2
  PROVE  /\ PageTypes' /\ NoNewLists
         /\ OwnPages /\ (now.up /\ ~AsksFor(v)' => ~now.loading /\ (now.error \/ now.shown \subseteq {now.fleet}))
              => OwnPages'
<1>1. PICK p \in ListPage :
           /\ s6' = [s6 EXCEPT ![v] = p]
           /\ p = now \/ (~p.up /\ ~now.up /\ \A k \in Loads : s7'[k].at # "idle" => s7'[k].page # v)
  <2>1. Listed!Away \in ListPage /\ ~Listed!Away.up
    BY DEF Listed!Away, ListPage
  <2>2. s7'[l].at = "idle" /\ \A k \in Loads \ {l} : s7'[k] = s7[k]
    BY DEF PageTypes, Listed!Idle
  <2>3. s6' = [s6 EXCEPT ![v] = IF now.up \/ \E k \in Loads \ {l} : s7[k].page = v THEN now ELSE Listed!Away]
    BY DEF Listed!Ended
  <2>4. CASE now.up \/ \E k \in Loads \ {l} : s7[k].page = v
    BY <2>3, <2>4
  <2>5. CASE ~(now.up \/ \E k \in Loads \ {l} : s7[k].page = v)
    <3>1. s6' = [s6 EXCEPT ![v] = Listed!Away] /\ ~now.up
      BY <2>3, <2>5
    <3>2. \A k \in Loads : s7'[k].at # "idle" => s7'[k].page # v
      BY <2>2, <2>5
    <3> QED
      BY <2>1, <3>1, <3>2, Zenon
  <2> QED
    BY <2>4, <2>5
<1>2. Listed!Idle \in ListLoad /\ Listed!Idle.at = "idle"
  BY DEF Listed!Idle, ListLoad
<1>3. s7' \in [Loads -> ListLoad] /\ s7'[l].at = "idle" /\ \A k \in Loads \ {l} : s7'[k] = s7[k]
  BY <1>2 DEF PageTypes
<1>4. PageTypes'
  <2>1. p.up => \A w \in Pages : s6[w].up => w = v
    BY <1>1 DEF PageTypes
  <2> QED
    BY <1>1, <1>3, <2>1, PagesMove
<1>5. NoNewLists
  BY <1>3 DEF NoNewLists, Runs
<1>6. ASSUME OwnPages, now.up /\ ~AsksFor(v)' => ~now.loading /\ (now.error \/ now.shown \subseteq {now.fleet})
      PROVE  OwnPages'
  <2>1. s6[v].fleet = s2'
    BY <1>6 DEF OwnPages, Runs
  <2>2. (p.up => p.fleet = s2') /\ \A k \in Loads : s7'[k].at # "idle" /\ s7'[k].page = v => p.fleet = s2'
    BY <1>1, <2>1
  <2>3. p.up /\ ~AsksFor(v)' => ~p.loading /\ (p.error \/ p.shown \subseteq {p.fleet})
    BY <1>1, <1>6, Zenon
  <2>4. SeesTo(v, p, l)
    BY <1>1, <1>3, <2>2, <2>3, Zenon DEF SeesTo
  <2> QED
    BY <1>1, <1>6, <2>4, PagesOwn
<1> QED
  BY <1>4, <1>5, <1>6

LEMMA AnswerFailsKeeps ==
  ASSUME ListInv, NEW l \in Loads, Listed!AnswerFails(l)
  PROVE  ListInv'
<1> DEFINE now == [s6[s7[l].page] EXCEPT !.loading = FALSE, !.error = TRUE]
<1>0. PICK v : v = s7[l].page
  OBVIOUS
<1>1. /\ s7[l].at = "vehicles" /\ s6' = Listed!Ended(l, now) /\ s7' = [s7 EXCEPT ![l] = Listed!Idle]
      /\ UNCHANGED <<s1, s2, s3, s4, s5, s8, s9, s11>>
  BY DEF Listed!AnswerFails
<1>2. PageTypes /\ v \in Pages
  BY <1>0, <1>1 DEF ListInv, PageTypes, Runs
<1>3. s6[v] \in ListPage
  BY <1>2 DEF PageTypes
<1>4. now \in ListPage /\ now.up = s6[v].up /\ now.fleet = s6[v].fleet /\ ~now.loading /\ now.error
  BY <1>0, <1>3 DEF ListPage
<1> HIDE DEF now
<1>5. PICK p \in ListPage : p = now
  BY <1>4
<1>6. PageTypes' /\ NoNewLists /\ (OwnPages => OwnPages')
  BY <1>0, <1>1, <1>2, <1>4, <1>5, EndMoves
<1>7. ListTypes' /\ ListFresh' /\ (OwnKept => OwnKept')
  BY <1>1 DEF ListInv, ListTypes, ListFresh, OwnKept
<1> QED
  BY <1>1, <1>6, <1>7, ListsStay DEF ListInv

LEMMA FinishKeeps ==
  ASSUME ListInv, NEW l \in Loads, Listed!Finish(l)
  PROVE  ListInv'
<1> DEFINE now == [s6[s7[l].page] EXCEPT !.latest = @ \ {l}]
<1>0. PICK v : v = s7[l].page
  OBVIOUS
<1>1. /\ s7[l].at = "positions" /\ s6' = Listed!Ended(l, now) /\ s7' = [s7 EXCEPT ![l] = Listed!Idle]
      /\ UNCHANGED <<s1, s2, s5, s8, s9, s11>>
  BY DEF Listed!Finish
<1>2. PageTypes /\ ListTypes /\ v \in Pages
  BY <1>0, <1>1 DEF ListInv, PageTypes, Runs
<1>3. s6[v] \in ListPage /\ s7[l] \in ListLoad
  BY <1>2 DEF PageTypes
<1>4. now \in ListPage /\ now.up = s6[v].up /\ now.fleet = s6[v].fleet
      /\ now.loading = s6[v].loading /\ now.error = s6[v].error /\ now.shown = s6[v].shown
  BY <1>0, <1>3 DEF ListPage
<1>5. (s3' = s3 /\ s4' = s4) \/ \E list \in s7[l].list : Listed!set(s6[v].fleet, list)
  BY <1>0 DEF Listed!Finish
<1> HIDE DEF now
<1>6. PICK p \in ListPage : p = now
  BY <1>4
<1>7. PageTypes' /\ NoNewLists /\ (OwnPages => OwnPages')
  <2>1. ASSUME AsksFor(v)
        PROVE  AsksFor(v)'
    <3>1. PICK k \in Loads : s7[k].page = v /\ s7[k].at \in {"disk", "vehicles"}
      BY <2>1 DEF AsksFor
    <3>2. s7'[k] = s7[k]
      BY <1>1, <1>2, <3>1 DEF PageTypes
    <3> QED
      BY <3>1, <3>2 DEF AsksFor
  <2>2. ASSUME OwnPages, p.up, ~AsksFor(v)'
        PROVE  ~p.loading /\ (p.error \/ p.shown \subseteq {p.fleet})
    BY <1>2, <1>4, <1>6, <2>1, <2>2, Zenon DEF OwnPages
  <2> QED
    BY <1>0, <1>1, <1>2, <1>4, <1>6, <2>2, EndMoves
<1>8. ListTypes'
  <2>1. CASE s3' = s3 /\ s4' = s4
    BY <1>1, <1>2, <2>1 DEF ListTypes
  <2>2. ASSUME NEW list \in s7[l].list, Listed!set(s6[v].fleet, list)
        PROVE  ListTypes'
    <3>1. list \in KeptList /\ list.fleet \in Fleets
      BY <1>3 DEF ListLoad, KeptList
    <3>2. \A m \in s3' : m.list \in KeptList
      BY <2>2, <3>1 DEF Listed!set
    <3>3. s4' \in [Fleets -> SUBSET Fleets]
      BY <1>2, <2>2, <3>1 DEF ListTypes, Listed!set
    <3> QED
      BY <1>1, <1>2, <3>2, <3>3 DEF ListTypes
  <2> QED
    BY <1>5, <2>1, <2>2
<1>9. ListFresh'
  BY <1>1 DEF ListInv, ListFresh
<1>10. OwnKept /\ OwnPages => OwnKept'
  <2>1. CASE s3' = s3 /\ s4' = s4
    BY <2>1 DEF OwnKept
  <2>2. ASSUME NEW list \in s7[l].list, Listed!set(s6[v].fleet, list), OwnKept, OwnPages
        PROVE  OwnKept'
    <3>1. s6[v].fleet = list.fleet
      BY <1>0, <1>1, <2>2 DEF OwnPages, Runs
    <3> QED
      BY <1>2, <2>2, <3>1 DEF OwnKept, Listed!set, ListTypes
  <2> QED
    BY <1>5, <2>1, <2>2
<1>11. (ListVersions => ListVersions') /\ (ListStates => ListStates')
  <2>1. CASE s3' = s3 /\ s4' = s4
    BY <1>1, <1>7, <2>1, ListsStay
  <2>2. ASSUME NEW list \in s7[l].list, Listed!set(s6[v].fleet, list)
        PROVE  (ListVersions => ListVersions') /\ (ListStates => ListStates')
    <3>1. \A m \in s3' : m.list = list
      BY <2>2 DEF Listed!set
    <3>2. ListVersions => ListVersions'
      BY <1>1, <1>7, <3>1 DEF ListVersions, HasMine, NoNewLists, Runs
    <3>3. ListStates => ListStates'
      BY <1>1, <1>7, <3>1 DEF ListStates, IsOfState, NoNewLists, Runs
    <3> QED
      BY <3>2, <3>3
  <2> QED
    BY <1>5, <2>1, <2>2
<1> QED
  BY <1>1, <1>7, <1>8, <1>9, <1>10, <1>11 DEF ListInv

(* Steps that leave every page and every load alone.                        *)
LEMMA PagesStay ==
  ASSUME UNCHANGED <<s2, s6, s7>>
  PROVE  (PageTypes => PageTypes') /\ (OwnPages => OwnPages') /\ NoNewLists
<1>1. PageTypes => PageTypes'
  BY DEF PageTypes, Runs
<1>2. OwnPages => OwnPages'
  BY DEF OwnPages, Runs, AsksFor
<1> QED
  BY <1>1, <1>2 DEF NoNewLists, Runs

LEMMA AddFavoriteKeeps ==
  ASSUME ListInv, Listed!AddFavorite
  PROVE  ListInv'
<1>1. /\ s1' = [s1 EXCEPT ![s2].version = s11 + 1] /\ s11' = s11 + 1
      /\ s8' = { [what |-> "favourite", fleet |-> s2, version |-> s11 + 1] }
      /\ UNCHANGED <<s2, s3, s4, s5, s6, s7, s9>>
  BY DEF Listed!AddFavorite, Listed!Turn
<1>2. ListTypes /\ ListFresh
  BY DEF ListInv
<1>3. /\ s1' \in [Fleets -> [version : Nat, enforced : {"on", "off"}]]
      /\ s1'[s2].version = s11 + 1 /\ \A f \in Fleets \ {s2} : s1'[f] = s1[f]
  BY <1>1, <1>2 DEF ListTypes
<1>4. ListTypes'
  BY <1>1, <1>2, <1>3 DEF ListTypes
<1>5. \A f \in Fleets : s9.mine[f] \in Nat /\ s1[f].version \in Nat
  BY <1>2 DEF ListTypes, ListPast
<1>6. \A f \in Fleets : s9.mine[f] <= s1'[f].version /\ s1'[f].version <= s11 + 1
  BY <1>2, <1>3, <1>5 DEF ListTypes, ListFresh
<1>7. \A a \in s8' : a.what = "favourite" /\ a.fleet = s2 /\ a.version = s11 + 1
  BY <1>1
<1>8. ListFresh'
  BY <1>1, <1>2, <1>3, <1>6, <1>7 DEF ListTypes, ListFresh
<1>9. OwnKept => OwnKept'
  BY <1>1 DEF OwnKept
<1> QED
  BY <1>1, <1>4, <1>8, <1>9, PagesStay, ListsStay DEF ListInv

LEMMA FlipKeeps ==
  ASSUME ListInv, Listed!Flip
  PROVE  ListInv'
<1>1. /\ s1' = [s1 EXCEPT ![s2] = [version |-> s11 + 1, enforced |-> IF @.enforced = "on" THEN "off" ELSE "on"]]
      /\ s11' = s11 + 1 /\ UNCHANGED <<s2, s3, s4, s5, s6, s7, s8, s9>>
  BY DEF Listed!Flip, Listed!Turn
<1>2. ListTypes /\ ListFresh
  BY DEF ListInv
<1>3. /\ s1' \in [Fleets -> [version : Nat, enforced : {"on", "off"}]]
      /\ s1'[s2].version = s11 + 1 /\ \A f \in Fleets \ {s2} : s1'[f] = s1[f]
  BY <1>1, <1>2 DEF ListTypes
<1>4. ListTypes'
  BY <1>1, <1>2, <1>3 DEF ListTypes
<1>5. \A f \in Fleets : s9.mine[f] \in Nat /\ s1[f].version \in Nat
  BY <1>2 DEF ListTypes, ListPast
<1>6. \A f \in Fleets : s9.mine[f] <= s1'[f].version /\ s1'[f].version <= s11 + 1 /\ s1[f].version <= s1'[f].version
  BY <1>2, <1>3, <1>5 DEF ListTypes, ListFresh
<1>7. \A a \in s8 : a.what = "favourite" => a.version <= s1'[a.fleet].version
  BY <1>2, <1>3, <1>5, <1>6 DEF ListFresh
<1>8. ListFresh'
  BY <1>1, <1>2, <1>6, <1>7 DEF ListFresh
<1>9. OwnKept => OwnKept'
  BY <1>1 DEF OwnKept
<1> QED
  BY <1>1, <1>4, <1>8, <1>9, PagesStay, ListsStay DEF ListInv

LEMMA AskingKeeps ==
  ASSUME ListInv, Listed!RequestFails \/ Listed!GetMyAccess
  PROVE  ListInv'
<1>1. UNCHANGED <<s1, s2, s3, s4, s5, s6, s7, s9, s11>>
  BY DEF Listed!RequestFails, Listed!GetMyAccess
<1>2. s8' = {} \/ s8' = { [what |-> "access", enforced |-> s1[s2].enforced] }
  BY DEF Listed!RequestFails, Listed!GetMyAccess
<1>3. ListTypes' /\ (OwnKept => OwnKept')
  BY <1>1 DEF ListInv, ListTypes, OwnKept
<1>4. s1[s2].enforced \in {"on", "off"}
  BY DEF ListInv, ListTypes
<1>5. \A a \in s8' : a.what = "access" /\ a.enforced \in {"on", "off"}
  BY <1>2, <1>4
<1>6. ListFresh'
  BY <1>1, <1>5 DEF ListInv, ListFresh
<1> QED
  BY <1>1, <1>3, <1>6, PagesStay, ListsStay DEF ListInv

LEMMA ReloadKeeps ==
  ASSUME ListInv, Listed!Reload
  PROVE  ListInv'
<1>1. /\ s11' = s11 + 1 /\ s3' = {} /\ s8' = {}
      /\ s6' = [v \in Pages |-> Listed!Away] /\ s7' = [l \in Loads |-> Listed!Idle]
      /\ s9' = [s9 EXCEPT !.raced = FALSE] /\ UNCHANGED <<s1, s2, s4, s5>>
  BY DEF Listed!Reload, Listed!Turn
<1>2. Listed!Away \in ListPage /\ ~Listed!Away.up /\ Listed!Idle \in ListLoad /\ Listed!Idle.at = "idle"
  BY DEF Listed!Away, Listed!Idle, ListPage, ListLoad
<1>3. s9 \in ListPast
  BY DEF ListInv, ListTypes
<1>4. s9' = [mine |-> s9.mine, raced |-> FALSE, crossed |-> s9.crossed]
  BY <1>1, <1>3, PastRaces, Zenon
<1>5. s9' \in ListPast /\ s9'.mine = s9.mine /\ s9'.crossed = s9.crossed
  BY <1>3, <1>4 DEF ListPast
<1>6. PageTypes'
  BY <1>1, <1>2 DEF PageTypes, Runs
<1>7. ListTypes' /\ (OwnKept => OwnKept')
  BY <1>1, <1>5 DEF ListInv, ListTypes, OwnKept
<1>8. ListFresh'
  BY <1>1, <1>5 DEF ListInv, ListTypes, ListFresh, ListPast
<1>9. OwnPages' /\ ListVersions' /\ ListStates'
  BY <1>1, <1>2 DEF OwnPages, ListVersions, ListStates, Runs
<1> QED
  BY <1>5, <1>6, <1>7, <1>8, <1>9 DEF ListInv

LEMMA InvalidateIs ==
  ASSUME ListTypes, Listed!invalidate
  PROVE  s3' = {} /\ s4' \in [Fleets -> SUBSET Fleets] /\ (OwnKept => OwnKept')
BY DEF Listed!invalidate, ListTypes, OwnKept

LEMMA FavoriteKeeps ==
  ASSUME ListInv, Listed!toggleFavorite
  PROVE  ListInv'
<1>1. PICK f \in s8 :
        /\ f.what = "favourite" /\ s8' = {} /\ Listed!invalidate
        /\ s9' = [s9 EXCEPT !.mine[f.fleet] = f.version, !.raced = @ \/ Listed!Running # {}]
        /\ UNCHANGED <<s1, s2, s5, s6, s7, s11>>
  BY DEF Listed!toggleFavorite, Listed!FavoriteIsSet
<1>2. ListTypes /\ ListFresh
  BY DEF ListInv
<1>3. f.fleet \in Fleets /\ f.version \in Nat /\ f.version <= s1[f.fleet].version
  BY <1>1, <1>2 DEF ListFresh
<1> DEFINE is   == s9.raced \/ Listed!Running # {}
           mine == [s9.mine EXCEPT ![f.fleet] = f.version]
<1>4. is \in BOOLEAN /\ s9 \in ListPast
  BY <1>2, Zenon DEF ListTypes, ListPast
<1>5. mine \in [Fleets -> Nat] /\ mine[f.fleet] = f.version /\ \A g \in Fleets \ {f.fleet} : mine[g] = s9.mine[g]
  BY <1>2, <1>3 DEF ListTypes, ListPast
<1>6. ~is => ~s9.raced /\ \A l \in Loads : ~Runs(l)
  BY DEF Listed!Running, Runs
<1>7. s9' = [mine |-> mine, raced |-> is, crossed |-> s9.crossed]
  BY <1>1, <1>4, Zenon DEF ListPast
<1> HIDE DEF is, mine
<1>8. s9' \in ListPast /\ s9'.mine = mine /\ s9'.raced = is /\ s9'.crossed = s9.crossed
  BY <1>4, <1>5, <1>7, Zenon DEF ListPast
<1>9. s3' = {} /\ s4' \in [Fleets -> SUBSET Fleets] /\ (OwnKept => OwnKept')
  BY <1>1, <1>2, InvalidateIs
<1>10. ListTypes'
  BY <1>1, <1>2, <1>8, <1>9 DEF ListTypes
<1>11. \A g \in Fleets : mine[g] <= s1[g].version
  BY <1>2, <1>3, <1>5 DEF ListFresh
<1>12. ListFresh'
  BY <1>1, <1>2, <1>8, <1>11 DEF ListFresh
<1>13. ~is => ListVersions' /\ ListStates'
  BY <1>1, <1>6, <1>9 DEF ListVersions, ListStates, Runs
<1> QED
  BY <1>1, <1>6, <1>8, <1>9, <1>10, <1>12, <1>13, PagesStay DEF ListInv

LEMMA AccessKeeps ==
  ASSUME ListInv, Listed!fetchMyAccess
  PROVE  ListInv'
<1>1. PICK a \in s8 :
        /\ a.what = "access" /\ Listed!noteMembershipsEnforced(s2, a.enforced) /\ s8' = {}
        /\ s9' = [s9 EXCEPT !.raced = @ \/ (Listed!Running # {} /\ Listed!Changes(s2, a.enforced))]
        /\ UNCHANGED <<s1, s2, s6, s7, s11>>
  BY DEF Listed!fetchMyAccess
<1>2. PageTypes /\ ListTypes /\ ListFresh /\ a.enforced \in {"on", "off"}
  BY <1>1 DEF ListInv, ListFresh
<1> DEFINE is == s9.raced \/ (Listed!Running # {} /\ Listed!Changes(s2, a.enforced))
<1>3. is \in BOOLEAN /\ s9 \in ListPast
  BY <1>2, Zenon DEF ListTypes, ListPast
<1>4. s9' = [mine |-> s9.mine, raced |-> is, crossed |-> s9.crossed]
  BY <1>1, <1>3, PastRaces, Zenon
<1>5. ~is => ~s9.raced /\ (~Listed!Changes(s2, a.enforced) \/ \A l \in Loads : ~Runs(l))
  BY DEF Listed!Running, Runs
<1> HIDE DEF is
<1>6. s9' \in ListPast /\ s9'.mine = s9.mine /\ s9'.raced = is /\ s9'.crossed = s9.crossed
  BY <1>3, <1>4, Zenon DEF ListPast
<1>7. s5' = [s5 EXCEPT ![s2] = a.enforced]
  BY <1>1 DEF Listed!noteMembershipsEnforced
<1>8. s5' \in [Fleets -> {"none", "on", "off"}]
  BY <1>2, <1>7 DEF ListTypes
<1>9. CASE Listed!Changes(s2, a.enforced)
  <2>1. s3' = {} /\ s4' \in [Fleets -> SUBSET Fleets] /\ (OwnKept => OwnKept')
    BY <1>1, <1>2, <1>9, InvalidateIs DEF Listed!noteMembershipsEnforced
  <2>2. ListTypes' /\ ListFresh'
    BY <1>1, <1>2, <1>6, <1>8, <2>1 DEF ListTypes, ListFresh
  <2>3. ~is => ListVersions' /\ ListStates'
    BY <1>1, <1>5, <1>9, <2>1 DEF ListVersions, ListStates, Runs
  <2> QED
    BY <1>1, <1>2, <1>5, <1>6, <2>1, <2>2, <2>3, PagesStay DEF ListInv
<1>10. CASE ~Listed!Changes(s2, a.enforced)
  <2>1. s3' = s3 /\ s4' = s4
    BY <1>1, <1>10 DEF Listed!noteMembershipsEnforced
  <2>2. s5' = s5
    BY <1>2, <1>7, <1>10 DEF Listed!Changes, ListTypes
  <2>3. ListTypes' /\ ListFresh' /\ (OwnKept => OwnKept')
    BY <1>1, <1>2, <1>6, <2>1, <2>2 DEF ListTypes, ListFresh, OwnKept
  <2> QED
    BY <1>1, <1>5, <1>6, <2>1, <2>2, <2>3, PagesStay, ListsStay DEF ListInv
<1> QED
  BY <1>9, <1>10

LEMMA ListsStep ==
  ASSUME ListInv, Listed!Next
  PROVE  ListInv'
BY OpenKeeps, RefreshKeeps, SwitchKeeps, LeaveKeeps, PaintKeeps, AnswerKeeps, AnswerFailsKeeps, FinishKeeps,
   AddFavoriteKeeps, FlipKeeps, AskingKeeps, ReloadKeeps, FavoriteKeeps, AccessKeeps DEF Listed!Next

LEMMA OwnListsShow ==
  ASSUME ListInv
  PROVE  Listed!OwnFleetShows
<1>1. ASSUME ~s9.crossed, NEW v \in Pages, s6[v].up, ~s6[v].error, \A l \in Loads : s7[l].page # v
      PROVE  s6[v].shown \subseteq {s6[v].fleet}
  BY <1>1 DEF ListInv, OwnPages, AsksFor
<1> QED
  BY <1>1 DEF ListInv, OwnKept, Listed!OwnFleetShows, Listed!IsUp

LEMMA KeptListsAreCurrent ==
  ASSUME ListInv
  PROVE  Listed!KeptIsCurrent
<1>1. ASSUME ~s9.raced, ~s9.crossed, NEW m \in s3
      PROVE  m.list.version >= s9.mine[m.fleet]
  BY <1>1 DEF ListInv, OwnKept, ListVersions, HasMine
<1>2. ASSUME ~s9.raced, ~s9.crossed, NEW m \in s3
      PROVE  m.list.heard /\ s5[m.fleet] # "none" => m.list.enforced = s5[m.fleet]
  BY <1>2 DEF ListInv, OwnKept, ListStates, IsOfState
<1> QED
  BY <1>1, <1>2, Zenon DEF Listed!KeptIsCurrent

LEMMA ListsRest ==
  ASSUME ListInv, UNCHANGED <<s1, s2, s3, s4, s5, s6, s7, s8, s9, s10, s11>>
  PROVE  ListInv'
BY DEF ListInv, PageTypes, ListTypes, ListFresh, OwnKept, OwnPages, ListVersions, ListStates, Runs, AsksFor, HasMine, IsOfState

-----------------------------------------------------------------------------
(***************************************************************************)
(* Comparisons (Reconciliation). Every tenant a command passed without a   *)
(* finding is held to what its success promises, of all that stayed        *)
(* steady; and what it read of the tenant it is at is as it was, or was    *)
(* compared.                                                               *)
(* licensed s1, trusted s2, row s3, answer s4, fleet s5, cmd s6, steady    *)
(* s7, changes s8.                                                         *)
(***************************************************************************)
LEMMA CompareSteps ==
  ASSUME subject = "comparisons", [SubjectNext]_allVars
  PROVE  Comparing!Next \/ UNCHANGED <<s1, s2, s3, s4, s5, s6, s7, s8>>
BY DEF SubjectNext, OfTenants, OfTokens, OfSecrets, OfGeofences, OfShares, OfInvitations,
       OfPreferences, OfComparisons, OfInputs, OfShapes, OfLists, OfIntervals, allVars, places

Remote == {Comparing!Denied} \union [via : {"direct"}, role : {"owner", "member"},
                                     caps : SUBSET Comparing!Capabilities, scope : Comparing!Scopes]
Garage == [explicit : BOOLEAN, entitled : SUBSET Cars, local : SUBSET Cars]

IsCommand(c) ==
  /\ c = [kind |-> c.kind, at |-> c.at, asked |-> c.asked, tenants |-> c.tenants,
          members |-> c.members, list |-> c.list, bad |-> c.bad]
  /\ c.bad \in BOOLEAN /\ c.tenants \subseteq c.asked /\ c.asked \subseteq Tenants

CompareTypes ==
  /\ s3 \in [Tenants \X Accounts -> Comparing!Rows] /\ s4 \in [Tenants \X Accounts -> Remote]
  /\ s1 \subseteq Tenants /\ s5 \in [Tenants -> Garage] /\ IsCommand(s6)

(* What success promises of a tenant, by the kind of the command. *)
MemberHeld(t, w) ==
  /\ s4[<<t, w>>].via # "none"
  /\ s3[<<t, w>>].role = "owner" => Comparing!Capabilities \subseteq s4[<<t, w>>].caps
  /\ Comparing!Sees(s3[<<t, w>>].scope) \subseteq Comparing!Sees(s4[<<t, w>>].scope)

LetIn(t)       == <<t, "itself">> \in s7 => t \in s2
MembersHeld(t) == \A w \in Accounts : <<t, w>> \in s7 /\ s3[<<t, w>>] # Comparing!NoRow => MemberHeld(t, w)
FleetHeld(t)   == <<t, "itself">> \in s7 /\ s5[t].explicit =>
                    \A c \in Cars : <<t, c>> \in s7 => (c \in s5[t].entitled <=> c \in s5[t].local)

Held(kind, t) ==
  /\ kind = "check" => LetIn(t)
  /\ kind = "diff" => MembersHeld(t)
  /\ kind = "vehicles" => FleetHeld(t)

(* The tenant a command is at. *)
AtTenant(c) == CHOOSE t \in c.tenants : \A u \in c.tenants : t <= u

(* The memberships that were read are there as they are, or compared. *)
MembersRead(c) == ~c.bad /\ AtTenant(c) \in c.tenants =>
  \A w \in Accounts :
    <<AtTenant(c), w>> \in s7 /\ s3[<<AtTenant(c), w>>] # Comparing!NoRow =>
      \/ [wallet |-> w, row |-> s3[<<AtTenant(c), w>>]] \in c.members
      \/ MemberHeld(AtTenant(c), w)

(* The entitlements that were read are as they are. *)
EntitledRead(c) == AtTenant(c) \in c.tenants /\ <<AtTenant(c), "itself">> \in s7 /\ s5[AtTenant(c)].explicit =>
  \A x \in Cars : <<AtTenant(c), x>> \in s7 => (x \in c.list <=> x \in s5[AtTenant(c)].entitled)

Stage(c) ==
  /\ c.at = "members" => c.kind = "diff" /\ MembersRead(c)
  /\ c.at = "entitled" => c.kind = "vehicles"
  /\ c.at = "rows" => c.kind = "vehicles" /\ EntitledRead(c)
  /\ c.at = "success" => c.tenants = {} /\ ~c.bad

(* Every tenant that was passed without a finding is held. *)
Passed(c) == ~c.bad => \A t \in c.asked \ c.tenants : Held(c.kind, t)

CompareInv == CompareTypes /\ Stage(s6) /\ Passed(s6)

LEMMA CurrentIs == Comparing!Current = AtTenant(s6)
BY DEF Comparing!Current, AtTenant

LEMMA CompareStart ==
  ASSUME Comparing!Init
  PROVE  CompareInv
<1>1. s6 = Comparing!Nowhere
  BY DEF Comparing!Init
<1>2. IsCommand(s6) /\ Stage(s6) /\ Passed(s6)
  BY <1>1 DEF Comparing!Nowhere, IsCommand, Stage, Passed
<1>3. s3 \in [Tenants \X Accounts -> Comparing!Rows]
  BY DEF Comparing!Init
<1>4. ASSUME NEW r \in Comparing!Rows
      PROVE  Comparing!Mirror(r) \in Remote
  BY DEF Comparing!Mirror, Remote, Comparing!fleetLiteLocalAccess, Comparing!Rows, Comparing!NoRow
<1>5. s4 \in [Tenants \X Accounts -> Remote]
  BY <1>3, <1>4 DEF Comparing!Init
<1>6. s5 \in [Tenants -> Garage]
  <2>1. PICK own \in [Tenants -> SUBSET Cars] :
          s5 = [t \in Tenants |-> [explicit |-> t \notin s1, entitled |-> own[t], local |-> own[t]]]
    BY Zenon DEF Comparing!Init
  <2>2. ASSUME NEW t \in Tenants
        PROVE  [explicit |-> t \notin s1, entitled |-> own[t], local |-> own[t]] \in Garage
    <3>1. (t \notin s1) \in BOOLEAN /\ own[t] \in SUBSET Cars
      BY Zenon
    <3> QED
      BY <3>1, Zenon DEF Garage
  <2> QED
    BY <2>1, <2>2, Zenon
<1>7. s1 \subseteq Tenants
  BY DEF Comparing!Init
<1> QED
  BY <1>2, <1>3, <1>5, <1>6, <1>7 DEF CompareInv, CompareTypes

(* A comparison that finds nothing lost has found what it promises. *)
LEMMA NothingLost ==
  ASSUME NEW r \in Comparing!Rows, r # Comparing!NoRow, NEW a \in Remote,
         Comparing!compareAccess(Comparing!fleetLiteLocalAccess(r), a) \notin Comparing!Losses
  PROVE  /\ a.via # "none"
         /\ r.role = "owner" => Comparing!Capabilities \subseteq a.caps
         /\ Comparing!Sees(r.scope) \subseteq Comparing!Sees(a.scope)
<1> DEFINE local == Comparing!fleetLiteLocalAccess(r)
           scope == Comparing!compareScope(local, a)
<1>1. local.scope = r.scope /\ (r.role = "owner" => local.caps = Comparing!Capabilities)
  BY DEF Comparing!fleetLiteLocalAccess
<1>2. a.via # "none" /\ scope # "differ" /\ local.caps \ a.caps = {}
  <2> HIDE DEF local, scope
  <2>1. Comparing!compareAccess(local, a) =
          IF a.via = "none" THEN "missing-remote"
          ELSE IF scope = "differ" \/ local.caps \ a.caps # {} THEN "differ"
          ELSE IF a.caps # local.caps \/ scope = "remote-extra" THEN "remote-extra"
          ELSE IF local.role # a.role THEN "role-differs" ELSE "agree"
    BY Zenon DEF Comparing!compareAccess, scope
  <2>2. Comparing!compareAccess(local, a) \notin {"differ", "missing-remote"}
    BY DEF local, Comparing!Losses
  <2> QED
    BY <2>1, <2>2
<1>3. \/ a.scope.open
      \/ ~r.scope.open /\ r.scope.groups \subseteq a.scope.groups
  BY <1>1, <1>2, Zenon DEF Comparing!compareScope
<1>4. r.scope \in Comparing!Scopes
  BY DEF Comparing!Rows
<1>5. r.scope.open \/ r.scope.groups \subseteq Groups
  <2>1. CASE r.scope = Comparing!Everything
    <3>1. Comparing!Everything.open
      BY Zenon DEF Comparing!Everything
    <3> QED
      BY <2>1, <3>1, Zenon
  <2>2. CASE r.scope \in [open : {FALSE}, groups : SUBSET Groups]
    BY <2>2
  <2> QED
    BY <1>4, <2>1, <2>2, Zenon DEF Comparing!Scopes
<1>6. Comparing!Sees(r.scope) \subseteq Comparing!Sees(a.scope)
  BY <1>3, <1>5 DEF Comparing!Sees
<1> QED
  BY <1>1, <1>2, <1>6

(* A step of the command: it stays at what it found, or passes tenants     *)
(* that are held.                                                          *)
LEMMA MoveKeeps ==
  ASSUME CompareInv, NEW to, Comparing!Moves(to), IsCommand(to),
         to.kind = s6.kind, to.asked = s6.asked, Stage(to),
         ~to.bad => ~s6.bad /\ \A t \in s6.tenants \ to.tenants : Held(s6.kind, t)
  PROVE  CompareInv'
<1>1. s6' = to /\ UNCHANGED <<s1, s2, s3, s4, s5, s7, s8>>
  BY DEF Comparing!Moves
<1>2. CompareTypes'
  BY <1>1 DEF CompareInv, CompareTypes
<1>3. Passed(to)
  BY DEF CompareInv, Passed
<1>4. Passed(s6)'
  BY <1>1, <1>3 DEF Passed, Held, LetIn, MembersHeld, MemberHeld, FleetHeld
<1>5. Stage(s6)'
  BY <1>1 DEF Stage, MembersRead, EntitledRead, MemberHeld, AtTenant
<1> QED
  BY <1>2, <1>4, <1>5 DEF CompareInv

LEMMA CommandFields ==
  ASSUME NEW c, IsCommand(c)
  PROVE  DOMAIN c = {"kind", "at", "asked", "tenants", "members", "list", "bad"}
<1> DEFINE e == [kind |-> c.kind, at |-> c.at, asked |-> c.asked, tenants |-> c.tenants,
                 members |-> c.members, list |-> c.list, bad |-> c.bad]
<1>1. DOMAIN e = {"kind", "at", "asked", "tenants", "members", "list", "bad"}
  OBVIOUS
<1>2. c = e
  BY Zenon DEF IsCommand
<1> HIDE DEF e
<1> QED
  BY <1>1, <1>2, Zenon

LEMMA StageMoves ==
  ASSUME NEW c, IsCommand(c), NEW at
  PROVE  [c EXCEPT !.at = at] =
           [kind |-> c.kind, at |-> at, asked |-> c.asked, tenants |-> c.tenants, members |-> c.members, list |-> c.list, bad |-> c.bad]
<1> DEFINE d == [c EXCEPT !.at = at]
<1>1. d = [f \in DOMAIN d |-> d[f]] /\ DOMAIN d = DOMAIN c
  OBVIOUS
<1>2. DOMAIN c = {"kind", "at", "asked", "tenants", "members", "list", "bad"}
  BY CommandFields
<1>3. /\ d.kind = c.kind /\ d.at = at /\ d.asked = c.asked /\ d.tenants = c.tenants
      /\ d.members = c.members /\ d.list = c.list /\ d.bad = c.bad
  BY <1>2
<1> HIDE DEF d
<1>4. d = [kind |-> d.kind, at |-> d.at, asked |-> d.asked, tenants |-> d.tenants,
           members |-> d.members, list |-> d.list, bad |-> d.bad]
  BY <1>1, <1>2
<1> QED
  BY <1>3, <1>4 DEF d

LEMMA MembersMove ==
  ASSUME NEW c, IsCommand(c), NEW at, NEW M
  PROVE  [c EXCEPT !.at = at, !.members = M] =
           [kind |-> c.kind, at |-> at, asked |-> c.asked, tenants |-> c.tenants, members |-> M, list |-> c.list, bad |-> c.bad]
<1> DEFINE d == [c EXCEPT !.at = at, !.members = M]
<1>1. d = [f \in DOMAIN d |-> d[f]] /\ DOMAIN d = DOMAIN c
  OBVIOUS
<1>2. DOMAIN c = {"kind", "at", "asked", "tenants", "members", "list", "bad"}
  BY CommandFields
<1>3. /\ d.kind = c.kind /\ d.at = at /\ d.asked = c.asked /\ d.tenants = c.tenants
      /\ d.members = M /\ d.list = c.list /\ d.bad = c.bad
  BY <1>2
<1> HIDE DEF d
<1>4. d = [kind |-> d.kind, at |-> d.at, asked |-> d.asked, tenants |-> d.tenants,
           members |-> d.members, list |-> d.list, bad |-> d.bad]
  BY <1>1, <1>2
<1> QED
  BY <1>3, <1>4 DEF d

LEMMA ListMoves ==
  ASSUME NEW c, IsCommand(c), NEW at, NEW L
  PROVE  [c EXCEPT !.at = at, !.list = L] =
           [kind |-> c.kind, at |-> at, asked |-> c.asked, tenants |-> c.tenants, members |-> c.members, list |-> L, bad |-> c.bad]
<1> DEFINE d == [c EXCEPT !.at = at, !.list = L]
<1>1. d = [f \in DOMAIN d |-> d[f]] /\ DOMAIN d = DOMAIN c
  OBVIOUS
<1>2. DOMAIN c = {"kind", "at", "asked", "tenants", "members", "list", "bad"}
  BY CommandFields
<1>3. /\ d.kind = c.kind /\ d.at = at /\ d.asked = c.asked /\ d.tenants = c.tenants
      /\ d.members = c.members /\ d.list = L /\ d.bad = c.bad
  BY <1>2
<1> HIDE DEF d
<1>4. d = [kind |-> d.kind, at |-> d.at, asked |-> d.asked, tenants |-> d.tenants,
           members |-> d.members, list |-> d.list, bad |-> d.bad]
  BY <1>1, <1>2
<1> QED
  BY <1>3, <1>4 DEF d

LEMMA MemberMoves ==
  ASSUME NEW c, IsCommand(c), NEW M, NEW b
  PROVE  [c EXCEPT !.members = M, !.bad = b] =
           [kind |-> c.kind, at |-> c.at, asked |-> c.asked, tenants |-> c.tenants, members |-> M, list |-> c.list, bad |-> b]
<1> DEFINE d == [c EXCEPT !.members = M, !.bad = b]
<1>1. d = [f \in DOMAIN d |-> d[f]] /\ DOMAIN d = DOMAIN c
  OBVIOUS
<1>2. DOMAIN c = {"kind", "at", "asked", "tenants", "members", "list", "bad"}
  BY CommandFields
<1>3. /\ d.kind = c.kind /\ d.at = c.at /\ d.asked = c.asked /\ d.tenants = c.tenants
      /\ d.members = M /\ d.list = c.list /\ d.bad = b
  BY <1>2
<1> HIDE DEF d
<1>4. d = [kind |-> d.kind, at |-> d.at, asked |-> d.asked, tenants |-> d.tenants,
           members |-> d.members, list |-> d.list, bad |-> d.bad]
  BY <1>1, <1>2
<1> QED
  BY <1>3, <1>4 DEF d

LEMMA TenantMoves ==
  ASSUME NEW c, IsCommand(c), NEW b, NEW T
  PROVE  [c EXCEPT !.at = "tenant", !.bad = b, !.tenants = T, !.members = {}, !.list = {}] =
           [kind |-> c.kind, at |-> "tenant", asked |-> c.asked, tenants |-> T, members |-> {}, list |-> {}, bad |-> b]
<1> DEFINE d == [c EXCEPT !.at = "tenant", !.bad = b, !.tenants = T, !.members = {}, !.list = {}]
<1>1. d = [f \in DOMAIN d |-> d[f]] /\ DOMAIN d = DOMAIN c
  OBVIOUS
<1>2. DOMAIN c = {"kind", "at", "asked", "tenants", "members", "list", "bad"}
  BY CommandFields
<1>3. /\ d.kind = c.kind /\ d.at = "tenant" /\ d.asked = c.asked /\ d.tenants = T
      /\ d.members = {} /\ d.list = {} /\ d.bad = b
  BY <1>2
<1> HIDE DEF d
<1>4. d = [kind |-> d.kind, at |-> d.at, asked |-> d.asked, tenants |-> d.tenants,
           members |-> d.members, list |-> d.list, bad |-> d.bad]
  BY <1>1, <1>2
<1> QED
  BY <1>3, <1>4 DEF d

LEMMA CommandStays ==
  ASSUME NEW c, IsCommand(c), NEW at, NEW members, NEW list, NEW to,
         to = [kind |-> c.kind, at |-> at, asked |-> c.asked, tenants |-> c.tenants,
               members |-> members, list |-> list, bad |-> c.bad]
  PROVE  /\ IsCommand(to) /\ to.at = at /\ to.kind = c.kind /\ to.asked = c.asked /\ to.tenants = c.tenants
         /\ to.bad = c.bad /\ to.members = members /\ to.list = list
<1>1. /\ to.at = at /\ to.kind = c.kind /\ to.asked = c.asked /\ to.tenants = c.tenants
      /\ to.bad = c.bad /\ to.members = members /\ to.list = list
  OBVIOUS
<1>2. to = [kind |-> to.kind, at |-> to.at, asked |-> to.asked, tenants |-> to.tenants,
            members |-> to.members, list |-> to.list, bad |-> to.bad]
  BY <1>1
<1> QED
  BY <1>1, <1>2, Zenon DEF IsCommand

LEMMA NextTenantKeeps ==
  ASSUME CompareInv, NEW bad \in BOOLEAN, Comparing!Moves(Comparing!NextTenant(bad)),
         ~bad /\ ~s6.bad /\ AtTenant(s6) \in s6.tenants => Held(s6.kind, AtTenant(s6))
  PROVE  CompareInv'
<1> DEFINE to == Comparing!NextTenant(bad)
           found == (s6.bad \/ bad)
           left == s6.tenants \ {AtTenant(s6)}
<1>1. IsCommand(s6)
  BY DEF CompareInv, CompareTypes
<1>2. /\ to.kind = s6.kind /\ to.at = "tenant" /\ to.asked = s6.asked
      /\ to.tenants = s6.tenants \ {AtTenant(s6)} /\ to.members = {} /\ to.list = {} /\ to.bad = found
      /\ to = [kind |-> to.kind, at |-> to.at, asked |-> to.asked, tenants |-> to.tenants,
               members |-> to.members, list |-> to.list, bad |-> to.bad]
  <2>1. to = [s6 EXCEPT !.at = "tenant", !.bad = found, !.tenants = left, !.members = {}, !.list = {}]
    BY CurrentIs, Zenon DEF Comparing!NextTenant
  <2> HIDE DEF to, found
  <2>3. to = [kind |-> s6.kind, at |-> "tenant", asked |-> s6.asked, tenants |-> left,
              members |-> {}, list |-> {}, bad |-> found]
    BY <1>1, <2>1, TenantMoves, Zenon
  <2> QED
    BY <2>3
<1>3. to.bad = (s6.bad \/ bad)
  BY <1>2, Zenon
<1> HIDE DEF to, found
<1>4. to.bad \in BOOLEAN /\ (~to.bad => ~s6.bad /\ ~bad)
  BY <1>1, <1>3, Zenon DEF IsCommand
<1>5. IsCommand(to)
  BY <1>1, <1>2, <1>4 DEF IsCommand
<1>6. Stage(to)
  BY <1>2 DEF Stage
<1>7. ~to.bad => ~s6.bad /\ \A t \in s6.tenants \ to.tenants : Held(s6.kind, t)
  BY <1>2, <1>4
<1>8. Comparing!Moves(to)
  BY DEF to
<1> QED
  BY <1>2, <1>5, <1>6, <1>7, <1>8, MoveKeeps

LEMMA BeginKeeps ==
  ASSUME CompareInv, NEW kind \in {"check", "diff", "vehicles"}, NEW named \in SUBSET Tenants,
         Comparing!Begin(kind, named)
  PROVE  CompareInv'
<1> DEFINE asked == Comparing!resolveTenantIDs(kind, named)
<1>1. asked \subseteq Tenants
  BY DEF Comparing!resolveTenantIDs, CompareInv, CompareTypes
<1>2. PICK at \in {"failure", "tenant"} :
        s6' = [kind |-> kind, at |-> at, asked |-> asked, tenants |-> asked, members |-> {},
               list |-> {}, bad |-> FALSE]
  <2> HIDE DEF asked
  <2>1. s6' = [Comparing!Nowhere EXCEPT !.kind = kind, !.asked = asked, !.tenants = asked,
                   !.at = IF kind = "check" /\ asked = {} THEN "failure" ELSE "tenant"]
    BY Zenon DEF Comparing!Begin, asked
  <2> QED
    BY <2>1 DEF Comparing!Nowhere
<1>3. UNCHANGED <<s1, s2, s3, s4, s5, s8>>
  BY DEF Comparing!Begin
<1> HIDE DEF asked
<1>4. IsCommand(s6)'
  BY <1>1, <1>2 DEF IsCommand
<1>5. Stage(s6)' /\ Passed(s6)'
  BY <1>2 DEF Stage, Passed
<1> QED
  BY <1>3, <1>4, <1>5 DEF CompareInv, CompareTypes

LEMMA CompareActionsKeep ==
  ASSUME CompareInv,
         \/ Comparing!CheckTenant \/ Comparing!ListMembers \/ Comparing!NoMemberLeft
         \/ \E m \in s6.members : Comparing!CompareMember(m)
         \/ Comparing!ReadMode \/ Comparing!ReadEntitled \/ Comparing!readLocalVehicleTokenIDs
         \/ Comparing!Aborts \/ Comparing!Finish
  PROVE  CompareInv'
<1> DEFINE t == AtTenant(s6)
<1>1. /\ IsCommand(s6) /\ Stage(s6) /\ Comparing!Current = t
      /\ s3 \in [Tenants \X Accounts -> Comparing!Rows] /\ s4 \in [Tenants \X Accounts -> Remote]
      /\ s6.tenants \subseteq Tenants
  BY CurrentIs DEF CompareInv, CompareTypes, IsCommand
<1>2. ASSUME NEW to, Comparing!Moves(to), IsCommand(to), to.kind = s6.kind, to.asked = s6.asked,
             to.tenants = s6.tenants, ~to.bad => ~s6.bad, Stage(to)
      PROVE  CompareInv'
  BY <1>2, MoveKeeps
<1> HIDE DEF t
<1>3. CASE Comparing!CheckTenant
  <2>1. s6.kind = "check"
    BY <1>3 DEF Comparing!CheckTenant
  <2>2. CASE Comparing!Moves(Comparing!NextTenant(t \notin s2))
    <3>1. (t \notin s2) \in BOOLEAN
      BY Zenon
    <3>2. ~(t \notin s2) => Held(s6.kind, t)
      BY <2>1 DEF Held, LetIn
    <3> QED
      BY <2>2, <3>1, <3>2, NextTenantKeeps, Zenon DEF t
  <2>3. CASE Comparing!Moves(Comparing!NextTenant(TRUE))
    BY <2>3, NextTenantKeeps
  <2> QED
    BY <1>1, <1>3, <2>2, <2>3, Zenon DEF Comparing!CheckTenant
<1>4. CASE Comparing!ListMembers
  <2>1. PICK M : /\ M = { [wallet |-> w, row |-> s3[<<t, w>>]] : w \in { x \in Accounts : s3[<<t, x>>] # Comparing!NoRow } }
                 /\ Comparing!Moves([s6 EXCEPT !.at = "members", !.members = M])
    BY <1>1, <1>4, Zenon DEF Comparing!ListMembers
  <2>2. PICK to : to = [s6 EXCEPT !.at = "members", !.members = M]
    OBVIOUS
  <2>7. to = [kind |-> s6.kind, at |-> "members", asked |-> s6.asked, tenants |-> s6.tenants,
                 members |-> M, list |-> s6.list, bad |-> s6.bad]
    BY <1>1, <2>2, MembersMove, Zenon
  <2>3. /\ IsCommand(to) /\ to.at = "members" /\ to.kind = s6.kind /\ to.asked = s6.asked
        /\ to.tenants = s6.tenants /\ to.bad = s6.bad /\ to.members = M
    BY <1>1, <2>7, CommandStays
  <2>4. AtTenant(to) = t
    BY <2>3 DEF AtTenant, t
  <2>5. MembersRead(to)
    BY <2>1, <2>3, <2>4 DEF MembersRead
  <2>6. Stage(to)
    BY <1>4, <2>3, <2>5 DEF Stage, Comparing!ListMembers
  <2> QED
    BY <1>2, <2>1, <2>2, <2>3, <2>6
<1>5. CASE Comparing!NoMemberLeft
  <2>1. s6.at = "members" /\ s6.members = {} /\ Comparing!Moves(Comparing!NextTenant(FALSE))
    BY <1>5 DEF Comparing!NoMemberLeft
  <2>2. ~s6.bad /\ t \in s6.tenants => Held(s6.kind, t)
    BY <1>1, <2>1 DEF Stage, MembersRead, Held, MembersHeld, t
  <2> QED
    BY <2>1, <2>2, NextTenantKeeps DEF t
<1>7. CASE Comparing!ReadMode
  <2>1. s6.at = "tenant" /\ s6.kind = "vehicles"
    BY <1>7 DEF Comparing!ReadMode
  <2>2. CASE s5[t].explicit
    <3>1. Comparing!Moves([s6 EXCEPT !.at = "entitled"])
      BY <1>1, <1>7, <2>2, Zenon DEF Comparing!ReadMode
    <3>2. PICK to : to = [s6 EXCEPT !.at = "entitled"]
      OBVIOUS
    <3>5. to = [kind |-> s6.kind, at |-> "entitled", asked |-> s6.asked, tenants |-> s6.tenants,
                 members |-> s6.members, list |-> s6.list, bad |-> s6.bad]
      BY <1>1, <3>2, StageMoves, Zenon
    <3>3. /\ IsCommand(to) /\ to.at = "entitled" /\ to.kind = s6.kind /\ to.asked = s6.asked
          /\ to.tenants = s6.tenants /\ to.bad = s6.bad
      BY <1>1, <3>5, CommandStays
    <3>4. Stage(to)
      BY <2>1, <3>3 DEF Stage
    <3> QED
      BY <1>2, <3>1, <3>2, <3>3, <3>4
  <2>3. CASE ~s5[t].explicit
    <3>1. Comparing!Moves(Comparing!NextTenant(FALSE))
      BY <1>1, <1>7, <2>3, Zenon DEF Comparing!ReadMode
    <3>2. Held(s6.kind, t)
      BY <2>1, <2>3 DEF Held, FleetHeld
    <3> QED
      BY <3>1, <3>2, NextTenantKeeps DEF t
  <2> QED
    BY <2>2, <2>3
<1>8. CASE Comparing!ReadEntitled
  <2>1. PICK L : /\ L = IF s5[t].explicit THEN s5[t].entitled ELSE {}
                 /\ Comparing!Moves([s6 EXCEPT !.at = "rows", !.list = L])
    BY <1>1, <1>8, Zenon DEF Comparing!ReadEntitled
  <2>2. PICK to : to = [s6 EXCEPT !.at = "rows", !.list = L]
    OBVIOUS
  <2>8. to = [kind |-> s6.kind, at |-> "rows", asked |-> s6.asked, tenants |-> s6.tenants,
                 members |-> s6.members, list |-> L, bad |-> s6.bad]
    BY <1>1, <2>2, ListMoves, Zenon
  <2>3. /\ IsCommand(to) /\ to.at = "rows" /\ to.kind = s6.kind /\ to.asked = s6.asked
        /\ to.tenants = s6.tenants /\ to.bad = s6.bad /\ to.list = L
    BY <1>1, <2>8, CommandStays
  <2>4. AtTenant(to) = t
    BY <2>3 DEF AtTenant, t
  <2>5. EntitledRead(to)
    BY <2>1, <2>3, <2>4 DEF EntitledRead
  <2>6. s6.kind = "vehicles"
    BY <1>1, <1>8 DEF Stage, Comparing!ReadEntitled
  <2>7. Stage(to)
    BY <2>3, <2>5, <2>6 DEF Stage
  <2> QED
    BY <1>2, <2>1, <2>2, <2>3, <2>7
<1>9. CASE Comparing!readLocalVehicleTokenIDs
  <2> DEFINE d == Comparing!compareVehicleSets(s6.list, s5[t].local)
             bad == d.missing # {} \/ d.extra # {}
  <2>1. s6.at = "rows" /\ Comparing!Moves(Comparing!NextTenant(bad))
    BY <1>1, <1>9, Zenon DEF Comparing!readLocalVehicleTokenIDs
  <2>2. d.missing = s6.list \ s5[t].local /\ d.extra = s5[t].local \ s6.list
    BY DEF Comparing!compareVehicleSets
  <2> HIDE DEF d
  <2>3. bad \in BOOLEAN
    BY Zenon
  <2>4. ~bad /\ t \in s6.tenants => Held(s6.kind, t)
    <3>1. ~bad => s6.list = s5[t].local
      BY <2>2
    <3>2. s6.kind = "vehicles" /\ EntitledRead(s6)
      BY <1>1, <2>1 DEF Stage
    <3> HIDE DEF bad
    <3> QED
      BY <3>1, <3>2 DEF EntitledRead, Held, FleetHeld, t
  <2> HIDE DEF bad
  <2> QED
    BY <2>1, <2>3, <2>4, NextTenantKeeps, Zenon DEF t
<1>10. CASE Comparing!Aborts
  <2>1. PICK to : to = [s6 EXCEPT !.at = "failure"]
    OBVIOUS
  <2>5. to = [kind |-> s6.kind, at |-> "failure", asked |-> s6.asked, tenants |-> s6.tenants,
                 members |-> s6.members, list |-> s6.list, bad |-> s6.bad]
    BY <1>1, <2>1, StageMoves, Zenon
  <2>2. /\ IsCommand(to) /\ to.at = "failure" /\ to.kind = s6.kind /\ to.asked = s6.asked
        /\ to.tenants = s6.tenants /\ to.bad = s6.bad
    BY <1>1, <2>5, CommandStays
  <2>3. Stage(to)
    BY <2>2 DEF Stage
  <2>4. Comparing!Moves(to)
    BY <1>10, <2>1 DEF Comparing!Aborts
  <2> QED
    BY <1>2, <2>2, <2>3, <2>4
<1>11. CASE Comparing!Finish
  <2>1. PICK at : at = IF s6.bad THEN "failure" ELSE "success"
    OBVIOUS
  <2>2. PICK to : to = [s6 EXCEPT !.at = at]
    OBVIOUS
  <2>8. to = [kind |-> s6.kind, at |-> at, asked |-> s6.asked, tenants |-> s6.tenants,
                 members |-> s6.members, list |-> s6.list, bad |-> s6.bad]
    BY <1>1, <2>2, StageMoves, Zenon
  <2>3. /\ IsCommand(to) /\ to.at = at /\ to.kind = s6.kind /\ to.asked = s6.asked
        /\ to.tenants = s6.tenants /\ to.bad = s6.bad
    BY <1>1, <2>8, CommandStays
  <2>4. s6.tenants = {} /\ Comparing!Moves(to)
    BY <1>11, <2>1, <2>2, Zenon DEF Comparing!Finish
  <2>5. to.at = "success" => ~to.bad
    BY <2>1, <2>3
  <2>6. to.at \in {"failure", "success"}
    BY <2>1, <2>3
  <2>7. Stage(to)
    BY <2>3, <2>4, <2>5, <2>6 DEF Stage
  <2> QED
    BY <1>2, <2>3, <2>4, <2>7
<1>6. ASSUME NEW m \in s6.members, Comparing!CompareMember(m)
      PROVE  CompareInv'
  <2> DEFINE verdict == Comparing!compareAccess(Comparing!fleetLiteLocalAccess(m.row), s4[<<t, m.wallet>>])
             bad == (s6.bad \/ verdict \in Comparing!Losses)
  <2>1. /\ s6.at = "members"
        /\ Comparing!Moves([s6 EXCEPT !.members = @ \ {m}, !.bad = @ \/ verdict \in Comparing!Losses])
    BY <1>1, <1>6, Zenon DEF Comparing!CompareMember
  <2>2. PICK to : to = [s6 EXCEPT !.members = @ \ {m}, !.bad = @ \/ verdict \in Comparing!Losses]
    OBVIOUS
  <2>3. /\ to.at = "members" /\ to.kind = s6.kind /\ to.asked = s6.asked /\ to.tenants = s6.tenants
        /\ to.members = s6.members \ {m} /\ to.bad = bad
        /\ to = [kind |-> to.kind, at |-> to.at, asked |-> to.asked, tenants |-> to.tenants,
                 members |-> to.members, list |-> to.list, bad |-> to.bad]
    <3>1. PICK M, b : M = s6.members \ {m} /\ b = bad
      OBVIOUS
    <3>2. to = [s6 EXCEPT !.members = M, !.bad = b]
      BY <2>2, <3>1, Zenon
    <3>3. IsCommand(s6) /\ s6.at = "members"
      BY <1>1, <2>1
    <3> HIDE DEF bad
    <3>4. to = [kind |-> s6.kind, at |-> s6.at, asked |-> s6.asked, tenants |-> s6.tenants,
                 members |-> M, list |-> s6.list, bad |-> b]
      BY <3>2, <3>3, MemberMoves, Zenon
    <3> QED
      BY <3>1, <3>3, <3>4
  <2> HIDE DEF verdict
  <2>4. bad \in BOOLEAN /\ (~bad => ~s6.bad /\ verdict \notin Comparing!Losses)
    BY Zenon
  <2> HIDE DEF bad
  <2>5. IsCommand(to) /\ AtTenant(to) = t
    BY <1>1, <2>3, <2>4 DEF IsCommand, AtTenant, t
  <2>6. s6.kind = "diff" /\ MembersRead(s6)
    BY <1>1, <2>1 DEF Stage
  <2>7. MembersRead(to)
    <3> SUFFICES ASSUME ~to.bad, t \in s6.tenants, NEW w \in Accounts,
                        <<t, w>> \in s7, s3[<<t, w>>] # Comparing!NoRow,
                        [wallet |-> w, row |-> s3[<<t, w>>]] \notin to.members
                 PROVE  MemberHeld(t, w)
      BY <2>3, <2>5 DEF MembersRead
    <3>1. \/ [wallet |-> w, row |-> s3[<<t, w>>]] \in s6.members
          \/ MemberHeld(t, w)
      BY <2>3, <2>4, <2>6 DEF MembersRead, t
    <3>2. CASE m = [wallet |-> w, row |-> s3[<<t, w>>]]
      <4>1. m.wallet = w /\ m.row = s3[<<t, w>>]
        BY <3>2
      <4>2. t \in Tenants /\ s3[<<t, w>>] \in Comparing!Rows /\ s4[<<t, w>>] \in Remote
        BY <1>1
      <4>3. Comparing!compareAccess(Comparing!fleetLiteLocalAccess(s3[<<t, w>>]), s4[<<t, w>>]) \notin Comparing!Losses
        BY <2>3, <2>4, <4>1 DEF verdict
      <4> QED
        BY <4>2, <4>3, NothingLost DEF MemberHeld
    <3> QED
      BY <2>3, <3>1, <3>2
  <2>8. Stage(to)
    BY <2>3, <2>6, <2>7 DEF Stage
  <2>9. Comparing!Moves(to) /\ (~to.bad => ~s6.bad)
    BY <2>1, <2>2, <2>3, <2>4, Zenon
  <2> QED
    BY <1>2, <2>3, <2>5, <2>8, <2>9
<1> QED
  BY <1>3, <1>4, <1>5, <1>6, <1>7, <1>8, <1>9, <1>10, <1>11

(* Whatever drifts meanwhile is not steady, and nothing else is touched. *)
LEMMA MembershipDriftKeeps ==
  ASSUME CompareInv, NEW t \in Tenants, NEW w \in Accounts, Comparing!MembershipDrifts(t, w)
  PROVE  CompareInv'
<1>1. /\ s7' = s7 \ {<<t, w>>} /\ UNCHANGED <<s1, s2, s5, s6>>
  BY DEF Comparing!MembershipDrifts, Comparing!Drift
<1>2. \/ s4' = s4 /\ \E r \in Comparing!Rows : s3' = [s3 EXCEPT ![<<t, w>>] = r]
      \/ s3' = s3 /\ \E a \in Remote : s4' = [s4 EXCEPT ![<<t, w>>] = a]
  BY DEF Comparing!MembershipDrifts, Remote
<1>3. /\ s3 \in [Tenants \X Accounts -> Comparing!Rows] /\ s4 \in [Tenants \X Accounts -> Remote]
      /\ s6.tenants \subseteq Tenants /\ s6.asked \subseteq Tenants
  BY DEF CompareInv, CompareTypes, IsCommand
<1>4. CompareTypes'
  BY <1>1, <1>2, <1>3 DEF CompareInv, CompareTypes
<1>5. ASSUME NEW u \in Tenants, NEW x \in Accounts, <<u, x>> # <<t, w>>
      PROVE  s3'[<<u, x>>] = s3[<<u, x>>] /\ s4'[<<u, x>>] = s4[<<u, x>>]
  BY <1>2, <1>3, <1>5
<1>6. ASSUME NEW u \in Tenants, NEW x \in Accounts, <<u, x>> \in s7'
      PROVE  /\ <<u, x>> \in s7 /\ s3'[<<u, x>>] = s3[<<u, x>>]
             /\ MemberHeld(u, x)' <=> MemberHeld(u, x)
  BY <1>1, <1>5, <1>6 DEF MemberHeld
<1>7. ASSUME NEW u \in Tenants, MembersHeld(u)
      PROVE  MembersHeld(u)'
  BY <1>6, <1>7 DEF MembersHeld
<1>8. ASSUME NEW u \in Tenants
      PROVE  /\ LetIn(u) => LetIn(u)'
             /\ FleetHeld(u) => FleetHeld(u)'
  BY <1>1 DEF LetIn, FleetHeld
<1>9. Passed(s6)'
  BY <1>1, <1>3, <1>7, <1>8 DEF CompareInv, Passed, Held
<1>10. AtTenant(s6)' = AtTenant(s6)
  BY <1>1 DEF AtTenant
<1>11. MembersRead(s6) => MembersRead(s6)'
  BY <1>1, <1>3, <1>6, <1>10 DEF MembersRead
<1>12. EntitledRead(s6) => EntitledRead(s6)'
  BY <1>1, <1>10 DEF EntitledRead
<1>13. Stage(s6)'
  BY <1>1, <1>11, <1>12 DEF CompareInv, Stage
<1> QED
  BY <1>4, <1>9, <1>13 DEF CompareInv

LEMMA FleetDriftKeeps ==
  ASSUME CompareInv, NEW t \in Tenants, NEW car \in Cars, Comparing!FleetDrifts(t, car)
  PROVE  CompareInv'
<1>1. /\ s7' = s7 \ {<<t, car>>} /\ UNCHANGED <<s1, s2, s3, s4, s6>>
  BY DEF Comparing!FleetDrifts, Comparing!Drift
<1>2. PICK own \in SUBSET Cars :
        /\ \/ s5' = [s5 EXCEPT ![t].entitled = own] /\ \A c \in Cars \ {car} : c \in own <=> c \in s5[t].entitled
           \/ s5' = [s5 EXCEPT ![t].local = own] /\ \A c \in Cars \ {car} : c \in own <=> c \in s5[t].local
  <2>1. s5[t] \in Garage /\ s5 \in [Tenants -> Garage]
    BY DEF CompareInv, CompareTypes
  <2>2. /\ Comparing!Toggle(s5[t].entitled, car) \in SUBSET Cars
        /\ \A c \in Cars \ {car} : c \in Comparing!Toggle(s5[t].entitled, car) <=> c \in s5[t].entitled
        /\ Comparing!Toggle(s5[t].local, car) \in SUBSET Cars
        /\ \A c \in Cars \ {car} : c \in Comparing!Toggle(s5[t].local, car) <=> c \in s5[t].local
    BY <2>1 DEF Comparing!Toggle, Garage
  <2>3. \/ s5' = [s5 EXCEPT ![t].entitled = Comparing!Toggle(s5[t].entitled, car)]
        \/ s5' = [s5 EXCEPT ![t].local = Comparing!Toggle(s5[t].local, car)]
    BY <2>1 DEF Comparing!FleetDrifts
  <2> QED
    BY <2>2, <2>3
<1>3. /\ s5 \in [Tenants -> Garage] /\ s6.tenants \subseteq Tenants /\ s6.asked \subseteq Tenants
  BY DEF CompareInv, CompareTypes, IsCommand
<1>4. /\ s5' \in [Tenants -> Garage]
      /\ \A u \in Tenants \ {t} : s5'[u] = s5[u]
      /\ s5'[t].explicit = s5[t].explicit
      /\ \A c \in Cars \ {car} : /\ c \in s5'[t].entitled <=> c \in s5[t].entitled
                                 /\ c \in s5'[t].local <=> c \in s5[t].local
  <2>1. PICK g \in Garage : /\ s5' = [s5 EXCEPT ![t] = g] /\ g.explicit = s5[t].explicit
                            /\ \A c \in Cars \ {car} : /\ c \in g.entitled <=> c \in s5[t].entitled
                                                       /\ c \in g.local <=> c \in s5[t].local
    <3>1. PICK g \in Garage : g = s5[t]
      BY <1>3
    <3>2. CASE s5' = [s5 EXCEPT ![t].entitled = own] /\ \A c \in Cars \ {car} : c \in own <=> c \in s5[t].entitled
      <4>1. PICK h \in Garage : h = [g EXCEPT !.entitled = own]
        BY DEF Garage
      <4>2. h.explicit = g.explicit /\ h.entitled = own /\ h.local = g.local
        BY <4>1 DEF Garage
      <4> QED
        BY <1>3, <3>1, <3>2, <4>1, <4>2
    <3>3. CASE s5' = [s5 EXCEPT ![t].local = own] /\ \A c \in Cars \ {car} : c \in own <=> c \in s5[t].local
      <4>1. PICK h \in Garage : h = [g EXCEPT !.local = own]
        BY DEF Garage
      <4>2. h.explicit = g.explicit /\ h.local = own /\ h.entitled = g.entitled
        BY <4>1 DEF Garage
      <4> QED
        BY <1>3, <3>1, <3>3, <4>1, <4>2
    <3> QED
      BY <1>2, <3>2, <3>3
  <2> QED
    BY <1>3, <2>1
<1>5. CompareTypes'
  BY <1>1, <1>4 DEF CompareInv, CompareTypes
<1>6. ASSUME NEW u \in Tenants
      PROVE  /\ s5'[u].explicit = s5[u].explicit
             /\ \A c \in Cars : <<u, c>> \in s7' => /\ <<u, c>> \in s7
                                                    /\ c \in s5'[u].entitled <=> c \in s5[u].entitled
                                                    /\ c \in s5'[u].local <=> c \in s5[u].local
  BY <1>1, <1>4
<1>7. ASSUME NEW u \in Tenants
      PROVE  /\ LetIn(u) => LetIn(u)'
             /\ MembersHeld(u) => MembersHeld(u)'
             /\ FleetHeld(u) => FleetHeld(u)'
  <2>1. (LetIn(u) => LetIn(u)') /\ (MembersHeld(u) => MembersHeld(u)')
    BY <1>1 DEF LetIn, MembersHeld, MemberHeld
  <2>2. FleetHeld(u) => FleetHeld(u)'
    BY <1>1, <1>6 DEF FleetHeld
  <2> QED
    BY <2>1, <2>2
<1>8. Passed(s6)'
  BY <1>1, <1>3, <1>7 DEF CompareInv, Passed, Held
<1>9. AtTenant(s6)' = AtTenant(s6)
  BY <1>1 DEF AtTenant
<1>10. MembersRead(s6) => MembersRead(s6)'
  BY <1>1, <1>9 DEF MembersRead, MemberHeld
<1>11. EntitledRead(s6) => EntitledRead(s6)'
  BY <1>1, <1>3, <1>6, <1>9 DEF EntitledRead
<1>12. Stage(s6)'
  BY <1>1, <1>10, <1>11 DEF CompareInv, Stage
<1> QED
  BY <1>5, <1>8, <1>12 DEF CompareInv

LEMMA TenantDriftKeeps ==
  ASSUME CompareInv, NEW t \in Tenants, Comparing!TenantDrifts(t)
  PROVE  CompareInv'
<1>1. /\ s7' = s7 \ {<<t, "itself">>} /\ UNCHANGED <<s1, s3, s4, s6>>
  BY DEF Comparing!TenantDrifts, Comparing!Drift
<1>2. /\ s5 \in [Tenants -> Garage] /\ s6.tenants \subseteq Tenants /\ s6.asked \subseteq Tenants
  BY DEF CompareInv, CompareTypes, IsCommand
<1>3. /\ \A u \in Tenants \ {t} : s5'[u] = s5[u] /\ (u \in s2' <=> u \in s2)
      /\ s5' \in [Tenants -> Garage]
  <2>1. CASE s2' = Comparing!Toggle(s2, t) /\ s5' = s5
    BY <1>2, <2>1 DEF Comparing!Toggle
  <2>2. CASE s2' = s2 /\ s5' = [s5 EXCEPT ![t].explicit = ~@]
    <3>1. s5[t] \in Garage /\ (~s5[t].explicit) \in BOOLEAN
      BY <1>2, Zenon
    <3>2. PICK b \in BOOLEAN : b = ~s5[t].explicit
      BY <3>1
    <3>3. s5' = [s5 EXCEPT ![t] = [s5[t] EXCEPT !.explicit = b]]
      BY <2>2, <3>2, Zenon
    <3>4. [s5[t] EXCEPT !.explicit = b] \in Garage
      BY <3>1 DEF Garage
    <3> HIDE <3>2
    <3> QED
      BY <1>2, <2>2, <3>3, <3>4
  <2> QED
    BY <2>1, <2>2, Zenon DEF Comparing!TenantDrifts
<1>4. CompareTypes'
  BY <1>1, <1>3 DEF CompareInv, CompareTypes
<1>5. ASSUME NEW u \in Tenants
      PROVE  /\ LetIn(u) => LetIn(u)'
             /\ MembersHeld(u) => MembersHeld(u)'
             /\ FleetHeld(u) => FleetHeld(u)'
  <2>1. (<<u, "itself">> \in s7' => u # t) /\ s7' \subseteq s7
    BY <1>1
  <2>2. MembersHeld(u) => MembersHeld(u)'
    BY <1>1, <2>1 DEF MembersHeld, MemberHeld
  <2>3. (LetIn(u) => LetIn(u)') /\ (FleetHeld(u) => FleetHeld(u)')
    BY <1>3, <2>1 DEF LetIn, FleetHeld
  <2> QED
    BY <2>2, <2>3
<1>6. Passed(s6)'
  BY <1>1, <1>2, <1>5 DEF CompareInv, Passed, Held
<1>7. AtTenant(s6)' = AtTenant(s6) /\ s7' \subseteq s7 /\ <<t, "itself">> \notin s7'
  BY <1>1 DEF AtTenant
<1>8. MembersRead(s6) => MembersRead(s6)'
  BY <1>1, <1>7 DEF MembersRead, MemberHeld
<1>9. EntitledRead(s6) => EntitledRead(s6)'
  <2>1. AtTenant(s6) \in s6.tenants /\ AtTenant(s6) # t => s5'[AtTenant(s6)] = s5[AtTenant(s6)]
    BY <1>2, <1>3
  <2> QED
    BY <1>1, <1>7, <2>1 DEF EntitledRead
<1>10. Stage(s6)'
  BY <1>1, <1>8, <1>9 DEF CompareInv, Stage
<1> QED
  BY <1>4, <1>6, <1>10 DEF CompareInv

LEMMA CompareStep ==
  ASSUME CompareInv, Comparing!Next
  PROVE  CompareInv'
<1>1. \A t \in Tenants : {t} \in SUBSET Tenants /\ Tenants \in SUBSET Tenants
  OBVIOUS
<1>2. CASE \E kind \in {"check", "diff", "vehicles"},
              named \in {Tenants} \union { {t} : t \in Tenants } : Comparing!Begin(kind, named)
  BY <1>1, <1>2, BeginKeeps
<1>3. CASE \E t \in Tenants : \/ Comparing!TenantDrifts(t)
                              \/ \E w \in Accounts : t \in s1 /\ Comparing!MembershipDrifts(t, w)
                              \/ \E c \in Cars : t \notin s1 /\ Comparing!FleetDrifts(t, c)
  BY <1>3, TenantDriftKeeps, MembershipDriftKeeps, FleetDriftKeeps
<1> QED
  BY <1>2, <1>3, CompareActionsKeep DEF Comparing!Next

LEMMA SuccessIsRight ==
  ASSUME CompareInv
  PROVE  Comparing!SuccessHolds
<1> SUFFICES ASSUME s6.at = "success", NEW t \in s6.asked
             PROVE  /\ s6.kind = "check" /\ <<t, "itself">> \in s7 => t \in s2
                    /\ s6.kind = "diff" =>
                         \A w \in { x \in Accounts : <<t, x>> \in s7 /\ s3[t, x] # Comparing!NoRow } :
                           /\ s4[t, w].via # "none"
                           /\ s3[t, w].role = "owner" => Comparing!Capabilities \subseteq s4[t, w].caps
                           /\ Comparing!Sees(s3[t, w].scope) \subseteq Comparing!Sees(s4[t, w].scope)
                    /\ s6.kind = "vehicles" /\ <<t, "itself">> \in s7 /\ s5[t].explicit =>
                         \A c \in { x \in Cars : <<t, x>> \in s7 } :
                           c \in s5[t].entitled <=> c \in s5[t].local
  BY DEF Comparing!SuccessHolds
<1>1. Held(s6.kind, t)
  BY DEF CompareInv, Stage, Passed
<1> QED
  BY <1>1 DEF Held, LetIn, MembersHeld, MemberHeld, FleetHeld

LEMMA ComparisonsRest ==
  ASSUME CompareInv, UNCHANGED <<s1, s2, s3, s4, s5, s6, s7, s8>>
  PROVE  CompareInv'
BY DEF CompareInv, CompareTypes, Stage, Passed, MembersRead, EntitledRead, Held, MemberHeld, LetIn, MembersHeld, FleetHeld

-----------------------------------------------------------------------------
(* A behaviour of SubjectSpec keeps the invariant of its subject.          *)

LEMMA AlwaysTokens == SubjectSpec => [](subject = "tokens" => TokensInv)
<1> DEFINE Inv == subject = "tokens" => TokensInv
<1>1. SubjectInit => Inv
  BY TokensStart DEF SubjectInit
<1>2. Inv /\ [SubjectNext]_allVars => Inv'
  BY SubjectStays, TokenSteps, TokensStep, TokensRest
<1> QED
  BY <1>1, <1>2, PTL DEF SubjectSpec

LEMMA AlwaysSecrets == SubjectSpec => [](subject = "secrets" => SecretsInv)
<1> DEFINE Inv == subject = "secrets" => SecretsInv
<1>1. SubjectInit => Inv
  BY SecretsStart, KeysAssumption DEF SubjectInit
<1>2. Inv /\ [SubjectNext]_allVars => Inv'
  BY SubjectStays, SecretSteps, SecretsStep, SecretsRest
<1> QED
  BY <1>1, <1>2, PTL DEF SubjectSpec

LEMMA AlwaysFences == SubjectSpec => [](subject = "geofences" => FenceInv)
<1> DEFINE Inv == subject = "geofences" => FenceInv
<1>1. SubjectInit => Inv
  BY FencesStart DEF SubjectInit
<1>2. Inv /\ [SubjectNext]_allVars => Inv'
  BY SubjectStays, FenceSteps, FencesStep, FencesRest
<1> QED
  BY <1>1, <1>2, PTL DEF SubjectSpec

LEMMA AlwaysInputs == SubjectSpec => [](subject = "inputs" => InputsInv)
<1> DEFINE Inv == subject = "inputs" => InputsInv
<1>1. SubjectInit => Inv
  BY InputsStart DEF SubjectInit
<1>2. Inv /\ [SubjectNext]_allVars => Inv'
  BY SubjectStays, InputSteps, InputsStep, InputsRest
<1> QED
  BY <1>1, <1>2, PTL DEF SubjectSpec

LEMMA AlwaysShared == SubjectSpec => [](subject = "shares" => SharesInv)
<1> DEFINE Inv == subject = "shares" => SharesInv
<1>1. SubjectInit => Inv
  BY SharesStart DEF SubjectInit
<1>2. Inv /\ [SubjectNext]_allVars => Inv'
  BY SubjectStays, ShareSteps, SharesStep, SharedRest
<1> QED
  BY <1>1, <1>2, PTL DEF SubjectSpec

LEMMA AlwaysInvites == SubjectSpec => [](subject = "invitations" => InvitesInv)
<1> DEFINE Inv == subject = "invitations" => InvitesInv
<1>1. SubjectInit => Inv
  BY InvitesStart DEF SubjectInit
<1>2. Inv /\ [SubjectNext]_allVars => Inv'
  BY SubjectStays, InviteSteps, InvitesStep, InvitesRest
<1> QED
  BY <1>1, <1>2, PTL DEF SubjectSpec

LEMMA AlwaysPreferences == SubjectSpec => [](subject = "preferences" => PreferInv)
<1> DEFINE Inv == subject = "preferences" => PreferInv
<1>1. SubjectInit => Inv
  BY PreferStart DEF SubjectInit
<1>2. Inv /\ [SubjectNext]_allVars => Inv'
  BY SubjectStays, PreferSteps, PreferStep, PreferencesRest
<1> QED
  BY <1>1, <1>2, PTL DEF SubjectSpec

LEMMA AlwaysLists == SubjectSpec => [](subject = "lists" => ListInv)
<1> DEFINE Inv == subject = "lists" => ListInv
<1>1. SubjectInit => Inv
  BY ListsStart DEF SubjectInit
<1>2. Inv /\ [SubjectNext]_allVars => Inv'
  BY SubjectStays, ListSteps, ListsStep, ListsRest
<1> QED
  BY <1>1, <1>2, PTL DEF SubjectSpec

LEMMA AlwaysComparisons == SubjectSpec => [](subject = "comparisons" => CompareInv)
<1> DEFINE Inv == subject = "comparisons" => CompareInv
<1>1. SubjectInit => Inv
  BY CompareStart DEF SubjectInit
<1>2. Inv /\ [SubjectNext]_allVars => Inv'
  BY SubjectStays, CompareSteps, CompareStep, ComparisonsRest
<1> QED
  BY <1>1, <1>2, PTL DEF SubjectSpec

-----------------------------------------------------------------------------
(* No token is served after it expired, for any number of requests, lives  *)
(* and margins, unless the tenancy service gave it with no more than the   *)
(* margin left (cacheTTLFromJWT).                                          *)
THEOREM TokensStayAlive == SubjectSpec => []TokensAreAlive
<1>1. (subject = "tokens" => TokensInv) => TokensAreAlive
  BY TokensAssumption DEF TokensAreAlive, TokensInv, EndsInTime, Token, Minting!TokensAreAlive
<1> QED
  BY <1>1, AlwaysTokens, PTL

(* The re-encryption writes every row that needs it or none, and no row    *)
(* loses the key entered last, for any number of tenants, unless an update *)
(* overlapped; a comparison that exits with success is right, for any      *)
(* number of tenants, wallets and vehicles, about all that did not change  *)
(* while it ran (secret_reencrypt.go, tenancy_check.go, tenancy_diff.go,   *)
(* vehicles_diff.go).                                                      *)
THEOREM CommandsDoHold == SubjectSpec => []CommandsHold
<1>1. (subject = "secrets" => SecretsInv) /\ (subject = "comparisons" => CompareInv) => CommandsHold
  BY SecretsSafe, SuccessIsRight DEF CommandsHold
<1> QED
  BY <1>1, AlwaysSecrets, AlwaysComparisons, PTL

(* Whatever requests and goroutines overlapped, once they are done, what   *)
(* is attested of a tenant's geofences and of their vehicles is what the   *)
(* tables say, unless two edits of one geofence overlapped                 *)
(* (republishCatalog). A geofence's row has groups just if its scope is    *)
(* one of groups, unless two updates overlapped, and they were the         *)
(* tenant's when it was written, or at most the life of a kept index and   *)
(* two calls before (normalizeGroups, groupIndex).                         *)
THEOREM PublishedStaysCurrent == SubjectSpec => []PublishedIsCurrent
<1>1. (subject = "geofences" => FenceInv) /\ (subject = "inputs" => InputsInv) => PublishedIsCurrent
  BY FencesAreCurrent, InputsFit DEF PublishedIsCurrent
<1> QED
  BY <1>1, AlwaysFences, AlwaysInputs, PTL

(* A dialog calls a job done only if it has landed, and failed only if it  *)
(* never will, for any number of dialogs, jobs and attempts (waitForJob).  *)
THEOREM VerdictsDoStand == SubjectSpec => []VerdictsStand
<1>1. (subject = "shares" => SharesInv) => VerdictsStand
  BY SharesStand DEF VerdictsStand
<1> QED
  BY <1>1, AlwaysShared, PTL

(* Joining and losing the right to invite take effect within the life of a *)
(* cached answer and a call, whatever these are (Authz,                    *)
(* requireManageMembers).                                                  *)
THEOREM AccessDoesFollow == SubjectSpec => []AccessFollowsMembership
<1>1. (subject = "invitations" => InvitesInv) => AccessFollowsMembership
  BY InvitesFollow DEF AccessFollowsMembership
<1> QED
  BY <1>1, AlwaysInvites, PTL

(* A choice of preference that nothing overlapped is not undone by another *)
(* browser's older one, for any number of browsers and keys                *)
(* (hydrateFromServer, pushToServer); and the list of vehicles a browser   *)
(* keeps is of the fleet of its address bar, with the favourites it set    *)
(* and of the enforcement it heard of (fleet-cache.ts).                    *)
THEOREM LatestDoesShow == SubjectSpec => []LatestChoiceShows
<1>1. (subject = "preferences" => PreferInv) /\ (subject = "lists" => ListInv) => LatestChoiceShows
  BY LatestShows, OwnListsShow, KeptListsAreCurrent DEF LatestChoiceShows
<1> QED
  BY <1>1, AlwaysPreferences, AlwaysLists, PTL
=============================================================================

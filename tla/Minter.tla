------------------------------- MODULE Minter -------------------------------
(***************************************************************************)
(* The tokens one replica mints and caches for one tenant                  *)
(* (dimo_auth_provider.go, mint_retry.go).                                 *)
(*                                                                         *)
(* A developer JWT is minted with the tenant's own license, or, for a      *)
(* tenant without one, fetched from the tenancy service, whose token may   *)
(* be old already; it is exchanged for vehicle and asset JWTs.  Everything *)
(* is cached by tenant id: tokens until shortly before they expire, the    *)
(* AuthService that holds the key for the life of the process.  A new      *)
(* tenant's license is probed under the id "validate:" and its client id.  *)
(***************************************************************************)
EXTENDS Naturals

CONSTANTS
  Callers,   \* requests that can overlap
  Clients,   \* client ids, and the numbers of their keys
  Life,      \* ticks a token is valid
  Margin,    \* ticks before its expiry a token leaves the cache
  Fallback   \* ticks one is cached that is inside the margin

VARIABLES
  own,       \* the tenant's license as its members entered it; client 0: none
  services,  \* per id, the license its AuthService was built with
  tokens,    \* per id, the cached developer JWT
  vehicle,   \* the cached vehicle JWT it was exchanged for
  caller     \* the requests

minterVars == <<own, services, tokens, vehicle, caller>>

None     == [client |-> 0, key |-> 0]
NoToken  == [is |-> FALSE, client |-> 0, left |-> 0, life |-> 0, short |-> FALSE]
Waiting  == [at |-> "idle", id |-> 0, pair |-> None, with |-> None, token |-> NoToken]
TenantId == 0
Ids      == {TenantId} \union Clients   \* the others are "validate:" and a client id
Mintable(pair) == pair.client # 0 /\ pair.client = pair.key

(* Mutant: a token is cached for as long as the cache keeps anything. *)
FixedTTL(life, fallback) == IF fallback > 0 THEN Life + fallback ELSE life

(* Until shortly before its expiry; the fallback once that is past. *)
cacheTTLFromJWT(life, fallback) == IF life > Margin THEN life - Margin ELSE fallback

(* A mint of this application has its life before it; the tenancy service  *)
(* may answer with one that has little left.                               *)
Cached(client, life, fallback) ==
  [is |-> TRUE, client |-> client, left |-> cacheTTLFromJWT(life, fallback),
   life |-> life, short |-> life <= Margin]

-----------------------------------------------------------------------------
(* A request that needs a token of the tenant, or the probe of a license. *)
Call(c, id, pair) ==
  /\ caller[c].at = "idle"
  /\ pair = own \/ id # TenantId
  /\ id # TenantId => id = pair.client
  /\ caller' = [caller EXCEPT ![c] = [Waiting EXCEPT !.at = "dev", !.id = id, !.pair = pair]]
  /\ UNCHANGED <<own, services, tokens, vehicle>>

(* The token goes on to the exchange; a probe is over. *)
Got(c, token, with) ==
  caller' = [caller EXCEPT ![c] = [@ EXCEPT !.at = "got", !.token = token, !.with = with]]

CachedJWT(c) ==
  LET token == tokens[caller[c].id]
  IN  /\ caller[c].at = "dev" /\ token.is
      /\ Got(c, token, caller[c].pair)
      /\ UNCHANGED <<own, services, tokens, vehicle>>

(* remoteDeveloperJWT: the operator's token, or an error. *)
RemoteJWT(c, life) ==
  /\ caller[c].at = "dev" /\ ~tokens[caller[c].id].is /\ caller[c].pair.client = 0
  /\ \/ LET token == Cached(0, life, Fallback)
        IN  tokens' = [tokens EXCEPT ![caller[c].id] = token] /\ Got(c, token, None)
     \/ UNCHANGED tokens /\ caller' = [caller EXCEPT ![c] = Waiting]
  /\ UNCHANGED <<own, services, vehicle>>

(* getOrCreateAuthService: built once per id, from the license at hand. *)
ServiceFor(id, pair) == IF services[id] = None THEN pair ELSE services[id]

(* mintWithRetry: three challenges at most; a wrong key never mints. *)
MintJWT(c) ==
  LET id   == caller[c].id
      with == ServiceFor(id, caller[c].pair)
  IN  /\ caller[c].at = "dev" /\ ~tokens[id].is /\ caller[c].pair.client # 0
      /\ services' = [services EXCEPT ![id] = with]
      /\ \/ /\ Mintable(with)
            /\ LET token == Cached(with.client, Life, Fallback)
               IN  tokens' = [tokens EXCEPT ![id] = token] /\ Got(c, token, with)
         \/ /\ UNCHANGED tokens
            /\ caller' = [caller EXCEPT ![c] = [@ EXCEPT !.at = "refused", !.with = with]]
      /\ UNCHANGED <<own, vehicle>>

(* GetVehicleJWT, unless one is cached: the exchange of the developer JWT, *)
(* which is refused once that has expired.                                  *)
Exchange(c) ==
  /\ caller[c].at = "got" /\ caller[c].id = TenantId /\ ~vehicle.is
  /\ services' = IF caller[c].pair.client = 0 THEN services
                 ELSE [services EXCEPT ![TenantId] = ServiceFor(TenantId, caller[c].pair)]
  /\ \/ caller[c].token.life > 0 /\ vehicle' = Cached(caller[c].token.client, Life, Fallback)
     \/ UNCHANGED vehicle
  /\ caller' = [caller EXCEPT ![c] = Waiting]
  /\ UNCHANGED <<own, tokens>>

Return(c) ==
  /\ caller[c].at \in {"got", "refused"}
  /\ caller' = [caller EXCEPT ![c] = Waiting]
  /\ UNCHANGED <<own, services, tokens, vehicle>>

(* UpdateCredentials, which tells the provider nothing. *)
Rotate(pair) ==
  /\ own # None
  /\ own' = pair
  /\ UNCHANGED <<services, tokens, vehicle, caller>>

Less(n) == IF n = 0 THEN 0 ELSE n - 1

Aged(token) == IF token.left <= 1 THEN NoToken
               ELSE [token EXCEPT !.left = @ - 1, !.life = Less(@)]

Tick ==
  /\ tokens' = [id \in Ids |-> Aged(tokens[id])] /\ vehicle' = Aged(vehicle)
  /\ caller' = [c \in Callers |-> [caller[c] EXCEPT !.token.life = Less(@)]]
  /\ UNCHANGED <<own, services>>

Restart ==
  /\ services' = [id \in Ids |-> None] /\ tokens' = [id \in Ids |-> NoToken]
  /\ vehicle' = NoToken /\ caller' = [c \in Callers |-> Waiting]
  /\ UNCHANGED own

Pairs == [client : Clients, key : Clients]

Init ==
  /\ own \in Pairs \union {None}
  /\ services = [id \in Ids |-> None] /\ tokens = [id \in Ids |-> NoToken]
  /\ vehicle = NoToken /\ caller = [c \in Callers |-> Waiting]

Next ==
  \/ Tick \/ Restart
  \/ \E pair \in Pairs : Rotate(pair)
  \/ \E c \in Callers :
       \/ \E pair \in Pairs \union {None} :
            \E id \in Ids : Call(c, id, pair)
       \/ CachedJWT(c) \/ MintJWT(c) \/ Exchange(c) \/ Return(c)
       \/ \E life \in 0..Life : RemoteJWT(c, life)

Spec == Init /\ [][Next]_minterVars

-----------------------------------------------------------------------------
(* Types: what is cached has time left; services hold entered licenses. *)
TypeOK ==
  /\ own \in Pairs \union {None}
  /\ services \in [Ids -> Pairs \union {None}]
  /\ \A token \in { tokens[id] : id \in Ids } \union {vehicle} :
       /\ token.client \in Clients \union {0} /\ token.life \in 0..Life
       /\ token.is => token.left > 0

(***************************************************************************)
(* "neither serve an expired token (fixed TTL too long)": a token is       *)
(* handed out expired only when the tenancy service gave it with less than *)
(* the margin left, when "already inside the margin" falls back to a fixed *)
(* time; and an exchanged token, whatever it was made of, never is.        *)
(***************************************************************************)
TokensAreAlive ==
  \A token \in { tokens[id] : id \in Ids } \union {vehicle} : token.is /\ ~token.short => token.life >= Margin

(***************************************************************************)
(* "minted locally from its own license": a fresh mint of a developer JWT, *)
(* a probe's included, uses the license of the tenant it is called with.   *)
(***************************************************************************)
MintsFromOwnLicense ==
  \A c \in Callers : caller[c].at \in {"got", "refused"} => caller[c].with = caller[c].pair
=============================================================================

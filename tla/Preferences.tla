---------------------------- MODULE Preferences ----------------------------
(***************************************************************************)
(* The preferences of one wallet in several browsers (prefs-service.ts,    *)
(* controllers/user_prefs.go, user_prefs.go).                              *)
(*                                                                         *)
(* A browser keeps what was chosen in its local storage and, signed in,    *)
(* PUTs all of it, which replaces the wallet's whole row.  Signing in      *)
(* reads the row once: what the server has wins, what it lacks is pushed.  *)
(* PUTs are not awaited, may overtake one another and may be lost.         *)
(* A value is the number of the choice that made it; 0: never chosen.      *)
(***************************************************************************)
EXTENDS Naturals, FiniteSets

CONSTANTS
  Browsers,
  Keys,         \* units, locale, tripMechanism
  MaxChoices,   \* bound: choices made
  MaxSignIns    \* bound: sessions begun

VARIABLES
  local,     \* per browser, its local storage
  stored,    \* the wallet's row
  session,   \* per browser: "out", "asking", "answered" or "in", and the answer
  puts,      \* PUTs under way
  chosen,    \* history: per key, the latest choice of a browser signed in
  fresh,     \* history: browsers that heard of every PUT of the others
  astray,    \* history: a PUT was lost, or requests overlapped
  made, begun

prefVars == <<local, stored, session, puts, chosen, fresh, astray, made, begun>>

Nothing == [k \in Keys |-> 0]
Out     == [at |-> "out", got |-> Nothing]
Busy    == puts # {} \/ \E b \in Browsers : session[b].at \in {"asking", "answered"}

-----------------------------------------------------------------------------
(* pushToServer: everything that is set here, whatever the row has. *)
pushToServer(b, prefs) == puts' = puts \union {[from |-> b, prefs |-> prefs]}

(* A choice shows at once, and is pushed when there is a token. *)
Choose(b, k) ==
  /\ made < MaxChoices /\ made' = made + 1
  /\ local' = [local EXCEPT ![b][k] = made + 1]
  /\ IF session[b].at = "out"
     THEN UNCHANGED <<puts, chosen, astray>>
     ELSE /\ pushToServer(b, local'[b])
          /\ chosen' = [chosen EXCEPT ![k] = made + 1]
          /\ astray' = (astray \/ Busy \/ b \notin fresh)
  /\ UNCHANGED <<stored, session, fresh, begun>>

SignIn(b) ==
  /\ session[b].at = "out" /\ begun < MaxSignIns
  /\ begun' = begun + 1
  /\ session' = [session EXCEPT ![b].at = "asking"]
  /\ astray' = (astray \/ Busy)
  /\ UNCHANGED <<local, stored, puts, chosen, fresh, made>>

(* Leaving drops the answer, not a PUT that is under way. *)
SignOut(b) ==
  /\ session[b].at # "out"
  /\ session' = [session EXCEPT ![b] = Out]
  /\ fresh' = fresh \ {b}
  /\ UNCHANGED <<local, stored, puts, chosen, astray, made, begun>>

FindUserPreference == stored

(* Get: the row, {} if there is none; unreachable, and the browser goes on *)
(* with what it has.                                                       *)
GetPreferences(b) ==
  /\ session[b].at = "asking"
  /\ session' \in { [session EXCEPT ![b] = [at |-> "answered", got |-> FindUserPreference]],
                    [session EXCEPT ![b].at = "in"] }
  /\ UNCHANGED <<local, stored, puts, chosen, fresh, astray, made, begun>>

(* Mutant: what this browser has wins. *)
LocalWins(b, server) == [k \in Keys |-> IF local[b][k] # 0 THEN local[b][k] ELSE server[k]]

(* Server precedence. *)
Merged(b, server) == [k \in Keys |-> IF server[k] # 0 THEN server[k] ELSE local[b][k]]

hydrateFromServer(b) ==
  LET server == session[b].got
      merged == Merged(b, server)
  IN  /\ session[b].at = "answered"
      /\ local' = [local EXCEPT ![b] = merged]
      /\ session' = [session EXCEPT ![b] = [at |-> "in", got |-> Nothing]]
      /\ fresh' = fresh \union {b}
      /\ IF \E k \in Keys : merged[k] # server[k] THEN pushToServer(b, merged) ELSE UNCHANGED puts
      /\ UNCHANGED <<stored, chosen, astray, made, begun>>

(* ON CONFLICT (wallet) DO UPDATE SET prefs. *)
Upsert(prefs) == stored' = prefs

(* Any PUT under way arrives, or is lost. *)
PutPreferences(p) ==
  /\ puts' = puts \ {p}
  /\ \/ Upsert(p.prefs) /\ fresh' = fresh \intersect {p.from} /\ UNCHANGED astray
     \/ UNCHANGED <<stored, fresh>> /\ astray' = TRUE
  /\ UNCHANGED <<local, session, chosen, made, begun>>

Init ==
  /\ local = [b \in Browsers |-> Nothing] /\ stored = Nothing
  /\ session = [b \in Browsers |-> Out] /\ puts = {}
  /\ chosen = Nothing /\ fresh = {} /\ astray = FALSE
  /\ made = 0 /\ begun = 0

Next ==
  \/ \E b \in Browsers :
       \/ \E k \in Keys : Choose(b, k)
       \/ SignIn(b) \/ SignOut(b) \/ GetPreferences(b) \/ hydrateFromServer(b)
  \/ \E p \in puts : PutPreferences(p)

Spec == Init /\ [][Next]_prefVars

-----------------------------------------------------------------------------
TypeOK ==
  /\ local \in [Browsers -> [Keys -> 0..made]] /\ stored \in [Keys -> 0..made]
  /\ session \in [Browsers -> [at : {"out", "asking", "answered", "in"}, got : [Keys -> 0..made]]]
  /\ \A p \in puts : p.from \in Browsers /\ p.prefs \in [Keys -> 0..made]

(***************************************************************************)
(* A choice is not undone by a browser that never heard of it: as long as  *)
(* requests did not overlap or get lost and no browser chose on an old     *)
(* copy, the row holds the latest choice of every preference, and a        *)
(* browser that signed in since shows the row, its own older choices       *)
(* replaced and those the row lacked pushed up.                            *)
(***************************************************************************)
LatestChoiceShows ==
  ~astray /\ ~Busy =>
    /\ \A k \in Keys : chosen[k] # 0 => stored[k] = chosen[k]
    /\ \A b \in fresh : local[b] = stored
=============================================================================

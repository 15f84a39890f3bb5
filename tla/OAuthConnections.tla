------------------------- MODULE OAuthConnections --------------------------
(***************************************************************************)
(* OAuth connections of a tenant (src/server/oauthRoutes.js and            *)
(* src/server/lib/integrations/): the state a connect leaves for the       *)
(* callback, the exchange of the code, the tokens in the integration row,  *)
(* their refresh, and what else writes that row.                           *)
(*                                                                         *)
(* The tokens live in config_json of the row, the column that POST         *)
(* /api/smb-crm/integrations writes as the caller sends it and GET hands   *)
(* out as it is.  So a caller may send back a configuration it was shown   *)
(* some time ago, tokens included, for that row or for another, or tokens  *)
(* of its own.  Tokens that the token store wrote are sealed and bound to  *)
(* their connection; those a caller wrote are plain until a refresh.  A    *)
(* set of tokens is taken as a whole: one that a caller pieces together is *)
(* one of its own.                                                         *)
(*                                                                         *)
(* A handler lets others run only while it waits for the provider; between *)
(* its statements the process may die.  `exchanging' and `refreshing' hold *)
(* the handlers that wait.  A refresh writes the tokens it gets without    *)
(* another look at the row.                                                *)
(*                                                                         *)
(* `vault' is whether the routes were registered with a vault.  The tests  *)
(* do, app.js (8524) does not: the callback of the deployed program        *)
(* consumes the state, exchanges the code and drops the tokens.            *)
(*                                                                         *)
(* The hourly sweep and POST /api/oauth/sweep read a field that the rows   *)
(* of findManyByTypeAndStatus do not have (scheduler.js:76): they look for *)
(* the tokens of no tenant, find none, and change nothing.  They are not   *)
(* actions here; the refresh route does what they were to do.              *)
(***************************************************************************)
EXTENDS Naturals, Sequences, FiniteSets

CONSTANTS
  Tenant,
  Provider,
  State,       \* the nonces of connects
  Request,     \* refresh requests that may be under way at once
  MaxGrants,   \* bound: token sets that providers issue or callers write
  MaxCrashes,  \* bound: deaths of the process
  None

ASSUME OAuthAssumption ==
  /\ MaxGrants \in Nat
  /\ MaxCrashes \in Nat
  /\ None \notin State \cup (Tenant \X Provider)

VARIABLES
  vault,       \* whether registerOAuthRoutes was given a vault
  asked,       \* the connection a state was made for, None before
  live,        \* states in oauth_state_kv
  status,      \* smb_crm_integrations.status, "none" without a row
  tokens,      \* the grant whose tokens the row holds
  grants,      \* the token sets that providers issued or callers wrote
  shown,       \* the sealed sets that a caller has seen
  exchanging,  \* states whose callback waits for the provider
  refreshing,  \* per request the connection and the tokens it read
  cpu,         \* the next statement of the running handler
  crashes

vars == <<vault, asked, live, status, tokens, grants, shown, exchanging, refreshing, cpu, crashes>>

Pair == Tenant \X Provider
Idle == [at |-> "idle"]

(* A grant is issued for a code or written by a caller, then it has no        *)
(* parent, or it comes from a refresh of its parent.  `state' is the state of *)
(* the code it goes back to, None when it goes back to a caller.  Not every   *)
(* grant has a refresh token.                                                *)
Grant == [pair: Pair, state: State \cup {None}, parent: 0..MaxGrants, refreshable: BOOLEAN]

TypeOK ==
  /\ vault \in BOOLEAN
  /\ asked \in [State -> Pair \cup {None}]
  /\ live \subseteq {s \in State: asked[s] # None}
  /\ status \in [Pair -> {"none", "connected", "disconnected"}]
  /\ tokens \in [Pair -> (1..Len(grants)) \cup {None}]
  /\ grants \in Seq(Grant)
  /\ Len(grants) <= MaxGrants
  /\ shown \subseteq 1..Len(grants)
  /\ exchanging \subseteq {s \in State: asked[s] # None} \X Provider
  /\ refreshing \in [Request -> [pair: Pair, grant: 1..Len(grants)] \cup {None}]
  /\ cpu = Idle \/ cpu \in [at: {"store", "connect"}, pair: Pair, grant: 1..Len(grants)]
                \/ cpu \in [at: {"disconnect"}, pair: Pair]
  /\ crashes \in 0..MaxCrashes

Init ==
  /\ vault \in BOOLEAN
  /\ asked = [s \in State |-> None]
  /\ live = {}
  /\ status = [p \in Pair |-> "none"]
  /\ tokens = [p \in Pair |-> None]
  /\ grants = <<>>
  /\ shown = {}
  /\ exchanging = {}
  /\ refreshing = [r \in Request |-> None]
  /\ cpu = Idle
  /\ crashes = 0

-----------------------------------------------------------------------------
(* Mutant: the tokens are stored as they come when there is no vault.        *)
HasTokenStoreAlways == TRUE

(* Without a vault there is no token store.                                  *)
HasTokenStore == vault

(* findByTenantProvider: the row of the connection                           *)
HasRow(p) == status[p] # "none"

(* Tokens written by a caller are in the row as they came.                   *)
IsPlain(g) == grants[g].state = None /\ grants[g].parent = 0

(* Mutant: the vault does not compare the binding of an envelope.            *)
OpensAny(g, p) == TRUE

(* decryptString: the envelope names the tenant and provider it was sealed    *)
(* for, and decryption for any other fails.                                  *)
Opens(g, p) == grants[g].pair = p

(* GET /api/oauth/:provider/connect                                          *)
Connect(p, s) ==
  /\ cpu = Idle
  /\ asked[s] = None
  /\ asked' = [asked EXCEPT ![s] = p]
  /\ live' = live \cup {s}
  /\ UNCHANGED <<vault, status, tokens, grants, shown, exchanging, refreshing, cpu, crashes>>

(* The five minutes of a state are over.                                     *)
Expire(s) ==
  /\ cpu = Idle
  /\ s \in live
  /\ live' = live \ {s}
  /\ UNCHANGED <<vault, asked, status, tokens, grants, shown, exchanging, refreshing, cpu, crashes>>

(* Mutant: the state is read and left where it is.                           *)
ConsumeNot(s) == s \in live /\ UNCHANGED live

(* getAndDelete: one transaction                                             *)
Consume(s) == s \in live /\ live' = live \ {s}

(* Mutant: any provider's callback may use the state.                        *)
ForProviderAny(s, provider) == TRUE

ForProvider(s, provider) == asked[s][2] = provider

(* GET /api/oauth/:provider/callback up to the exchange, which the callback   *)
(* of another provider does not reach.                                       *)
Callback(s, provider) ==
  /\ cpu = Idle
  /\ Consume(s)
  /\ exchanging' = IF ForProvider(s, provider)
                   THEN exchanging \cup {<<s, provider>>} ELSE exchanging
  /\ UNCHANGED <<vault, asked, status, tokens, grants, shown, refreshing, cpu, crashes>>

(* A timeout, an error, an answer without tokens, or no client configured.   *)
ExchangeFails(x) ==
  /\ cpu = Idle
  /\ x \in exchanging
  /\ exchanging' = exchanging \ {x}
  /\ UNCHANGED <<vault, asked, live, status, tokens, grants, shown, refreshing, cpu, crashes>>

(* The provider's answer, and the first statement behind it: the tokens of a  *)
(* row that is there, or the row.  Without a vault there is none.            *)
ExchangeSucceeds(x, refreshable) ==
  LET p == <<asked[x[1]][1], x[2]>>
      g == Len(grants) + 1 IN
  /\ cpu = Idle
  /\ x \in exchanging
  /\ Len(grants) < MaxGrants
  /\ exchanging' = exchanging \ {x}
  /\ grants' = Append(grants, [pair |-> p, state |-> x[1], parent |-> 0,
                               refreshable |-> refreshable])
  /\ \/ ~HasTokenStore /\ UNCHANGED <<status, tokens, cpu>>
     \/ /\ HasTokenStore /\ ~HasRow(p)
        /\ status' = [status EXCEPT ![p] = "connected"]
        /\ cpu' = [at |-> "store", pair |-> p, grant |-> g]
        /\ UNCHANGED tokens
     \/ /\ HasTokenStore /\ HasRow(p)
        /\ tokens' = [tokens EXCEPT ![p] = g]
        /\ cpu' = [at |-> "connect", pair |-> p, grant |-> g]
        /\ UNCHANGED status
  /\ UNCHANGED <<vault, asked, live, shown, refreshing, crashes>>

(* setOAuthTokens into the row just inserted                                 *)
StoreTokens ==
  /\ cpu.at = "store"
  /\ tokens' = [tokens EXCEPT ![cpu.pair] = cpu.grant]
  /\ cpu' = Idle
  /\ UNCHANGED <<vault, asked, live, status, grants, shown, exchanging, refreshing, crashes>>

(* Mutant: a row that was disconnected stays so.                             *)
MarkConnectedNot ==
  /\ cpu.at = "connect"
  /\ cpu' = Idle
  /\ UNCHANGED <<vault, asked, live, status, tokens, grants, shown, exchanging, refreshing, crashes>>

MarkConnected ==
  /\ cpu.at = "connect"
  /\ status' = [status EXCEPT ![cpu.pair] = "connected"]
  /\ cpu' = Idle
  /\ UNCHANGED <<vault, asked, live, tokens, grants, shown, exchanging, refreshing, crashes>>

-----------------------------------------------------------------------------
(* POST /api/oauth/:provider/disconnect: the tokens, then the status.  A      *)
(* request for a connection without a row changes nothing.                   *)
Disconnect(p) ==
  /\ cpu = Idle
  /\ HasRow(p)
  /\ tokens' = IF HasTokenStore THEN [tokens EXCEPT ![p] = None] ELSE tokens
  /\ cpu' = [at |-> "disconnect", pair |-> p]
  /\ UNCHANGED <<vault, asked, live, status, grants, shown, exchanging, refreshing, crashes>>

MarkDisconnected ==
  /\ cpu.at = "disconnect"
  /\ status' = [status EXCEPT ![cpu.pair] = "disconnected"]
  /\ cpu' = Idle
  /\ UNCHANGED <<vault, asked, live, tokens, grants, shown, exchanging, refreshing, crashes>>

(* POST /api/oauth/:provider/refresh up to the provider: getOAuthTokens       *)
(* throws when the envelope belongs to another connection.                   *)
Refresh(r, p) ==
  /\ cpu = Idle
  /\ HasTokenStore
  /\ refreshing[r] = None
  /\ tokens[p] # None
  /\ Opens(tokens[p], p)
  /\ grants[tokens[p]].refreshable
  /\ refreshing' = [refreshing EXCEPT ![r] = [pair |-> p, grant |-> tokens[p]]]
  /\ UNCHANGED <<vault, asked, live, status, tokens, grants, shown, exchanging, cpu, crashes>>

RefreshFails(r) ==
  /\ cpu = Idle
  /\ refreshing[r] # None
  /\ refreshing' = [refreshing EXCEPT ![r] = None]
  /\ UNCHANGED <<vault, asked, live, status, tokens, grants, shown, exchanging, cpu, crashes>>

(* The old refresh token stays where the provider sends no new one.          *)
RefreshSucceeds(r) ==
  LET p == refreshing[r].pair
      old == refreshing[r].grant IN
  /\ cpu = Idle
  /\ refreshing[r] # None
  /\ Len(grants) < MaxGrants
  /\ grants' = Append(grants, [grants[old] EXCEPT !.parent = old])
  /\ tokens' = [tokens EXCEPT ![p] = Len(grants) + 1]
  /\ refreshing' = [refreshing EXCEPT ![r] = None]
  /\ UNCHANGED <<vault, asked, live, status, shown, exchanging, cpu, crashes>>

(* GET /api/smb-crm/integrations: the caller gets config_json, and with it the *)
(* envelope of the tokens.                                                   *)
List(p) ==
  /\ cpu = Idle
  /\ tokens[p] # None
  /\ ~IsPlain(tokens[p])
  /\ shown' = shown \cup {tokens[p]}
  /\ UNCHANGED <<vault, asked, live, status, tokens, grants, exchanging, refreshing, cpu, crashes>>

(* upsertIntegration: the status, disconnected unless the caller says so, and *)
(* the configuration are written as they come.  `connected' stands for        *)
(* pending and error too, which nothing here tells apart.                    *)
Upsert(p, s) ==
  /\ cpu = Idle
  /\ status' = [status EXCEPT ![p] = s]
  /\ \/ \E g \in shown \cup {None}: tokens' = [tokens EXCEPT ![p] = g] /\ UNCHANGED grants
     \/ \E refreshable \in BOOLEAN:
          /\ Len(grants) < MaxGrants
          /\ grants' = Append(grants, [pair |-> p, state |-> None, parent |-> 0,
                                       refreshable |-> refreshable])
          /\ tokens' = [tokens EXCEPT ![p] = Len(grants) + 1]
  /\ UNCHANGED <<vault, asked, live, shown, exchanging, refreshing, cpu, crashes>>

(* rotateSecret: of the row it changes the status                            *)
RotateSecret(p) ==
  /\ cpu = Idle
  /\ HasRow(p)
  /\ status' = [status EXCEPT ![p] = "connected"]
  /\ UNCHANGED <<vault, asked, live, tokens, grants, shown, exchanging, refreshing, cpu, crashes>>

Crash ==
  /\ crashes < MaxCrashes
  /\ crashes' = crashes + 1
  /\ exchanging' = {}
  /\ refreshing' = [r \in Request |-> None]
  /\ cpu' = Idle
  /\ UNCHANGED <<vault, asked, live, status, tokens, grants, shown>>

Next ==
  \/ \E s \in State:
       \/ \E p \in Pair: Connect(p, s)
       \/ Expire(s)
       \/ \E provider \in Provider: Callback(s, provider)
  \/ \E x \in exchanging:
       ExchangeFails(x) \/ \E refreshable \in BOOLEAN: ExchangeSucceeds(x, refreshable)
  \/ StoreTokens \/ MarkConnected \/ MarkDisconnected
  \/ \E p \in Pair:
       \/ Disconnect(p) \/ RotateSecret(p) \/ List(p)
       \/ \E s \in {"connected", "disconnected"}: Upsert(p, s)
       \/ \E r \in Request: Refresh(r, p)
  \/ \E r \in Request: RefreshFails(r) \/ RefreshSucceeds(r)
  \/ Crash

Spec == Init /\ [][Next]_vars

-----------------------------------------------------------------------------
Grants == 1..Len(grants)

(* A state is good for one exchange: of the callbacks that bring it, however  *)
(* they interleave with each other, with expiry and with a restart, at most   *)
(* one gets tokens (state-store.js, getAndDelete).                           *)
OneExchangePerState ==
  \A s \in State:
    Cardinality({g \in Grants: grants[g].state = s /\ grants[g].parent = 0}) <= 1

IssuedFor(g, p) == grants[g].state # None => asked[grants[g].state] = p

(* Tokens that a provider issued are used for the connection they were asked  *)
(* for and for no other: the tokens that a refresh has sent, and those that   *)
(* the token store can read in a row, go back through whatever refreshes to a *)
(* connect by that tenant for that provider, wherever callbacks were brought  *)
(* and callers copied configurations (oauthRoutes.js:234, vault.js:204).     *)
UsedWhereAsked ==
  /\ \A r \in Request: refreshing[r] # None =>
       IssuedFor(refreshing[r].grant, refreshing[r].pair)
  /\ \A p \in Pair: tokens[p] # None /\ Opens(tokens[p], p) => IssuedFor(tokens[p], p)

(* What a provider issued reaches no row unsealed: routes without a vault,    *)
(* those of app.js, leave in the rows what callers wrote and nothing else,    *)
(* whatever is exchanged (token-store.js:101).                               *)
NothingUnsealed ==
  ~vault => \A p \in Pair: tokens[p] # None => grants[tokens[p]].state = None

(* A disconnect takes the tokens from everyone who has no copy: without a     *)
(* crash, tokens in a disconnected row come from a refresh that was waiting   *)
(* for the provider meanwhile or from a caller, who wrote its own or sent     *)
(* back a configuration it had been shown (oauthRoutes.js:391).              *)
SurvivorsWereElsewhere ==
  cpu = Idle /\ crashes = 0 =>
    \A p \in Pair: status[p] = "disconnected" /\ tokens[p] # None =>
      \/ grants[tokens[p]].parent # 0
      \/ grants[tokens[p]].state = None
      \/ tokens[p] \in shown
=============================================================================

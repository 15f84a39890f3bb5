---------------------------- MODULE OAuthProofs -----------------------------
(***************************************************************************)
(* Proofs about OAuthConnections, for any tenants, providers, states and   *)
(* requests.  AskedInv: a grant that goes back to a code is of the         *)
(* connection its state was made for, and who is about to use or to store  *)
(* one does it for that connection; what a row holds may be anything a     *)
(* caller sent.  SealedInv: without a vault only callers put tokens into   *)
(* rows.  LeftInv says where the tokens of a disconnected row may come     *)
(* from, OnceInv where a state is until its code is exchanged.             *)
(***************************************************************************)
EXTENDS OAuthConnections, FiniteSetTheorems, TLAPS

(* Every step keeps the types.                                               *)
LEMMA TypeInit == Init => TypeOK
  BY OAuthAssumption DEF Init, TypeOK, Idle, Pair, Grant

(* What an upsert writes: a set that a caller was shown, nothing, or a set of *)
(* the caller's own.                                                         *)
Own(p, refreshable) ==
  [pair |-> p, state |-> None, parent |-> 0, refreshable |-> refreshable]

LEMMA UpsertWrites ==
  ASSUME NEW p, NEW s, Upsert(p, s)
  PROVE  \/ \E g \in shown \cup {None}: tokens' = [tokens EXCEPT ![p] = g] /\ UNCHANGED grants
         \/ \E refreshable \in BOOLEAN:
              /\ Len(grants) < MaxGrants
              /\ grants' = Append(grants, Own(p, refreshable))
              /\ tokens' = [tokens EXCEPT ![p] = Len(grants) + 1]
  BY DEF Upsert, Own

LEMMA TypeStep == TypeOK /\ [Next]_vars => TypeOK'
<1> SUFFICES ASSUME TypeOK, [Next]_vars PROVE TypeOK'
  OBVIOUS
<1> USE OAuthAssumption DEF TypeOK, Idle
<1>1. ASSUME NEW s \in State, NEW p \in Pair, Connect(p, s) PROVE TypeOK'
  <2>1. p # None
    BY DEF Pair
  <2>2. asked' = [asked EXCEPT ![s] = p] /\ live' = live \cup {s}
    BY <1>1 DEF Connect
  <2>3. asked' \in [State -> Pair \cup {None}]
    BY <2>2
  <2>4. \A t \in State: asked[t] # None \/ t = s => asked'[t] # None
    BY <2>1, <2>2
  <2>5. live' \subseteq {t \in State: asked'[t] # None}
    BY <2>2, <2>4
  <2> QED
    BY <1>1, <2>3, <2>4, <2>5 DEF Connect
<1>2. ASSUME NEW s \in State, Expire(s) PROVE TypeOK'
  BY <1>2 DEF Expire
<1>3. ASSUME NEW s \in State, NEW provider \in Provider, Callback(s, provider)
      PROVE TypeOK'
  BY <1>3 DEF Callback, Consume, ForProvider
<1>4. ASSUME NEW x \in exchanging, ExchangeFails(x) PROVE TypeOK'
  BY <1>4 DEF ExchangeFails
<1>5. ASSUME NEW x \in exchanging, NEW refreshable \in BOOLEAN,
             ExchangeSucceeds(x, refreshable)
      PROVE TypeOK'
  <2> DEFINE p == <<asked[x[1]][1], x[2]>>
             n == Len(grants) + 1
             row == [pair |-> p, state |-> x[1], parent |-> 0, refreshable |-> refreshable]
  <2>1. p \in Pair
    BY DEF Pair
  <2>2. row \in Grant
    BY <2>1 DEF Grant
  <2>3. grants' = Append(grants, row) /\ Len(grants) < MaxGrants
    BY <1>5 DEF ExchangeSucceeds
  <2>4. grants' \in Seq(Grant) /\ Len(grants') = n /\ n \in 1..MaxGrants
    BY <2>2, <2>3
  <2>5. 1..Len(grants) \subseteq 1..Len(grants') /\ n \in 1..Len(grants')
    BY <2>4
  <2>6. tokens' \in [Pair -> (1..Len(grants')) \cup {None}]
    BY <1>5, <2>1, <2>5 DEF ExchangeSucceeds
  <2>7. status' \in [Pair -> {"none", "connected", "disconnected"}]
    BY <1>5, <2>1 DEF ExchangeSucceeds
  <2>8. \/ cpu' = cpu
        \/ cpu' = [at |-> "store", pair |-> p, grant |-> n]
        \/ cpu' = [at |-> "connect", pair |-> p, grant |-> n]
    BY <1>5 DEF ExchangeSucceeds
  <2>9. cpu' = Idle \/ cpu' \in [at: {"store", "connect"}, pair: Pair, grant: 1..Len(grants')]
    <3>1. cpu = Idle
      BY <1>5 DEF ExchangeSucceeds
    <3>2. p \in Pair /\ n \in 1..Len(grants')
      BY <2>1, <2>5
    <3> HIDE DEF p, n
    <3> QED
      BY <3>1, <3>2, <2>8
  <2>10. refreshing' \in [Request -> [pair: Pair, grant: 1..Len(grants')] \cup {None}]
    BY <1>5, <2>5 DEF ExchangeSucceeds
  <2>11. UNCHANGED <<vault, asked, live, shown, crashes>> /\ exchanging' \subseteq exchanging
    BY <1>5 DEF ExchangeSucceeds
  <2> QED
    BY <2>4, <2>6, <2>7, <2>9, <2>10, <2>11
<1>6. CASE StoreTokens
  BY <1>6 DEF StoreTokens
<1>7. CASE MarkConnected
  BY <1>7 DEF MarkConnected
<1>8. CASE MarkDisconnected
  BY <1>8 DEF MarkDisconnected
<1>9. ASSUME NEW p \in Pair, Disconnect(p) PROVE TypeOK'
  BY <1>9 DEF Disconnect, HasRow
<1>10. ASSUME NEW p \in Pair, RotateSecret(p) PROVE TypeOK'
  BY <1>10 DEF RotateSecret, HasRow
<1>11. ASSUME NEW p \in Pair, NEW s \in {"connected", "disconnected"}, Upsert(p, s)
       PROVE TypeOK'
  <2>1. CASE \E g \in shown \cup {None}: tokens' = [tokens EXCEPT ![p] = g] /\ UNCHANGED grants
    BY <1>11, <2>1 DEF Upsert
  <2>2. ASSUME NEW refreshable \in BOOLEAN, Len(grants) < MaxGrants,
               grants' = Append(grants, Own(p, refreshable)),
               tokens' = [tokens EXCEPT ![p] = Len(grants) + 1]
        PROVE  TypeOK'
    <3>1. Own(p, refreshable) \in Grant
      BY DEF Grant, Own
    <3>2. grants' \in Seq(Grant) /\ Len(grants') = Len(grants) + 1 /\ Len(grants') \in 1..MaxGrants
      BY <2>2, <3>1
    <3>3. 1..Len(grants) \subseteq 1..Len(grants') /\ Len(grants) + 1 \in 1..Len(grants')
      BY <3>2
    <3>4. tokens' \in [Pair -> (1..Len(grants')) \cup {None}]
      BY <2>2, <3>3
    <3>5. refreshing' \in [Request -> [pair: Pair, grant: 1..Len(grants')] \cup {None}]
      BY <1>11, <3>3 DEF Upsert
    <3>6. status' \in [Pair -> {"none", "connected", "disconnected"}]
      BY <1>11 DEF Upsert
    <3>7. UNCHANGED <<vault, asked, live, shown, exchanging, cpu, crashes>> /\ cpu = Idle
      BY <1>11 DEF Upsert
    <3>8. shown' \subseteq 1..Len(grants')
      BY <3>3, <3>7
    <3> QED
      BY <3>2, <3>4, <3>5, <3>6, <3>7, <3>8
  <2> QED
    BY <1>11, <2>1, <2>2, UpsertWrites
<1>12. ASSUME NEW p \in Pair, NEW r \in Request, Refresh(r, p) PROVE TypeOK'
  BY <1>12 DEF Refresh
<1>13. ASSUME NEW r \in Request, RefreshFails(r) PROVE TypeOK'
  BY <1>13 DEF RefreshFails
<1>14. ASSUME NEW r \in Request, RefreshSucceeds(r) PROVE TypeOK'
  <2> DEFINE p == refreshing[r].pair
             old == refreshing[r].grant
             row == [grants[old] EXCEPT !.parent = old]
             n == Len(grants) + 1
  <2>1. p \in Pair /\ old \in 1..Len(grants)
    BY <1>14 DEF RefreshSucceeds
  <2>2. grants[old] \in Grant /\ old \in 0..MaxGrants
    BY <2>1
  <2>3. row \in Grant
    BY <2>2 DEF Grant
  <2>4. grants' = Append(grants, row) /\ Len(grants) < MaxGrants
    BY <1>14 DEF RefreshSucceeds
  <2>5. grants' \in Seq(Grant) /\ Len(grants') = n /\ n \in 1..MaxGrants
    BY <2>3, <2>4
  <2>6. 1..Len(grants) \subseteq 1..Len(grants') /\ n \in 1..Len(grants')
    BY <2>5
  <2>7. tokens' = [tokens EXCEPT ![p] = n] /\ status' = status
    BY <1>14 DEF RefreshSucceeds
  <2>8. tokens' \in [Pair -> (1..Len(grants')) \cup {None}]
    BY <2>1, <2>6, <2>7
  <2>9. refreshing' \in [Request -> [pair: Pair, grant: 1..Len(grants')] \cup {None}]
    BY <1>14, <2>6 DEF RefreshSucceeds
  <2> QED
    BY <1>14, <2>5, <2>8, <2>9 DEF RefreshSucceeds
<1>15. CASE Crash
  BY <1>15 DEF Crash
<1>16. CASE UNCHANGED vars
  BY <1>16 DEF vars
<1>17. ASSUME NEW p \in Pair, List(p) PROVE TypeOK'
  BY <1>17 DEF List
<1> QED
  BY <1>1, <1>2, <1>3, <1>4, <1>5, <1>6, <1>7, <1>8, <1>9, <1>10, <1>11, <1>12,
     <1>13, <1>14, <1>15, <1>16, <1>17 DEF Next

(* The rows, the grants and the waiting handlers keep their types.           *)
THEOREM TypeCorrect == Spec => []TypeOK
  BY TypeInit, TypeStep, PTL DEF Spec

-----------------------------------------------------------------------------
(* What a grant, a row or a waiting handler holds was asked for: the state    *)
(* of a grant was made for the connection the grant is of.                   *)
Asked(g, p) == grants[g].pair = p

AskedInv ==
  /\ \A g \in Grants: grants[g].state # None => asked[grants[g].state] = grants[g].pair
  /\ \A x \in exchanging: asked[x[1]][2] = x[2]
  /\ \A r \in Request: refreshing[r] # None => Asked(refreshing[r].grant, refreshing[r].pair)
  /\ cpu.at \in {"store", "connect"} => Asked(cpu.grant, cpu.pair)

LEMMA AskedInit == Init => AskedInv
  BY DEF Init, AskedInv, Grants, Idle

(* A new grant leaves those that are there as they are.                      *)
LEMMA OldGrants ==
  ASSUME NEW row, grants \in Seq(Grant), grants' = Append(grants, row)
  PROVE  /\ Grants \subseteq Grants'
         /\ Grants' \ Grants = {Len(grants) + 1}
         /\ grants'[Len(grants) + 1] = row
         /\ \A g \in Grants: grants'[g] = grants[g]
  BY DEF Grants

LEMMA AskedStep == TypeOK /\ AskedInv /\ [Next]_vars => AskedInv'
<1> SUFFICES ASSUME TypeOK, AskedInv, [Next]_vars PROVE AskedInv'
  OBVIOUS
<1> USE DEF Grants, Idle, Asked
<1>1. ASSUME NEW s \in State, NEW p \in Pair, Connect(p, s) PROVE AskedInv'
  <2>1. /\ asked[s] = None /\ asked' = [asked EXCEPT ![s] = p]
        /\ UNCHANGED <<grants, exchanging, refreshing, cpu>>
    BY <1>1 DEF Connect
  <2>2. \A t \in State: asked[t] # None => asked'[t] = asked[t]
    BY <2>1 DEF TypeOK
  <2>3. \A g \in 1..Len(grants):
          /\ grants[g].state \in State \cup {None}
          /\ grants[g].pair \in Pair /\ grants[g].pair # None
    <3>1. None \notin Pair
      BY OAuthAssumption DEF Pair
    <3>2. \A g \in 1..Len(grants): grants[g] \in Grant
      BY DEF TypeOK
    <3> QED
      BY <3>1, <3>2 DEF Grant
  <2>4. \A g \in 1..Len(grants):
          grants[g].state # None => asked'[grants[g].state] = grants[g].pair
    BY <2>2, <2>3 DEF AskedInv
  <2>5. \A x \in exchanging: x[1] \in State /\ asked[x[1]] # None
    BY DEF TypeOK
  <2>6. \A x \in exchanging: asked'[x[1]][2] = x[2]
    BY <2>2, <2>5 DEF AskedInv
  <2> QED
    BY <2>1, <2>4, <2>6 DEF AskedInv
<1>2. ASSUME NEW s \in State, Expire(s) PROVE AskedInv'
  BY <1>2 DEF Expire, AskedInv
<1>3. ASSUME NEW s \in State, NEW provider \in Provider, Callback(s, provider)
      PROVE AskedInv'
  BY <1>3 DEF Callback, ForProvider, AskedInv
<1>4. ASSUME NEW x \in exchanging, ExchangeFails(x) PROVE AskedInv'
  BY <1>4 DEF ExchangeFails, AskedInv
<1>5. ASSUME NEW x \in exchanging, NEW refreshable \in BOOLEAN,
             ExchangeSucceeds(x, refreshable)
      PROVE AskedInv'
  <2> DEFINE p == <<asked[x[1]][1], x[2]>>
             n == Len(grants) + 1
             row == [pair |-> p, state |-> x[1], parent |-> 0, refreshable |-> refreshable]
  <2>1. p = asked[x[1]] /\ p \in Pair /\ x[1] \in State
    BY DEF TypeOK, AskedInv, Pair
  <2>2. grants \in Seq(Grant) /\ grants' = Append(grants, row)
    BY <1>5 DEF ExchangeSucceeds, TypeOK
  <2>3. /\ Grants \subseteq Grants'
        /\ Grants' \ Grants = {n}
        /\ grants'[n] = row
        /\ \A g \in Grants: grants'[g] = grants[g]
    BY <2>2, OldGrants
  <2>4. asked' = asked /\ exchanging' \subseteq exchanging /\ refreshing' = refreshing
    BY <1>5 DEF ExchangeSucceeds
  <2>5. row.pair = p /\ row.state = x[1]
    OBVIOUS
  <2>6. \A g \in Grants': grants'[g].state # None => asked'[grants'[g].state] = grants'[g].pair
    BY <2>1, <2>3, <2>4, <2>5 DEF AskedInv
  <2>10. \A r \in Request: refreshing[r] # None =>
           refreshing[r].grant \in Grants /\ grants[refreshing[r].grant].pair = refreshing[r].pair
    BY DEF TypeOK, AskedInv
  <2>11. \A r \in Request: refreshing'[r] # None => grants'[refreshing'[r].grant].pair = refreshing'[r].pair
    <3> HIDE DEF n, row, p
    <3> QED
      BY <2>3, <2>4, <2>10
  <2>12. \/ cpu' = cpu
         \/ cpu' = [at |-> "store", pair |-> p, grant |-> n]
         \/ cpu' = [at |-> "connect", pair |-> p, grant |-> n]
    BY <1>5 DEF ExchangeSucceeds
  <2>13. cpu'.at \in {"store", "connect"} => grants'[cpu'.grant].pair = cpu'.pair
    <3>1. cpu = Idle
      BY <1>5 DEF ExchangeSucceeds
    <3> HIDE DEF n, row, p
    <3> QED
      BY <3>1, <2>3, <2>5, <2>12
  <2>14. \A y \in exchanging': asked'[y[1]][2] = y[2]
    BY <2>4 DEF AskedInv
  <2> HIDE DEF n, row, p
  <2> QED
    BY <2>6, <2>11, <2>13, <2>14 DEF AskedInv
<1>6. CASE StoreTokens
  BY <1>6 DEF StoreTokens, AskedInv
<1>7. CASE MarkConnected
  BY <1>7 DEF MarkConnected, AskedInv
<1>8. CASE MarkDisconnected
  BY <1>8 DEF MarkDisconnected, AskedInv
<1>9. ASSUME NEW p \in Pair, Disconnect(p) PROVE AskedInv'
  BY <1>9 DEF Disconnect, AskedInv
<1>10. ASSUME NEW p \in Pair, RotateSecret(p) PROVE AskedInv'
  BY <1>10 DEF RotateSecret, AskedInv
<1>11. ASSUME NEW p \in Pair, NEW s \in {"connected", "disconnected"}, Upsert(p, s)
       PROVE AskedInv'
  <2>1. UNCHANGED <<asked, exchanging, refreshing, cpu>> /\ cpu = Idle
    BY <1>11 DEF Upsert
  <2>2. CASE UNCHANGED grants
    BY <2>1, <2>2 DEF AskedInv
  <2>3. ASSUME NEW refreshable \in BOOLEAN, grants' = Append(grants, Own(p, refreshable))
        PROVE  AskedInv'
    <3>1. Own(p, refreshable).state = None
      BY DEF Own
    <3>2. /\ Grants \subseteq Grants'
          /\ Grants' \ Grants = {Len(grants) + 1}
          /\ grants'[Len(grants) + 1] = Own(p, refreshable)
          /\ \A g \in Grants: grants'[g] = grants[g]
      BY <2>3, OldGrants DEF TypeOK
    <3>3. \A o \in Request: refreshing[o] # None => refreshing[o].grant \in Grants
      BY DEF TypeOK
    <3> QED
      BY <2>1, <3>1, <3>2, <3>3 DEF AskedInv
  <2> QED
    BY <1>11, <2>2, <2>3, UpsertWrites
<1>12. ASSUME NEW p \in Pair, NEW r \in Request, Refresh(r, p) PROVE AskedInv'
  <2>1. grants[tokens[p]].pair = p
    BY <1>12 DEF Refresh, Opens
  <2>2. refreshing' = [refreshing EXCEPT ![r] = [pair |-> p, grant |-> tokens[p]]]
    BY <1>12 DEF Refresh
  <2>3. \A o \in Request: refreshing'[o] # None =>
          grants[refreshing'[o].grant].pair = refreshing'[o].pair
    BY <2>1, <2>2 DEF TypeOK, AskedInv
  <2> QED
    BY <1>12, <2>3 DEF Refresh, AskedInv
<1>13. ASSUME NEW r \in Request, RefreshFails(r) PROVE AskedInv'
  <2>1. \A o \in Request: refreshing'[o] # None => refreshing'[o] = refreshing[o]
    BY <1>13 DEF RefreshFails, TypeOK
  <2> QED
    BY <1>13, <2>1 DEF RefreshFails, AskedInv
<1>14. ASSUME NEW r \in Request, RefreshSucceeds(r) PROVE AskedInv'
  <2> DEFINE p == refreshing[r].pair
             old == refreshing[r].grant
             row == [grants[old] EXCEPT !.parent = old]
             n == Len(grants) + 1
  <2>1. p \in Pair /\ old \in Grants /\ grants[old].pair = p
    BY <1>14 DEF RefreshSucceeds, TypeOK, AskedInv
  <2>2. grants[old] \in Grant
    BY <2>1 DEF TypeOK
  <2>3. row.pair = p /\ row.state = grants[old].state
    BY <2>1, <2>2 DEF Grant
  <2>4. grants \in Seq(Grant) /\ grants' = Append(grants, row)
    BY <1>14 DEF RefreshSucceeds, TypeOK
  <2>5. /\ Grants \subseteq Grants'
        /\ Grants' \ Grants = {n}
        /\ grants'[n] = row
        /\ \A g \in Grants: grants'[g] = grants[g]
    <3> HIDE DEF row
    <3> QED
      BY <2>4, OldGrants
  <2>6. asked' = asked /\ exchanging' = exchanging /\ cpu' = cpu /\ cpu = Idle
        /\ refreshing' = [refreshing EXCEPT ![r] = None]
    BY <1>14 DEF RefreshSucceeds
  <2> HIDE DEF p, old, row, n
  <2>7. \A g \in Grants': grants'[g].state # None => asked'[grants'[g].state] = grants'[g].pair
    BY <2>1, <2>3, <2>5, <2>6 DEF AskedInv
  <2>10. \A o \in Request: refreshing[o] # None =>
           refreshing[o].grant \in Grants /\ grants[refreshing[o].grant].pair = refreshing[o].pair
    BY DEF TypeOK, AskedInv
  <2>11. \A o \in Request: refreshing'[o] # None => refreshing'[o] = refreshing[o]
    BY <2>6 DEF TypeOK
  <2>12. \A o \in Request: refreshing'[o] # None =>
           grants'[refreshing'[o].grant].pair = refreshing'[o].pair
    BY <2>5, <2>10, <2>11
  <2> QED
    BY <2>6, <2>7, <2>12 DEF AskedInv
<1>15. CASE Crash
  BY <1>15 DEF Crash, AskedInv
<1>16. CASE UNCHANGED vars
  BY <1>16 DEF vars, AskedInv
<1>17. ASSUME NEW p \in Pair, List(p) PROVE AskedInv'
  BY <1>17 DEF List, AskedInv
<1> QED
  BY <1>1, <1>2, <1>3, <1>4, <1>5, <1>6, <1>7, <1>8, <1>9, <1>10, <1>11, <1>12,
     <1>13, <1>14, <1>15, <1>16, <1>17 DEF Next

(* UsedWhereAsked: tokens that a provider issued are used for the connection  *)
(* they were asked for, wherever callbacks and configurations were brought.   *)
THEOREM TokensWereAskedFor == Spec => []UsedWhereAsked
<1>1. TypeOK /\ AskedInv => UsedWhereAsked
  BY DEF TypeOK, AskedInv, UsedWhereAsked, IssuedFor, Opens, Asked, Grants
<1> QED
  BY <1>1, TypeInit, TypeStep, AskedInit, AskedStep, PTL DEF Spec

-----------------------------------------------------------------------------
(* Routes without a vault store nothing: what is in the rows, and what callers *)
(* were shown of it, was written by callers.                                 *)
OfCaller(g) == grants[g].state = None

SealedInv ==
  ~vault => /\ \A p \in Pair: tokens[p] # None => OfCaller(tokens[p])
            /\ \A g \in shown: OfCaller(g)
            /\ \A r \in Request: refreshing[r] = None
            /\ cpu.at \notin {"store", "connect"}

LEMMA SealedInit == Init => SealedInv
  BY DEF Init, SealedInv, Idle

(* Without a vault a grant that is new leaves the rows as they are, or it is  *)
(* the caller's own.                                                         *)
LEMMA SealedAppend ==
  ASSUME TypeOK, SealedInv, ~vault, NEW row, grants' = Append(grants, row)
  PROVE  /\ \A p \in Pair: tokens[p] # None => grants'[tokens[p]].state = None
         /\ \A g \in shown: grants'[g].state = None
<1>1. \A g \in Grants: grants'[g] = grants[g]
  BY OldGrants DEF TypeOK
<1>2. \A p \in Pair: tokens[p] # None => tokens[p] \in Grants
  BY DEF TypeOK, Grants
<1>3. \A g \in shown: g \in Grants
  BY DEF TypeOK, Grants
<1> QED
  BY <1>1, <1>2, <1>3 DEF SealedInv, OfCaller

LEMMA SealedStep == TypeOK /\ SealedInv /\ [Next]_vars => SealedInv'
<1> SUFFICES ASSUME TypeOK, SealedInv, [Next]_vars, ~vault' PROVE SealedInv'
  BY DEF SealedInv
<1> USE DEF Idle, OfCaller
<1>1. ASSUME NEW s \in State, NEW p \in Pair, Connect(p, s) PROVE SealedInv'
  BY <1>1 DEF Connect, SealedInv
<1>2. ASSUME NEW s \in State, Expire(s) PROVE SealedInv'
  BY <1>2 DEF Expire, SealedInv
<1>3. ASSUME NEW s \in State, NEW provider \in Provider, Callback(s, provider)
      PROVE SealedInv'
  BY <1>3 DEF Callback, SealedInv
<1>4. ASSUME NEW x \in exchanging, ExchangeFails(x) PROVE SealedInv'
  BY <1>4 DEF ExchangeFails, SealedInv
<1>5. ASSUME NEW x \in exchanging, NEW refreshable \in BOOLEAN,
             ExchangeSucceeds(x, refreshable)
      PROVE SealedInv'
  <2>1. ~vault /\ UNCHANGED <<vault, shown, refreshing>>
    BY <1>5 DEF ExchangeSucceeds
  <2>2. UNCHANGED <<tokens, cpu>>
    BY <1>5, <2>1 DEF ExchangeSucceeds, HasTokenStore
  <2>3. PICK row: grants' = Append(grants, row)
    BY <1>5 DEF ExchangeSucceeds
  <2>4. /\ \A p \in Pair: tokens[p] # None => grants'[tokens[p]].state = None
        /\ \A g \in shown: grants'[g].state = None
    BY <2>1, <2>3, SealedAppend
  <2> QED
    BY <2>1, <2>2, <2>4 DEF SealedInv
<1>6. CASE StoreTokens
  BY <1>6 DEF StoreTokens, SealedInv
<1>7. CASE MarkConnected
  BY <1>7 DEF MarkConnected, SealedInv
<1>8. CASE MarkDisconnected
  BY <1>8 DEF MarkDisconnected, SealedInv
<1>9. ASSUME NEW p \in Pair, Disconnect(p) PROVE SealedInv'
  <2>1. ~vault /\ tokens' = tokens
    BY <1>9 DEF Disconnect, HasTokenStore
  <2> QED
    BY <1>9, <2>1 DEF Disconnect, SealedInv
<1>10. ASSUME NEW p \in Pair, RotateSecret(p) PROVE SealedInv'
  BY <1>10 DEF RotateSecret, SealedInv
<1>11. ASSUME NEW p \in Pair, NEW s \in {"connected", "disconnected"}, Upsert(p, s)
       PROVE SealedInv'
  <2>1. ~vault /\ UNCHANGED <<vault, shown, refreshing, cpu>>
    BY <1>11 DEF Upsert
  <2>2. ASSUME NEW g \in shown \cup {None}, tokens' = [tokens EXCEPT ![p] = g], UNCHANGED grants
        PROVE  SealedInv'
    BY <2>1, <2>2 DEF SealedInv, TypeOK
  <2>3. ASSUME NEW refreshable \in BOOLEAN,
               grants' = Append(grants, Own(p, refreshable)),
               tokens' = [tokens EXCEPT ![p] = Len(grants) + 1]
        PROVE  SealedInv'
    <3>1. /\ \A q \in Pair: tokens[q] # None => grants'[tokens[q]].state = None
          /\ \A g \in shown: grants'[g].state = None
      BY <2>1, <2>3, SealedAppend
    <3>2. grants'[Len(grants) + 1] = Own(p, refreshable)
      BY <2>3, OldGrants DEF TypeOK
    <3>3. Own(p, refreshable).state = None
      BY DEF Own
    <3>4. \A q \in Pair: tokens'[q] = IF q = p THEN Len(grants) + 1 ELSE tokens[q]
      BY <2>3 DEF TypeOK
    <3> QED
      BY <2>1, <3>1, <3>2, <3>3, <3>4 DEF SealedInv
  <2> QED
    BY <1>11, <2>2, <2>3, UpsertWrites
<1>12. ASSUME NEW p \in Pair, NEW r \in Request, Refresh(r, p) PROVE SealedInv'
  BY <1>12 DEF Refresh, HasTokenStore, SealedInv
<1>13. ASSUME NEW r \in Request, RefreshFails(r) PROVE SealedInv'
  BY <1>13 DEF RefreshFails, SealedInv
<1>14. ASSUME NEW r \in Request, RefreshSucceeds(r) PROVE SealedInv'
  BY <1>14 DEF RefreshSucceeds, SealedInv
<1>15. CASE Crash
  BY <1>15 DEF Crash, SealedInv
<1>16. CASE UNCHANGED vars
  BY <1>16 DEF vars, SealedInv
<1>17. ASSUME NEW p \in Pair, List(p) PROVE SealedInv'
  BY <1>17 DEF List, SealedInv
<1> QED
  BY <1>1, <1>2, <1>3, <1>4, <1>5, <1>6, <1>7, <1>8, <1>9, <1>10, <1>11, <1>12,
     <1>13, <1>14, <1>15, <1>16, <1>17 DEF Next

(* NothingUnsealed: routes without a vault, those of app.js, leave in the     *)
(* rows what callers wrote, whatever is exchanged.                           *)
THEOREM NothingStoredUnsealed == Spec => []NothingUnsealed
<1>1. SealedInv => NothingUnsealed
  BY DEF SealedInv, NothingUnsealed, OfCaller
<1> QED
  BY <1>1, TypeInit, TypeStep, SealedInit, SealedStep, PTL DEF Spec

-----------------------------------------------------------------------------
(* Without a crash a disconnected row has tokens that come from a refresh or  *)
(* a caller, or the callback that is about to connect it again has just      *)
(* stored them.  What a disconnect leaves without a vault is a caller's.     *)
Elsewhere(g) == grants[g].parent # 0 \/ grants[g].state = None \/ g \in shown

LeftInv ==
  crashes = 0 =>
    /\ \A p \in Pair: status[p] = "disconnected" /\ tokens[p] # None =>
         Elsewhere(tokens[p]) \/ (cpu.at = "connect" /\ cpu.pair = p)
    /\ cpu.at = "disconnect" /\ tokens[cpu.pair] # None => Elsewhere(tokens[cpu.pair])
    /\ cpu.at = "store" => status[cpu.pair] = "connected"

LEMMA LeftInit == Init => LeftInv
  BY DEF Init, LeftInv, Idle

(* Grants that are there stay, and what was shown stays shown.               *)
LEMMA ElsewhereStays ==
  ASSUME TypeOK, shown \subseteq shown',
         grants' = grants \/ \E row: grants' = Append(grants, row)
  PROVE  \A p \in Pair: tokens[p] # None /\ Elsewhere(tokens[p]) =>
           \/ grants'[tokens[p]].parent # 0
           \/ grants'[tokens[p]].state = None
           \/ tokens[p] \in shown'
<1>1. \A p \in Pair: tokens[p] # None => tokens[p] \in Grants
  BY DEF TypeOK, Grants
<1>2. \A g \in Grants: grants'[g] = grants[g]
  BY OldGrants DEF TypeOK
<1> QED
  BY <1>1, <1>2 DEF Elsewhere

(* A statement that touches neither rows nor grants, outside the handlers     *)
(* that LeftInv speaks of.                                                   *)
LEMMA LeftSame ==
  ASSUME LeftInv, UNCHANGED <<status, tokens, grants, shown, cpu, crashes>>
  PROVE  LeftInv'
  BY DEF LeftInv, Elsewhere

LEMMA LeftStep == TypeOK /\ SealedInv /\ LeftInv /\ [Next]_vars => LeftInv'
<1> SUFFICES ASSUME TypeOK, SealedInv, LeftInv, [Next]_vars, crashes' = 0 PROVE LeftInv'
  BY DEF LeftInv
<1> USE DEF Idle
<1>1. ASSUME NEW s \in State, NEW p \in Pair, Connect(p, s) PROVE LeftInv'
  BY <1>1, LeftSame DEF Connect
<1>2. ASSUME NEW s \in State, Expire(s) PROVE LeftInv'
  BY <1>2, LeftSame DEF Expire
<1>3. ASSUME NEW s \in State, NEW provider \in Provider, Callback(s, provider)
      PROVE LeftInv'
  BY <1>3, LeftSame DEF Callback
<1>4. ASSUME NEW x \in exchanging, ExchangeFails(x) PROVE LeftInv'
  BY <1>4, LeftSame DEF ExchangeFails
<1>5. ASSUME NEW x \in exchanging, NEW refreshable \in BOOLEAN,
             ExchangeSucceeds(x, refreshable)
      PROVE LeftInv'
  <2> DEFINE p == <<asked[x[1]][1], x[2]>>
             n == Len(grants) + 1
  <2>1. p \in Pair
    BY DEF TypeOK, Pair
  <2>2. cpu = Idle /\ crashes = 0 /\ shown' = shown
        /\ \E row: grants' = Append(grants, row)
    BY <1>5 DEF ExchangeSucceeds
  <2>3. \A q \in Pair: status[q] = "disconnected" /\ tokens[q] # None => Elsewhere(tokens[q])
    BY <2>2 DEF LeftInv
  <2>4. \A q \in Pair: status[q] = "disconnected" /\ tokens[q] # None =>
          \/ grants'[tokens[q]].parent # 0
          \/ grants'[tokens[q]].state = None
          \/ tokens[q] \in shown'
    BY <2>2, <2>3, ElsewhereStays
  <2>5. \/ UNCHANGED <<status, tokens, cpu>>
        \/ /\ status' = [status EXCEPT ![p] = "connected"]
           /\ cpu' = [at |-> "store", pair |-> p, grant |-> n]
           /\ UNCHANGED tokens
        \/ /\ tokens' = [tokens EXCEPT ![p] = n]
           /\ cpu' = [at |-> "connect", pair |-> p, grant |-> n]
           /\ UNCHANGED status
    BY <1>5 DEF ExchangeSucceeds
  <2> HIDE DEF p, n
  <2>6. CASE UNCHANGED <<status, tokens, cpu>>
    BY <2>2, <2>4, <2>6 DEF LeftInv, Elsewhere
  <2>7. CASE /\ status' = [status EXCEPT ![p] = "connected"]
             /\ cpu' = [at |-> "store", pair |-> p, grant |-> n]
             /\ UNCHANGED tokens
    <3>1. status'[p] = "connected" /\ \A q \in Pair: q # p => status'[q] = status[q]
      BY <2>1, <2>7 DEF TypeOK
    <3> QED
      BY <2>4, <2>7, <3>1 DEF LeftInv, Elsewhere
  <2>8. CASE /\ tokens' = [tokens EXCEPT ![p] = n]
             /\ cpu' = [at |-> "connect", pair |-> p, grant |-> n]
             /\ UNCHANGED status
    <3>1. \A q \in Pair: q # p => tokens'[q] = tokens[q]
      BY <2>8 DEF TypeOK
    <3> QED
      BY <2>4, <2>8, <3>1 DEF LeftInv, Elsewhere
  <2> QED
    BY <2>5, <2>6, <2>7, <2>8
<1>6. CASE StoreTokens
  <2>1. cpu.pair \in Pair /\ status[cpu.pair] = "connected" /\ crashes = 0
    BY <1>6 DEF StoreTokens, LeftInv, TypeOK
  <2>2. \A q \in Pair: status[q] = "disconnected" => tokens'[q] = tokens[q]
    BY <1>6, <2>1 DEF StoreTokens, TypeOK
  <2> QED
    BY <1>6, <2>1, <2>2 DEF StoreTokens, LeftInv, Elsewhere
<1>7. CASE MarkConnected
  <2>1. status'[cpu.pair] = "connected" /\ crashes = 0
        /\ \A q \in Pair: q # cpu.pair => status'[q] = status[q]
    BY <1>7 DEF MarkConnected, TypeOK
  <2> QED
    BY <1>7, <2>1 DEF MarkConnected, LeftInv, Elsewhere
<1>8. CASE MarkDisconnected
  <2>1. tokens[cpu.pair] # None => Elsewhere(tokens[cpu.pair])
    BY <1>8 DEF MarkDisconnected, LeftInv
  <2>2. crashes = 0 /\ \A q \in Pair: q # cpu.pair => status'[q] = status[q]
    BY <1>8 DEF MarkDisconnected, TypeOK
  <2> QED
    BY <1>8, <2>1, <2>2 DEF MarkDisconnected, LeftInv, Elsewhere
<1>9. ASSUME NEW p \in Pair, Disconnect(p) PROVE LeftInv'
  <2>1. tokens'[p] # None => tokens' = tokens /\ grants[tokens[p]].state = None
    BY <1>9 DEF Disconnect, HasTokenStore, SealedInv, OfCaller, TypeOK
  <2>2. \A q \in Pair: tokens'[q] # None => tokens'[q] = tokens[q]
    BY <1>9 DEF Disconnect, TypeOK
  <2> QED
    BY <1>9, <2>1, <2>2 DEF Disconnect, LeftInv, Elsewhere
<1>10. ASSUME NEW p \in Pair, RotateSecret(p) PROVE LeftInv'
  <2>1. \A q \in Pair: status'[q] = "disconnected" => status[q] = "disconnected"
    BY <1>10 DEF RotateSecret, TypeOK
  <2> QED
    BY <1>10, <2>1 DEF RotateSecret, LeftInv, Elsewhere
<1>11. ASSUME NEW p \in Pair, NEW s \in {"connected", "disconnected"}, Upsert(p, s)
       PROVE LeftInv'
  <2>1. cpu = Idle /\ cpu' = cpu /\ crashes = 0 /\ shown' = shown
        /\ \A q \in Pair: q # p => status'[q] = status[q]
    BY <1>11 DEF Upsert, TypeOK
  <2>2. grants' = grants \/ \E row: grants' = Append(grants, row)
    BY <1>11, UpsertWrites
  <2>3. \A q \in Pair: status[q] = "disconnected" /\ tokens[q] # None => Elsewhere(tokens[q])
    BY <2>1 DEF LeftInv
  <2>4. \A q \in Pair: status[q] = "disconnected" /\ tokens[q] # None =>
          \/ grants'[tokens[q]].parent # 0
          \/ grants'[tokens[q]].state = None
          \/ tokens[q] \in shown'
    BY <2>1, <2>2, <2>3, ElsewhereStays
  <2>5. \/ tokens'[p] \in shown \cup {None}
        \/ grants'[tokens'[p]].state = None
    <3>1. CASE \E g \in shown \cup {None}: tokens' = [tokens EXCEPT ![p] = g]
      BY <3>1 DEF TypeOK
    <3>2. ASSUME NEW refreshable \in BOOLEAN,
                 grants' = Append(grants, Own(p, refreshable)),
                 tokens' = [tokens EXCEPT ![p] = Len(grants) + 1]
          PROVE  grants'[tokens'[p]].state = None
      <4>1. tokens'[p] = Len(grants) + 1
        BY <3>2 DEF TypeOK
      <4>2. grants'[Len(grants) + 1] = Own(p, refreshable)
        BY <3>2, OldGrants DEF TypeOK
      <4> QED
        BY <4>1, <4>2 DEF Own
    <3> QED
      BY <1>11, <3>1, <3>2, UpsertWrites
  <2>6. \A q \in Pair: q # p => tokens'[q] = tokens[q]
    BY <1>11, UpsertWrites DEF TypeOK
  <2> QED
    BY <2>1, <2>4, <2>5, <2>6 DEF LeftInv, Elsewhere
<1>12. ASSUME NEW p \in Pair, NEW r \in Request, Refresh(r, p) PROVE LeftInv'
  BY <1>12, LeftSame DEF Refresh
<1>13. ASSUME NEW r \in Request, RefreshFails(r) PROVE LeftInv'
  BY <1>13, LeftSame DEF RefreshFails
<1>14. ASSUME NEW r \in Request, RefreshSucceeds(r) PROVE LeftInv'
  <2> DEFINE p == refreshing[r].pair
             old == refreshing[r].grant
             row == [grants[old] EXCEPT !.parent = old]
             n == Len(grants) + 1
  <2>1. p \in Pair /\ old \in Grants
    BY <1>14 DEF RefreshSucceeds, TypeOK, Grants
  <2>2. grants[old] \in Grant /\ old # 0
    BY <2>1 DEF TypeOK, Grants
  <2>3. row.parent # 0
    BY <2>2 DEF Grant
  <2>4. grants \in Seq(Grant) /\ grants' = Append(grants, row)
    BY <1>14 DEF RefreshSucceeds, TypeOK
  <2>5. grants'[n] = row
    <3> HIDE DEF row
    <3> QED
      BY <2>4, OldGrants
  <2>6. cpu' = cpu /\ cpu = Idle /\ crashes = 0 /\ status' = status /\ shown' = shown
        /\ tokens' = [tokens EXCEPT ![p] = n]
    BY <1>14 DEF RefreshSucceeds
  <2> HIDE DEF p, old, row, n
  <2>7. tokens'[p] = n /\ \A q \in Pair: q # p => tokens'[q] = tokens[q]
    BY <2>1, <2>6 DEF TypeOK
  <2>8. \A q \in Pair: status[q] = "disconnected" /\ tokens[q] # None => Elsewhere(tokens[q])
    BY <2>6 DEF LeftInv
  <2>9. \A q \in Pair: status[q] = "disconnected" /\ tokens[q] # None =>
          \/ grants'[tokens[q]].parent # 0
          \/ grants'[tokens[q]].state = None
          \/ tokens[q] \in shown'
    BY <2>4, <2>6, <2>8, ElsewhereStays
  <2> QED
    BY <2>3, <2>5, <2>6, <2>7, <2>9 DEF LeftInv, Elsewhere
<1>15. CASE Crash
  BY <1>15, OAuthAssumption DEF Crash, TypeOK
<1>16. CASE UNCHANGED vars
  BY <1>16, LeftSame DEF vars
<1>17. ASSUME NEW p \in Pair, List(p) PROVE LeftInv'
  <2>1. shown \subseteq shown' /\ UNCHANGED <<status, tokens, grants, cpu, crashes>>
    BY <1>17 DEF List
  <2> QED
    BY <2>1 DEF LeftInv, Elsewhere
<1> QED
  BY <1>1, <1>2, <1>3, <1>4, <1>5, <1>6, <1>7, <1>8, <1>9, <1>10, <1>11, <1>12,
     <1>13, <1>14, <1>15, <1>16, <1>17 DEF Next

(* SurvivorsWereElsewhere: without a crash, tokens in a disconnected row were  *)
(* somewhere else when they were taken from it: with a refresh that waited,    *)
(* or in the hands of a caller.                                              *)
THEOREM DisconnectTakesTheRest == Spec => []SurvivorsWereElsewhere
<1>1. LeftInv => SurvivorsWereElsewhere
  BY DEF LeftInv, SurvivorsWereElsewhere, Elsewhere, Idle
<1> QED
  BY <1>1, TypeInit, TypeStep, SealedInit, SealedStep, LeftInit, LeftStep, PTL DEF Spec

-----------------------------------------------------------------------------
(* A state is in one place only: to be used, with the one callback that has   *)
(* consumed it, or behind the one grant that its code was exchanged for.      *)
OfCode(g) == g \in Grants /\ grants[g].parent = 0 /\ grants[g].state # None

OnceInv ==
  /\ \A x \in exchanging:
       /\ x[1] \notin live
       /\ \A y \in exchanging: y[1] = x[1] => y = x
       /\ \A g \in Grants: OfCode(g) => grants[g].state # x[1]
  /\ \A g \in Grants: OfCode(g) =>
       /\ grants[g].state \notin live
       /\ \A h \in Grants: OfCode(h) /\ grants[h].state = grants[g].state => h = g

LEMMA OnceInit == Init => OnceInv
  BY DEF Init, OnceInv, Grants

(* A step that gives no state, brings no callback and issues nothing.        *)
LEMMA OnceLess ==
  ASSUME OnceInv, exchanging' \subseteq exchanging, live' \subseteq live, grants' = grants
  PROVE  OnceInv'
<1>1. Grants' = Grants /\ \A g: OfCode(g)' = OfCode(g)
  BY DEF Grants, OfCode
<1> QED
  BY <1>1 DEF OnceInv

LEMMA OnceStep == TypeOK /\ AskedInv /\ OnceInv /\ [Next]_vars => OnceInv'
<1> SUFFICES ASSUME TypeOK, AskedInv, OnceInv, [Next]_vars PROVE OnceInv'
  OBVIOUS
<1>1. ASSUME NEW s \in State, NEW p \in Pair, Connect(p, s) PROVE OnceInv'
  <2>1. asked[s] = None /\ live' = live \cup {s} /\ exchanging' = exchanging /\ grants' = grants
    BY <1>1 DEF Connect
  <2>2. \A x \in exchanging: x[1] # s
    BY <2>1 DEF TypeOK
  <2>3. \A g \in Grants: grants[g].state # s
    <3> SUFFICES ASSUME NEW g \in Grants, grants[g].state = s PROVE FALSE
      OBVIOUS
    <3>1. grants[g] \in Grant
      BY DEF TypeOK, Grants
    <3>2. asked[s] = grants[g].pair /\ grants[g].pair \in Pair
      BY <3>1, OAuthAssumption DEF AskedInv, Grant
    <3> QED
      BY <2>1, <3>2, OAuthAssumption DEF Pair
  <2>4. Grants' = Grants /\ \A g: OfCode(g)' = OfCode(g)
    BY <2>1 DEF Grants, OfCode
  <2> QED
    BY <2>1, <2>2, <2>3, <2>4 DEF OnceInv
<1>2. ASSUME NEW s \in State, Expire(s) PROVE OnceInv'
  BY <1>2, OnceLess DEF Expire
<1>3. ASSUME NEW s \in State, NEW provider \in Provider, Callback(s, provider)
      PROVE OnceInv'
  <2>1. s \in live /\ live' = live \ {s} /\ grants' = grants
        /\ exchanging' \subseteq exchanging \cup {<<s, provider>>}
    BY <1>3 DEF Callback, Consume
  <2>2. \A x \in exchanging: x[1] # s
    BY <2>1 DEF OnceInv
  <2>3. \A g \in Grants: OfCode(g) => grants[g].state # s
    BY <2>1 DEF OnceInv
  <2>4. Grants' = Grants /\ \A g: OfCode(g)' = OfCode(g)
    BY <2>1 DEF Grants, OfCode
  <2>5. <<s, provider>>[1] = s
    OBVIOUS
  <2> DEFINE z == <<s, provider>>
  <2> HIDE DEF z
  <2>6. exchanging' \subseteq exchanging \cup {z} /\ z[1] = s
    BY <2>1, <2>5 DEF z
  <2>7. ASSUME NEW x \in exchanging'
        PROVE  /\ x[1] \notin live'
               /\ \A y \in exchanging': y[1] = x[1] => y = x
               /\ \A g \in Grants': OfCode(g)' => grants'[g].state # x[1]
    BY <2>1, <2>2, <2>3, <2>4, <2>6 DEF OnceInv
  <2> QED
    BY <2>1, <2>4, <2>7 DEF OnceInv
<1>4. ASSUME NEW x \in exchanging, ExchangeFails(x) PROVE OnceInv'
  BY <1>4, OnceLess DEF ExchangeFails
<1>5. ASSUME NEW x \in exchanging, NEW refreshable \in BOOLEAN,
             ExchangeSucceeds(x, refreshable)
      PROVE OnceInv'
  <2> DEFINE n == Len(grants) + 1
             row == [pair |-> <<asked[x[1]][1], x[2]>>, state |-> x[1], parent |-> 0,
                     refreshable |-> refreshable]
  <2>1. grants \in Seq(Grant) /\ grants' = Append(grants, row)
        /\ exchanging' = exchanging \ {x} /\ live' = live
    BY <1>5 DEF ExchangeSucceeds, TypeOK
  <2>2. row.state = x[1] /\ row.parent = 0
    OBVIOUS
  <2> HIDE DEF row
  <2>3. /\ Grants \subseteq Grants'
        /\ Grants' \ Grants = {n}
        /\ grants'[n] = row
        /\ \A g \in Grants: grants'[g] = grants[g]
    BY <2>1, OldGrants
  <2> HIDE DEF n
  <2>4. \A g \in Grants': OfCode(g)' =>
          \/ g = n /\ grants'[g].state = x[1]
          \/ g \in Grants /\ OfCode(g) /\ grants'[g].state = grants[g].state
    BY <2>2, <2>3 DEF OfCode
  <2>5. x[1] \notin live /\ \A g \in Grants: OfCode(g) => grants[g].state # x[1]
    BY DEF OnceInv
  <2>6. \A y \in exchanging': y \in exchanging /\ y[1] # x[1]
    BY <2>1 DEF OnceInv
  <2>7. ASSUME NEW y \in exchanging'
        PROVE  /\ y[1] \notin live'
               /\ \A z \in exchanging': z[1] = y[1] => z = y
               /\ \A g \in Grants': OfCode(g)' => grants'[g].state # y[1]
    BY <2>1, <2>4, <2>6 DEF OnceInv
  <2>8. ASSUME NEW g \in Grants', OfCode(g)'
        PROVE  /\ grants'[g].state \notin live'
               /\ \A h \in Grants': OfCode(h)' /\ grants'[h].state = grants'[g].state => h = g
    BY <2>1, <2>4, <2>5, <2>8 DEF OnceInv
  <2> QED
    BY <2>7, <2>8 DEF OnceInv
<1>6. CASE StoreTokens
  BY <1>6, OnceLess DEF StoreTokens
<1>7. CASE MarkConnected
  BY <1>7, OnceLess DEF MarkConnected
<1>8. CASE MarkDisconnected
  BY <1>8, OnceLess DEF MarkDisconnected
<1>9. ASSUME NEW p \in Pair, Disconnect(p) PROVE OnceInv'
  BY <1>9, OnceLess DEF Disconnect
<1>10. ASSUME NEW p \in Pair, RotateSecret(p) PROVE OnceInv'
  BY <1>10, OnceLess DEF RotateSecret
<1>11. ASSUME NEW p \in Pair, NEW s \in {"connected", "disconnected"}, Upsert(p, s)
       PROVE OnceInv'
  <2>1. exchanging' = exchanging /\ live' = live
    BY <1>11 DEF Upsert
  <2>2. CASE grants' = grants
    BY <2>1, <2>2, OnceLess
  <2>3. ASSUME NEW refreshable \in BOOLEAN, grants' = Append(grants, Own(p, refreshable))
        PROVE  OnceInv'
    <3>1. /\ Grants \subseteq Grants'
          /\ Grants' \ Grants = {Len(grants) + 1}
          /\ grants'[Len(grants) + 1] = Own(p, refreshable)
          /\ \A g \in Grants: grants'[g] = grants[g]
      BY <2>3, OldGrants DEF TypeOK
    <3>2. Own(p, refreshable).state = None
      BY DEF Own
    <3>3. \A g \in Grants': OfCode(g)' =>
            g \in Grants /\ OfCode(g) /\ grants'[g].state = grants[g].state
      BY <3>1, <3>2 DEF OfCode
    <3> QED
      BY <2>1, <3>3 DEF OnceInv
  <2> QED
    BY <1>11, <2>2, <2>3, UpsertWrites
<1>12. ASSUME NEW p \in Pair, NEW r \in Request, Refresh(r, p) PROVE OnceInv'
  BY <1>12, OnceLess DEF Refresh
<1>13. ASSUME NEW r \in Request, RefreshFails(r) PROVE OnceInv'
  BY <1>13, OnceLess DEF RefreshFails
<1>14. ASSUME NEW r \in Request, RefreshSucceeds(r) PROVE OnceInv'
  <2> DEFINE old == refreshing[r].grant
             row == [grants[old] EXCEPT !.parent = old]
             n == Len(grants) + 1
  <2>1. old \in Grants /\ old # 0
    BY <1>14 DEF RefreshSucceeds, TypeOK, Grants
  <2>2. grants[old] \in Grant
    BY <2>1 DEF TypeOK, Grants
  <2>3. row.parent # 0
    BY <2>1, <2>2 DEF Grant
  <2>4. grants \in Seq(Grant) /\ grants' = Append(grants, row)
        /\ exchanging' = exchanging /\ live' = live
    BY <1>14 DEF RefreshSucceeds, TypeOK
  <2> HIDE DEF row
  <2>5. /\ Grants \subseteq Grants'
        /\ Grants' \ Grants = {n}
        /\ grants'[n] = row
        /\ \A g \in Grants: grants'[g] = grants[g]
    BY <2>4, OldGrants
  <2> HIDE DEF n, old
  <2>6. \A g \in Grants': OfCode(g)' =>
          g \in Grants /\ OfCode(g) /\ grants'[g].state = grants[g].state
    BY <2>3, <2>5 DEF OfCode
  <2> QED
    BY <2>4, <2>6 DEF OnceInv
<1>15. CASE Crash
  BY <1>15, OnceLess DEF Crash
<1>16. CASE UNCHANGED vars
  BY <1>16, OnceLess DEF vars
<1>17. ASSUME NEW p \in Pair, List(p) PROVE OnceInv'
  BY <1>17, OnceLess DEF List
<1> QED
  BY <1>1, <1>2, <1>3, <1>4, <1>5, <1>6, <1>7, <1>8, <1>9, <1>10, <1>11, <1>12,
     <1>13, <1>14, <1>15, <1>16, <1>17 DEF Next

(* OneExchangePerState: however many callbacks bring a state, and however they *)
(* interleave with expiry and restarts, at most one of them gets tokens for    *)
(* its code.                                                                   *)
THEOREM StatesAreUsedOnce == Spec => []OneExchangePerState
<1>1. ASSUME OnceInv PROVE OneExchangePerState
  <2> SUFFICES ASSUME NEW s \in State
               PROVE  Cardinality({g \in Grants: grants[g].state = s /\ grants[g].parent = 0}) <= 1
    BY DEF OneExchangePerState
  <2> DEFINE S == {g \in Grants: grants[g].state = s /\ grants[g].parent = 0}
  <2>1. ASSUME NEW g \in S PROVE S = {g}
    BY <1>1, OAuthAssumption DEF OnceInv, OfCode
  <2>2. CASE S = {}
    BY <2>2, FS_EmptySet
  <2>3. CASE S # {}
    BY <2>1, <2>3, FS_Singleton
  <2> QED
    BY <2>2, <2>3
<1> QED
  BY <1>1, TypeInit, TypeStep, AskedInit, AskedStep, OnceInit, OnceStep, PTL DEF Spec
=============================================================================

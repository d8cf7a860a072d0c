-------------------------- MODULE SelectionProofs ---------------------------
(***************************************************************************)
(* Proofs that count or follow a loop: the cap of the claims table, the    *)
(* loop of selectLeastConnections, and the types of the request path,      *)
(* which needs both: a selection is a registered node, and the load a      *)
(* worker reports is a number of requests.                                 *)
(***************************************************************************)
EXTENDS RequestPathProofs, FiniteSetTheorems

(* The claims invariant.  The cap is only inductive for a finite table.    *)
ClaimsInv == TypeOK /\ IsFiniteSet(DOMAIN claims) /\ ClaimsBounded

(* Expiry only shrinks the table; a new name then adds one claim, and when *)
(* the table is full exactly one live claim makes room for it.             *)
LEMMA RecordClaimKeepsCap ==
  ASSUME ClaimsInv, NEW id \in Node, NEW reason \in Reason, recordClaim(id, reason)
  PROVE  IsFiniteSet(DOMAIN claims') /\ ClaimsBounded'
<1>1. IsFiniteSet(LiveClaims) /\ Cardinality(LiveClaims) <= ClaimMax /\ Cardinality(LiveClaims) \in Nat
  <2>1. LiveClaims \subseteq DOMAIN claims
    BY DEF LiveClaims
  <2> QED BY <2>1, FS_Subset, FS_CardinalityType, RegistryAssumption, ProtocolAssumption DEF ClaimsInv, ClaimsBounded
<1>2. PICK evicted \in IF ClaimsFull(id) THEN {{old} : old \in OldestClaims} ELSE {{}} :
        claims' = Put(Restrict(claims, LiveClaims \ evicted), id, [reason |-> reason, age |-> 0])
  BY RegistryAssumption, ProtocolAssumption, ZenonT(30) DEF recordClaim, Nameless
<1>3. DOMAIN claims' = (LiveClaims \ evicted) \cup {id}
  BY <1>2 DEF Put, Restrict
<1>4. CASE id \in LiveClaims
  <2>1. DOMAIN claims' = LiveClaims
    BY <1>2, <1>3, <1>4 DEF ClaimsFull
  <2> QED BY <1>1, <2>1 DEF ClaimsBounded
<1>5. CASE id \notin LiveClaims /\ ~ClaimsFull(id)
  <2>1. DOMAIN claims' = LiveClaims \cup {id} /\ Cardinality(LiveClaims) < ClaimMax
    BY <1>1, <1>2, <1>3, <1>5, RegistryAssumption, ProtocolAssumption DEF ClaimsFull
  <2>2. IsFiniteSet(LiveClaims \cup {id}) /\ Cardinality(LiveClaims \cup {id}) = Cardinality(LiveClaims) + 1
    BY <1>1, <1>5, FS_AddElement
  <2> QED BY <1>1, <2>1, <2>2, RegistryAssumption, ProtocolAssumption DEF ClaimsBounded
<1>6. CASE ClaimsFull(id)
  <2>1. PICK old \in LiveClaims : evicted = {old}
    BY <1>2, <1>6 DEF OldestClaims
  <2>2. DOMAIN claims' = (LiveClaims \ {old}) \cup {id} /\ id \notin LiveClaims \ {old}
    BY <1>3, <1>6, <2>1 DEF ClaimsFull
  <2>3. IsFiniteSet(LiveClaims \ {old}) /\ Cardinality(LiveClaims \ {old}) = Cardinality(LiveClaims) - 1
    BY <1>1, <2>1, FS_RemoveElement
  <2>4. /\ IsFiniteSet((LiveClaims \ {old}) \cup {id})
        /\ Cardinality((LiveClaims \ {old}) \cup {id}) = Cardinality(LiveClaims \ {old}) + 1
    BY <2>2, <2>3, FS_AddElement, ZenonT(30)
  <2> QED BY <1>1, <2>2, <2>3, <2>4, RegistryAssumption, ProtocolAssumption DEF ClaimsBounded
<1> QED BY <1>4, <1>5, <1>6 DEF ClaimsFull

(* Every step of the registry keeps the claims invariant.                  *)
LEMMA ClaimsPreserved == ClaimsInv /\ TypeOK' /\ [RegistryNext]_registryVars => ClaimsInv'
<1> SUFFICES ASSUME ClaimsInv, TypeOK', [RegistryNext]_registryVars
             PROVE  IsFiniteSet(DOMAIN claims') /\ ClaimsBounded'
  BY DEF ClaimsInv
<1>1. ASSUME DOMAIN claims' \subseteq DOMAIN claims
      PROVE  IsFiniteSet(DOMAIN claims') /\ ClaimsBounded'
  <2>1. /\ IsFiniteSet(DOMAIN claims') /\ Cardinality(DOMAIN claims') <= Cardinality(DOMAIN claims)
        /\ Cardinality(DOMAIN claims') \in Nat /\ Cardinality(DOMAIN claims) \in Nat
    BY <1>1, FS_Subset, FS_CardinalityType DEF ClaimsInv
  <2> QED BY <2>1, RegistryAssumption, ProtocolAssumption DEF ClaimsInv, ClaimsBounded
<1>2. CASE \E id \in Node, pipe \in Pipe, s \in ConnState, n \in Load : upsert(id, pipe, s, n)
  BY <1>1, <1>2 DEF upsert, NewEntry, ClaimsWithout, Delete, Restrict
<1>3. CASE \E id \in Node \cup {NoName}, reason \in Reason : recordClaim(id, reason)
  <2>1. PICK id \in Node \cup {NoName}, reason \in Reason : recordClaim(id, reason)
    BY <1>3
  <2>2. CASE id = NoName
    BY <1>1, <2>1, <2>2 DEF recordClaim, Nameless
  <2>3. CASE id # NoName
    BY <2>1, <2>3, RecordClaimKeepsCap
  <2> QED BY <2>2, <2>3
<1>4. CASE RegistryTick
  BY <1>1, <1>4 DEF RegistryTick, Aged
<1>5. CASE UNCHANGED registryVars
  BY <1>1, <1>5 DEF registryVars
<1>6. CASE RegistryRestart
  BY <1>1, <1>6 DEF RegistryRestart, newNodeRegistry
<1> QED BY <1>2, <1>3, <1>4, <1>5, <1>6 DEF RegistryNext

(* The empty registry satisfies it.                                        *)
LEMMA ClaimsInitially == newNodeRegistry => ClaimsInv
<1> SUFFICES ASSUME newNodeRegistry PROVE ClaimsInv
  OBVIOUS
<1>1. DOMAIN claims = {}
  BY DEF newNodeRegistry
<1>2. IsFiniteSet({}) /\ Cardinality({}) = 0
  BY FS_EmptySet
<1> QED BY <1>1, <1>2, IndexInitially, RegistryAssumption, ProtocolAssumption DEF IndexInv, ClaimsInv, ClaimsBounded

(* No sequence of refused heartbeats grows the claims table past its cap   *)
(* (recordClaim, nodes.go:93-110).                                         *)
THEOREM ClaimsAreBounded == RegistrySpec => []ClaimsBounded
<1>1. ClaimsInv => ClaimsBounded
  BY DEF ClaimsInv
<1> QED BY <1>1, ClaimsInitially, ClaimsPreserved, TypeCorrect, PTL DEF RegistrySpec

-----------------------------------------------------------------------------
(* Every step keeps claims newer than the registrations beside them.       *)
LEMMA NoOutdatedClaimPreserved ==
  TypeOK /\ NoOutdatedClaim /\ [RegistryNext]_registryVars => NoOutdatedClaim'
<1> SUFFICES ASSUME TypeOK, NoOutdatedClaim, [RegistryNext]_registryVars,
                    NEW id \in DOMAIN claims' \cap DOMAIN byID'
             PROVE  claims'[id].age <= byID'[id].age
  BY DEF NoOutdatedClaim
<1>1. CASE \E n \in Node, pipe \in Pipe, s \in ConnState, k \in Load : upsert(n, pipe, s, k)
  <2>1. PICK n \in Node, pipe \in Pipe, s \in ConnState, k \in Load : upsert(n, pipe, s, k)
    BY <1>1
  <2>2. id # n /\ id \in DOMAIN claims /\ claims'[id] = claims[id]
    BY <2>1 DEF upsert, NewEntry, ClaimsWithout, Delete, Restrict
  <2>3. id \in DOMAIN byID /\ byID'[id] = byID[id]
    BY <2>1, <2>2 DEF upsert, NewEntry, Put, Delete, Restrict
  <2> QED BY <2>2, <2>3 DEF NoOutdatedClaim
<1>2. CASE \E n \in Node \cup {NoName}, reason \in Reason : recordClaim(n, reason)
  <2>1. PICK n \in Node \cup {NoName}, reason \in Reason : recordClaim(n, reason)
    BY <1>2
  <2>2. byID' = byID /\ byID[id].age \in Nat
    BY <2>1, RegistryAssumption, ProtocolAssumption DEF recordClaim, Nameless, TypeOK, NodeEntry, Age
  <2>3. CASE n = NoName
    BY <2>1, <2>2, <2>3 DEF recordClaim, Nameless, NoOutdatedClaim
  <2>4. CASE n # NoName
    <3>1. PICK evicted : claims' = Put(Restrict(claims, LiveClaims \ evicted), n,
                                        [reason |-> reason, age |-> 0])
      BY <2>1, <2>4 DEF recordClaim, Nameless
    <3>2. CASE id = n
      BY <2>2, <3>1, <3>2 DEF Put
    <3>3. CASE id # n
      <4>1. id \in DOMAIN claims /\ claims'[id] = claims[id]
        BY <3>1, <3>3 DEF Put, Restrict, LiveClaims
      <4> QED BY <2>2, <4>1 DEF NoOutdatedClaim
    <3> QED BY <3>2, <3>3
  <2> QED BY <2>3, <2>4
<1>3. CASE RegistryTick
  <2>1. /\ id \in DOMAIN byID /\ id \in DOMAIN claims
        /\ byID'[id].age = Older(byID[id].age) /\ claims'[id].age = Older(claims[id].age)
    BY <1>3, TickType
  <2>2. byID[id].age \in Age /\ claims[id].age \in Age /\ claims[id].age <= byID[id].age
    BY <2>1 DEF TypeOK, NodeEntry, ClaimEntry, NoOutdatedClaim
  <2> QED BY <2>1, <2>2, RegistryAssumption, ProtocolAssumption DEF Older, Age
<1>4. CASE UNCHANGED registryVars
  BY <1>4 DEF registryVars, NoOutdatedClaim
<1>5. CASE RegistryRestart
  BY <1>5 DEF RegistryRestart, newNodeRegistry
<1> QED BY <1>1, <1>2, <1>3, <1>4, <1>5 DEF RegistryNext

(* A claim shown beside a registered node is newer than the registration   *)
(* (upsert, nodes.go:141-142).                                             *)
THEOREM ClaimsAreNewer == RegistrySpec => []NoOutdatedClaim
<1>1. newNodeRegistry => NoOutdatedClaim
  BY DEF newNodeRegistry, NoOutdatedClaim
<1> QED BY <1>1, NoOutdatedClaimPreserved, TypeCorrect, PTL DEF RegistrySpec

-----------------------------------------------------------------------------
(* When one set is below another in the order of the sets of naturals.     *)
LEMMA StrictlyInside ==
  ASSUME NEW a, NEW b, a \subseteq b, b \subseteq Nat, a # b
  PROVE  <<a, b>> \in StrictSubsetOrdering(Nat)
BY Zenon DEF StrictSubsetOrdering

(* Induction over the naturals, for a property given as a set.             *)
LEMMA SetInduction ==
  ASSUME NEW S, 0 \in S, \A n \in Nat : n \in S => n + 1 \in S
  PROVE  Nat \subseteq S
<1> DEFINE T == {1 .. n : n \in Nat \ S}
<1> SUFFICES ASSUME T # {} PROVE FALSE
  OBVIOUS
<1>1. IsWellFoundedOn(StrictSubsetOrdering(Nat), FiniteSubsetsOf(Nat))
  BY FS_StrictSubsetOrderingWellFounded
<1>2. T \subseteq FiniteSubsetsOf(Nat)
  <2>1. \A n \in Nat : IsFiniteSet(1 .. n) /\ 1 .. n \subseteq Nat
    BY FS_Interval
  <2> QED BY <2>1 DEF FiniteSubsetsOf
<1>3. PICK t \in T : \A u \in T : <<u, t>> \notin StrictSubsetOrdering(Nat)
  <2> HIDE DEF T
  <2> QED BY <1>1, <1>2, WFMin
<1>4. PICK n \in Nat \ S : t = 1 .. n
  OBVIOUS
<1>5. n - 1 \in Nat \ S
  <2>1. n # 0 /\ n \in Nat
    OBVIOUS
  <2>2. n - 1 \in Nat /\ (n - 1) + 1 = n
    BY <2>1
  <2> QED BY <2>2
<1>6. 1 .. (n - 1) \in T /\ 1 .. (n - 1) # 1 .. n /\ 1 .. (n - 1) \subseteq 1 .. n
  <2>1. n \in 1 .. n /\ n \notin 1 .. (n - 1)
    BY <1>5
  <2> QED BY <1>5, <2>1
<1>7. <<1 .. (n - 1), 1 .. n>> \in StrictSubsetOrdering(Nat)
  <2>1. 1 .. n \subseteq Nat
    OBVIOUS
  <2> QED BY <1>6, <2>1, StrictlyInside, Zenon
<1> QED BY <1>3, <1>4, <1>6, <1>7, ZenonT(30)

(* The recursion of the selection loop has a solution, so bestAfter is it. *)
Loop(g, n) ==
  g = [i \in 0 .. n |-> IF i = 0 THEN NoName
                        ELSE IF Beats(order[i], g[i - 1]) THEN order[i] ELSE g[i - 1]]
LEMMA LoopRuns ==
  ASSUME TypeOK
  PROVE  /\ bestAfter[0] = NoName
         /\ \A i \in 1 .. Len(order) :
              bestAfter[i] = IF Beats(order[i], bestAfter[i - 1]) THEN order[i] ELSE bestAfter[i - 1]
<1> DEFINE S == {n \in Nat : \E g : Loop(g, n)}
<1>1. 0 \in S
  <2>1. Loop([i \in 0 .. 0 |-> NoName], 0)
    BY DEF Loop
  <2> QED BY <2>1
<1>2. ASSUME NEW n \in Nat, n \in S PROVE n + 1 \in S
  <2>1. PICK g : Loop(g, n)
    BY <1>2
  <2> DEFINE h == [i \in 0 .. n + 1 |->
                     IF i = 0 THEN NoName
                     ELSE IF Beats(order[i], g[i - 1]) THEN order[i] ELSE g[i - 1]]
  <2>2. /\ \A i \in 0 .. n : h[i] = g[i] /\ i \in 0 .. n + 1
        /\ \A i \in 0 .. n + 1 : i = 0 \/ i - 1 \in 0 .. n
    BY <2>1 DEF Loop
  <2>3. /\ h = [i \in 0 .. n + 1 |-> h[i]]
        /\ \A i \in 0 .. n + 1 :
             h[i] = IF i = 0 THEN NoName
                    ELSE IF Beats(order[i], g[i - 1]) THEN order[i] ELSE g[i - 1]
    OBVIOUS
  <2> HIDE DEF h
  <2>4. \A i \in 0 .. n + 1 :
          h[i] = IF i = 0 THEN NoName
                 ELSE IF Beats(order[i], h[i - 1]) THEN order[i] ELSE h[i - 1]
    BY <2>2, <2>3, ZenonT(30)
  <2>5. Loop(h, n + 1)
    BY <2>3, <2>4, ZenonT(30) DEF Loop
  <2>6. n + 1 \in Nat
    OBVIOUS
  <2> QED BY <2>5, <2>6
<1>3. \E g : Loop(g, Len(order))
  <2>1. Nat \subseteq S
    <3> HIDE DEF S
    <3> QED BY <1>1, <1>2, SetInduction
  <2>2. Len(order) \in Nat
    BY DEF TypeOK
  <2> QED BY <2>1, <2>2
<1>4. Loop(bestAfter, Len(order))
  BY <1>3 DEF Loop, bestAfter
<1>5. Len(order) \in Nat
  BY DEF TypeOK
<1> QED BY <1>4, <1>5 DEF Loop

(* What the loop has found after the first n ids of order.                 *)
Fresh(i) == ~Stale(order[i])
LoadAt(i) == byID[order[i]].activeRequests
NoBetter(k, j) == LoadAt(k) < LoadAt(j) \/ (LoadAt(k) = LoadAt(j) /\ k <= j)
Found(n) ==
  IF \A i \in 1 .. n : ~Fresh(i) THEN bestAfter[n] = NoName
  ELSE \E k \in 1 .. n : /\ Fresh(k) /\ bestAfter[n] = order[k]
                         /\ \A j \in 1 .. n : Fresh(j) => NoBetter(k, j)

LEMMA LoopFinds ==
  ASSUME IndexInv
  PROVE  \A n \in 0 .. Len(order) : Found(n)
<1>0. /\ Len(order) \in Nat /\ DOMAIN order = 1 .. Len(order)
      /\ \A i \in 1 .. Len(order) : order[i] \in Node /\ order[i] # NoName /\ LoadAt(i) \in Nat
  <2>1. Len(order) \in Nat /\ DOMAIN order = 1 .. Len(order) /\ order \in Seq(Node)
    BY DEF IndexInv, TypeOK
  <2>2. \A i \in 1 .. Len(order) : order[i] \in Node /\ order[i] # NoName
    BY <2>1, RegistryAssumption
  <2>3. \A i \in 1 .. Len(order) : byID[order[i]] \in NodeEntry
    BY <2>1 DEF IndexInv, TypeOK, OrderIndexed
  <2> QED BY <2>1, <2>2, <2>3, ProtocolAssumption, ZenonT(30) DEF NodeEntry, LoadAt
<1> DEFINE S == {n \in Nat : n <= Len(order) => Found(n)}
<1>1. 0 \in S
  BY LoopRuns DEF IndexInv, Found
<1>2. ASSUME NEW n \in Nat, n \in S PROVE n + 1 \in S
  <2> SUFFICES ASSUME n + 1 <= Len(order) PROVE Found(n + 1)
    OBVIOUS
  <2> DEFINE m == n + 1
  <2>1. Found(n) /\ m \in 1 .. Len(order) /\ m - 1 = n
    BY <1>0, <1>2
  <2>2. 1 .. m = 1 .. n \cup {m} /\ \A i \in 1 .. n : i \in 1 .. Len(order) /\ i < m
    BY <1>0, <2>1
  <2> HIDE DEF m
  <2>3. bestAfter[m] = IF Beats(order[m], bestAfter[n]) THEN order[m] ELSE bestAfter[n]
    BY <2>1, LoopRuns DEF IndexInv
  <2>4. CASE ~Fresh(m)
    <3>1. bestAfter[m] = bestAfter[n]
      BY <2>3, <2>4 DEF Beats, Fresh
    <3>2. Found(m)
      BY <2>1, <2>2, <2>4, <3>1 DEF Found
    <3> QED BY <3>2 DEF m
  <2>5. CASE Fresh(m) /\ \A i \in 1 .. n : ~Fresh(i)
    <3>1. bestAfter[m] = order[m]
      BY <2>1, <2>3, <2>5 DEF Beats, Fresh, Found
    <3>2. NoBetter(m, m)
      BY <1>0, <2>1 DEF NoBetter
    <3>3. Found(m)
      BY <2>2, <2>5, <3>1, <3>2 DEF Found
    <3> QED BY <3>3 DEF m
  <2>6. CASE Fresh(m) /\ \E i \in 1 .. n : Fresh(i)
    <3>1. PICK k \in 1 .. n : /\ Fresh(k) /\ bestAfter[n] = order[k]
                              /\ \A j \in 1 .. n : Fresh(j) => NoBetter(k, j)
      BY <2>1, <2>6 DEF Found
    <3>2. bestAfter[n] # NoName /\ k \in 1 .. Len(order) /\ k < m
      BY <1>0, <2>2, <3>1
    <3>3. CASE LoadAt(m) < LoadAt(k)
      <4>1. bestAfter[m] = order[m]
        BY <2>3, <2>6, <3>1, <3>3 DEF Beats, Fresh, LoadAt
      <4>2. \A j \in 1 .. n : Fresh(j) => NoBetter(m, j)
        BY <1>0, <2>1, <2>2, <3>1, <3>2, <3>3 DEF NoBetter
      <4>3. NoBetter(m, m)
        BY <1>0, <2>1 DEF NoBetter
      <4>4. Found(m)
        BY <2>2, <2>6, <4>1, <4>2, <4>3, ZenonT(30) DEF Found
      <4> QED BY <4>4 DEF m
    <3>4. CASE ~(LoadAt(m) < LoadAt(k))
      <4>1. bestAfter[m] = order[k]
        BY <2>3, <3>1, <3>2, <3>4 DEF Beats, LoadAt
      <4>2. NoBetter(k, m)
        BY <1>0, <2>1, <3>2, <3>4, SMTT(30) DEF NoBetter
      <4>3. Found(m)
        BY <2>2, <2>6, <3>1, <4>1, <4>2, ZenonT(30) DEF Found
      <4> QED BY <4>3 DEF m
    <3> QED BY <3>3, <3>4
  <2> QED BY <2>4, <2>5, <2>6
<1>3. Nat \subseteq S
  <2> HIDE DEF S
  <2> QED BY <1>1, <1>2, SetInduction
<1> QED BY <1>0, <1>3

(* The selection follows from the registry's indexes agreeing.             *)
LEMMA SelectionFinds ==
  ASSUME IndexInv
  PROVE  SelectsLeastLoaded
<1>1. Len(order) \in Nat /\ DOMAIN order = 1 .. Len(order)
  BY DEF IndexInv, TypeOK
<1>2. Found(Len(order))
  BY <1>1, LoopFinds
<1>3. {i \in DOMAIN order : ~Stale(order[i])} = {} <=> \A i \in 1 .. Len(order) : ~Fresh(i)
  BY <1>1 DEF Fresh
<1>4. CASE \A i \in 1 .. Len(order) : ~Fresh(i)
  BY <1>2, <1>3, <1>4, SMTT(30) DEF SelectsLeastLoaded, selectLeastConnections, Found
<1>5. CASE ~ \A i \in 1 .. Len(order) : ~Fresh(i)
  <2>1. PICK k \in 1 .. Len(order) :
          /\ Fresh(k) /\ bestAfter[Len(order)] = order[k]
          /\ \A j \in 1 .. Len(order) : Fresh(j) => NoBetter(k, j)
    BY <1>2, <1>5 DEF Found
  <2> QED BY <1>1, <1>3, <1>5, <2>1
          DEF SelectsLeastLoaded, selectLeastConnections, Fresh, NoBetter, LoadAt
<1> QED BY <1>4, <1>5

(* The loop returns a node that is not stale, has the least load, and was  *)
(* registered first among equals, or none when all are stale               *)
(* (nodes.go:230-248).                                                     *)
THEOREM SelectionIsLeastLoaded == RegistrySpec => []SelectsLeastLoaded
<1>1. IndexInv => SelectsLeastLoaded
  BY SelectionFinds
<1> QED BY <1>1, IndexInitially, IndexPreserved, PTL DEF RegistrySpec

-----------------------------------------------------------------------------
(* What ClaimLossJustified accepts for the loss of the claim of id.        *)
LossJustified(id) ==
  \/ RegistryRestart
  \/ id \in DOMAIN byID' /\ byID'[id].age = 0
  \/ claims[id].age > ClaimExpiry
  \/ /\ Cardinality(LiveClaims) = ClaimMax
     /\ \A other \in DOMAIN claims' : claims'[other].age <= claims[id].age

LEMMA LossIsJustified ==
  ASSUME ClaimsInv, [RegistryNext]_registryVars, NEW id \in DOMAIN claims \ DOMAIN claims'
  PROVE  LossJustified(id)
<1>0. claims \in [DOMAIN claims -> ClaimEntry] /\ \A n \in DOMAIN claims : claims[n].age \in Nat
  BY RegistryAssumption, ProtocolAssumption DEF ClaimsInv, TypeOK, ClaimEntry, Age
<1>1. CASE \E n \in Node, pipe \in Pipe, s \in ConnState, k \in Load : upsert(n, pipe, s, k)
  <2>1. PICK n \in Node, pipe \in Pipe, s \in ConnState, k \in Load : upsert(n, pipe, s, k)
    BY <1>1
  <2>2. id = n
    BY <2>1 DEF upsert, ClaimsWithout, Delete, Restrict
  <2>3. n \in DOMAIN byID' /\ byID'[n].age = 0
    BY <2>1 DEF upsert, NewEntry, Put
  <2> QED BY <2>2, <2>3 DEF LossJustified
<1>2. CASE \E n \in Node \cup {NoName}, reason \in Reason : recordClaim(n, reason)
  <2>1. PICK n \in Node \cup {NoName}, reason \in Reason : recordClaim(n, reason)
    BY <1>2
  <2>2. n # NoName
    BY <2>1 DEF recordClaim, Nameless
  <2>3. PICK evicted \in IF ClaimsFull(n) THEN {{old} : old \in OldestClaims} ELSE {{}} :
          claims' = Put(Restrict(claims, LiveClaims \ evicted), n, [reason |-> reason, age |-> 0])
    BY <2>1, <2>2, ZenonT(30) DEF recordClaim, Nameless
  <2>4. /\ DOMAIN claims' = (LiveClaims \ evicted) \cup {n} /\ claims'[n].age = 0
        /\ \A m \in DOMAIN claims' : m # n => m \in LiveClaims /\ claims'[m] = claims[m]
    BY <2>3 DEF Put, Restrict
  <2>5. CASE id \notin LiveClaims
    BY <1>0, <2>5, RegistryAssumption, SMTT(30) DEF LiveClaims, LossJustified
  <2>6. CASE id \in LiveClaims
    <3>1. ClaimsFull(n) /\ evicted = {id} /\ id \in OldestClaims
      BY <2>3, <2>4, <2>6
    <3>2. \A m \in DOMAIN claims' : claims'[m].age <= claims[id].age
      BY <1>0, <2>4, <3>1, SMTT(30) DEF OldestClaims
    <3>3. Cardinality(LiveClaims) = ClaimMax
      <4>1. LiveClaims \subseteq DOMAIN claims /\ IsFiniteSet(DOMAIN claims)
        BY DEF LiveClaims, ClaimsInv
      <4>2. /\ Cardinality(LiveClaims) \in Nat /\ Cardinality(DOMAIN claims) \in Nat
            /\ Cardinality(LiveClaims) <= Cardinality(DOMAIN claims)
        BY <4>1, FS_Subset, FS_CardinalityType
      <4>3. Cardinality(LiveClaims) >= ClaimMax
        BY <3>1 DEF ClaimsFull
      <4>4. Cardinality(DOMAIN claims) <= ClaimMax
        BY DEF ClaimsInv, ClaimsBounded
      <4> QED BY <4>2, <4>3, <4>4, RegistryAssumption
    <3> QED BY <3>2, <3>3 DEF LossJustified
  <2> QED BY <2>5, <2>6
<1>3. CASE RegistryTick \/ UNCHANGED registryVars
  BY <1>3 DEF RegistryTick, Aged, registryVars
<1>4. CASE RegistryRestart
  BY <1>4 DEF LossJustified
<1> QED BY <1>1, <1>2, <1>3, <1>4 DEF RegistryNext

(* A claim is lost only to a registration, to age, or to a full table in   *)
(* which no claim that stays is older (recordClaim, nodes.go:93-110).      *)
THEOREM ClaimLossIsJustified == RegistrySpec => ClaimLossJustified
<1>1. ClaimsInv /\ [RegistryNext]_registryVars =>
        [\A id \in DOMAIN claims \ DOMAIN claims' : LossJustified(id)]_registryVars
  BY LossIsJustified
<1>2. RegistrySpec => []ClaimsInv
  BY ClaimsInitially, ClaimsPreserved, TypeCorrect, PTL DEF RegistrySpec
<1>3. RegistrySpec => [][\A id \in DOMAIN claims \ DOMAIN claims' : LossJustified(id)]_registryVars
  BY <1>1, <1>2, PTL DEF RegistrySpec
<1> QED BY <1>3 DEF ClaimLossJustified, LossJustified
-----------------------------------------------------------------------------
(* The types of what does not belong to one request alone, and all that    *)
(* is said of the request path.                                            *)
RestOK ==
  /\ conn \in [Node -> Pipe \cup {NoPipe}] /\ nextPipe \in Nat
  /\ streamed \subseteq Req /\ gone \subseteq Req
  /\ pick \in [Req -> [id : Node \cup {NoName}, pipe : Pipe \cup {NoPipe}]]
  /\ server \in {"serving", "stopping", "closed"} /\ receiving \in BOOLEAN
  /\ faults \in 0 .. MaxFaults
PathInv == IndexInv /\ RestOK /\ Requests

(* The load a worker reports is that of at most all requests.              *)
LEMMA LoadInRange == \A w : activeRequests(w) \in Load
<1> TAKE w
<1> DEFINE S == {r \in JobsOf(w) : job[r] = "running"}
<1>1. S \subseteq Req
  BY DEF JobsOf
<1>2. Cardinality(S) <= Cardinality(Req) /\ Cardinality(S) \in Nat /\ Cardinality(Req) \in Nat
  BY <1>1, PathAssumption, FS_Subset, FS_CardinalityType
<1> HIDE DEF S
<1>3. Cardinality(S) \in 0 .. Cardinality(Req)
  BY <1>2
<1> QED BY <1>3, PathAssumption DEF activeRequests, S

(* What the request path does to the registry is what the registry allows. *)
LEMMA RegistryStep ==
  ASSUME RestOK, [PathNext]_pathVars
  PROVE  [RegistryNext]_registryVars
<1>1. CASE \E w \in Node : Heartbeat(w)
  <2>1. PICK w \in Node : Heartbeat(w)
    BY <1>1
  <2>2. conn[w] \in Pipe
    BY <2>1 DEF RestOK, Heartbeat
  <2> QED BY <2>1, <2>2, LoadInRange DEF Heartbeat, RegistryNext
<1>2. CASE PathTick
  BY <1>2 DEF PathTick, RegistryNext
<1>3. CASE UNCHANGED pathVars
  BY <1>3, SMTT(30) DEF pathVars
<1>4. CASE \E r \in Req : \/ HandlerStep(r) \/ JobStep(r) \/ ReceiveFrame(r)
                          \/ Unauthorized(r) \/ DispatchFails(r) \/ ProxyFails(r) \/ ClientLeaves(r)
  BY <1>4, ZenonT(30) DEF HandlerStep, JobStep, Select, Store, Dispatch, HandleFrame, StartJob, Read, ReceiveFrame,
              Unauthorized, DispatchFails, ProxyFails, ClientLeaves
<1>5. CASE \E w \in Node : Connect(w) \/ Disconnect(w) \/ Crash(w)
  BY <1>5 DEF Connect, Disconnect, Crash
<1>6. CASE Terminate \/ recvLoopReturns \/ Shutdown
  BY <1>6 DEF Terminate, recvLoopReturns, Shutdown
<1> QED BY <1>1, <1>2, <1>3, <1>4, <1>5, <1>6, SMTT(30) DEF PathNext

(* selectLeastConnections names a registered node, whose pipe is known.    *)
LEMMA SelectedIsRegistered ==
  ASSUME IndexInv, selectLeastConnections # NoName
  PROVE  /\ selectLeastConnections \in Node /\ byID[selectLeastConnections].pipe \in Pipe
<1>1. PICK i \in DOMAIN order : selectLeastConnections = order[i]
  BY SelectionFinds DEF SelectsLeastLoaded
<1>2. order[i] \in DOMAIN byID
  BY DEF IndexInv, OrderIndexed
<1>3. byID[order[i]] \in NodeEntry /\ order[i] \in Node
  BY <1>2 DEF IndexInv, TypeOK
<1> QED BY <1>1, <1>3, SMTT(30) DEF NodeEntry

(* The types of what does not belong to one request alone.                 *)
LEMMA RestStep ==
  ASSUME PathInv, [PathNext]_pathVars
  PROVE  RestOK'
<1> USE DEF PathInv
<1>1. ASSUME NEW r \in Req, Select(r) PROVE RestOK'
  <2>1. CASE selectLeastConnections = NoName
    BY <1>1, <2>1 DEF Select, RestOK, meshVars, serverVars
  <2>2. CASE selectLeastConnections # NoName
    <3> DEFINE e == [id |-> selectLeastConnections, pipe |-> byID[selectLeastConnections].pipe]
    <3>1. e \in [id : Node \cup {NoName}, pipe : Pipe \cup {NoPipe}]
      BY <2>2, SelectedIsRegistered
    <3>2. pick' = [pick EXCEPT ![r] = e]
      BY <1>1, <2>2 DEF Select
    <3> HIDE DEF e
    <3>3. pick' \in [Req -> [id : Node \cup {NoName}, pipe : Pipe \cup {NoPipe}]]
      BY <3>1, <3>2, SMTT(30) DEF RestOK
    <3> QED BY <1>1, <3>3 DEF Select, RestOK, meshVars, serverVars
  <2> QED BY <2>1, <2>2
<1>2. ASSUME NEW r \in Req,
             Store(r) \/ Dispatch(r) \/ HandleFrame(r) \/ JobStep(r) \/ ReceiveFrame(r)
               \/ Unauthorized(r) \/ ProxyFails(r)
      PROVE  RestOK'
  BY <1>2, ZenonT(30) DEF JobStep, Store, Dispatch, HandleFrame, StartJob, Read, ReceiveFrame, Unauthorized, ProxyFails,
              RestOK, meshVars, serverVars, handlerVars
<1>3. ASSUME NEW r \in Req, DispatchFails(r) PROVE RestOK'
  BY <1>3, PathAssumption DEF DispatchFails, Fault, RestOK, meshVars, serverVars
<1>4. ASSUME NEW r \in Req, ClientLeaves(r) PROVE RestOK'
  BY <1>4 DEF ClientLeaves, RestOK, meshVars, serverVars
<1>5. ASSUME NEW w \in Node, Connect(w) PROVE RestOK'
  BY <1>5 DEF Connect, RestOK, serverVars, handlerVars
<1>6. ASSUME NEW w \in Node, Disconnect(w) \/ Crash(w) PROVE RestOK'
  <2>1. conn' = [conn EXCEPT ![w] = NoPipe] /\ faults < MaxFaults /\ faults' = faults + 1
    BY <1>6 DEF Disconnect, Crash, Fault
  <2>2. UNCHANGED <<nextPipe, streamed, gone, pick, server, receiving>>
    BY <1>6 DEF Disconnect, Crash, serverVars, handlerVars
  <2>3. conn' \in [Node -> Pipe \cup {NoPipe}] /\ faults' \in 0 .. MaxFaults
    BY <2>1, PathAssumption, SMTT(30) DEF RestOK
  <2> QED BY <2>2, <2>3 DEF RestOK
<1>7. ASSUME PathTick \/ Terminate \/ recvLoopReturns \/ Shutdown \/ UNCHANGED pathVars
             \/ \E w \in Node : Heartbeat(w)
      PROVE  RestOK'
  BY <1>7, ZenonT(30) DEF PathTick, Terminate, recvLoopReturns, Shutdown, Heartbeat, pathVars,
              RestOK, meshVars, serverVars, handlerVars
<1> QED BY <1>1, <1>2, <1>3, <1>4, <1>5, <1>6, <1>7, SMTT(30) DEF PathNext, HandlerStep

(* Initially nothing is registered and no one is connected.                *)
LEMMA PathInitially == ASSUME PathInit PROVE PathInv
<1>1. IndexInv
  BY IndexInitially DEF PathInit
<1>2. RestOK
  BY PathAssumption DEF PathInit, RestOK, NoPick
<1> QED BY <1>1, <1>2, RequestsInitially DEF PathInv

(* The invariant is inductive.                                             *)
LEMMA PathPreserved == PathInv /\ [PathNext]_pathVars => PathInv'
BY RequestsPreserved, RestStep, RegistryStep, IndexPreserved DEF PathInv

(* The sessions are those of the handlers between Store and return, on     *)
(* every path out of a handler, and a channel never holds more than its    *)
(* capacity (server.go:179-189, 268-274, 303, 328).                        *)
THEOREM SessionsAreHandlers == PathSafetySpec => []SessionsMatchHandlers
<1>1. PathInv => SessionsMatchHandlers
  <2> SUFFICES ASSUME PathInv PROVE SessionsMatchHandlers
    OBVIOUS
  <2>1. \A r \in Req : Sound(r)
    BY DEF PathInv, Requests
  <2>2. \A r \in Req :
          /\ phase[r] \in Phase /\ channel[r] \in Seq(Frame) /\ Len(channel[r]) <= BufferSize
          /\ reply[r] \in Seq(1 .. MaxChunks) /\ job[r] \in {"none", "sent", "running"}
          /\ read[r] \in 0 .. MaxChunks /\ wire[r] \in Seq(Frame)
    BY <2>1 DEF Sound, ReqOK
  <2>3. \A r \in Req : audits[r] \in Seq({200, 502})
    <3> DEFINE Kinds == {<<200>>, <<502>>, << >>}
    <3>1. \A r \in Req : audits[r] \in Kinds
      BY <2>1 DEF Sound, ReqOK
    <3>2. Kinds \subseteq Seq({200, 502})
      OBVIOUS
    <3> HIDE DEF Kinds
    <3> QED BY <3>1, <3>2
  <2>4. /\ phase \in [Req -> Phase] /\ channel \in [Req -> Seq(Frame)]
        /\ reply \in [Req -> Seq(1 .. MaxChunks)] /\ audits \in [Req -> Seq({200, 502})]
        /\ job \in [Req -> {"none", "sent", "running"}] /\ read \in [Req -> 0 .. MaxChunks]
        /\ wire \in [Req -> Seq(Frame)]
    BY <2>2, <2>3 DEF PathInv, Requests, Shape, Mapped
  <2>5. PathTypeOK
    <3>1. damaged \subseteq Req /\ sessions \subseteq Req /\ TypeOK
      BY DEF PathInv, Requests, IndexInv
    <3> QED BY <2>2, <2>4, <3>1 DEF PathTypeOK, PathInv, RestOK
  <2> QED BY <2>5 DEF SessionsMatchHandlers, PathInv, Requests
<1> QED BY <1>1, PathInitially, PathPreserved, PTL DEF PathSafetySpec
=============================================================================

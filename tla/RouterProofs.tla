---------------------------- MODULE RouterProofs ----------------------------
(***************************************************************************)
(* What the proofs about the router rest on.  First the index of the node  *)
(* registry, for every set of node names and pipes and every value of the  *)
(* thresholds.  Then what a step does to the frames of one answer,         *)
(* wherever they are: two predicates on the handler, channel, reply, audit *)
(* record, job and wire of a request.  ReqOK holds of every request;       *)
(* WholeOK holds as long as nothing of it was lost and its handler has not *)
(* given up.  No state is involved there, so the lemmas are about          *)
(* sequences of frames, and RequestPathProofs has its invariant for one    *)
(* request from them.                                                      *)
(***************************************************************************)
EXTENDS NodeRegistry, Frames, TLAPS

NoDuplicates(s) == \A i, j \in DOMAIN s : s[i] = s[j] => i = j

(* Sequences with the same elements are the same.                          *)
LEMMA SameElements ==
  ASSUME NEW S, NEW s \in Seq(S), NEW t \in Seq(S), Len(s) = Len(t),
         \A i \in 1 .. Len(s) : s[i] = t[i]
  PROVE  s = t
OBVIOUS

(* What the concatenation of two sequences is, element by element.         *)
LEMMA Concatenation ==
  ASSUME NEW S, NEW s \in Seq(S), NEW t \in Seq(S)
  PROVE  /\ s \o t \in Seq(S) /\ Len(s \o t) = Len(s) + Len(t)
         /\ \A i \in 1 .. Len(s) + Len(t) : (s \o t)[i] = IF i <= Len(s) THEN s[i] ELSE t[i - Len(s)]
<1>1. s \o t \in Seq(S) /\ Len(s \o t) = Len(s) + Len(t)
  OBVIOUS
<1>2. \A i \in 1 .. Len(s) + Len(t) : (s \o t)[i] = IF i <= Len(s) THEN s[i] ELSE t[i - Len(s)]
  OBVIOUS
<1> QED BY <1>1, <1>2

(* In a sequence without duplicates the first occurrence of an element is  *)
(* its only one, so removing it drops exactly that element.                *)
LEMMA RemoveStringDrops ==
  ASSUME NEW S, NEW s \in Seq(S), NEW e, NoDuplicates(s)
  PROVE  /\ removeString(s, e) \in Seq(S)
         /\ NoDuplicates(removeString(s, e))
         /\ \A i \in DOMAIN removeString(s, e) :
              removeString(s, e)[i] # e /\ \E k \in DOMAIN s : s[k] = removeString(s, e)[i]
         /\ \A k \in DOMAIN s : s[k] # e =>
              \E i \in DOMAIN removeString(s, e) : removeString(s, e)[i] = s[k]
<1>1. CASE \A i \in DOMAIN s : s[i] # e
  BY <1>1 DEF removeString
<1>2. CASE \E i \in DOMAIN s : s[i] = e
  <2>1. PICK p \in 1 .. Len(s) : s[p] = e
    BY <1>2
  <2>2. \A i \in DOMAIN s : s[i] = e /\ (\A j \in 1 .. i - 1 : s[j] # e) <=> i = p
    BY <2>1 DEF NoDuplicates
  <2> DEFINE front == SubSeq(s, 1, p - 1)
             back == SubSeq(s, p + 1, Len(s))
             r == front \o back
  <2>5. removeString(s, e) = r
    <3>1. p = CHOOSE i \in DOMAIN s : s[i] = e /\ \A j \in 1 .. i - 1 : s[j] # e
      BY <2>1, <2>2
    <3> QED BY <1>2, <3>1 DEF removeString
  <2>6. /\ r \in Seq(S) /\ Len(r) = Len(s) - 1
        /\ \A i \in 1 .. Len(r) : r[i] = IF i < p THEN s[i] ELSE s[i + 1]
    <3>1. /\ front \in Seq(S) /\ Len(front) = p - 1
          /\ \A i \in 1 .. p - 1 : front[i] = s[i]
      BY <2>1
    <3>2. /\ back \in Seq(S) /\ Len(back) = Len(s) - p
          /\ \A i \in 1 .. Len(s) - p : back[i] = s[i + p]
      BY <2>1
    <3> HIDE DEF front, back
    <3>3. /\ r \in Seq(S) /\ Len(r) = Len(front) + Len(back)
          /\ \A i \in 1 .. Len(front) + Len(back) :
               r[i] = IF i <= Len(front) THEN front[i] ELSE back[i - Len(front)]
      BY <3>1, <3>2, Concatenation, Zenon
    <3> QED BY <2>1, <3>1, <3>2, <3>3
  <2> HIDE DEF r
  <2>7. NoDuplicates(r)
    BY <2>1, <2>6 DEF NoDuplicates
  <2>8. \A i \in DOMAIN r : r[i] # e /\ \E k \in DOMAIN s : s[k] = r[i]
    BY <2>1, <2>6 DEF NoDuplicates
  <2>9. ASSUME NEW k \in DOMAIN s, s[k] # e
        PROVE  \E i \in DOMAIN r : r[i] = s[k]
    <3>1. CASE k < p
      BY <2>1, <2>6, <2>9, <3>1
    <3>2. CASE k > p
      <4>1. k - 1 \in DOMAIN r /\ r[k - 1] = s[k]
        BY <2>1, <2>6, <2>9, <3>2
      <4> QED BY <4>1
    <3> QED BY <2>1, <2>9, <3>1, <3>2
  <2> QED BY <2>5, <2>6, <2>7, <2>8, <2>9
<1> QED BY <1>1, <1>2

-----------------------------------------------------------------------------
(* The index invariant: order, byID and byPipe agree.  Neither conjunct is *)
(* inductive without the types.                                            *)
IndexInv == TypeOK /\ OrderIndexed /\ PipeLinked

(* What retiring the previous owner of a pipe leaves behind: the first     *)
(* half of upsert, before the new entry is stored.                         *)
Kept(id, pipe) == IF Taken(id, pipe) THEN Delete(byID, byPipe[pipe]) ELSE byID
KeptOrder(id, pipe) == IF Taken(id, pipe) THEN removeString(order, byPipe[pipe]) ELSE order

(* Retiring the old owner keeps order free of duplicates and in step with  *)
(* byID.                                                                   *)
LEMMA RetiringKeepsOrder ==
  ASSUME IndexInv, NEW id \in Node, NEW pipe \in Pipe
  PROVE  /\ KeptOrder(id, pipe) \in Seq(Node)
         /\ NoDuplicates(KeptOrder(id, pipe))
         /\ \A i \in DOMAIN KeptOrder(id, pipe) : KeptOrder(id, pipe)[i] \in DOMAIN Kept(id, pipe)
         /\ \A n \in DOMAIN Kept(id, pipe) :
              \E i \in DOMAIN KeptOrder(id, pipe) : KeptOrder(id, pipe)[i] = n
<1>1. order \in Seq(Node) /\ NoDuplicates(order)
  BY DEF IndexInv, TypeOK, OrderIndexed, NoDuplicates
<1>2. CASE ~Taken(id, pipe)
  BY <1>1, <1>2 DEF IndexInv, OrderIndexed, Kept, KeptOrder
<1>3. CASE Taken(id, pipe)
  <2> DEFINE old == byPipe[pipe]
             r == removeString(order, old)
  <2>1. /\ r \in Seq(Node) /\ NoDuplicates(r)
        /\ \A i \in DOMAIN r : r[i] # old /\ \E k \in DOMAIN order : order[k] = r[i]
        /\ \A k \in DOMAIN order : order[k] # old => \E i \in DOMAIN r : r[i] = order[k]
    BY <1>1, RemoveStringDrops
  <2>2. KeptOrder(id, pipe) = r /\ DOMAIN Kept(id, pipe) = DOMAIN byID \ {old}
    BY <1>3 DEF Kept, KeptOrder, Delete, Restrict
  <2> HIDE DEF old, r
  <2> QED BY <2>1, <2>2 DEF IndexInv, OrderIndexed
<1> QED BY <1>2, <1>3

(* An upsert keeps the types.                                              *)
LEMMA UpsertType ==
  ASSUME IndexInv, NEW id \in Node, NEW pipe \in Pipe, NEW s \in ConnState, NEW n \in Load,
         upsert(id, pipe, s, n)
  PROVE  TypeOK'
<1>1. KeptOrder(id, pipe) \in Seq(Node)
  BY RetiringKeepsOrder
<1>2. order' \in Seq(Node)
  BY <1>1 DEF upsert, NewEntry, Kept, KeptOrder
<1>3. [pipe |-> pipe, connectionState |-> s, activeRequests |-> n, age |-> 0] \in NodeEntry
  BY RegistryAssumption, ProtocolAssumption DEF NodeEntry, Age
<1>4. DOMAIN byID' \subseteq Node /\ byID' \in [DOMAIN byID' -> NodeEntry]
  <2>1. DOMAIN Kept(id, pipe) \subseteq Node /\ Kept(id, pipe) \in [DOMAIN Kept(id, pipe) -> NodeEntry]
    BY DEF IndexInv, TypeOK, Kept, Delete, Restrict
  <2>2. byID' = Put(Kept(id, pipe), id, [pipe |-> pipe, connectionState |-> s, activeRequests |-> n, age |-> 0])
    BY DEF upsert, NewEntry, Kept
  <2> QED BY <1>3, <2>1, <2>2 DEF Put
<1>5. DOMAIN byPipe' \subseteq Pipe /\ byPipe' \in [DOMAIN byPipe' -> Node]
  BY DEF upsert, NewEntry, IndexInv, TypeOK, Put
<1>6. DOMAIN claims' \subseteq Node /\ claims' \in [DOMAIN claims' -> ClaimEntry]
  BY DEF upsert, NewEntry, IndexInv, TypeOK, ClaimsWithout, Delete, Restrict
<1> QED BY <1>2, <1>4, <1>5, <1>6 DEF TypeOK

(* An upsert keeps order, byID and byPipe in agreement.                    *)
LEMMA UpsertKeepsIndex ==
  ASSUME IndexInv, NEW id \in Node, NEW pipe \in Pipe, NEW s \in ConnState, NEW n \in Load,
         upsert(id, pipe, s, n)
  PROVE  OrderIndexed' /\ PipeLinked'
<1> DEFINE kept == Kept(id, pipe)
           ord == KeptOrder(id, pipe)
           e == [pipe |-> pipe, connectionState |-> s, activeRequests |-> n, age |-> 0]
<1>1. /\ ord \in Seq(Node) /\ NoDuplicates(ord)
      /\ \A i \in DOMAIN ord : ord[i] \in DOMAIN kept
      /\ \A m \in DOMAIN kept : \E i \in DOMAIN ord : ord[i] = m
  BY RetiringKeepsOrder
<1>2. /\ byID' = Put(kept, id, e)
      /\ order' = IF id \in DOMAIN kept THEN ord ELSE Append(ord, id)
      /\ byPipe' = Put(byPipe, pipe, id)
  BY DEF upsert, NewEntry, Kept, KeptOrder
<1>3. /\ DOMAIN kept \subseteq DOMAIN byID
      /\ \A m \in DOMAIN kept : kept[m] = byID[m] /\ (m # id => byID[m].pipe # pipe)
  BY DEF Kept, Taken, Delete, Restrict, IndexInv, PipeLinked
<1> HIDE DEF kept, ord, e
<1>4. OrderIndexed'
  <2>1. DOMAIN byID' = DOMAIN kept \cup {id}
    BY <1>2 DEF Put
  <2>2. CASE id \in DOMAIN kept
    BY <1>1, <1>2, <2>1, <2>2 DEF OrderIndexed, NoDuplicates
  <2>3. CASE id \notin DOMAIN kept
    <3>1. /\ Len(order') = Len(ord) + 1 /\ DOMAIN order' = 1 .. Len(ord) + 1
          /\ DOMAIN ord = 1 .. Len(ord) /\ Len(ord) \in Nat
          /\ order'[Len(ord) + 1] = id
          /\ \A i \in 1 .. Len(ord) : order'[i] = ord[i]
      BY <1>1, <1>2, <2>3
    <3>2. \A i \in DOMAIN order' : order'[i] \in DOMAIN byID'
      BY <1>1, <2>1, <3>1
    <3>3. \A m \in DOMAIN byID' : \E i \in DOMAIN order' : order'[i] = m
      BY <1>1, <2>1, <3>1
    <3>4. \A i, j \in DOMAIN order' : order'[i] = order'[j] => i = j
      BY <1>1, <2>3, <3>1 DEF NoDuplicates
    <3> QED BY <3>2, <3>3, <3>4 DEF OrderIndexed
  <2> QED BY <2>2, <2>3
<1>5. PipeLinked'
  <2> SUFFICES ASSUME NEW m \in DOMAIN byID'
               PROVE  byID'[m].pipe \in DOMAIN byPipe' /\ byPipe'[byID'[m].pipe] = m
    BY DEF PipeLinked
  <2>1. CASE m = id
    BY <1>2, <2>1 DEF Put, e
  <2>2. CASE m # id
    <3>1. m \in DOMAIN kept /\ byID'[m] = byID[m] /\ byID[m].pipe # pipe /\ m \in DOMAIN byID
      BY <1>2, <1>3, <2>2 DEF Put
    <3> QED BY <1>2, <3>1 DEF Put, IndexInv, PipeLinked
  <2> QED BY <2>1, <2>2
<1> QED BY <1>4, <1>5

(* Recording a claim keeps the types.                                      *)
LEMMA RecordClaimType ==
  ASSUME TypeOK, NEW id \in Node \cup {NoName}, NEW reason \in Reason, recordClaim(id, reason)
  PROVE  TypeOK'
<1>1. CASE id = NoName
  BY <1>1 DEF TypeOK, recordClaim, Nameless
<1>2. CASE id # NoName
  <2>1. PICK evicted : claims' = Put(Restrict(claims, LiveClaims \ evicted), id,
                                      [reason |-> reason, age |-> 0])
    BY <1>2 DEF recordClaim, Nameless
  <2>2. [reason |-> reason, age |-> 0] \in ClaimEntry
    BY RegistryAssumption, ProtocolAssumption DEF ClaimEntry, Age
  <2>3. DOMAIN claims' \subseteq Node /\ claims' \in [DOMAIN claims' -> ClaimEntry]
    BY <1>2, <2>1, <2>2 DEF TypeOK, Put, Restrict, LiveClaims
  <2> QED BY <2>3 DEF TypeOK, recordClaim, Nameless
<1> QED BY <1>1, <1>2

(* Ageing keeps every other field and never runs past MaxAge.              *)
LEMMA TickType ==
  ASSUME TypeOK, RegistryTick
  PROVE  /\ TypeOK'
         /\ DOMAIN byID' = DOMAIN byID /\ DOMAIN claims' = DOMAIN claims
         /\ \A id \in DOMAIN byID : byID'[id].pipe = byID[id].pipe
                                    /\ byID'[id].age = Older(byID[id].age)
         /\ \A id \in DOMAIN claims : claims'[id].age = Older(claims[id].age)
<1>1. \A a \in Age : Older(a) \in Age
  BY RegistryAssumption, ProtocolAssumption DEF Age, Older
<1>2. \A e \in NodeEntry : [e EXCEPT !.age = Older(@)] \in NodeEntry
  BY <1>1 DEF NodeEntry
<1>3. \A c \in ClaimEntry : [c EXCEPT !.age = Older(@)] \in ClaimEntry
  BY <1>1 DEF ClaimEntry
<1>4. byID' \in [DOMAIN byID -> NodeEntry] /\ claims' \in [DOMAIN claims -> ClaimEntry]
  BY <1>2, <1>3 DEF TypeOK, RegistryTick, Aged
<1>5. TypeOK'
  BY <1>4 DEF TypeOK, RegistryTick
<1>6. \A id \in DOMAIN byID : byID[id] \in NodeEntry /\ byID'[id] = [byID[id] EXCEPT !.age = Older(@)]
  BY DEF TypeOK, RegistryTick, Aged
<1>7. \A id \in DOMAIN claims : claims[id] \in ClaimEntry /\ claims'[id] = [claims[id] EXCEPT !.age = Older(@)]
  BY DEF TypeOK, RegistryTick, Aged
<1> QED BY <1>4, <1>5, <1>6, <1>7 DEF NodeEntry, ClaimEntry

(* The empty registry satisfies the index invariant.                       *)
LEMMA IndexInitially == newNodeRegistry => IndexInv
BY DEF newNodeRegistry, IndexInv, TypeOK, OrderIndexed, PipeLinked

(* Every step of the registry keeps the index invariant.                   *)
LEMMA IndexPreserved == IndexInv /\ [RegistryNext]_registryVars => IndexInv'
<1> SUFFICES ASSUME IndexInv, [RegistryNext]_registryVars
             PROVE  IndexInv'
  OBVIOUS
<1>1. CASE \E id \in Node, pipe \in Pipe, s \in ConnState, n \in Load : upsert(id, pipe, s, n)
  BY <1>1, UpsertType, UpsertKeepsIndex DEF IndexInv
<1>2. CASE \E id \in Node \cup {NoName}, reason \in Reason : recordClaim(id, reason)
  <2>1. TypeOK'
    BY <1>2, RecordClaimType DEF IndexInv
  <2>2. UNCHANGED <<byID, byPipe, order>>
    BY <1>2 DEF recordClaim, Nameless
  <2> QED BY <2>1, <2>2 DEF IndexInv, OrderIndexed, PipeLinked
<1>3. CASE RegistryTick
  <2>1. UNCHANGED <<byPipe, order>>
    BY <1>3 DEF RegistryTick
  <2> QED BY <1>3, <2>1, TickType DEF IndexInv, OrderIndexed, PipeLinked
<1>4. CASE UNCHANGED registryVars
  BY <1>4 DEF registryVars, IndexInv, TypeOK, OrderIndexed, PipeLinked
<1>5. CASE RegistryRestart
  BY <1>5 DEF RegistryRestart, newNodeRegistry, IndexInv, TypeOK, OrderIndexed, PipeLinked
<1> QED BY <1>1, <1>2, <1>3, <1>4, <1>5 DEF RegistryNext

(* Every registry the router can reach is well typed.                      *)
THEOREM TypeCorrect == RegistrySpec => []TypeOK
<1>1. IndexInv => TypeOK
  BY DEF IndexInv
<1> QED BY <1>1, IndexInitially, IndexPreserved, PTL DEF RegistrySpec

(* selectLeastConnections and snapshot never meet an id without an entry,  *)
(* and every registered node is considered exactly once (nodes.go:239-247, *)
(* 256-258).                                                               *)
THEOREM OrderIsIndexed == RegistrySpec => []OrderIndexed
<1>1. IndexInv => OrderIndexed
  BY DEF IndexInv
<1> QED BY <1>1, IndexInitially, IndexPreserved, PTL DEF RegistrySpec

(* A registered node's pipe belongs to it alone (nodes.go:143-156).        *)
THEOREM PipesAreLinked == RegistrySpec => []PipeLinked
<1>1. IndexInv => PipeLinked
  BY DEF IndexInv
<1> QED BY <1>1, IndexInitially, IndexPreserved, PTL DEF RegistrySpec

-----------------------------------------------------------------------------
(* What a part of a sequence is, element by element.                       *)
LEMMA Part ==
  ASSUME NEW S, NEW s, NEW m \in Int, NEW n \in Int, \A i \in m .. n : s[i] \in S
  PROVE  /\ SubSeq(s, m, n) \in Seq(S)
         /\ Len(SubSeq(s, m, n)) = IF m <= n THEN n - m + 1 ELSE 0
         /\ \A i \in 1 .. n - m + 1 : SubSeq(s, m, n)[i] = s[m + i - 1]
OBVIOUS

IsChunk(f) == f.type = "chunk"

(* The chunks among the frames of s come in order; all come after x.       *)
Rising(s) == \A i, j \in DOMAIN s : i < j /\ IsChunk(s[i]) /\ IsChunk(s[j]) => s[i].n < s[j].n
After(x, s) == \A i \in DOMAIN s : IsChunk(s[i]) => x < s[i].n
UpTo(s, m) == \A i \in DOMAIN s : IsChunk(s[i]) => s[i].n \in 1 .. m

(* The chunks of a request on their way from the engine, of which it has   *)
(* read rd, over the wire and the channel into the reply.                  *)
InOrder(rep, ch, wr, rd) ==
  /\ \A k \in DOMAIN rep : rep[k] \in 1 .. rd /\ After(rep[k], ch) /\ After(rep[k], wr)
  /\ Rising(ch) /\ UpTo(ch, rd)
  /\ \A i \in DOMAIN ch : IsChunk(ch[i]) => After(ch[i].n, wr)
  /\ Rising(wr) /\ UpTo(wr, rd)

(* The handler has dispatched nothing, or nothing that counts.             *)
Before == {"new", "selected", "stored", "refused"}
ReqOK(ph, ch, rep, aud, jb, rd, wr) ==
  /\ ph \in Phase /\ jb \in {"none", "sent", "running"} /\ rd \in 0 .. MaxChunks
  /\ ch \in Seq(Frame) /\ Len(ch) <= BufferSize /\ wr \in Seq(Frame)
  /\ rep \in Seq(1 .. MaxChunks)
  /\ ph \in Before => jb = "none" /\ rd = 0 /\ ch = << >> /\ wr = << >> /\ rep = << >>
  /\ aud \in IF ph = "answered" THEN {<<200>>, <<502>>} ELSE {<< >>}
  /\ InOrder(rep, ch, wr, rd)

(* The frame at place p of a stream of rd chunks and its end.              *)
Place(f, p, rd) == IF IsChunk(f) THEN f.n = p /\ p <= rd ELSE p = rd + 1
Places(s, from, rd) == \A i \in DOMAIN s : Place(s[i], from + i, rd)
WholeOK(ph, ch, rep, jb, rd, wr) ==
  /\ \A k \in DOMAIN rep : rep[k] = k
  /\ Places(ch, Len(rep), rd) /\ Places(wr, Len(rep) + Len(ch), rd)
  /\ \/ Len(rep) + Len(ch) + Len(wr) = rd
     \/ Len(rep) + Len(ch) + Len(wr) = rd + 1 /\ jb = "none"
  /\ ph # "waiting" => ch = << >> /\ wr = << >> /\ jb = "none"

-----------------------------------------------------------------------------
(* The elements of an extended and of a shortened sequence, by place.      *)
LEMMA AppendPlaces ==
  ASSUME NEW S, NEW s \in Seq(S), NEW x \in S
  PROVE  /\ Append(s, x) \in Seq(S) /\ Len(Append(s, x)) = Len(s) + 1 /\ Len(s) \in Nat
         /\ DOMAIN s = 1 .. Len(s) /\ DOMAIN Append(s, x) = 1 .. Len(s) + 1
         /\ Append(s, x)[Len(s) + 1] = x
         /\ \A i \in 1 .. Len(s) : Append(s, x)[i] = s[i] /\ s[i] \in S
OBVIOUS

(* The same for what remains without the first element.                    *)
LEMMA TailPlaces ==
  ASSUME NEW S, NEW s \in Seq(S), s # << >>
  PROVE  /\ Tail(s) \in Seq(S) /\ Len(Tail(s)) = Len(s) - 1 /\ Len(s) \in Nat /\ Len(s) # 0
         /\ DOMAIN s = 1 .. Len(s) /\ DOMAIN Tail(s) = 1 .. Len(s) - 1
         /\ Head(s) = s[1] /\ Head(s) \in S
         /\ \A i \in 1 .. Len(s) - 1 : Tail(s)[i] = s[i + 1]
OBVIOUS

(* What an appended frame has to satisfy.                                  *)
LEMMA AppendRises ==
  ASSUME NEW s \in Seq(Frame), NEW f \in Frame
  PROVE  /\ Rising(s) /\ (IsChunk(f) => \A i \in DOMAIN s : IsChunk(s[i]) => s[i].n < f.n)
              => Rising(Append(s, f))
         /\ \A x : After(x, s) /\ (IsChunk(f) => x < f.n) => After(x, Append(s, f))
         /\ \A m : UpTo(s, m) /\ (IsChunk(f) => f.n \in 1 .. m) => UpTo(Append(s, f), m)
         /\ \A a \in Nat : \A m :
              Places(s, a, m) /\ Place(f, a + Len(s) + 1, m) => Places(Append(s, f), a, m)
<1> DEFINE t == Append(s, f)
           k == Len(s) + 1
<1>1. /\ DOMAIN s = 1 .. Len(s) /\ DOMAIN t = DOMAIN s \cup {k} /\ t[k] = f /\ Len(s) \in Nat
      /\ \A i \in DOMAIN s : t[i] = s[i] /\ i < k /\ i \in Nat
  BY AppendPlaces
<1>2. \A i, j \in DOMAIN t : i < j => i \in DOMAIN s /\ (j \in DOMAIN s \/ j = k)
  BY <1>1
<1>3. \A a \in Nat : a + k = a + Len(s) + 1
  BY <1>1
<1> HIDE DEF t, k
<1>4. Rising(s) /\ (IsChunk(f) => \A i \in DOMAIN s : IsChunk(s[i]) => s[i].n < f.n) => Rising(t)
  BY <1>1, <1>2 DEF Rising
<1>5. \A x : After(x, s) /\ (IsChunk(f) => x < f.n) => After(x, t)
  BY <1>1 DEF After
<1>6. \A m : UpTo(s, m) /\ (IsChunk(f) => f.n \in 1 .. m) => UpTo(t, m)
  BY <1>1 DEF UpTo
<1>7. \A a \in Nat : \A m : Places(s, a, m) /\ Place(f, a + Len(s) + 1, m) => Places(t, a, m)
  BY <1>1, <1>3 DEF Places
<1> QED BY <1>4, <1>5, <1>6, <1>7 DEF t

(* What is left when the first frame is taken.                             *)
LEMMA TailRises ==
  ASSUME NEW s \in Seq(Frame), s # << >>
  PROVE  /\ Rising(s) => Rising(Tail(s)) /\ (IsChunk(Head(s)) => After(Head(s).n, Tail(s)))
         /\ \A x : After(x, s) => After(x, Tail(s)) /\ (IsChunk(Head(s)) => x < Head(s).n)
         /\ \A m : UpTo(s, m) => UpTo(Tail(s), m) /\ (IsChunk(Head(s)) => Head(s).n \in 1 .. m)
         /\ \A a \in Nat : \A m : Places(s, a, m) => Place(Head(s), a + 1, m) /\ Places(Tail(s), a + 1, m)
<1> DEFINE t == Tail(s)
<1>1. /\ 1 \in DOMAIN s /\ Head(s) = s[1]
      /\ \A i \in DOMAIN t : t[i] = s[i + 1] /\ i + 1 \in DOMAIN s /\ 1 < i + 1 /\ i \in Nat
  BY TailPlaces
<1>2. \A a \in Nat, i \in DOMAIN t : a + (i + 1) = (a + 1) + i
  BY <1>1
<1>3. \A i, j \in DOMAIN t : i < j => i + 1 < j + 1
  BY <1>1
<1> HIDE DEF t
<1>4. Rising(s) => Rising(t) /\ (IsChunk(Head(s)) => After(Head(s).n, t))
  BY <1>1, <1>3 DEF Rising, After
<1>5. \A x : After(x, s) => After(x, t) /\ (IsChunk(Head(s)) => x < Head(s).n)
  BY <1>1 DEF After
<1>6. \A m : UpTo(s, m) => UpTo(t, m) /\ (IsChunk(Head(s)) => Head(s).n \in 1 .. m)
  BY <1>1 DEF UpTo
<1>7. \A a \in Nat : \A m : Places(s, a, m) => Place(Head(s), a + 1, m) /\ Places(t, a + 1, m)
  BY <1>1, <1>2 DEF Places
<1> QED BY <1>4, <1>5, <1>6, <1>7 DEF t

(* What survives a broken connection keeps its order.                      *)
LEMMA SurvivorsRise ==
  ASSUME NEW s \in Seq(Frame), NEW t \in Survivors(s)
  PROVE  /\ t \in Seq(Frame) /\ (s = << >> => t = << >>) /\ (Rising(s) => Rising(t))
         /\ \A x : After(x, s) => After(x, t)
         /\ \A m : UpTo(s, m) => UpTo(t, m)
<1>1. PICK a \in 0 .. Len(s), lost \in 0 .. Len(s) :
        t = Without(s, a, lost)
  BY SMT DEF Survivors
<1> DEFINE b == a + lost
           u == SubSeq(s, 1, a)
           v == SubSeq(s, b + 1, Len(s))
<1>2. a \in Nat /\ b \in Nat /\ a <= b /\ a <= Len(s) /\ Len(s) \in Nat /\ a + 1 + lost = b + 1
  OBVIOUS
<1>3. u \in Seq(Frame) /\ Len(u) = a /\ \A i \in 1 .. a : u[i] = s[i] /\ i \in DOMAIN s
  <2>1. \A i \in 1 .. a : s[i] \in Frame /\ i \in DOMAIN s
    BY <1>2
  <2> QED BY <1>2, <2>1, Part
<1>4. /\ v \in Seq(Frame) /\ Len(v) \in Nat /\ (b <= Len(s) => Len(v) = Len(s) - b) /\ (b > Len(s) => Len(v) = 0)
      /\ \A i \in 1 .. Len(v) : v[i] = s[b + i] /\ b + i \in DOMAIN s
  <2>1. \A i \in b + 1 .. Len(s) : s[i] \in Frame /\ i \in DOMAIN s
    BY <1>2
  <2> QED BY <1>2, <2>1, Part
<1>5. t = u \o v
  BY <1>1, <1>2 DEF Without
<1> HIDE DEF b, u, v
<1>6. /\ t \in Seq(Frame) /\ DOMAIN t = 1 .. a + Len(v)
      /\ \A i \in 1 .. a + Len(v) : t[i] = IF i <= a THEN u[i] ELSE v[i - a]
  <2>1. /\ u \o v \in Seq(Frame) /\ Len(u \o v) = Len(u) + Len(v)
        /\ \A i \in 1 .. Len(u) + Len(v) : (u \o v)[i] = IF i <= Len(u) THEN u[i] ELSE v[i - Len(u)]
    BY <1>3, <1>4, Concatenation
  <2>2. t \in Seq(Frame) /\ Len(t) = a + Len(v)
    BY <1>3, <1>5, <2>1
  <2>3. DOMAIN t = 1 .. Len(t)
    BY <2>2
  <2> QED BY <1>3, <1>5, <2>1, <2>2, <2>3
<1> DEFINE at(i) == IF i <= a THEN i ELSE b + (i - a)
<1>7. \A i \in DOMAIN t : at(i) \in DOMAIN s /\ t[i] = s[at(i)]
  <2> TAKE i \in DOMAIN t
  <2>1. CASE i <= a
    BY <1>2, <1>3, <1>6, <2>1
  <2>2. CASE ~(i <= a)
    <3>1. i - a \in 1 .. Len(v)
      BY <1>2, <1>4, <1>6, <2>2
    <3> QED BY <1>4, <1>6, <2>2, <3>1
  <2> QED BY <2>1, <2>2
<1>8. \A i, j \in DOMAIN t : i < j => at(i) < at(j)
  BY <1>2, <1>4, <1>6
<1> HIDE DEF at
<1>9. Rising(s) => Rising(t)
  BY <1>7, <1>8 DEF Rising
<1>10. \A x : After(x, s) => After(x, t)
  BY <1>7 DEF After
<1>11. \A m : UpTo(s, m) => UpTo(t, m)
  BY <1>7 DEF UpTo
<1>12. s = << >> => t = << >>
  <2> HAVE s = << >>
  <2>1. DOMAIN t = {}
    <3>1. DOMAIN s = {}
      OBVIOUS
    <3> QED BY <1>7, <3>1
  <2>2. Len(t) = 0
    BY <1>6, <2>1
  <2> QED BY <1>6, <2>2
<1> QED BY <1>6, <1>9, <1>10, <1>11, <1>12

-----------------------------------------------------------------------------
(* handleJob reads a chunk and sends it.                                   *)
LEMMA SendChunkOK ==
  ASSUME NEW ph, NEW ch, NEW rep, NEW aud, NEW rd, NEW wr,
         ReqOK(ph, ch, rep, aud, "running", rd, wr), rd < MaxChunks
  PROVE  /\ ReqOK(ph, ch, rep, aud, "running", rd + 1, Append(wr, Chunk(rd + 1)))
         /\ WholeOK(ph, ch, rep, "running", rd, wr) =>
              WholeOK(ph, ch, rep, "running", rd + 1, Append(wr, Chunk(rd + 1)))
<1> DEFINE m == rd + 1
           f == Chunk(m)
<1>1. /\ rd \in Nat /\ m \in Nat /\ m = rd + 1 /\ m \in 0 .. MaxChunks /\ m \in 1 .. m
      /\ f \in Frame /\ IsChunk(f) /\ f.n = m
      /\ \A x \in 1 .. rd : x \in 1 .. m /\ x < m
  BY FramesAssumption DEF ReqOK, Frame, Chunk, IsChunk
<1>2. wr \in Seq(Frame) /\ ch \in Seq(Frame) /\ rep \in Seq(1 .. MaxChunks) /\ InOrder(rep, ch, wr, rd)
  BY DEF ReqOK
<1> HIDE DEF f, m
<1>3. UpTo(ch, m) /\ UpTo(wr, m) /\ \A k \in DOMAIN rep : rep[k] \in 1 .. m /\ rep[k] < m
  BY <1>1, <1>2 DEF InOrder, UpTo
<1>4. \A s : UpTo(s, rd) => \A i \in DOMAIN s : IsChunk(s[i]) => s[i].n < m
  BY <1>1 DEF UpTo
<1>5. Rising(Append(wr, f)) /\ UpTo(Append(wr, f), m)
  BY <1>1, <1>2, <1>3, <1>4, AppendRises DEF InOrder
<1>6. \A k \in DOMAIN rep : After(rep[k], Append(wr, f))
  BY <1>1, <1>2, <1>3, AppendRises DEF InOrder
<1>7. \A i \in DOMAIN ch : IsChunk(ch[i]) => After(ch[i].n, Append(wr, f))
  BY <1>1, <1>2, <1>4, AppendRises DEF InOrder
<1>8. InOrder(rep, ch, Append(wr, f), m)
  BY <1>2, <1>3, <1>5, <1>6, <1>7 DEF InOrder
<1>9. Append(wr, f) \in Seq(Frame) /\ Len(Append(wr, f)) = Len(wr) + 1
  BY <1>1, <1>2
<1>10. ReqOK(ph, ch, rep, aud, "running", m, Append(wr, f))
  BY <1>1, <1>8, <1>9 DEF ReqOK
<1>11. ASSUME WholeOK(ph, ch, rep, "running", rd, wr)
       PROVE  WholeOK(ph, ch, rep, "running", m, Append(wr, f))
  <2>1. /\ Len(rep) \in Nat /\ Len(ch) \in Nat /\ Len(wr) \in Nat
        /\ DOMAIN ch = 1 .. Len(ch) /\ DOMAIN wr = 1 .. Len(wr)
        /\ Len(rep) + Len(ch) + Len(wr) = rd
    BY <1>2, <1>11 DEF WholeOK
  <2>2. Places(ch, Len(rep), m)
    BY <1>1, <1>11, <2>1 DEF WholeOK, Places, Place
  <2>3. Places(wr, Len(rep) + Len(ch), m)
    BY <1>1, <1>11, <2>1 DEF WholeOK, Places, Place
  <2>4. Place(f, Len(rep) + Len(ch) + Len(wr) + 1, m)
    BY <1>1, <2>1 DEF Place
  <2>5. Places(Append(wr, f), Len(rep) + Len(ch), m)
    BY <1>1, <1>2, <2>1, <2>3, <2>4, AppendRises
  <2> QED BY <1>1, <1>9, <1>11, <2>1, <2>2, <2>5 DEF WholeOK
<1> QED BY <1>10, <1>11 DEF f, m

(* handleJob ends with a frame that says so.                               *)
LEMMA SendEndOK ==
  ASSUME NEW ph, NEW ch, NEW rep, NEW aud, NEW rd, NEW wr, NEW f \in {EOF, Error},
         ReqOK(ph, ch, rep, aud, "running", rd, wr)
  PROVE  /\ ReqOK(ph, ch, rep, aud, "none", rd, Append(wr, f))
         /\ WholeOK(ph, ch, rep, "running", rd, wr) => WholeOK(ph, ch, rep, "none", rd, Append(wr, f))
<1>1. f \in Frame /\ ~IsChunk(f) /\ rd \in Nat
  BY FramesAssumption DEF ReqOK, Frame, EOF, Error, IsChunk
<1>2. wr \in Seq(Frame) /\ ch \in Seq(Frame) /\ rep \in Seq(1 .. MaxChunks) /\ InOrder(rep, ch, wr, rd)
  BY DEF ReqOK
<1>3. InOrder(rep, ch, Append(wr, f), rd)
  BY <1>1, <1>2, AppendRises DEF InOrder
<1>4. Append(wr, f) \in Seq(Frame) /\ Len(Append(wr, f)) = Len(wr) + 1
  BY <1>1, <1>2
<1>5. ReqOK(ph, ch, rep, aud, "none", rd, Append(wr, f))
  BY <1>3, <1>4 DEF ReqOK
<1>6. ASSUME WholeOK(ph, ch, rep, "running", rd, wr)
      PROVE  WholeOK(ph, ch, rep, "none", rd, Append(wr, f))
  <2>1. /\ Len(rep) \in Nat /\ Len(ch) \in Nat /\ Len(wr) \in Nat
        /\ Len(rep) + Len(ch) + Len(wr) = rd /\ ph = "waiting"
    BY <1>2, <1>6 DEF WholeOK
  <2>2. Place(f, Len(rep) + Len(ch) + Len(wr) + 1, rd)
    BY <1>1, <2>1 DEF Place
  <2>3. Places(Append(wr, f), Len(rep) + Len(ch), rd)
    <3> DEFINE from == Len(rep) + Len(ch)
    <3>1. from \in Nat /\ Places(wr, from, rd) /\ Place(f, from + Len(wr) + 1, rd)
      BY <1>6, <2>1, <2>2 DEF WholeOK
    <3> HIDE DEF from
    <3>2. Places(Append(wr, f), from, rd)
      BY <1>1, <1>2, <3>1, AppendRises
    <3> QED BY <3>2 DEF from
  <2> QED BY <1>4, <1>6, <2>1, <2>3 DEF WholeOK
<1> QED BY <1>5, <1>6

(* recvLoop moves a frame from the wire to the channel, or drops it.       *)
LEMMA ReceiveOK ==
  ASSUME NEW ph, NEW ch, NEW rep, NEW aud, NEW jb, NEW rd, NEW wr,
         ReqOK(ph, ch, rep, aud, jb, rd, wr), wr # << >>
  PROVE  /\ ReqOK(ph, ch, rep, aud, jb, rd, Tail(wr))
         /\ ph = "waiting" /\ Len(ch) < BufferSize =>
              /\ ReqOK(ph, Append(ch, Head(wr)), rep, aud, jb, rd, Tail(wr))
              /\ WholeOK(ph, ch, rep, jb, rd, wr) =>
                   WholeOK(ph, Append(ch, Head(wr)), rep, jb, rd, Tail(wr))
<1> DEFINE f == Head(wr)
           v == Tail(wr)
<1>1. /\ wr \in Seq(Frame) /\ ch \in Seq(Frame) /\ rep \in Seq(1 .. MaxChunks) /\ rd \in Nat
      /\ InOrder(rep, ch, wr, rd)
  BY FramesAssumption DEF ReqOK
<1>2. f \in Frame /\ v \in Seq(Frame) /\ Len(v) = Len(wr) - 1 /\ Len(wr) \in Nat /\ Len(wr) # 0
  BY <1>1, TailPlaces
<1>3. /\ Rising(v) /\ UpTo(v, rd) /\ (IsChunk(f) => After(f.n, v) /\ f.n \in 1 .. rd)
      /\ \A x : After(x, wr) => After(x, v) /\ (IsChunk(f) => x < f.n)
      /\ \A a \in Nat : Places(wr, a, rd) => Place(f, a + 1, rd) /\ Places(v, a + 1, rd)
  BY <1>1, TailRises DEF InOrder
<1> HIDE DEF f, v
<1>4. InOrder(rep, ch, v, rd)
  BY <1>1, <1>3 DEF InOrder
<1>5. ReqOK(ph, ch, rep, aud, jb, rd, v)
  BY <1>2, <1>4 DEF ReqOK
<1>6. ASSUME ph = "waiting", Len(ch) < BufferSize
      PROVE  ReqOK(ph, Append(ch, f), rep, aud, jb, rd, v)
  <2>1. Rising(Append(ch, f)) /\ UpTo(Append(ch, f), rd)
    BY <1>1, <1>2, <1>3, AppendRises DEF InOrder
  <2>2. \A k \in DOMAIN rep : After(rep[k], Append(ch, f))
    BY <1>1, <1>2, <1>3, AppendRises DEF InOrder
  <2>3. \A i \in DOMAIN Append(ch, f) : IsChunk(Append(ch, f)[i]) => After(Append(ch, f)[i].n, v)
    BY <1>1, <1>2, <1>3, AppendPlaces DEF InOrder
  <2>4. InOrder(rep, Append(ch, f), v, rd)
    BY <1>4, <2>1, <2>2, <2>3 DEF InOrder
  <2>5. Append(ch, f) \in Seq(Frame) /\ Len(Append(ch, f)) <= BufferSize
    BY <1>1, <1>2, <1>6, FramesAssumption
  <2> QED BY <1>2, <1>6, <2>4, <2>5 DEF ReqOK, Before
<1>7. ASSUME ph = "waiting", WholeOK(ph, ch, rep, jb, rd, wr)
      PROVE  WholeOK(ph, Append(ch, f), rep, jb, rd, v)
  <2>1. /\ Len(rep) \in Nat /\ Len(ch) \in Nat /\ Len(Append(ch, f)) = Len(ch) + 1
        /\ Len(rep) + Len(ch) \in Nat /\ Len(rep) \in Nat
    BY <1>1, <1>2
  <2>2. Place(f, Len(rep) + Len(ch) + 1, rd) /\ Places(v, Len(rep) + Len(ch) + 1, rd)
    BY <1>3, <1>7, <2>1 DEF WholeOK
  <2>3. Places(Append(ch, f), Len(rep), rd)
    BY <1>1, <1>2, <1>7, <2>1, <2>2, AppendRises DEF WholeOK
  <2>4. Len(rep) + Len(Append(ch, f)) = Len(rep) + Len(ch) + 1
    BY <2>1
  <2> QED BY <1>2, <1>7, <2>1, <2>2, <2>3, <2>4 DEF WholeOK
<1> QED BY <1>5, <1>6, <1>7 DEF f, v

(* The handler takes a chunk from the channel and passes it on.  It goes   *)
(* on, or gives up because the client has left.                            *)
LEMMA HandleChunkOK ==
  ASSUME NEW ch, NEW rep, NEW jb, NEW rd, NEW wr,
         ReqOK("waiting", ch, rep, << >>, jb, rd, wr), ch # << >>, IsChunk(Head(ch))
  PROVE  /\ ReqOK("waiting", Tail(ch), Append(rep, Head(ch).n), << >>, jb, rd, wr)
         /\ ReqOK("answered", Tail(ch), Append(rep, Head(ch).n), <<502>>, jb, rd, wr)
         /\ WholeOK("waiting", ch, rep, jb, rd, wr) =>
              WholeOK("waiting", Tail(ch), Append(rep, Head(ch).n), jb, rd, wr)
<1> DEFINE f == Head(ch)
           c == Tail(ch)
           t == Append(rep, f.n)
<1>1. /\ wr \in Seq(Frame) /\ ch \in Seq(Frame) /\ rep \in Seq(1 .. MaxChunks)
      /\ rd \in Nat /\ rd <= MaxChunks /\ MaxChunks \in Nat /\ InOrder(rep, ch, wr, rd)
  BY FramesAssumption DEF ReqOK
<1>2. /\ f \in Frame /\ c \in Seq(Frame) /\ Len(c) = Len(ch) - 1 /\ Len(ch) \in Nat /\ Len(ch) # 0
      /\ f = ch[1] /\ 1 \in DOMAIN ch /\ \A i \in DOMAIN c : c[i] = ch[i + 1] /\ i + 1 \in DOMAIN ch
  BY <1>1, TailPlaces
<1>3. /\ Rising(c) /\ UpTo(c, rd) /\ After(f.n, c) /\ f.n \in 1 .. rd
      /\ \A x : After(x, ch) => After(x, c)
      /\ \A a \in Nat : Places(ch, a, rd) => Place(f, a + 1, rd) /\ Places(c, a + 1, rd)
  BY <1>1, TailRises DEF InOrder
<1>4. After(f.n, wr) /\ \A i \in DOMAIN c : IsChunk(c[i]) => After(c[i].n, wr)
  BY <1>1, <1>2 DEF InOrder
<1>5. f.n \in 1 .. MaxChunks
  BY <1>1, <1>3
<1>6. /\ t \in Seq(1 .. MaxChunks) /\ Len(t) = Len(rep) + 1 /\ Len(rep) \in Nat
      /\ DOMAIN rep = 1 .. Len(rep) /\ DOMAIN t = DOMAIN rep \cup {Len(rep) + 1}
      /\ t[Len(rep) + 1] = f.n /\ \A i \in DOMAIN rep : t[i] = rep[i]
  BY <1>1, <1>5, AppendPlaces
<1> HIDE DEF f, c, t
<1>7. InOrder(t, c, wr, rd)
  BY <1>1, <1>3, <1>4, <1>6 DEF InOrder
<1>8. /\ ReqOK("waiting", c, t, << >>, jb, rd, wr) /\ ReqOK("answered", c, t, <<502>>, jb, rd, wr)
  <2>1. Len(c) <= BufferSize
    BY <1>2, FramesAssumption DEF ReqOK
  <2> QED BY <1>2, <1>6, <1>7, <2>1 DEF ReqOK, Before, Phase
<1>9. ASSUME WholeOK("waiting", ch, rep, jb, rd, wr)
      PROVE  WholeOK("waiting", c, t, jb, rd, wr)
  <2>1. f.n = Len(rep) + 1 /\ Places(c, Len(t), rd)
    BY <1>3, <1>6, <1>9 DEF WholeOK, Place, f
  <2>2. \A k \in DOMAIN t : t[k] = k
    BY <1>6, <1>9, <2>1 DEF WholeOK
  <2>3. Len(wr) \in Nat /\ Len(t) + Len(c) = Len(rep) + Len(ch)
    BY <1>1, <1>2, <1>6
  <2> QED BY <1>9, <2>1, <2>2, <2>3 DEF WholeOK
<1> QED BY <1>8, <1>9 DEF f, c, t

(* The handler takes the last frame and returns.  When nothing was lost it *)
(* has passed on all that was read.                                        *)
LEMMA HandleEndOK ==
  ASSUME NEW ch, NEW rep, NEW jb, NEW rd, NEW wr,
         ReqOK("waiting", ch, rep, << >>, jb, rd, wr), ch # << >>, ~IsChunk(Head(ch))
  PROVE  /\ \A aud \in {<<200>>, <<502>>} : ReqOK("answered", Tail(ch), rep, aud, jb, rd, wr)
         /\ WholeOK("waiting", ch, rep, jb, rd, wr) =>
              WholeOK("answered", Tail(ch), rep, jb, rd, wr) /\ Len(rep) = rd
<1> DEFINE f == Head(ch)
           c == Tail(ch)
<1>1. /\ wr \in Seq(Frame) /\ ch \in Seq(Frame) /\ rep \in Seq(1 .. MaxChunks)
      /\ rd \in Nat /\ InOrder(rep, ch, wr, rd)
  BY FramesAssumption DEF ReqOK
<1>2. /\ f \in Frame /\ c \in Seq(Frame) /\ Len(c) = Len(ch) - 1 /\ Len(ch) \in Nat /\ Len(ch) # 0
      /\ \A i \in DOMAIN c : c[i] = ch[i + 1] /\ i + 1 \in DOMAIN ch
  BY <1>1, TailPlaces
<1>3. /\ Rising(c) /\ UpTo(c, rd) /\ \A x : After(x, ch) => After(x, c)
      /\ \A a \in Nat : Places(ch, a, rd) => Place(f, a + 1, rd)
  BY <1>1, TailRises DEF InOrder
<1> HIDE DEF f, c
<1>4. InOrder(rep, c, wr, rd)
  BY <1>1, <1>2, <1>3 DEF InOrder
<1>5. Len(c) <= BufferSize
  BY <1>2, FramesAssumption DEF ReqOK
<1>6. \A aud \in {<<200>>, <<502>>} : ReqOK("answered", c, rep, aud, jb, rd, wr)
  BY <1>2, <1>4, <1>5 DEF ReqOK, Before, Phase
<1>7. ASSUME WholeOK("waiting", ch, rep, jb, rd, wr)
      PROVE  WholeOK("answered", c, rep, jb, rd, wr) /\ Len(rep) = rd
  <2>1. Len(rep) \in Nat /\ Len(wr) \in Nat
    BY <1>1
  <2>2. Len(rep) + 1 = rd + 1
    BY <1>3, <1>7, <2>1 DEF WholeOK, Place, f
  <2>3. Len(rep) = rd /\ Len(ch) = 1 /\ Len(wr) = 0 /\ jb = "none"
    BY <1>1, <1>2, <1>7, <2>1, <2>2 DEF WholeOK
  <2>4. c = << >> /\ wr = << >> /\ DOMAIN c = {}
    BY <1>1, <1>2, <2>3
  <2>5. Places(c, Len(rep), rd) /\ Places(wr, Len(rep) + Len(c), rd)
    BY <2>4 DEF Places
  <2>6. Len(rep) + Len(c) + Len(wr) = rd
    BY <1>1, <1>2, <2>3
  <2> QED BY <1>7, <2>3, <2>4, <2>5, <2>6 DEF WholeOK
<1> QED BY <1>6, <1>7 DEF f, c

(* A connection breaks or a worker ends.                                   *)
LEMMA CutOK ==
  ASSUME NEW ph, NEW ch, NEW rep, NEW aud, NEW jb, NEW rd, NEW wr, NEW t, NEW k \in {jb, "none"},
         ReqOK(ph, ch, rep, aud, jb, rd, wr), t \in Survivors(wr) \/ t = << >> \/ t = wr
  PROVE  ReqOK(ph, ch, rep, aud, k, rd, t)
<1>1. wr \in Seq(Frame) /\ InOrder(rep, ch, wr, rd)
  BY DEF ReqOK
<1>2. CASE t \in Survivors(wr)
  <2>1. InOrder(rep, ch, t, rd)
    BY <1>1, <1>2, SurvivorsRise DEF InOrder
  <2>2. t \in Seq(Frame) /\ (wr = << >> => t = << >>)
    BY <1>1, <1>2, SurvivorsRise
  <2> QED BY <2>1, <2>2 DEF ReqOK
<1>3. CASE t = << >>
  <2>1. InOrder(rep, ch, << >>, rd)
    BY <1>1 DEF InOrder, Rising, After, UpTo
  <2> QED BY <1>3, <2>1 DEF ReqOK
<1>4. CASE t = wr
  BY <1>4 DEF ReqOK
<1> QED BY <1>2, <1>3, <1>4

(* handleJob starts.                                                       *)
LEMMA StartOK ==
  ASSUME NEW ph, NEW ch, NEW rep, NEW aud, NEW rd, NEW wr,
         ReqOK(ph, ch, rep, aud, "sent", rd, wr)
  PROVE  /\ ReqOK(ph, ch, rep, aud, "running", rd, wr)
         /\ WholeOK(ph, ch, rep, "sent", rd, wr) => WholeOK(ph, ch, rep, "running", rd, wr)
BY DEF ReqOK, WholeOK

(* Sending frames one by one or together is the same.                      *)
LEMMA SendTogether ==
  ASSUME NEW S, NEW s \in Seq(S), NEW x \in S, NEW y \in S
  PROVE  /\ s \o (<<x>> \o << >>) = Append(s, x) /\ s \o (<< >> \o <<y>>) = Append(s, y)
         /\ s \o (<< >> \o << >>) = s /\ s \o <<x>> = Append(s, x)
         /\ s \o (<<x>> \o <<y>>) = Append(Append(s, x), y)
<1>1. <<x>> \o << >> = <<x>> /\ << >> \o <<y>> = <<y>> /\ << >> \o << >> = << >> /\ s \o << >> = s
  OBVIOUS
<1>2. s \o <<x>> = Append(s, x) /\ s \o <<y>> = Append(s, y)
  OBVIOUS
<1> DEFINE c == <<x>> \o <<y>>
<1>3. c \in Seq(S) /\ Len(c) = 2 /\ c[1] = x /\ c[2] = y
  <2>1. <<x>> \in Seq(S) /\ <<y>> \in Seq(S) /\ Len(<<x>>) = 1 /\ Len(<<y>>) = 1 /\ <<x>>[1] = x /\ <<y>>[1] = y
    OBVIOUS
  <2> QED BY <2>1, Concatenation
<1> HIDE DEF c
<1> DEFINE d == Append(s, x)
           a == s \o c
           b == Append(d, y)
<1>4. /\ a \in Seq(S) /\ Len(a) = Len(s) + 2 /\ Len(s) \in Nat
      /\ \A i \in 1 .. Len(s) + 2 : a[i] = IF i <= Len(s) THEN s[i] ELSE c[i - Len(s)]
  <2>1. /\ a \in Seq(S) /\ Len(a) = Len(s) + Len(c)
        /\ \A i \in 1 .. Len(s) + Len(c) : a[i] = IF i <= Len(s) THEN s[i] ELSE c[i - Len(s)]
    BY <1>3, Concatenation, Zenon
  <2> HIDE DEF a
  <2> QED BY <1>3, <2>1
<1>5. /\ b \in Seq(S) /\ Len(b) = Len(s) + 2
      /\ \A i \in 1 .. Len(s) + 2 : b[i] = IF i <= Len(s) THEN s[i] ELSE c[i - Len(s)]
  <2>1. /\ d \in Seq(S) /\ Len(d) = Len(s) + 1 /\ Len(s) \in Nat /\ d[Len(s) + 1] = x
        /\ \A i \in 1 .. Len(s) : d[i] = s[i]
    BY AppendPlaces
  <2> HIDE DEF d
  <2>2. /\ b \in Seq(S) /\ Len(b) = Len(d) + 1 /\ b[Len(d) + 1] = y
        /\ \A i \in 1 .. Len(d) : b[i] = d[i]
    BY <2>1, AppendPlaces
  <2> HIDE DEF b
  <2> QED BY <1>3, <2>1, <2>2
<1> HIDE DEF a, b, d
<1>6. a = b
  <2>1. /\ a \in Seq(S) /\ b \in Seq(S) /\ Len(a) = Len(b)
        /\ \A i \in 1 .. Len(a) : a[i] = b[i]
    BY <1>4, <1>5, Zenon
  <2> QED BY <2>1, SameElements, Zenon
<1> QED BY <1>1, <1>2, <1>6, ZenonT(30) DEF a, b, c, d

(* What one body.Read sends: a chunk, the end, or both in this order.      *)
LEMMA ReadOK ==
  ASSUME NEW ph, NEW ch, NEW rep, NEW aud, NEW rd, NEW wr,
         NEW n \in {0, 1}, NEW err \in {"nil", "EOF", "error"}, rd + n <= MaxChunks,
         ReqOK(ph, ch, rep, aud, "running", rd, wr),
         NEW w, w = wr \o FramesOf(IF n = 1 THEN <<Chunk(rd + 1)>> ELSE << >>, err),
         NEW j, j = IF err = "nil" THEN "running" ELSE "none"
  PROVE  /\ ReqOK(ph, ch, rep, aud, j, rd + n, w)
         /\ WholeOK(ph, ch, rep, "running", rd, wr) => WholeOK(ph, ch, rep, j, rd + n, w)
<1> DEFINE data == IF n = 1 THEN <<Chunk(rd + 1)>> ELSE << >>
           u == IF n = 1 THEN Append(wr, Chunk(rd + 1)) ELSE wr
           e == IF err = "EOF" THEN EOF ELSE Error
<1>1. wr \in Seq(Frame) /\ rd \in Nat /\ MaxChunks \in Nat
  BY FramesAssumption DEF ReqOK
<1>2. /\ ReqOK(ph, ch, rep, aud, "running", rd + n, u)
      /\ WholeOK(ph, ch, rep, "running", rd, wr) => WholeOK(ph, ch, rep, "running", rd + n, u)
  <2>1. CASE n = 1
    <3>1. rd < MaxChunks
      BY <1>1, <2>1
    <3> QED BY <2>1, <3>1, SendChunkOK
  <2>2. CASE n = 0
    BY <1>1, <2>2
  <2> QED BY <2>1, <2>2
<1>3. w = IF err = "nil" THEN u ELSE Append(u, e)
  <2> DEFINE x == IF n = 1 THEN Chunk(rd + 1) ELSE EOF
  <2>1. x \in Frame /\ e \in Frame
    BY <1>1 DEF Chunk, Frame, EOF, Error
  <2>2. FramesOf(data, err) = (IF n = 1 THEN <<x>> ELSE << >>) \o (IF err = "nil" THEN << >> ELSE <<e>>)
    BY DEF FramesOf
  <2>3. u = IF n = 1 THEN Append(wr, x) ELSE wr
    OBVIOUS
  <2>4. w = wr \o ((IF n = 1 THEN <<x>> ELSE << >>) \o (IF err = "nil" THEN << >> ELSE <<e>>))
    BY <2>2
  <2> HIDE DEF x, e, u
  <2>5. /\ wr \o (<<x>> \o << >>) = Append(wr, x) /\ wr \o (<< >> \o <<e>>) = Append(wr, e)
        /\ wr \o (<< >> \o << >>) = wr /\ wr \o (<<x>> \o <<e>>) = Append(Append(wr, x), e)
    BY <1>1, <2>1, SendTogether
  <2>6. CASE n = 1 /\ err = "nil"
    BY <2>3, <2>4, <2>5, <2>6
  <2>7. CASE n = 1 /\ err # "nil"
    BY <2>3, <2>4, <2>5, <2>7
  <2>8. CASE n = 0 /\ err = "nil"
    BY <2>3, <2>4, <2>5, <2>8
  <2>9. CASE n = 0 /\ err # "nil"
    BY <2>3, <2>4, <2>5, <2>9
  <2> QED BY <2>6, <2>7, <2>8, <2>9
<1>4. e \in {EOF, Error}
  OBVIOUS
<1> HIDE DEF u, e
<1>5. CASE err = "nil"
  BY <1>2, <1>3, <1>5
<1>6. CASE err # "nil"
  BY <1>2, <1>3, <1>4, <1>6, SendEndOK
<1> QED BY <1>5, <1>6
=============================================================================

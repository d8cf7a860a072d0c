---------------------------- MODULE StartupProofs ---------------------------
(***************************************************************************)
(* Proofs about Startup, for any number of commands beside the router, any *)
(* migrations and any number of kills.                                     *)
(***************************************************************************)
EXTENDS Startup, FiniteSetTheorems, TLAPS

(* When one set is below another in the order of the sets of naturals.     *)
LEMMA StrictlyInside ==
  ASSUME NEW a, NEW b, a \subseteq b, b \subseteq Nat, a # b
  PROVE  <<a, b>> \in StrictSubsetOrdering(Nat)
BY Zenon DEF StrictSubsetOrdering

(* Induction over the naturals, for a property given as a set.             *)
LEMMA SetInduction ==
  ASSUME NEW S, 0 \in S, \A n \in Nat : n \in S => n + 1 \in S
  PROVE  Nat \subseteq S
<1> DEFINE T == {1 .. n : n \in Nat \ S}
<1> SUFFICES ASSUME T # {} PROVE FALSE
  OBVIOUS
<1>1. IsWellFoundedOn(StrictSubsetOrdering(Nat), FiniteSubsetsOf(Nat))
  BY FS_StrictSubsetOrderingWellFounded
<1>2. T \subseteq FiniteSubsetsOf(Nat)
  <2>1. \A n \in Nat : IsFiniteSet(1 .. n) /\ 1 .. n \subseteq Nat
    BY FS_Interval
  <2> QED BY <2>1 DEF FiniteSubsetsOf
<1>3. PICK t \in T : \A u \in T : <<u, t>> \notin StrictSubsetOrdering(Nat)
  <2> HIDE DEF T
  <2> QED BY <1>1, <1>2, WFMin
<1>4. PICK n \in Nat \ S : t = 1 .. n
  OBVIOUS
<1>5. n - 1 \in Nat \ S
  <2>1. n # 0 /\ n \in Nat
    OBVIOUS
  <2>2. n - 1 \in Nat /\ (n - 1) + 1 = n
    BY <2>1
  <2> QED BY <2>2
<1>6. 1 .. (n - 1) \in T /\ 1 .. (n - 1) # 1 .. n /\ 1 .. (n - 1) \subseteq 1 .. n
  <2>1. n \in 1 .. n /\ n \notin 1 .. (n - 1)
    BY <1>5
  <2> QED BY <1>5, <2>1
<1>7. <<1 .. (n - 1), 1 .. n>> \in StrictSubsetOrdering(Nat)
  <2>1. 1 .. n \subseteq Nat
    OBVIOUS
  <2> QED BY <1>6, <2>1, StrictlyInside, Zenon
<1> QED BY <1>3, <1>4, <1>6, <1>7, ZenonT(30)

(* Where a process may stand.  Only the router goes beyond the signer.     *)
Early == {<<"off">>, <<"open">>, <<"commit">>, <<"read", "signer">>,
          <<"truncate", "signer">>, <<"fill", "signer">>}
OfCert == {<<"truncate", "cert">>, <<"fill", "cert">>, <<"truncate", "key">>, <<"fill", "key">>}
OfSecret == {<<"truncate", "secret">>, <<"fill", "secret">>}
Ready == {<<"serve">>, <<"serving">>}
RouterPlace ==
  Early \cup OfCert \cup OfSecret \cup Ready \cup {<<"read", "cert">>, <<"read", "secret">>}
Placed ==
  /\ pc = [p \in Proc |-> pc[p]]
  /\ \A p \in Router : pc[p] \in RouterPlace
  /\ \A p \in Command : pc[p] \in Early \cup {<<"issue">>}

(* What a process is about to write is a key, and so is what it signs with *)
(* once it has got past the signer.                                        *)
Armed(p) ==
  /\ pc[p] \notin Early => holds[p]["signer"] \in Secret
  /\ \A f \in File : pc[p] \in {<<"truncate", f>>, <<"fill", f>>} => holds[p][f] \in Secret
  /\ pc[p] \in {<<"truncate", "cert">>, <<"fill", "cert">>} => holds[p]["key"] \in Secret

TypeInv ==
  /\ StartTypeOK /\ Placed /\ served \in [File -> SUBSET (Secret \cup {Absent})]
  /\ \A p \in Proc : Armed(p)

(* How many migrations there are.                                          *)
LEMMA MigrationsAreCounted == Migrations \in Nat
BY StartAssumption DEF Migrations

(* The numbers that stand for no key are none.                             *)
LEMMA NoKeys == Absent \notin Secret /\ Empty \notin Secret /\ Absent # Empty
BY DEF Secret, Absent, Empty

(* A new key is a key, and one that nobody has.                            *)
LEMMA FreshIsNew ==
  ASSUME Unknown # {} PROVE Fresh \in Secret
BY DEF Fresh, Unknown

(* A step of p changes the place and the memory of p alone.                *)
Becomes(p, to, mem) ==
  /\ pc' = [pc EXCEPT ![p] = to] /\ holds' = [holds EXCEPT ![p] = mem]
May(p, to) == IF p \in Router THEN to \in RouterPlace ELSE to \in Early \cup {<<"issue">>}
Memory == [File -> Secret \cup {Absent}]

(* What a process that goes on to a place, with a memory, has afterwards.  *)
LEMMA Becoming ==
  ASSUME TypeInv, NEW p \in Proc, NEW to, NEW mem \in Memory, Becomes(p, to, mem)
  PROVE  /\ pc'[p] = to /\ holds'[p] = mem
         /\ \A q \in Proc : q # p => pc'[q] = pc[q] /\ holds'[q] = holds[q]
         /\ holds' \in [Proc -> Memory]
         /\ May(p, to) => Placed'
<1>1. pc = [q \in Proc |-> pc[q]] /\ holds \in [Proc -> Memory]
  BY DEF TypeInv, Placed, StartTypeOK, Memory
<1>2. /\ pc'[p] = to /\ holds'[p] = mem
      /\ \A q \in Proc : q # p => pc'[q] = pc[q] /\ holds'[q] = holds[q]
  BY <1>1 DEF Becomes
<1>3. holds' \in [Proc -> Memory] /\ pc' = [q \in Proc |-> pc'[q]]
  BY <1>1 DEF Becomes
<1>4. May(p, to) => Placed'
  BY <1>2, <1>3, StartAssumption, ZenonT(30) DEF May, Placed, TypeInv, Proc
<1> QED BY <1>2, <1>3, <1>4

(* The same of a process that only moves on, and of one that ends.         *)
LEMMA GoingOn ==
  ASSUME TypeInv, NEW p \in Proc, NEW to, GoesOn(p, to), UNCHANGED holds
  PROVE  Becomes(p, to, holds[p]) /\ holds[p] \in Memory
BY DEF TypeInv, StartTypeOK, GoesOn, Becomes, Memory

(* What a process that ends leaves behind.                                 *)
LEMMA Ending ==
  ASSUME TypeInv, NEW p \in Proc, Ends(p)
  PROVE  /\ Becomes(p, <<"off">>, Nothing) /\ Nothing \in Memory /\ May(p, <<"off">>)
         /\ todo' \in [Proc -> SUBSET (1 .. Migrations)]
         /\ tx'.by \in {<< >>} \cup {<<q>> : q \in Proc}
BY DEF TypeInv, StartTypeOK, Ends, Becomes, Nothing, Memory, May, RouterPlace, Early, NoTx

-----------------------------------------------------------------------------
(* What a step of p is to the files, the credentials and the memory of p.  *)
Midway == {<<"truncate", "key">>} \cup {<<"fill", f>> : f \in File}
Quits(p) ==
  /\ Becomes(p, <<"off">>, Nothing) /\ UNCHANGED <<file, served, raced>>
  /\ torn' \in BOOLEAN /\ (~torn' => ~torn /\ pc[p] \notin Midway)
  /\ \/ UNCHANGED issued
     \/ pc[p] = <<"issue">> /\ issued' = issued \cup {holds[p]["signer"]}
Opens(p) ==
  /\ pc[p] \in {<<"off">>, <<"open">>, <<"commit">>}
  /\ \E to \in {<<"open">>, <<"commit">>, <<"read", "signer">>} : Becomes(p, to, holds[p])
  /\ UNCHANGED <<file, issued, served, torn, raced>>
Creates(p, f) ==
  LET made == IF f = "cert" THEN {"cert", "key"} ELSE {f}
  IN  /\ pc[p] = <<"read", f>> /\ f # "key" /\ file[f] = Absent
      /\ \E k \in Secret :
           Becomes(p, <<"truncate", f>>, [g \in File |-> IF g \in made THEN k ELSE holds[p][g]])
      /\ raced' \in BOOLEAN /\ (~raced' => ~raced)
      /\ ~raced' /\ f = "signer" => \A q \in Proc \ {p} : ~Making(q)
      /\ UNCHANGED <<file, issued, served, torn>>
Finds(p, f) ==
  /\ pc[p] = <<"read", f>> /\ f # "key" /\ file[f] \in Secret
  /\ f = "cert" => file["key"] = file["cert"]
  /\ Becomes(p, Loaded(p, f), [holds[p] EXCEPT ![f] = file[f]])
  /\ UNCHANGED <<file, issued, served, torn, raced>>
Truncates(p, f) ==
  /\ pc[p] = <<"truncate", f>> /\ Becomes(p, <<"fill", f>>, holds[p])
  /\ file' = [file EXCEPT ![f] = Empty] /\ UNCHANGED <<issued, served, torn, raced>>
Fills(p, f) ==
  /\ pc[p] = <<"fill", f>> /\ Becomes(p, Written(p, f), holds[p])
  /\ file' = [file EXCEPT ![f] = holds[p][f]] /\ UNCHANGED <<issued, served, torn, raced>>
Serves(p) ==
  /\ pc[p] = <<"serve">> /\ Becomes(p, <<"serving">>, holds[p])
  /\ served' = [f \in File |-> served[f] \cup {holds[p][f]}]
  /\ UNCHANGED <<file, issued, torn, raced>>
Effect(p) ==
  \/ Quits(p) \/ Opens(p) \/ Serves(p)
  \/ \E f \in File : Creates(p, f) \/ Finds(p, f) \/ Truncates(p, f) \/ Fills(p, f)

(* Opening the store, and ending: the files stay as they are.              *)
LEMMA StoreEffect ==
  ASSUME TypeInv, NEW p \in Proc,
         migrate(p) \/ applyMigration(p) \/ busy(p) \/ commit(p) \/ opened(p)
  PROVE  Quits(p) \/ Opens(p)
<1>1. torn \in BOOLEAN
  BY DEF TypeInv, StartTypeOK
<1>2. <<"open">> \notin Midway
  BY DEF Midway
<1>3. CASE migrate(p)
  BY <1>3, GoingOn DEF migrate, Opens
<1>4. CASE applyMigration(p)
  BY <1>1, <1>2, <1>4, GoingOn, Ending DEF applyMigration, Opens, Quits
<1>5. CASE busy(p)
  BY <1>1, <1>2, <1>5, Ending DEF busy, Quits
<1>6. CASE commit(p)
  BY <1>6, GoingOn DEF commit, Opens
<1>7. CASE opened(p)
  BY <1>7, GoingOn DEF opened, Opens
<1> QED BY <1>3, <1>4, <1>5, <1>6, <1>7

(* What LoadOrCreate does with a file.                                     *)
LEMMA LoadEffect ==
  ASSUME TypeInv, NEW p \in Proc, NEW f \in File, LoadOrCreate(p, f)
  PROVE  Quits(p) \/ Creates(p, f) \/ Finds(p, f)
<1>1. torn \in BOOLEAN /\ raced \in BOOLEAN /\ holds \in [Proc -> Memory]
  BY DEF TypeInv, StartTypeOK, Memory
<1>2. <<"read", f>> \notin Midway /\ f \in {"signer", "secret"} /\ f # "cert" /\ f # "key"
  BY DEF Midway, LoadOrCreate
<1>3. CASE file[f] = Absent /\ Makes(p, {f}) /\ GoesOn(p, <<"truncate", f>>)
  <2>1. Becomes(p, <<"truncate", f>>, [g \in File |-> IF g \in {f} THEN Fresh ELSE holds[p][g]])
    BY <1>1, <1>3 DEF Makes, GoesOn, Becomes
  <2>2. Fresh \in Secret
    BY <1>3, FreshIsNew DEF Makes
  <2>3. raced' \in BOOLEAN /\ (~raced' => ~raced)
    BY <1>1 DEF LoadOrCreate
  <2>4. ~raced' /\ f = "signer" => \A q \in Proc \ {p} : ~Making(q)
    BY <1>3, ZenonT(30) DEF LoadOrCreate
  <2>5. UNCHANGED <<file, issued, served, torn>> /\ pc[p] = <<"read", f>>
    BY DEF LoadOrCreate
  <2> QED BY <1>2, <1>3, <2>1, <2>2, <2>3, <2>4, <2>5, ZenonT(30) DEF Creates
<1>4. CASE file[f] = Empty /\ Ends(p)
  BY <1>1, <1>2, <1>4, Ending, NoKeys DEF LoadOrCreate, Quits
<1>5. CASE file[f] \in Secret /\ Loads(p, f)
  <2>1. Becomes(p, Loaded(p, f), [holds[p] EXCEPT ![f] = file[f]])
    BY <1>1, <1>5 DEF Loads, GoesOn, Becomes
  <2> QED BY <1>1, <1>2, <1>5, <2>1, NoKeys DEF LoadOrCreate, Finds
<1> QED BY <1>3, <1>4, <1>5 DEF LoadOrCreate

(* The same for the certificate and its key.                               *)
LEMMA CertEffect ==
  ASSUME TypeInv, NEW p \in Proc, LoadOrCreateSelfSignedCert(p)
  PROVE  Quits(p) \/ Creates(p, "cert") \/ Finds(p, "cert")
<1>1. torn \in BOOLEAN /\ raced \in BOOLEAN /\ holds \in [Proc -> Memory] /\ "cert" \in File
  BY DEF TypeInv, StartTypeOK, Memory, File
<1>2. <<"read", "cert">> \notin Midway /\ "cert" # "key" /\ "cert" # "signer"
  BY DEF Midway
<1>3. CASE file["cert"] = Absent /\ Makes(p, {"cert", "key"}) /\ GoesOn(p, <<"truncate", "cert">>)
  <2>1. Becomes(p, <<"truncate", "cert">>, [g \in File |-> IF g \in {"cert", "key"} THEN Fresh ELSE holds[p][g]])
    BY <1>1, <1>3 DEF Makes, GoesOn, Becomes
  <2>2. Fresh \in Secret
    BY <1>3, FreshIsNew DEF Makes
  <2>3. UNCHANGED <<file, issued, served, torn, raced>> /\ pc[p] = <<"read", "cert">>
    BY DEF LoadOrCreateSelfSignedCert
  <2> QED BY <1>1, <1>2, <1>3, <2>1, <2>2, <2>3 DEF Creates
<1>4. CASE Ends(p)
  BY <1>1, <1>2, <1>4, Ending DEF LoadOrCreateSelfSignedCert, Quits
<1>5. CASE file["cert"] \in Secret /\ file["key"] = file["cert"] /\ Loads(p, "cert")
  <2>1. Becomes(p, Loaded(p, "cert"), [holds[p] EXCEPT !["cert"] = file["cert"]])
    BY <1>1, <1>5 DEF Loads, GoesOn, Becomes
  <2> QED BY <1>2, <1>5, <2>1 DEF LoadOrCreateSelfSignedCert, Finds
<1> QED BY <1>3, <1>4, <1>5 DEF LoadOrCreateSelfSignedCert

(* Every step of a running process is one of the eight effects.            *)
LEMMA EveryEffect ==
  ASSUME TypeInv, NEW p \in Proc, migrate(p) \/ Step(p) \/ Shutdown(p) \/ Kill(p)
  PROVE  Effect(p)
<1>1. torn \in BOOLEAN /\ "cert" \in File
  BY DEF TypeInv, StartTypeOK, File
<1>2. ASSUME NEW f \in File, truncate(p, f) PROVE Truncates(p, f)
  BY <1>2, GoingOn DEF truncate, Truncates
<1>3. ASSUME NEW f \in File, fill(p, f) PROVE Fills(p, f)
  BY <1>3, GoingOn DEF fill, Fills, Kept
<1>4. CASE issue(p)
  BY <1>1, <1>4, Ending DEF issue, Quits, Effect, Midway
<1>5. CASE serve(p)
  BY <1>5, GoingOn DEF serve, Serves, Effect
<1>6. CASE Shutdown(p)
  BY <1>1, <1>6, Ending DEF Shutdown, Quits, Effect, Midway
<1>7. CASE Kill(p)
  <2>1. \A x \in Midway : Head(x) = "fill" \/ x = <<"truncate", "key">>
    BY DEF Midway
  <2>2. torn' \in BOOLEAN /\ (~torn' => ~torn /\ pc[p] \notin Midway)
    BY <1>1, <1>7, <2>1, ZenonT(30) DEF Kill
  <2> QED BY <1>7, <2>2, Ending DEF Kill, Quits, Effect
<1> QED BY <1>1, <1>2, <1>3, <1>4, <1>5, <1>6, <1>7, StoreEffect, LoadEffect, CertEffect
        DEF Step, Effect

-----------------------------------------------------------------------------
(* The parts of the types that an effect speaks of.                        *)
Typed ==
  /\ Placed /\ file \in [File -> Secret \cup {Absent, Empty}] /\ holds \in [Proc -> Memory]
  /\ issued \subseteq Secret /\ served \in [File -> SUBSET (Secret \cup {Absent})]
  /\ torn \in BOOLEAN /\ raced \in BOOLEAN /\ \A p \in Proc : Armed(p)

(* The type invariant gives the types one by one.                          *)
LEMMA TypedNow == TypeInv => Typed
BY DEF TypeInv, StartTypeOK, Typed, Memory

(* The facts about one step that all that follows uses.                    *)
LEMMA ArmedStep ==
  ASSUME TypeInv, NEW p \in Proc, NEW to, NEW mem \in Memory, Becomes(p, to, mem), Armed(p)'
  PROVE  \A q \in Proc : Armed(q)'
<1> SUFFICES ASSUME NEW q \in Proc, q # p PROVE Armed(q)'
  OBVIOUS
<1> QED BY Becoming DEF Armed, TypeInv

(* A process that ends keeps the types.                                    *)
LEMMA QuitTypes == ASSUME TypeInv, NEW p \in Proc, Quits(p) PROVE Typed'
<1>1. Becomes(p, <<"off">>, Nothing) /\ Nothing \in Memory /\ May(p, <<"off">>)
  BY DEF Quits, Nothing, Memory, May, RouterPlace, Early
<1>2. Armed(p)'
  BY <1>1, Becoming DEF Armed, Early
<1>3. issued' \subseteq Secret
  BY TypedNow DEF Quits, Typed, Armed, Early
<1> QED BY <1>1, <1>2, <1>3, TypedNow, Becoming, ArmedStep DEF Typed, Quits

(* A step on the schema keeps the types.                                   *)
LEMMA OpenTypes == ASSUME TypeInv, NEW p \in Proc, Opens(p) PROVE Typed'
<1>1. PICK to \in {<<"open">>, <<"commit">>, <<"read", "signer">>} : Becomes(p, to, holds[p])
  BY DEF Opens
<1>2. holds[p] \in Memory /\ May(p, to)
  BY TypedNow DEF Typed, May, RouterPlace, Early
<1>3. Armed(p)'
  BY <1>1, <1>2, Becoming DEF Armed, Early
<1> QED BY <1>1, <1>2, <1>3, TypedNow, Becoming, ArmedStep DEF Typed, Opens

(* A router that begins to serve keeps the types.                          *)
LEMMA ServeTypes == ASSUME TypeInv, NEW p \in Proc, Serves(p) PROVE Typed'
<1>1. holds[p] \in Memory /\ Becomes(p, <<"serving">>, holds[p])
  BY TypedNow DEF Typed, Serves
<1>2. May(p, <<"serving">>)
  BY TypedNow DEF Serves, Typed, Placed, May, RouterPlace, Early, Ready, Proc
<1>3. Armed(p)'
  <2>1. holds[p]["signer"] \in Secret
    BY TypedNow DEF Typed, Armed, Serves, Early
  <2> QED BY <1>1, <2>1, Becoming DEF Armed
<1>4. served' \in [File -> SUBSET (Secret \cup {Absent})]
  BY <1>1, TypedNow DEF Serves, Typed, Memory
<1> QED BY <1>1, <1>2, <1>3, <1>4, TypedNow, Becoming, ArmedStep DEF Typed, Serves

(* A process that makes a key keeps the types.                             *)
LEMMA CreateTypes ==
  ASSUME TypeInv, NEW p \in Proc, NEW f \in File, Creates(p, f)
  PROVE  Typed'
<1> DEFINE made == IF f = "cert" THEN {"cert", "key"} ELSE {f}
<1>1. PICK k \in Secret :
        Becomes(p, <<"truncate", f>>, [g \in File |-> IF g \in made THEN k ELSE holds[p][g]])
  BY DEF Creates
<1> DEFINE mem == [g \in File |-> IF g \in made THEN k ELSE holds[p][g]]
<1>2. mem \in Memory
  BY TypedNow DEF Typed, Memory
<1>3. May(p, <<"truncate", f>>)
  BY TypedNow DEF Creates, Typed, Placed, May, RouterPlace, Early, OfCert, OfSecret, Ready, Proc, File
<1>4. mem[f] \in Secret /\ (f = "cert" => mem["key"] \in Secret)
  BY DEF File
<1> HIDE DEF mem
<1>5. pc'[p] = <<"truncate", f>> /\ holds'[p] = mem
  BY <1>1, <1>2, Becoming DEF mem
<1>6. Armed(p)'
  <2>1. f # "signer" => holds[p]["signer"] \in Secret
    BY TypedNow DEF Typed, Armed, Creates, Early
  <2>2. f # "signer" => mem["signer"] \in Secret
    BY <2>1 DEF mem, File
  <2> QED BY <1>4, <1>5, <2>2 DEF Armed, Early
<1> QED BY <1>1, <1>2, <1>3, <1>6, TypedNow, Becoming, ArmedStep DEF Typed, Creates, mem

(* A process that loads a key keeps the types.                             *)
LEMMA FindTypes ==
  ASSUME TypeInv, NEW p \in Proc, NEW f \in File, Finds(p, f)
  PROVE  Typed'
<1> DEFINE mem == [holds[p] EXCEPT ![f] = file[f]]
<1>1. Becomes(p, Loaded(p, f), mem)
  BY DEF Finds
<1>2. mem \in Memory /\ mem[f] = file[f] /\ file[f] \in Secret
  BY TypedNow DEF Typed, Memory, Finds
<1> HIDE DEF mem
<1>3. f \in {"signer", "cert", "secret"} /\ (p \notin Router => f = "signer" /\ p \in Command)
  BY TypedNow DEF Finds, Typed, Placed, Early, Proc, File
<1>4. Loaded(p, f) = IF f = "signer" THEN IF p \in Router THEN <<"read", "cert">> ELSE <<"issue">>
                     ELSE IF f = "cert" THEN <<"read", "secret">> ELSE <<"serve">>
  BY <1>3 DEF Loaded
<1>5. May(p, Loaded(p, f))
  BY <1>3, <1>4 DEF May, RouterPlace, Ready
<1>6. Armed(p)'
  <2>1. f # "signer" => holds[p]["signer"] \in Secret
    BY TypedNow DEF Typed, Armed, Finds, Early
  <2>2. mem["signer"] \in Secret
    BY <1>2, <2>1, TypedNow DEF mem, File, Typed, Memory
  <2>3. pc'[p] = Loaded(p, f) /\ holds'[p] = mem
    BY <1>1, <1>2, Becoming
  <2> QED BY <1>2, <1>3, <1>4, <2>2, <2>3 DEF Armed
<1> QED BY <1>1, <1>2, <1>5, <1>6, TypedNow, Becoming, ArmedStep DEF Typed, Finds

(* The first half of a write keeps the types.                              *)
LEMMA TruncateTypes ==
  ASSUME TypeInv, NEW p \in Proc, NEW f \in File, Truncates(p, f)
  PROVE  Typed'
<1>1. holds[p] \in Memory /\ Becomes(p, <<"fill", f>>, holds[p])
  BY TypedNow DEF Typed, Truncates
<1>2. May(p, <<"fill", f>>)
  BY TypedNow DEF Truncates, Typed, Placed, May, RouterPlace, Early, OfCert, OfSecret, Ready, Proc, File
<1>3. Armed(p)'
  <2>1. pc'[p] = <<"fill", f>> /\ holds'[p] = holds[p] /\ Armed(p) /\ pc[p] = <<"truncate", f>>
    BY <1>1, Becoming, TypedNow DEF Typed, Truncates
  <2>2. <<"fill", f>> \notin Early => <<"truncate", f>> \notin Early
    BY DEF Early
  <2> QED BY <2>1, <2>2 DEF Armed
<1>4. file' \in [File -> Secret \cup {Absent, Empty}]
  BY TypedNow DEF Typed, Truncates
<1> QED BY <1>1, <1>2, <1>3, <1>4, TypedNow, Becoming, ArmedStep DEF Typed, Truncates

(* The second half of a write keeps the types.                             *)
LEMMA FillTypes ==
  ASSUME TypeInv, NEW p \in Proc, NEW f \in File, Fills(p, f)
  PROVE  Typed'
<1>1. holds[p] \in Memory /\ Becomes(p, Written(p, f), holds[p]) /\ holds[p][f] \in Secret
  BY TypedNow, ZenonT(30) DEF Typed, Fills, Armed
<1>2. p \notin Router => f = "signer" /\ p \in Command
  BY TypedNow DEF Fills, Typed, Placed, Early, Proc, File
<1>3. Written(p, f) =
        IF f = "signer" THEN IF p \in Router THEN <<"read", "cert">> ELSE <<"issue">>
        ELSE IF f = "cert" THEN <<"truncate", "key">>
        ELSE IF f = "key" THEN <<"read", "secret">> ELSE <<"serve">>
  BY DEF Written, Loaded, File
<1>4. May(p, Written(p, f))
  BY <1>2, <1>3 DEF May, RouterPlace, OfCert, Ready
<1>5. Armed(p)'
  <2>1. pc'[p] = Written(p, f) /\ holds'[p] = holds[p] /\ Armed(p) /\ pc[p] = <<"fill", f>>
    BY <1>1, Becoming, TypedNow DEF Typed, Fills
  <2>2. holds[p]["signer"] \in Secret
    BY <1>1, <2>1 DEF Armed, Early
  <2> QED BY <1>1, <1>3, <2>1, <2>2 DEF Armed
<1>6. file' \in [File -> Secret \cup {Absent, Empty}]
  BY <1>1, TypedNow DEF Typed, Fills
<1> QED BY <1>1, <1>4, <1>5, <1>6, TypedNow, Becoming, ArmedStep DEF Typed, Fills

(* An effect keeps all the types it speaks of.                             *)
LEMMA EffectTypes == ASSUME TypeInv, NEW p \in Proc, Effect(p) PROVE Typed'
BY QuitTypes, OpenTypes, ServeTypes, CreateTypes, FindTypes, TruncateTypes, FillTypes DEF Effect

(* The rest of the types.                                                  *)
RestTyped ==
  /\ recorded \subseteq 1 .. Migrations /\ kills \in 0 .. MaxKills
  /\ tx.by \in {<< >>} \cup {<<q>> : q \in Proc}
  /\ todo \in [Proc -> SUBSET (1 .. Migrations)]

(* The kinds of step above keep what TypeInv adds to them.                 *)
LEMMA RestTypes ==
  ASSUME TypeInv, NEW p \in Proc, migrate(p) \/ Step(p) \/ Shutdown(p) \/ Kill(p)
  PROVE  RestTyped'
<1>1. RestTyped
  BY DEF TypeInv, StartTypeOK, RestTyped
<1>2. CASE Ends(p) /\ UNCHANGED <<recorded, kills>>
  BY <1>1, <1>2, Ending DEF RestTyped
<1>3. CASE UNCHANGED <<recorded, kills, tx, todo>>
  BY <1>1, <1>3 DEF RestTyped
<1>4. CASE migrate(p)
  BY <1>1, <1>4 DEF migrate, Pending, RestTyped
<1>5. CASE applyMigration(p)
  <2>1. CASE Ends(p)
    BY <1>2, <1>5, <2>1 DEF applyMigration
  <2>2. CASE ~Ends(p)
    <3>1. tx'.by = <<p>> /\ UNCHANGED <<recorded, kills, todo>>
      BY <1>5, <2>2 DEF applyMigration
    <3> QED BY <1>1, <3>1 DEF RestTyped
  <2> QED BY <2>1, <2>2
<1>6. CASE commit(p)
  BY <1>1, <1>6, ZenonT(30) DEF commit, NextUp, NoTx, RestTyped
<1>7. CASE Kill(p)
  BY <1>1, <1>7, Ending, StartAssumption DEF Kill, RestTyped
<1>8. ASSUME NEW f \in File, LoadOrCreate(p, f) PROVE RestTyped'
  BY <1>2, <1>3, <1>8 DEF LoadOrCreate, Makes, Loads
<1>9. CASE LoadOrCreateSelfSignedCert(p)
  BY <1>2, <1>3, <1>9 DEF LoadOrCreateSelfSignedCert, Makes, Loads
<1>10. CASE busy(p) \/ issue(p) \/ Shutdown(p)
  BY <1>2, <1>10 DEF busy, issue, Shutdown
<1>11. CASE opened(p) \/ serve(p)
  BY <1>3, <1>11 DEF opened, serve
<1>12. ASSUME NEW f \in File, truncate(p, f) \/ fill(p, f) PROVE RestTyped'
  BY <1>3, <1>12 DEF truncate, fill
<1> QED BY <1>4, <1>5, <1>6, <1>7, <1>8, <1>9, <1>10, <1>11, <1>12 DEF Step

(* The types hold of a router and commands that never ran.                 *)
LEMMA TypeInitially == StartInit => TypeInv
<1> SUFFICES ASSUME StartInit PROVE TypeInv
  OBVIOUS
<1>1. StartTypeOK
  <2>1. Nothing \in Memory /\ Nothing \in [File -> Secret \cup {Absent, Empty}]
    BY DEF Nothing, Memory
  <2>2. holds \in [Proc -> Memory] /\ file \in [File -> Secret \cup {Absent, Empty}]
    BY <2>1 DEF StartInit
  <2>3. tx.by = << >>
    BY DEF StartInit, NoTx
  <2>4. recorded \subseteq 1 .. Migrations /\ issued \subseteq Secret /\ torn \in BOOLEAN /\ raced \in BOOLEAN
    BY ZenonT(30) DEF StartInit
  <2>5. todo \in [Proc -> SUBSET (1 .. Migrations)]
    <3>1. {} \in SUBSET (1 .. Migrations)
      OBVIOUS
    <3> QED BY <3>1 DEF StartInit
  <2>6. kills \in 0 .. MaxKills
    BY StartAssumption, MigrationsAreCounted DEF StartInit
  <2> QED BY <2>2, <2>3, <2>4, <2>5, <2>6 DEF StartTypeOK, Memory
<1>2. Placed /\ served \in [File -> SUBSET (Secret \cup {Absent})]
  BY DEF StartInit, Placed, RouterPlace, Early, Proc
<1>3. \A p \in Proc : Armed(p)
  BY DEF StartInit, Armed, Early
<1> QED BY <1>1, <1>2, <1>3 DEF TypeInv

(* Every step keeps the types.                                             *)
LEMMA TypeStep ==
  ASSUME TypeInv, NEW p \in Proc, migrate(p) \/ Step(p) \/ Shutdown(p) \/ Kill(p)
  PROVE  TypeInv'
BY RestTypes, EveryEffect, EffectTypes DEF RestTyped, Typed, TypeInv, StartTypeOK, Memory

(* A serving router signs with a key, and nothing else of it changes.      *)
LEMMA SigningTypes ==
  ASSUME TypeInv, NEW p \in Proc, workerKeysCreate(p)
  PROVE  TypeInv' /\ holds[p]["signer"] \in Secret
<1>1. <<"serving">> \notin Early /\ Armed(p)
  BY DEF Early, TypeInv
<1>2. holds[p]["signer"] \in Secret
  BY <1>1 DEF Armed, workerKeysCreate
<1>3. /\ UNCHANGED <<pc, holds, file, served, torn, raced, kills, schema, recorded, tx, todo>>
      /\ issued' = issued \cup {holds[p]["signer"]}
  BY DEF workerKeysCreate
<1>4. StartTypeOK'
  BY <1>2, <1>3 DEF TypeInv, StartTypeOK
<1>5. Placed' /\ \A q \in Proc : Armed(q)'
  BY <1>3 DEF TypeInv, Placed, Armed
<1> QED BY <1>2, <1>3, <1>4, <1>5 DEF TypeInv

-----------------------------------------------------------------------------
(* A process that migrates lacks no migration of those it has to apply,    *)
(* and the one it is about to commit is the first that is not recorded.    *)
Prefix(n) == recorded = 1 .. n /\ schema = [m \in 1 .. n |-> Meant[m]]
Migrating(p) ==
  /\ pc[p] \in {<<"open">>, <<"commit">>} => 1 .. Migrations \ recorded \subseteq todo[p]
  /\ pc[p] = <<"commit">> =>
       \E m \in NextUp(p) : tx = [by |-> <<p>>, done |-> Executed[m]] /\ m \notin recorded
SchemaInv ==
  /\ TypeInv /\ (\E n \in 0 .. Migrations : Prefix(n)) /\ \A p \in Proc : Migrating(p)

(* Only one process is about to commit.                                    *)
LEMMA OneCommits ==
  ASSUME SchemaInv, NEW p \in Proc, NEW q \in Proc, pc[p] = <<"commit">>, pc[q] = <<"commit">>
  PROVE  p = q
BY DEF SchemaInv, Migrating

(* A step that leaves the schema and the transactions of others alone.     *)
LEMMA SchemaAside ==
  ASSUME SchemaInv, TypeInv', NEW p \in Proc,
         UNCHANGED <<schema, recorded>>, pc'[p] \notin {<<"open">>, <<"commit">>},
         \A q \in Proc \ {p} : pc'[q] = pc[q] /\ todo'[q] = todo[q],
         tx' = tx \/ tx.by = <<p>>
  PROVE  SchemaInv'
<1>1. Migrating(p)'
  BY SMTT(30) DEF Migrating
<1>2. ASSUME NEW q \in Proc \ {p} PROVE Migrating(q)'
  <2>1. Migrating(q) /\ pc'[q] = pc[q] /\ todo'[q] = todo[q] /\ NextUp(q)' = NextUp(q)
    BY <1>2 DEF SchemaInv, NextUp
  <2>2. pc[q] = <<"commit">> => tx' = tx
    BY <1>2, <2>1 DEF Migrating
  <2> QED BY <2>1, <2>2 DEF Migrating
<1> QED BY <1>1, <1>2 DEF SchemaInv, Prefix

(* A snapshot of the pending migrations takes in all that are unrecorded.  *)
LEMMA MigrateOK ==
  ASSUME SchemaInv, TypeInv', NEW p \in Proc, migrate(p)
  PROVE  SchemaInv'
<1>1. /\ pc'[p] = <<"open">> /\ todo'[p] = 1 .. Migrations \ recorded
      /\ \A q \in Proc \ {p} : pc'[q] = pc[q] /\ todo'[q] = todo[q]
  BY DEF SchemaInv, TypeInv, StartTypeOK, Placed, migrate, GoesOn, Pending
<1>2. UNCHANGED <<tx, schema, recorded>>
  BY DEF migrate
<1>3. \A q \in Proc : Migrating(q)'
  <2> TAKE q \in Proc
  <2>1. CASE q = p
    BY <1>1, <1>2, <2>1, SMTT(30) DEF Migrating
  <2>2. CASE q # p
    BY <1>1, <1>2, <2>2 DEF SchemaInv, Migrating, NextUp
  <2> QED BY <2>1, <2>2
<1> QED BY <1>2, <1>3 DEF SchemaInv, Prefix

(* An execution opens the only transaction, of a migration not recorded.   *)
LEMMA ApplyOK ==
  ASSUME SchemaInv, TypeInv', NEW p \in Proc, applyMigration(p)
  PROVE  SchemaInv'
<1>1. PICK m \in NextUp(p) : IF Repeats(m) THEN Ends(p)
                             ELSE /\ tx' = [by |-> <<p>>, done |-> Executed[m]]
                                  /\ GoesOn(p, <<"commit">>) /\ UNCHANGED <<todo, holds>>
  BY DEF applyMigration
<1>2. UNCHANGED <<schema, recorded>> /\ tx = NoTx /\ pc[p] = <<"open">>
  BY DEF applyMigration
<1>3. \A q \in Proc : pc[q] # <<"commit">>
  BY <1>2, ZenonT(30) DEF SchemaInv, Migrating, NoTx
<1>4. CASE Repeats(m)
  <2>1. /\ pc'[p] = <<"off">> /\ \A q \in Proc \ {p} : pc'[q] = pc[q] /\ todo'[q] = todo[q]
    BY <1>1, <1>4 DEF Ends, SchemaInv, TypeInv, StartTypeOK, Placed
  <2>2. tx' = tx
    BY <1>1, <1>2, <1>4, ZenonT(30) DEF Ends, NoTx
  <2> QED BY <1>2, <2>1, <2>2, SchemaAside
<1>5. CASE ~Repeats(m)
  <2>1. /\ pc'[p] = <<"commit">> /\ \A q \in Proc \ {p} : pc'[q] = pc[q]
        /\ todo' = todo /\ tx' = [by |-> <<p>>, done |-> Executed[m]]
    BY <1>1, <1>5 DEF GoesOn, SchemaInv, TypeInv, Placed
  <2>2. m \notin recorded /\ NextUp(p)' = NextUp(p)
    BY <1>5, <2>1 DEF Repeats, NextUp
  <2>3. Migrating(p)'
    BY <1>2, <2>1, <2>2 DEF SchemaInv, Migrating
  <2>4. ASSUME NEW q \in Proc \ {p} PROVE Migrating(q)'
    BY <1>2, <1>3, <2>1, <2>4 DEF SchemaInv, Migrating
  <2> QED BY <1>2, <2>3, <2>4 DEF SchemaInv, Prefix
<1> QED BY <1>4, <1>5

(* A commit adds the first migration that is not recorded.                 *)
LEMMA CommitOK ==
  ASSUME Executed = Meant, SchemaInv, TypeInv', NEW p \in Proc, commit(p)
  PROVE  SchemaInv'
<1>1. pc[p] = <<"commit">>
  BY DEF commit
<1>2. PICK m \in NextUp(p) : tx = [by |-> <<p>>, done |-> Executed[m]] /\ m \notin recorded
  BY <1>1 DEF SchemaInv, Migrating
<1>3. PICK n \in 0 .. Migrations : Prefix(n)
  BY SMTT(30) DEF SchemaInv
<1>4. Migrations \in Nat /\ todo[p] \subseteq 1 .. Migrations /\ NextUp(p) \subseteq todo[p]
  BY MigrationsAreCounted DEF SchemaInv, TypeInv, StartTypeOK, NextUp
<1>5. NextUp(p) = {m}
  BY <1>4 DEF NextUp
<1>6. m = n + 1 /\ n + 1 \in 1 .. Migrations
  <2>1. m \in 1 .. Migrations /\ m > n
    BY <1>2, <1>3, <1>4 DEF Prefix
  <2>2. n + 1 \in todo[p]
    BY <1>1, <1>3, <1>4, <2>1 DEF SchemaInv, Migrating, Prefix
  <2>3. m <= n + 1
    BY <2>2 DEF NextUp
  <2> QED BY <1>3, <2>1, <2>3
<1>7. /\ recorded' = recorded \cup {m} /\ schema' = Append(schema, Meant[m])
      /\ pc'[p] = <<"open">> /\ todo'[p] = todo[p] \ {m}
      /\ \A q \in Proc \ {p} : pc'[q] = pc[q] /\ todo'[q] = todo[q]
  BY <1>2, <1>5 DEF commit, GoesOn, SchemaInv, TypeInv, StartTypeOK, Placed
<1>8. recorded' = 1 .. n + 1
  BY <1>3, <1>6, <1>7 DEF Prefix
<1>9. schema' = [k \in 1 .. n + 1 |-> Meant[k]]
  <2>1. schema = [k \in 1 .. n |-> Meant[k]] /\ n \in Nat
    BY <1>3 DEF Prefix
  <2>2. Append([k \in 1 .. n |-> Meant[k]], Meant[n + 1]) = [k \in 1 .. n + 1 |-> Meant[k]]
    <3>1. Len([k \in 1 .. n |-> Meant[k]]) = n
      BY <2>1
    <3> QED BY <2>1, <3>1
  <2> QED BY <1>6, <1>7, <2>1, <2>2
<1>10. Prefix(n + 1)'
  BY <1>8, <1>9 DEF Prefix
<1>11. Migrating(p)'
  BY <1>1, <1>7 DEF SchemaInv, Migrating
<1>12. ASSUME NEW q \in Proc \ {p} PROVE Migrating(q)'
  <2>1. pc[q] # <<"commit">>
    BY <1>1, <1>12, OneCommits
  <2> QED BY <1>7, <1>12, <2>1 DEF SchemaInv, Migrating
<1> QED BY <1>6, <1>10, <1>11, <1>12 DEF SchemaInv

(* Every step keeps the invariant of the schema.                           *)
LEMMA SchemaStep ==
  ASSUME Executed = Meant, SchemaInv, TypeInv', NEW p \in Proc,
         migrate(p) \/ Step(p) \/ Shutdown(p) \/ Kill(p)
  PROVE  SchemaInv'
<1>1. pc = [q \in Proc |-> pc[q]] /\ todo \in [Proc -> SUBSET (1 .. Migrations)]
  BY ZenonT(30) DEF SchemaInv, TypeInv, StartTypeOK, Placed
<1>2. CASE Ends(p) /\ UNCHANGED <<schema, recorded>>
  <2>1. /\ pc'[p] = <<"off">> /\ \A q \in Proc \ {p} : pc'[q] = pc[q] /\ todo'[q] = todo[q]
        /\ tx' = tx \/ tx.by = <<p>>
    BY <1>1, <1>2 DEF Ends
  <2> QED BY <1>2, <2>1, SchemaAside
<1>3. ASSUME NEW to, to \notin {<<"open">>, <<"commit">>},
             GoesOn(p, to), UNCHANGED <<schema, recorded, tx, todo>>
      PROVE  SchemaInv'
  BY <1>1, <1>3, SchemaAside DEF GoesOn
<1>4. ASSUME NEW f \in File, LoadOrCreate(p, f) PROVE SchemaInv'
  <2>1. f \in {"signer", "secret"} => Loaded(p, f) \in {<<"read", "cert">>, <<"issue">>, <<"serve">>}
    BY DEF Loaded
  <2> QED BY <1>2, <1>3, <1>4, <2>1 DEF LoadOrCreate, Makes, Loads
<1>5. CASE LoadOrCreateSelfSignedCert(p)
  <2>1. Loaded(p, "cert") = <<"read", "secret">>
    BY DEF Loaded
  <2> QED BY <1>2, <1>3, <1>5, <2>1 DEF LoadOrCreateSelfSignedCert, Makes, Loads
<1>6. ASSUME NEW f \in File, truncate(p, f) \/ fill(p, f) PROVE SchemaInv'
  <2>1. Written(p, f) \in {<<"read", "cert">>, <<"issue">>, <<"truncate", "key">>, <<"read", "secret">>, <<"serve">>}
    BY SMTT(30) DEF Written, Loaded, File
  <2> QED BY <1>3, <1>6, <2>1 DEF truncate, fill
<1>7. CASE busy(p) \/ issue(p) \/ Shutdown(p) \/ Kill(p)
  BY <1>2, <1>7 DEF busy, issue, Shutdown, Kill
<1>8. CASE opened(p) \/ serve(p)
  BY <1>3, <1>8 DEF opened, serve
<1> QED BY <1>4, <1>5, <1>6, <1>7, <1>8, MigrateOK, ApplyOK, CommitOK DEF Step

(* When the splitter cuts the migrations as they are meant, the schema is  *)
(* that of the first migrations, which are the ones recorded.              *)
LEMMA SchemaGrows ==
  ASSUME Executed = Meant
  PROVE  StartSafetySpec => []SchemaIsPrefix
<1>1. StartInit => SchemaInv
  <2> SUFFICES ASSUME StartInit PROVE SchemaInv
    OBVIOUS
  <2>1. TypeInv
    BY TypeInitially
  <2>2. recorded = 1 .. 0 /\ schema = [m \in 1 .. 0 |-> Meant[m]] /\ 0 \in 0 .. Migrations
    BY StartAssumption, MigrationsAreCounted DEF StartInit
  <2>3. \A p \in Proc : Migrating(p)
    BY DEF StartInit, Migrating
  <2> QED BY <2>1, <2>2, <2>3 DEF SchemaInv, Prefix
<1>2. SchemaInv /\ [StartNext]_startVars => SchemaInv'
  <2> SUFFICES ASSUME SchemaInv, [StartNext]_startVars PROVE SchemaInv'
    OBVIOUS
  <2>1. CASE StartNext
    <3>1. ASSUME NEW p \in Proc, workerKeysCreate(p) PROVE SchemaInv'
      <4>1. TypeInv' /\ UNCHANGED <<pc, schema, recorded, tx, todo>>
        BY <3>1, SigningTypes DEF SchemaInv, workerKeysCreate
      <4> QED BY <4>1 DEF SchemaInv, Prefix, Migrating, NextUp
    <3> QED BY <2>1, <3>1, TypeStep, SchemaStep, ZenonT(30) DEF StartNext, SchemaInv
  <2>2. CASE UNCHANGED startVars
    <3>1. TypeInv'
      BY <2>2 DEF startVars, SchemaInv, TypeInv, StartTypeOK, Placed, Armed
    <3> QED BY <2>2, <3>1 DEF startVars, SchemaInv, Prefix, Migrating, NextUp
  <2> QED BY <2>1, <2>2
<1>3. SchemaInv => SchemaIsPrefix
  BY DEF SchemaInv, SchemaIsPrefix, TypeInv, Prefix
<1> QED BY <1>1, <1>2, <1>3, PTL DEF StartSafetySpec

-----------------------------------------------------------------------------
(* The loop over the characters has a solution, so Scanned is it.          *)
ScanLoop(raw, g, n) == g = [i \in 0 .. n |-> IF i = 0 THEN Start ELSE Scan(raw, g[i - 1], i)]
LEMMA ScanRuns ==
  ASSUME NEW raw, Len(raw) \in Nat
  PROVE  /\ Scanned(raw)[0] = Start
         /\ \A i \in 1 .. Len(raw) : Scanned(raw)[i] = Scan(raw, Scanned(raw)[i - 1], i)
<1> DEFINE S == {n \in Nat : \E g : ScanLoop(raw, g, n)}
<1>1. 0 \in S
  <2>1. ScanLoop(raw, [i \in 0 .. 0 |-> Start], 0)
    BY DEF ScanLoop
  <2> QED BY <2>1
<1>2. ASSUME NEW n \in Nat, n \in S PROVE n + 1 \in S
  <2>1. PICK g : ScanLoop(raw, g, n)
    BY <1>2
  <2> DEFINE h == [i \in 0 .. n + 1 |-> IF i = 0 THEN Start ELSE Scan(raw, g[i - 1], i)]
  <2>2. /\ \A i \in 0 .. n : h[i] = g[i] /\ i \in 0 .. n + 1
        /\ \A i \in 0 .. n + 1 : i = 0 \/ i - 1 \in 0 .. n
    BY <2>1 DEF ScanLoop
  <2>3. /\ h = [i \in 0 .. n + 1 |-> h[i]]
        /\ \A i \in 0 .. n + 1 : h[i] = IF i = 0 THEN Start ELSE Scan(raw, g[i - 1], i)
    OBVIOUS
  <2> HIDE DEF h
  <2>4. \A i \in 0 .. n + 1 : h[i] = IF i = 0 THEN Start ELSE Scan(raw, h[i - 1], i)
    BY <2>2, <2>3, ZenonT(30)
  <2>5. ScanLoop(raw, h, n + 1)
    BY <2>3, <2>4, ZenonT(30) DEF ScanLoop
  <2> QED BY <2>5
<1>3. \E g : ScanLoop(raw, g, Len(raw))
  <2>1. Nat \subseteq S
    <3> HIDE DEF S
    <3> QED BY <1>1, <1>2, SetInduction
  <2> QED BY <2>1
<1>4. ScanLoop(raw, Scanned(raw), Len(raw))
  BY <1>3, Zenon DEF ScanLoop, Scanned
<1> QED BY <1>4 DEF ScanLoop

(* So has the concatenation of the lexemes.                                *)
Longer(text, x) == text \o x.text
TextLoop(script, g, n) == g = [k \in 0 .. n |-> IF k = 0 THEN << >> ELSE Longer(g[k - 1], script[k])]
LEMMA TextRuns ==
  ASSUME NEW script, Len(script) \in Nat
  PROVE  /\ Texts(script)[0] = << >>
         /\ \A k \in 1 .. Len(script) : Texts(script)[k] = Texts(script)[k - 1] \o script[k].text
<1> DEFINE S == {n \in Nat : \E g : TextLoop(script, g, n)}
<1>1. 0 \in S
  <2>1. TextLoop(script, [k \in 0 .. 0 |-> << >>], 0)
    BY DEF TextLoop
  <2> QED BY <2>1
<1>2. ASSUME NEW n \in Nat, n \in S PROVE n + 1 \in S
  <2>1. PICK g : TextLoop(script, g, n)
    BY <1>2
  <2> DEFINE h == [k \in 0 .. n + 1 |-> IF k = 0 THEN << >> ELSE Longer(g[k - 1], script[k])]
  <2>2. /\ \A k \in 0 .. n : h[k] = g[k] /\ k \in 0 .. n + 1
        /\ \A k \in 0 .. n + 1 : k = 0 \/ k - 1 \in 0 .. n
    BY <2>1 DEF TextLoop
  <2>3. /\ h = [k \in 0 .. n + 1 |-> h[k]]
        /\ \A k \in 0 .. n + 1 : h[k] = IF k = 0 THEN << >> ELSE Longer(g[k - 1], script[k])
    OBVIOUS
  <2> HIDE DEF h
  <2>4. \A k \in 0 .. n + 1 : h[k] = IF k = 0 THEN << >> ELSE Longer(h[k - 1], script[k])
    BY <2>2, <2>3, ZenonT(30)
  <2>5. TextLoop(script, h, n + 1)
    BY <2>3, <2>4, ZenonT(30) DEF TextLoop
  <2> QED BY <2>5
<1>3. \E g : TextLoop(script, g, Len(script))
  <2>1. Nat \subseteq S
    <3> HIDE DEF S
    <3> QED BY <1>1, <1>2, SetInduction
  <2> QED BY <2>1
<1>4. TextLoop(script, Texts(script), Len(script))
  BY <1>3, Zenon DEF TextLoop, Texts, Longer
<1> QED BY <1>4 DEF TextLoop, Longer

(* And so have the statements as they are meant.                           *)
Neither == [out |-> << >>, buf |-> << >>]
AddLoop(script, g, n) == g = [k \in 0 .. n |-> IF k = 0 THEN Neither ELSE Add(g[k - 1], script[k])]
LEMMA AddRuns ==
  ASSUME NEW script, Len(script) \in Nat
  PROVE  /\ Added(script)[0] = Neither
         /\ \A k \in 1 .. Len(script) : Added(script)[k] = Add(Added(script)[k - 1], script[k])
<1> DEFINE S == {n \in Nat : \E g : AddLoop(script, g, n)}
<1>1. 0 \in S
  <2>1. AddLoop(script, [k \in 0 .. 0 |-> Neither], 0)
    BY DEF AddLoop
  <2> QED BY <2>1
<1>2. ASSUME NEW n \in Nat, n \in S PROVE n + 1 \in S
  <2>1. PICK g : AddLoop(script, g, n)
    BY <1>2
  <2> DEFINE h == [k \in 0 .. n + 1 |-> IF k = 0 THEN Neither ELSE Add(g[k - 1], script[k])]
  <2>2. /\ \A k \in 0 .. n : h[k] = g[k] /\ k \in 0 .. n + 1
        /\ \A k \in 0 .. n + 1 : k = 0 \/ k - 1 \in 0 .. n
    BY <2>1 DEF AddLoop
  <2>3. /\ h = [k \in 0 .. n + 1 |-> h[k]]
        /\ \A k \in 0 .. n + 1 : h[k] = IF k = 0 THEN Neither ELSE Add(g[k - 1], script[k])
    OBVIOUS
  <2> HIDE DEF h
  <2>4. \A k \in 0 .. n + 1 : h[k] = IF k = 0 THEN Neither ELSE Add(h[k - 1], script[k])
    BY <2>2, <2>3, ZenonT(30)
  <2>5. AddLoop(script, h, n + 1)
    BY <2>3, <2>4, ZenonT(30) DEF AddLoop
  <2> QED BY <2>5
<1>3. \E g : AddLoop(script, g, Len(script))
  <2>1. Nat \subseteq S
    <3> HIDE DEF S
    <3> QED BY <1>1, <1>2, SetInduction
  <2> QED BY <2>1
<1>4. AddLoop(script, Added(script), Len(script))
  BY <1>3, Zenon DEF AddLoop, Added, Neither
<1> QED BY <1>4 DEF AddLoop

(* A sequence that another one begins with.                                *)
Begins(s, t) == Len(s) <= Len(t) /\ \A j \in 1 .. Len(s) : t[j] = s[j]
LEMMA Joined ==
  ASSUME NEW C, NEW s \in Seq(C), NEW t \in Seq(C)
  PROVE  /\ s \o t \in Seq(C) /\ Len(s \o t) = Len(s) + Len(t)
         /\ Begins(s, s \o t) /\ Begins(s, s)
         /\ \A j \in 1 .. Len(t) : (s \o t)[Len(s) + j] = t[j]
BY DEF Begins

(* It is transitive.                                                       *)
LEMMA BeginsBegins ==
  ASSUME NEW C, NEW s \in Seq(C), NEW t \in Seq(C), NEW u \in Seq(C), Begins(s, t), Begins(t, u)
  PROVE  Begins(s, u)
BY DEF Begins

(* What a join and an append are, element by element.                      *)
Joins(u, s, t) == u = s \o t
Follows(u, s, t) == Len(u) = Len(s) + Len(t) /\ \A j \in 1 .. Len(t) : u[Len(s) + j] = t[j]
LEMMA Join ==
  ASSUME NEW C, NEW s \in Seq(C), NEW t \in Seq(C), NEW u, Joins(u, s, t)
  PROVE  u \in Seq(C) /\ Begins(s, u) /\ Begins(u, u) /\ Follows(u, s, t)
<1>1. u = s \o t
  BY Zenon DEF Joins
<1>2. u \in Seq(C) /\ Begins(s, u) /\ Follows(u, s, t)
  BY <1>1, Joined, ZenonT(30) DEF Follows
<1> QED BY <1>2, Joined, Zenon
LEMMA Elements ==
  ASSUME NEW C, NEW s \in Seq(C)
  PROVE  Len(s) \in Nat /\ \A k \in 1 .. Len(s) : s[k] \in C
OBVIOUS
LEMMA Appended ==
  ASSUME NEW C, NEW s \in Seq(C), NEW c \in C
  PROVE  /\ Append(s, c) \in Seq(C) /\ Len(Append(s, c)) = Len(s) + 1
         /\ \A h \in 1 .. Len(s) : Append(s, c)[h] = s[h]
         /\ Append(s, c)[Len(s) + 1] = c
OBVIOUS

(* Each beginning of a concatenation of n sequences.                       *)
Concatenates(t, w, n) == t[0] = << >> /\ \A k \in 1 .. n : Joins(t[k], t[k - 1], w[k])
LEMMA Beginnings ==
  ASSUME NEW C, NEW n \in Nat, NEW w, \A k \in 1 .. n : w[k] \in Seq(C),
         NEW t, Concatenates(t, w, n)
  PROVE  \A k \in 0 .. n : t[k] \in Seq(C) /\ Begins(t[k], t[n])
<1> DEFINE S == {k \in Nat : k <= n => \A i \in 0 .. k : t[i] \in Seq(C) /\ Begins(t[i], t[k])}
<1>1. 0 \in S
  <2>1. t[0] \in Seq(C) /\ Begins(t[0], t[0])
    <3>1. t[0] = << >> /\ << >> \in Seq(C)
      BY DEF Concatenates
    <3> QED BY <3>1, Joined, Zenon
  <2>2. \A i \in 0 .. 0 : i = 0
    OBVIOUS
  <2> QED BY <2>1, <2>2, Zenon
<1>2. ASSUME NEW k \in Nat, k \in S PROVE k + 1 \in S
  <2> SUFFICES ASSUME k + 1 <= n, NEW i \in 0 .. k + 1
               PROVE  t[i] \in Seq(C) /\ Begins(t[i], t[k + 1])
    OBVIOUS
  <2>1. /\ k <= n /\ k + 1 \in 1 .. n /\ (k + 1) - 1 = k /\ k \in 0 .. k
        /\ i = k + 1 \/ i \in 0 .. k
    OBVIOUS
  <2>2. \A h \in 0 .. k : t[h] \in Seq(C) /\ Begins(t[h], t[k])
    BY <1>2, <2>1, Zenon
  <2>3. Joins(t[k + 1], t[k], w[k + 1]) /\ w[k + 1] \in Seq(C) /\ t[k] \in Seq(C)
    BY <2>1, <2>2, Zenon DEF Concatenates
  <2>4. t[k + 1] \in Seq(C) /\ Begins(t[k], t[k + 1]) /\ Begins(t[k + 1], t[k + 1])
    BY <2>3, Join, Zenon
  <2> QED BY <2>1, <2>2, <2>3, <2>4, BeginsBegins, Zenon
<1>3. Nat \subseteq S
  <2> HIDE DEF S
  <2> QED BY <1>1, <1>2, SetInduction
<1>4. n \in S /\ n <= n
  BY <1>3
<1> QED BY <1>4, Zenon

(* What the loop holds, and what it does with a character in each mode.    *)
State(mode, buf, out) == [mode |-> mode, buf |-> buf, out |-> out]
Twice(raw, i) == i < Len(raw) /\ raw[i + 1] = raw[i]
Semicolon == ";"
Plain(c) == c \notin {"'", ";"}
Dashes(raw, i) == raw[i] = "-" /\ Twice(raw, i)
LEMMA ScanQuote ==
  ASSUME NEW raw, NEW b, NEW o, NEW i
  PROVE  Scan(raw, State("quote", b, o), i) = State("string", Append(b, raw[i]), o)
BY Zenon DEF State, Scan, Write
LEMMA ScanString ==
  ASSUME NEW raw, NEW b, NEW o, NEW i, raw[i] # "'"
  PROVE  Scan(raw, State("string", b, o), i) = State("string", Append(b, raw[i]), o)
BY Zenon DEF State, Scan, Write
LEMMA ScanTwice ==
  ASSUME NEW raw, NEW b, NEW o, NEW i, raw[i] = "'", Twice(raw, i)
  PROVE  Scan(raw, State("string", b, o), i) = State("quote", Append(b, raw[i]), o)
BY Zenon DEF State, Scan, Write, Twice
LEMMA ScanClose ==
  ASSUME NEW raw, NEW b, NEW o, NEW i, raw[i] = "'", ~Twice(raw, i)
  PROVE  Scan(raw, State("string", b, o), i) = State("text", Append(b, raw[i]), o)
BY Zenon DEF State, Scan, Write, Twice
LEMMA ScanComment ==
  ASSUME NEW raw, NEW b, NEW o, NEW i
  PROVE  Scan(raw, State("comment", b, o), i)
           = State(IF raw[i] = "\n" THEN "text" ELSE "comment", b, o)
BY DEF State, Scan
LEMMA ScanLiteral ==
  ASSUME NEW raw, NEW b, NEW o, NEW i, raw[i] = "'"
  PROVE  Scan(raw, State("text", b, o), i) = State("string", Append(b, raw[i]), o)
BY Zenon DEF State, Scan, Write
LEMMA ScanDash ==
  ASSUME NEW raw, NEW b, NEW o, NEW i, Dashes(raw, i)
  PROVE  Scan(raw, State("text", b, o), i) = State("comment", b, o)
BY Zenon DEF State, Scan, Twice, Dashes
LEMMA ScanEnd ==
  ASSUME NEW raw, NEW b, NEW o, NEW i, raw[i] = Semicolon
  PROVE  Scan(raw, State("text", b, o), i) = State("text", << >>, AppendTo(o, b))
BY Zenon DEF State, Scan, Semicolon
LEMMA ScanPlain ==
  ASSUME NEW raw, NEW b, NEW o, NEW i, Plain(raw[i]), ~Dashes(raw, i)
  PROVE  Scan(raw, State("text", b, o), i) = State("text", Append(b, raw[i]), o)
BY Zenon DEF State, Scan, Write, Twice, Plain, Dashes

(* What the buffer holds when j characters of a lexeme are written to it.  *)
Holds(buf, b, text, j) ==
  /\ buf \in Seq(STRING) /\ Len(buf) = Len(b) + j /\ Begins(b, buf)
  /\ \A h \in 1 .. j : buf[Len(b) + h] = text[h]
LEMMA Writing ==
  ASSUME NEW b \in Seq(STRING), NEW text \in Seq(STRING), NEW buf
  PROVE  /\ Holds(b, b, text, 0)
         /\ \A j \in 0 .. Len(text) - 1 : Holds(buf, b, text, j)
              => Holds(Append(buf, text[j + 1]), b, text, j + 1)
         /\ Holds(buf, b, text, Len(text)) => buf = b \o text
<1>1. Holds(b, b, text, 0)
  BY DEF Holds, Begins
<1>2. ASSUME NEW j \in 0 .. Len(text) - 1, Holds(buf, b, text, j)
      PROVE  Holds(Append(buf, text[j + 1]), b, text, j + 1)
  <2>1. text[j + 1] \in STRING /\ Len(b) \in Nat /\ j \in Nat
    OBVIOUS
  <2>2. /\ buf \in Seq(STRING) /\ Len(buf) = Len(b) + j /\ Begins(b, buf)
        /\ \A h \in 1 .. j : buf[Len(b) + h] = text[h]
    BY <1>2, Zenon DEF Holds
  <2> DEFINE more == Append(buf, text[j + 1])
  <2>3. /\ more \in Seq(STRING) /\ Len(more) = Len(buf) + 1
        /\ \A h \in 1 .. Len(buf) : more[h] = buf[h]
        /\ more[Len(buf) + 1] = text[j + 1]
    BY <2>1, <2>2, Appended, Zenon
  <2> HIDE DEF more
  <2>4. Begins(b, more) /\ Len(more) = Len(b) + (j + 1)
    BY <2>1, <2>2, <2>3 DEF Begins
  <2>5. ASSUME NEW h \in 1 .. j + 1 PROVE more[Len(b) + h] = text[h]
    <3>1. CASE h = j + 1
      <4>1. Len(b) + h = Len(buf) + 1
        BY <2>1, <2>2, <3>1
      <4> QED BY <2>3, <3>1, <4>1, Zenon
    <3>2. CASE h # j + 1
      <4>1. h \in 1 .. j /\ Len(b) + h \in 1 .. Len(buf)
        BY <2>1, <2>2, <3>2
      <4> QED BY <2>2, <2>3, <4>1, Zenon
    <3> QED BY <3>1, <3>2
  <2>6. Holds(more, b, text, j + 1)
    BY <2>3, <2>4, <2>5, Zenon DEF Holds
  <2> QED BY <2>6 DEF more
<1>3. ASSUME Holds(buf, b, text, Len(text)) PROVE buf = b \o text
  <2>1. /\ buf \in Seq(STRING) /\ Len(buf) = Len(b) + Len(text) /\ Begins(b, buf)
        /\ \A h \in 1 .. Len(text) : buf[Len(b) + h] = text[h]
    BY <1>3, Zenon DEF Holds
  <2> DEFINE u == b \o text
  <2>2. /\ u \in Seq(STRING) /\ Len(u) = Len(b) + Len(text)
        /\ Begins(b, u) /\ \A h \in 1 .. Len(text) : u[Len(b) + h] = text[h]
    BY Joined, Zenon
  <2> HIDE DEF u
  <2>3. \A h \in 1 .. Len(buf) : buf[h] = u[h]
    <3> SUFFICES ASSUME NEW h \in 1 .. Len(buf) PROVE buf[h] = u[h]
      OBVIOUS
    <3>1. CASE h <= Len(b)
      BY <2>1, <2>2, <3>1 DEF Begins
    <3>2. CASE h > Len(b)
      <4>1. h - Len(b) \in 1 .. Len(text) /\ Len(b) + (h - Len(b)) = h
        BY <2>1, <3>2
      <4> QED BY <2>1, <2>2, <4>1, Zenon
    <3> QED BY <3>1, <3>2
  <2>4. buf = u
    BY <2>1, <2>2, <2>3
  <2> QED BY <2>4 DEF u
<1> QED BY <1>1, <1>2, <1>3, Zenon

(* Where a lexeme stands in a script.                                      *)
Stands(raw, p, text) ==
  /\ raw \in Seq(STRING) /\ text \in Seq(STRING) /\ p \in Nat
  /\ p + Len(text) <= Len(raw)
  /\ \A j \in 1 .. Len(text) : raw[p + j] = text[j]
Steps(raw, p, text) ==
  \A j \in 0 .. Len(text) - 1 :
    /\ raw[p + (j + 1)] = text[j + 1]
    /\ Scanned(raw)[p + (j + 1)] = Scan(raw, Scanned(raw)[p + j], p + (j + 1))
LEMMA StandsAt ==
  ASSUME NEW raw, NEW p, NEW text, Stands(raw, p, text)
  PROVE  Steps(raw, p, text)
<1> SUFFICES ASSUME NEW j \in 0 .. Len(text) - 1
             PROVE  /\ raw[p + (j + 1)] = text[j + 1]
                    /\ Scanned(raw)[p + (j + 1)] = Scan(raw, Scanned(raw)[p + j], p + (j + 1))
  BY Zenon DEF Steps
<1>1. Len(raw) \in Nat /\ Len(text) \in Nat /\ p \in Nat /\ p + Len(text) <= Len(raw)
  BY DEF Stands
<1>2. /\ j \in Nat /\ p + j \in Nat /\ p + (j + 1) \in 1 .. Len(raw)
      /\ (p + (j + 1)) - 1 = p + j /\ j + 1 \in 1 .. Len(text)
  BY <1>1
<1>3. raw[p + (j + 1)] = text[j + 1]
  BY <1>2, Zenon DEF Stands
<1>4. \A i \in 1 .. Len(raw) : Scanned(raw)[i] = Scan(raw, Scanned(raw)[i - 1], i)
  BY <1>1, ScanRuns, Zenon
<1>5. Scanned(raw)[p + (j + 1)] = Scan(raw, Scanned(raw)[(p + (j + 1)) - 1], p + (j + 1))
  BY <1>2, <1>4, Zenon
<1> QED BY <1>2, <1>3, <1>5, Zenon

(* What the loop holds between two lexemes: it is in plain text, or at the *)
(* second of two quotes, that end one literal and begin the next.          *)
Between(raw, p, b, o) ==
  \/ Scanned(raw)[p] = State("text", b, o)
  \/ Scanned(raw)[p] = State("quote", b, o) /\ p < Len(raw) /\ raw[p + 1] = "'"

(* A comment leaves nothing.                                               *)
LEMMA CommentScanned ==
  ASSUME NEW raw, NEW p, NEW text, Stands(raw, p, text), IsComment(text), NEW b, NEW o,
         Scanned(raw)[p] = State("text", b, o)
  PROVE  Between(raw, p + Len(text), b, o)
<1>1. /\ Len(raw) \in Nat /\ Len(text) \in Nat /\ p \in Nat /\ Len(text) >= 3
      /\ p + Len(text) <= Len(raw) /\ p + 0 = p
  BY DEF Stands, IsComment
<1>2. /\ text[1] = "-" /\ text[2] = "-" /\ text[Len(text)] = "\n"
      /\ \A i \in 1 .. Len(text) - 1 : text[i] # "\n"
  BY Zenon DEF IsComment
<1>0. \A j \in 0 .. Len(text) - 1 :
        /\ raw[p + (j + 1)] = text[j + 1]
        /\ Scanned(raw)[p + (j + 1)] = Scan(raw, Scanned(raw)[p + j], p + (j + 1))
  <2>1. Steps(raw, p, text)
    BY StandsAt, Zenon
  <2> QED BY <2>1, Zenon DEF Steps
<1> DEFINE S == {j \in Nat : j + 1 < Len(text) => Scanned(raw)[p + (j + 1)] = State("comment", b, o)}
<1>3. 0 \in S
  <2>1. 0 \in 0 .. Len(text) - 1 /\ 1 \in 0 .. Len(text) - 1
    BY <1>1
  <2>2. /\ raw[p + (0 + 1)] = text[0 + 1]
        /\ Scanned(raw)[p + (0 + 1)] = Scan(raw, Scanned(raw)[p + 0], p + (0 + 1))
    BY <2>1, <1>0, Zenon
  <2>3. raw[p + (1 + 1)] = text[1 + 1]
    BY <2>1, <1>0, Zenon
  <2>4. p + (0 + 1) < Len(raw) /\ (p + (0 + 1)) + 1 = p + (1 + 1) /\ 0 + 1 = 1 /\ 1 + 1 = 2
    BY <1>1
  <2>5. raw[p + (0 + 1)] = "-" /\ raw[(p + (0 + 1)) + 1] = "-"
    BY <1>2, <2>2, <2>3, <2>4
  <2>6. Dashes(raw, p + (0 + 1))
    BY <2>4, <2>5, Zenon DEF Twice, Dashes
  <2>7. Scan(raw, State("text", b, o), p + (0 + 1)) = State("comment", b, o)
    BY <2>6, ScanDash, Zenon
  <2>8. Scanned(raw)[p + 0] = State("text", b, o)
    BY <1>1, Zenon
  <2> QED BY <2>2, <2>7, <2>8, Zenon
<1>4. ASSUME NEW j \in Nat, j \in S PROVE j + 1 \in S
  <2> SUFFICES ASSUME (j + 1) + 1 < Len(text)
               PROVE  Scanned(raw)[p + ((j + 1) + 1)] = State("comment", b, o)
    OBVIOUS
  <2>1. j + 1 < Len(text) /\ j + 1 \in 0 .. Len(text) - 1 /\ (j + 1) + 1 \in 1 .. Len(text) - 1
    BY <1>1
  <2>2. Scanned(raw)[p + (j + 1)] = State("comment", b, o)
    BY <1>4, <2>1, Zenon
  <2>3. /\ raw[p + ((j + 1) + 1)] = text[(j + 1) + 1]
        /\ Scanned(raw)[p + ((j + 1) + 1)] = Scan(raw, Scanned(raw)[p + (j + 1)], p + ((j + 1) + 1))
    BY <2>1, <1>0, Zenon
  <2>4. raw[p + ((j + 1) + 1)] # "\n"
    BY <1>2, <2>1, <2>3, Zenon
  <2>5. Scan(raw, State("comment", b, o), p + ((j + 1) + 1)) = State("comment", b, o)
    BY <2>4, ScanComment, Zenon
  <2> QED BY <2>2, <2>3, <2>5, Zenon
<1>5. Nat \subseteq S
  <2> HIDE DEF S
  <2> QED BY <1>3, <1>4, SetInduction
<1>6. /\ Len(text) - 2 \in Nat /\ (Len(text) - 2) + 1 = Len(text) - 1 /\ Len(text) - 1 < Len(text)
      /\ Len(text) - 1 \in 0 .. Len(text) - 1 /\ (Len(text) - 1) + 1 = Len(text)
  BY <1>1
<1>7. Scanned(raw)[p + (Len(text) - 1)] = State("comment", b, o)
  <2>1. Len(text) - 2 \in S
    BY <1>5, <1>6, Zenon
  <2> QED BY <1>6, <2>1, Zenon
<1>8. /\ raw[p + ((Len(text) - 1) + 1)] = text[(Len(text) - 1) + 1]
      /\ Scanned(raw)[p + ((Len(text) - 1) + 1)]
           = Scan(raw, Scanned(raw)[p + (Len(text) - 1)], p + ((Len(text) - 1) + 1))
  BY <1>6, <1>0, Zenon
<1>9. /\ raw[p + Len(text)] = "\n"
      /\ Scanned(raw)[p + Len(text)] = Scan(raw, State("comment", b, o), p + Len(text))
  BY <1>2, <1>6, <1>7, <1>8, Zenon
<1>10. Scan(raw, State("comment", b, o), p + Len(text)) = State("text", b, o)
  BY <1>9, ScanComment, Zenon
<1> QED BY <1>9, <1>10, Zenon DEF Between

(* A literal is written as it stands.                                      *)
LEMMA LiteralScanned ==
  ASSUME NEW raw, NEW p, NEW text, Stands(raw, p, text), IsLiteral(text),
         NEW b \in Seq(STRING), NEW o,
         Between(raw, p, b, o)
  PROVE  Between(raw, p + Len(text), b \o text, o)
<1>1. /\ raw \in Seq(STRING) /\ text \in Seq(STRING)
      /\ Len(raw) \in Nat /\ Len(text) \in Nat /\ p \in Nat /\ Len(text) >= 2
      /\ p + Len(text) <= Len(raw) /\ p + 0 = p
  BY DEF Stands, IsLiteral
<1>2. text[1] = "'" /\ text[Len(text)] = "'"
  BY Zenon DEF IsLiteral
<1>3. PICK firsts \in SUBSET (2 .. Len(text) - 2) :
        /\ \A i \in firsts : i - 1 \notin firsts
        /\ \A i \in 2 .. Len(text) - 1 : text[i] = "'" <=> i \in firsts \/ i - 1 \in firsts
  BY Zenon DEF IsLiteral
<1>4. \A j \in 0 .. Len(text) - 1 :
        /\ raw[p + (j + 1)] = text[j + 1]
        /\ Scanned(raw)[p + (j + 1)] = Scan(raw, Scanned(raw)[p + j], p + (j + 1))
  <2>1. Steps(raw, p, text)
    BY StandsAt, Zenon
  <2> QED BY <2>1, Zenon DEF Steps
<1> DEFINE mode(j) == IF j \in firsts THEN "quote" ELSE "string"
           Inside(j) == \E buf : Holds(buf, b, text, j) /\ Scanned(raw)[p + j] = State(mode(j), buf, o)
           S == {j \in Nat : j + 1 < Len(text) => Inside(j + 1)}
<1>5. \A buf : \A j \in 0 .. Len(text) - 1 :
         Holds(buf, b, text, j) => Holds(Append(buf, raw[p + (j + 1)]), b, text, j + 1)
  BY <1>1, <1>4, Writing, Zenon
<1>6. 0 \in S
  <2>1. 0 \in 0 .. Len(text) - 1 /\ 0 + 1 = 1 /\ 1 \notin firsts
    BY <1>1, <1>3
  <2>2. Holds(Append(b, raw[p + (0 + 1)]), b, text, 0 + 1)
    <3>1. Holds(b, b, text, 0)
      BY <1>1, Writing, Zenon
    <3> QED BY <1>5, <2>1, <3>1, Zenon
  <2>3. raw[p + (0 + 1)] = "'"
    BY <1>2, <1>4, <2>1, Zenon
  <2>4. Scanned(raw)[p + (0 + 1)] = Scan(raw, Scanned(raw)[p], p + (0 + 1))
    BY <1>1, <1>4, <2>1, Zenon
  <2>5. Scan(raw, Scanned(raw)[p], p + (0 + 1)) = State("string", Append(b, raw[p + (0 + 1)]), o)
    <3>1. CASE Scanned(raw)[p] = State("text", b, o)
      BY <2>3, <3>1, ScanLiteral, Zenon
    <3>2. CASE Scanned(raw)[p] = State("quote", b, o)
      BY <3>2, ScanQuote, ZenonT(30)
    <3> QED BY <3>1, <3>2, Zenon DEF Between
  <2>6. mode(0 + 1) = "string"
    BY <2>1
  <2>7. Inside(0 + 1)
    BY <2>2, <2>4, <2>5, <2>6, Zenon
  <2> QED BY <2>7, Zenon
<1>7. ASSUME NEW j \in Nat, j \in S PROVE j + 1 \in S
  <2> SUFFICES ASSUME (j + 1) + 1 < Len(text) PROVE Inside((j + 1) + 1)
    OBVIOUS
  <2>1. /\ j + 1 < Len(text) /\ j + 1 \in 0 .. Len(text) - 1 /\ (j + 1) + 1 \in 2 .. Len(text) - 1
        /\ ((j + 1) + 1) - 1 = j + 1
    BY <1>1
  <2>2. PICK buf : Holds(buf, b, text, j + 1) /\ Scanned(raw)[p + (j + 1)] = State(mode(j + 1), buf, o)
    BY <1>7, <2>1, Zenon
  <2> DEFINE i == (j + 1) + 1
             c == raw[p + i]
  <2>3. Holds(Append(buf, c), b, text, i) /\ c = text[i]
    BY <1>4, <1>5, <2>1, <2>2, Zenon
  <2>4. Scanned(raw)[p + i] = Scan(raw, State(mode(j + 1), buf, o), p + i)
    BY <1>4, <2>1, <2>2, Zenon
  <2>5. /\ text[i] = "'" <=> i \in firsts \/ j + 1 \in firsts
        /\ i \in firsts => j + 1 \notin firsts
    BY <1>3, <2>1, Zenon
  <2>6. Scan(raw, State(mode(j + 1), buf, o), p + i) = State(mode(i), Append(buf, c), o)
    <3>1. CASE j + 1 \in firsts
      <4>1. mode(j + 1) = "quote" /\ mode(i) = "string"
        BY <2>5, <3>1, Zenon
      <4> QED BY <4>1, ScanQuote, Zenon
    <3>2. CASE j + 1 \notin firsts /\ i \notin firsts
      <4>1. mode(j + 1) = "string" /\ mode(i) = "string" /\ c # "'"
        BY <2>3, <2>5, <3>2, Zenon
      <4> QED BY <4>1, ScanString, Zenon
    <3>3. CASE j + 1 \notin firsts /\ i \in firsts
      <4>1. mode(j + 1) = "string" /\ mode(i) = "quote" /\ c = "'"
        BY <2>3, <2>5, <3>3, Zenon
      <4>2. /\ i + 1 \in 2 .. Len(text) - 1 /\ i \in 0 .. Len(text) - 1 /\ (i + 1) - 1 = i
            /\ p + i < Len(raw) /\ (p + i) + 1 = p + (i + 1)
        BY <1>1, <1>3, <3>3
      <4>3. text[i + 1] = "'"
        BY <1>3, <3>3, <4>2, Zenon
      <4>4. raw[(p + i) + 1] = "'"
        BY <1>4, <4>2, <4>3, Zenon
      <4>5. Twice(raw, p + i)
        BY <4>1, <4>2, <4>4, Zenon DEF Twice
      <4> QED BY <4>1, <4>5, ScanTwice, Zenon
    <3> QED BY <3>1, <3>2, <3>3, Zenon
  <2> QED BY <2>3, <2>4, <2>6, Zenon
<1>8. Nat \subseteq S
  <2> HIDE DEF S
  <2> QED BY <1>6, <1>7, SetInduction, ZenonT(30)
<1>9. /\ Len(text) - 2 \in Nat /\ (Len(text) - 2) + 1 = Len(text) - 1 /\ Len(text) - 1 < Len(text)
      /\ Len(text) - 1 \in 0 .. Len(text) - 1 /\ (Len(text) - 1) + 1 = Len(text)
      /\ Len(text) - 1 \notin firsts
  BY <1>1, <1>3
<1>10. PICK buf : /\ Holds(buf, b, text, Len(text) - 1)
                  /\ Scanned(raw)[p + (Len(text) - 1)] = State("string", buf, o)
  <2>1. Len(text) - 2 \in S
    BY <1>8, <1>9, Zenon
  <2>2. Inside(Len(text) - 1)
    BY <1>9, <2>1, Zenon
  <2>3. mode(Len(text) - 1) = "string"
    BY <1>9
  <2> QED BY <2>2, <2>3, Zenon
<1>11. /\ raw[p + ((Len(text) - 1) + 1)] = text[(Len(text) - 1) + 1]
       /\ Scanned(raw)[p + ((Len(text) - 1) + 1)]
            = Scan(raw, Scanned(raw)[p + (Len(text) - 1)], p + ((Len(text) - 1) + 1))
       /\ Holds(Append(buf, raw[p + ((Len(text) - 1) + 1)]), b, text, (Len(text) - 1) + 1)
  BY <1>4, <1>5, <1>9, <1>10, Zenon
<1> DEFINE e == p + Len(text)
<1>12. /\ raw[e] = "'" /\ Scanned(raw)[e] = Scan(raw, State("string", buf, o), e)
       /\ Holds(Append(buf, raw[e]), b, text, Len(text))
  BY <1>2, <1>9, <1>10, <1>11, Zenon
<1>13. Append(buf, raw[e]) = b \o text
  BY <1>1, <1>12, Writing, Zenon
<1>14. CASE Twice(raw, e)
  <2>1. Scan(raw, State("string", buf, o), e) = State("quote", Append(buf, raw[e]), o)
    BY <1>12, <1>14, ScanTwice, Zenon
  <2> QED BY <1>12, <1>13, <1>14, <2>1, Zenon DEF Between, Twice
<1>15. CASE ~Twice(raw, e)
  <2>1. Scan(raw, State("string", buf, o), e) = State("text", Append(buf, raw[e]), o)
    BY <1>12, <1>15, ScanClose, Zenon
  <2> QED BY <1>12, <1>13, <2>1, Zenon DEF Between
<1> QED BY <1>14, <1>15

(* A semicolon ends a statement, and any other character is written.       *)
LEMMA EndScanned ==
  ASSUME NEW raw, NEW p, NEW text, Stands(raw, p, text), Len(text) = 1, text[1] = Semicolon,
         NEW b, NEW o, Scanned(raw)[p] = State("text", b, o)
  PROVE  Between(raw, p + Len(text), << >>, AppendTo(o, b))
<1>1. Steps(raw, p, text)
  BY StandsAt, Zenon
<1>2. 0 \in 0 .. Len(text) - 1 /\ 0 + 1 = 1 /\ p + 0 = p
  BY DEF Stands
<1>3. /\ raw[p + 1] = text[1]
      /\ Scanned(raw)[p + 1] = Scan(raw, Scanned(raw)[p], p + 1)
  <2>1. /\ raw[p + (0 + 1)] = text[0 + 1]
        /\ Scanned(raw)[p + (0 + 1)] = Scan(raw, Scanned(raw)[p + 0], p + (0 + 1))
    BY <1>1, <1>2, Zenon DEF Steps
  <2> QED BY <1>2, <2>1, Zenon
<1>4. Scan(raw, State("text", b, o), p + 1) = State("text", << >>, AppendTo(o, b))
  BY <1>3, ScanEnd, Zenon
<1> QED BY <1>3, <1>4, Zenon DEF Between
LEMMA PlainScanned ==
  ASSUME NEW raw, NEW p, NEW text, Stands(raw, p, text), Len(text) = 1,
         Plain(text[1]), ~Dashes(raw, p + 1),
         NEW b \in Seq(STRING), NEW o, Scanned(raw)[p] = State("text", b, o)
  PROVE  Between(raw, p + Len(text), b \o text, o)
<1>1. Steps(raw, p, text)
  BY StandsAt, Zenon
<1>2. 0 \in 0 .. Len(text) - 1 /\ 0 + 1 = 1 /\ p + 0 = p /\ text \in Seq(STRING)
  BY DEF Stands
<1>3. /\ raw[p + 1] = text[1]
      /\ Scanned(raw)[p + 1] = Scan(raw, Scanned(raw)[p], p + 1)
  <2>1. /\ raw[p + (0 + 1)] = text[0 + 1]
        /\ Scanned(raw)[p + (0 + 1)] = Scan(raw, Scanned(raw)[p + 0], p + (0 + 1))
    BY <1>1, <1>2, Zenon DEF Steps
  <2> QED BY <1>2, <2>1, Zenon
<1>4. Scan(raw, State("text", b, o), p + 1) = State("text", Append(b, raw[p + 1]), o)
  <2>1. Plain(raw[p + 1])
    BY <1>3, Zenon
  <2> QED BY <2>1, ScanPlain, SMT
<1>5. Append(b, text[1]) = b \o text
  <2>1. Holds(b, b, text, 0)
    BY <1>2, Writing, Zenon
  <2>2. Holds(Append(b, text[0 + 1]), b, text, 0 + 1)
    BY <1>2, <2>1, Writing, Zenon
  <2>3. Holds(Append(b, text[1]), b, text, Len(text))
    BY <1>2, <2>2, Zenon
  <2> QED BY <1>2, <2>3, Writing, Zenon
<1> QED BY <1>3, <1>4, <1>5, Zenon DEF Between

(* The statements as they are meant, lexeme by lexeme.                     *)
Meaning(out, buf) == [out |-> out, buf |-> buf]
LEMMA AddComment ==
  ASSUME NEW x, NEW o, NEW b, x.kind = "comment"
  PROVE  Add(Meaning(o, b), x) = Meaning(o, b)
BY Zenon DEF Add, Meaning
LEMMA AddEnd ==
  ASSUME NEW x, NEW o, NEW b, x.kind = "end"
  PROVE  Add(Meaning(o, b), x) = Meaning(AppendTo(o, b), << >>)
BY Zenon DEF Add, Meaning
LEMMA AddOther ==
  ASSUME NEW x, NEW o, NEW b, x.kind \notin {"comment", "end"}
  PROVE  Add(Meaning(o, b), x) = Meaning(o, b \o x.text)
BY Zenon DEF Add, Meaning

(* The kinds of lexeme.                                                    *)
LEMMA Lexemes ==
  ASSUME NEW x, x.text \in Seq(STRING), IsLexeme(x)
  PROVE  /\ Len(x.text) \in Nat /\ Len(x.text) >= 1
         /\ \/ x.kind = "literal" /\ IsLiteral(x.text)
            \/ x.kind = "comment" /\ IsComment(x.text) /\ x.text[1] # "'"
            \/ x.kind = "end" /\ Len(x.text) = 1 /\ x.text[1] = Semicolon
            \/ x.kind \notin {"comment", "end"} /\ Len(x.text) = 1 /\ Plain(x.text[1])
<1>1. CASE x.kind = "literal"
  <2>1. IsLiteral(x.text)
    BY <1>1, Zenon DEF IsLexeme
  <2>2. Len(x.text) \in Nat /\ Len(x.text) >= 1
    BY <2>1 DEF IsLiteral
  <2> QED BY <1>1, <2>1, <2>2, Zenon
<1>2. CASE x.kind = "comment"
  <2>1. IsComment(x.text)
    BY <1>2, Zenon DEF IsLexeme
  <2>2. Len(x.text) \in Nat /\ Len(x.text) >= 1 /\ x.text[1] # "'"
    BY <2>1 DEF IsComment
  <2> QED BY <1>2, <2>1, <2>2, Zenon
<1>3. CASE x.kind = "end"
  <2>1. x.text = <<Semicolon>>
    BY <1>3, Zenon DEF IsLexeme, Semicolon
  <2>2. Len(x.text) = 1 /\ x.text[1] = Semicolon
    BY <2>1
  <2>3. Len(x.text) \in Nat /\ Len(x.text) >= 1
    BY <2>2
  <2> QED BY <1>3, <2>2, <2>3, Zenon
<1>4. CASE x.kind \notin {"literal", "comment", "end"}
  <2>1. Len(x.text) = 1 /\ Plain(x.text[1])
    BY <1>4, Zenon DEF IsLexeme, Plain
  <2>2. Len(x.text) \in Nat /\ Len(x.text) >= 1
    BY <2>1
  <2> QED BY <1>4, <2>1, <2>2, Zenon
<1> QED BY <1>1, <1>2, <1>3, <1>4, Zenon

(* Where the lexemes of a script stand in its text.                        *)
LEMMA LexemesStand ==
  ASSUME NEW script, IsScript(script)
  PROVE  /\ Text(script) \in Seq(STRING)
         /\ \A k \in 1 .. Len(script) :
              /\ script[k].text \in Seq(STRING) /\ IsLexeme(script[k])
              /\ Stands(Text(script), Len(Texts(script)[k - 1]), script[k].text)
              /\ Len(Texts(script)[k]) = Len(Texts(script)[k - 1]) + Len(script[k].text)
<1> DEFINE n == Len(script)
           t == Texts(script)
           raw == Text(script)
<1>1. /\ n \in Nat
      /\ \A k \in 1 .. n : script[k].text \in Seq(STRING) /\ IsLexeme(script[k])
  <2>1. /\ script \in Seq([kind : STRING, text : Seq(STRING)])
        /\ \A k \in 1 .. n : IsLexeme(script[k])
    BY Zenon DEF IsScript
  <2>2. n \in Nat /\ \A k \in 1 .. n : script[k] \in [kind : STRING, text : Seq(STRING)]
    BY <2>1, Elements, Zenon
  <2>3. \A x \in [kind : STRING, text : Seq(STRING)] : x.text \in Seq(STRING)
    OBVIOUS
  <2> QED BY <2>1, <2>2, <2>3, Zenon
<1>2. raw = t[n]
  BY Zenon DEF Text
<1>3. t[0] = << >> /\ \A k \in 1 .. n : Joins(t[k], t[k - 1], script[k].text)
  BY <1>1, TextRuns, Zenon DEF Joins
<1> DEFINE w == [k \in 1 .. n |-> script[k].text]
<1>4. \A k \in 1 .. n : w[k] = script[k].text
  BY Zenon
<1> HIDE DEF w, t, n, raw
<1>5. (\A k \in 1 .. n : w[k] \in Seq(STRING)) /\ Concatenates(t, w, n)
  BY <1>1, <1>3, <1>4, Zenon DEF Concatenates
<1>6. \A k \in 0 .. n : t[k] \in Seq(STRING) /\ Begins(t[k], t[n])
  BY <1>1, <1>5, Beginnings, Zenon
<1>7. ASSUME NEW k \in 1 .. n
      PROVE  Stands(raw, Len(t[k - 1]), script[k].text) /\ Len(t[k]) = Len(t[k - 1]) + Len(script[k].text)
  <2> DEFINE s == t[k - 1]
             text == script[k].text
             u == t[k]
  <2>1. k \in 0 .. n /\ k - 1 \in 0 .. n /\ n \in 0 .. n
    BY <1>1
  <2>2. /\ s \in Seq(STRING) /\ text \in Seq(STRING) /\ u \in Seq(STRING) /\ raw \in Seq(STRING)
        /\ Joins(u, s, text) /\ Begins(u, raw)
    BY <1>1, <1>2, <1>3, <1>6, <2>1, Zenon
  <2> HIDE DEF s, text, u
  <2>3. Len(u) = Len(s) + Len(text) /\ \A j \in 1 .. Len(text) : u[Len(s) + j] = text[j]
    <3>1. Follows(u, s, text)
      BY <2>2, Join, Zenon
    <3> QED BY <3>1, Zenon DEF Follows
  <2>4. Len(s) \in Nat /\ Len(text) \in Nat /\ Len(u) \in Nat /\ Len(raw) \in Nat
    BY <2>2
  <2>5. Len(u) <= Len(raw) /\ \A j \in 1 .. Len(u) : raw[j] = u[j]
    BY <2>2, Zenon DEF Begins
  <2>6. ASSUME NEW j \in 1 .. Len(text) PROVE raw[Len(s) + j] = text[j]
    <3>1. Len(s) + j \in 1 .. Len(u)
      BY <2>3, <2>4
    <3> QED BY <2>3, <2>5, <3>1, Zenon
  <2>7. Len(s) + Len(text) <= Len(raw)
    BY <2>3, <2>5
  <2>8. Stands(raw, Len(s), text)
    BY <2>2, <2>4, <2>6, <2>7, Zenon DEF Stands
  <2> QED BY <2>3, <2>8, Zenon DEF s, text, u
<1>8. raw \in Seq(STRING)
  <2>1. n \in 0 .. n
    BY <1>1
  <2> QED BY <1>2, <1>6, <2>1, Zenon
<1> QED BY <1>1, <1>7, <1>8, Zenon DEF t, n, raw

(* The splitter cuts a script where its author means it to.  Between two   *)
(* lexemes the loop is in plain text, or at the second of two quotes that  *)
(* end one literal and begin the next.                                     *)
AtBoundary(script, k) ==
  \E b \in Seq(STRING) : \E o :
    Added(script)[k] = Meaning(o, b) /\ Between(Text(script), Len(Texts(script)[k]), b, o)

(* One lexeme further.                                                     *)
LEMMA LexemeScanned ==
  ASSUME NEW raw, NEW p, NEW x, x.text \in Seq(STRING), IsLexeme(x), Stands(raw, p, x.text),
         x.text = <<"-">> => ~Dashes(raw, p + 1),
         NEW b \in Seq(STRING), NEW o, Between(raw, p, b, o)
  PROVE  \E c \in Seq(STRING) : \E q :
           Add(Meaning(o, b), x) = Meaning(q, c) /\ Between(raw, p + Len(x.text), c, q)
<1> DEFINE text == x.text
           Done(c, q) == Add(Meaning(o, b), x) = Meaning(q, c) /\ Between(raw, p + Len(text), c, q)
<1>1. /\ Len(text) \in Nat /\ Len(text) >= 1
      /\ \/ x.kind = "literal" /\ IsLiteral(text)
         \/ x.kind = "comment" /\ IsComment(text) /\ text[1] # "'"
         \/ x.kind = "end" /\ Len(text) = 1 /\ text[1] = Semicolon
         \/ x.kind \notin {"comment", "end"} /\ Len(text) = 1 /\ Plain(text[1])
  BY Lexemes, Zenon
<1>2. raw[p + 1] = text[1]
  <2>1. 1 \in 1 .. Len(text)
    BY <1>1
  <2> QED BY <2>1, Zenon DEF Stands
<1>3. text[1] # "'" => Scanned(raw)[p] = State("text", b, o)
  BY <1>2, Zenon DEF Between
<1>4. CASE x.kind = "literal" /\ IsLiteral(text)
  <2>1. x.kind \notin {"comment", "end"} /\ b \o text \in Seq(STRING)
    <3>1. b \o text \in Seq(STRING)
      BY Joined, Zenon
    <3> QED BY <1>4, <3>1, Zenon
  <2>2. Add(Meaning(o, b), x) = Meaning(o, b \o text)
    BY <2>1, AddOther, Zenon
  <2>3. Between(raw, p + Len(text), b \o text, o)
    BY <1>4, LiteralScanned, Zenon
  <2>4. Done(b \o text, o)
    BY <2>2, <2>3, Zenon
  <2> QED BY <2>1, <2>4, Zenon
<1>5. CASE x.kind = "comment" /\ IsComment(text) /\ text[1] # "'"
  <2>1. Add(Meaning(o, b), x) = Meaning(o, b)
    BY <1>5, AddComment, Zenon
  <2>2. Between(raw, p + Len(text), b, o)
    BY <1>3, <1>5, CommentScanned, Zenon
  <2>3. Done(b, o)
    BY <2>1, <2>2, Zenon
  <2> QED BY <2>3, Zenon
<1>6. CASE x.kind = "end" /\ Len(text) = 1 /\ text[1] = Semicolon
  <2>1. Add(Meaning(o, b), x) = Meaning(AppendTo(o, b), << >>)
    BY <1>6, AddEnd, Zenon
  <2>2. Semicolon # "'"
    BY Zenon DEF Semicolon
  <2>3. Scanned(raw)[p] = State("text", b, o)
    BY <1>3, <1>6, <2>2, Zenon
  <2>4. Between(raw, p + Len(text), << >>, AppendTo(o, b))
    BY <1>6, <2>3, EndScanned, Zenon
  <2>5. << >> \in Seq(STRING)
    OBVIOUS
  <2>6. Done(<< >>, AppendTo(o, b))
    BY <2>1, <2>4, Zenon
  <2> QED BY <2>5, <2>6, Zenon
<1>7. CASE x.kind \notin {"comment", "end"} /\ Len(text) = 1 /\ Plain(text[1])
  <2>1. Add(Meaning(o, b), x) = Meaning(o, b \o text) /\ b \o text \in Seq(STRING)
    <3>1. b \o text \in Seq(STRING)
      BY Joined, Zenon
    <3>2. Add(Meaning(o, b), x) = Meaning(o, b \o text)
      BY <1>7, AddOther, Zenon
    <3> QED BY <3>1, <3>2, Zenon
  <2>2. Scanned(raw)[p] = State("text", b, o)
    BY <1>3, <1>7, Zenon DEF Plain
  <2>3. ~Dashes(raw, p + 1)
    <3>1. CASE text[1] = "-"
      <4>1. text = <<"-">>
        <5>1. text \in Seq(STRING) /\ Len(text) = 1 /\ text[1] = "-"
          BY <1>7, <3>1, Zenon
        <5> HIDE DEF text
        <5> QED BY <5>1
      <4> QED BY <4>1, Zenon
    <3>2. CASE text[1] # "-"
      BY <1>2, <3>2, Zenon DEF Dashes
    <3> QED BY <3>1, <3>2, Zenon
  <2>4. Between(raw, p + Len(text), b \o text, o)
    BY <1>7, <2>2, <2>3, PlainScanned, Zenon
  <2>5. Done(b \o text, o)
    BY <2>1, <2>4, Zenon
  <2> QED BY <2>1, <2>5, Zenon
<1> QED BY <1>1, <1>4, <1>5, <1>6, <1>7, Zenon

(* The loop over the lexemes.                                              *)
LEMMA CutAsMeant ==
  ASSUME NEW script, IsScript(script)
  PROVE  statements(Text(script)) = Intended(script)
<1> DEFINE n == Len(script)
           raw == Text(script)
           at(k) == Len(Texts(script)[k])
<1>1. /\ n \in Nat
      /\ \A k \in 1 .. n :
           /\ script[k].text \in Seq(STRING) /\ IsLexeme(script[k])
           /\ Stands(raw, at(k - 1), script[k].text)
           /\ at(k) = at(k - 1) + Len(script[k].text)
  <2>1. n \in Nat
    <3>1. script \in Seq([kind : STRING, text : Seq(STRING)])
      BY Zenon DEF IsScript
    <3> QED BY <3>1, Elements, Zenon
  <2> QED BY <2>1, LexemesStand, Zenon
<1>2. at(0) = 0 /\ at(n) = Len(raw)
  <2>1. Texts(script)[0] = << >> /\ Len(<< >>) = 0
    <3>1. Len(<< >>) = 0
      OBVIOUS
    <3> QED BY <1>1, <3>1, TextRuns, ZenonT(30)
  <2> QED BY <2>1, Zenon DEF Text
<1>3. /\ Added(script)[0] = Neither
      /\ \A k \in 1 .. n : Added(script)[k] = Add(Added(script)[k - 1], script[k])
  BY <1>1, AddRuns, Zenon
<1> DEFINE S == {k \in Nat : k <= n => AtBoundary(script, k)}
<1>4. 0 \in S
  <2>1. Added(script)[0] = Meaning(<< >>, << >>)
    BY <1>3, Zenon DEF Neither, Meaning
  <2>2. Scanned(raw)[at(0)] = State("text", << >>, << >>)
    <3>1. Len(raw) \in Nat
      BY LexemesStand, Elements, Zenon
    <3>2. Scanned(raw)[0] = Start
      BY <3>1, ScanRuns, Zenon
    <3> QED BY <1>2, <3>2, Zenon DEF Start, State
  <2>3. Between(raw, at(0), << >>, << >>)
    BY <2>2, Zenon DEF Between
  <2>4. << >> \in Seq(STRING)
    OBVIOUS
  <2>5. AtBoundary(script, 0)
    BY <2>1, <2>3, <2>4, Zenon DEF AtBoundary
  <2> QED BY <2>5, Zenon
<1>5. ASSUME NEW k \in Nat, k \in S PROVE k + 1 \in S
  <2> SUFFICES ASSUME k + 1 <= n PROVE AtBoundary(script, k + 1)
    OBVIOUS
  <2> DEFINE x == script[k + 1]
  <2>1. k <= n /\ k + 1 \in 1 .. n /\ (k + 1) - 1 = k
    BY <1>1
  <2>2. PICK b \in Seq(STRING) : \E o : Added(script)[k] = Meaning(o, b) /\ Between(raw, at(k), b, o)
    BY <1>5, <2>1, Zenon DEF AtBoundary
  <2>3. PICK o : Added(script)[k] = Meaning(o, b) /\ Between(raw, at(k), b, o)
    BY <2>2, Zenon
  <2>4. /\ x.text \in Seq(STRING) /\ IsLexeme(x) /\ Stands(raw, at(k), x.text)
        /\ at(k + 1) = at(k) + Len(x.text)
    BY <1>1, <2>1, Zenon
  <2>5. x.text = <<"-">> => ~Dashes(raw, at(k) + 1)
    <3> SUFFICES ASSUME x.text = <<"-">>, Dashes(raw, at(k) + 1) PROVE FALSE
      BY Zenon
    <3>1. raw[at(k) + 1] = "-" /\ at(k) + 1 < Len(raw) /\ raw[(at(k) + 1) + 1] = raw[at(k) + 1]
      BY Zenon DEF Dashes, Twice
    <3>2. at(k + 1) = at(k) + 1
      <4>1. Len(x.text) = 1
        <5> HIDE DEF x
        <5> QED OBVIOUS
      <4> QED BY <2>4, <4>1, Zenon
    <3>3. k + 1 # n
      <4>1. at(k) \in Nat
        BY <2>4, Zenon DEF Stands
      <4>2. at(k) + 1 # Len(raw)
        BY <3>1, <4>1
      <4> QED BY <1>2, <3>2, <4>2, Zenon
    <3>4. (k + 1) + 1 \in 1 .. n /\ k + 1 \in 1 .. n - 1 /\ ((k + 1) + 1) - 1 = k + 1
      BY <1>1, <3>3
    <3> DEFINE y == script[(k + 1) + 1]
    <3>5. y.text \in Seq(STRING) /\ IsLexeme(y) /\ Stands(raw, at(k + 1), y.text)
      BY <1>1, <3>4, Zenon
    <3>6. y.text[1] # "-"
      BY <3>4, Zenon DEF IsScript
    <3>7. 1 \in 1 .. Len(y.text)
      <4>1. Len(y.text) \in Nat /\ Len(y.text) >= 1
        BY <3>5, Lexemes, Zenon
      <4> QED BY <4>1
    <3>8. raw[at(k + 1) + 1] = y.text[1]
      BY <3>5, <3>7, Zenon DEF Stands
    <3> QED BY <3>1, <3>2, <3>6, <3>8, Zenon
  <2>6. PICK c \in Seq(STRING) : \E q :
          Add(Meaning(o, b), x) = Meaning(q, c) /\ Between(raw, at(k) + Len(x.text), c, q)
    BY <2>3, <2>4, <2>5, LexemeScanned, Zenon
  <2>7. Added(script)[k + 1] = Add(Meaning(o, b), x)
    BY <1>3, <2>1, <2>3, Zenon
  <2> QED BY <2>4, <2>6, <2>7, Zenon DEF AtBoundary
<1>6. Nat \subseteq S
  <2> HIDE DEF S
  <2> QED BY <1>4, <1>5, SetInduction, ZenonT(30)
<1>7. PICK b \in Seq(STRING) : \E o : Added(script)[n] = Meaning(o, b) /\ Between(raw, at(n), b, o)
  <2>1. n \in S /\ n <= n
    <3>1. n <= n
      BY <1>1
    <3> QED BY <1>1, <1>6, <3>1, Zenon
  <2> QED BY <2>1, Zenon DEF AtBoundary
<1>8. PICK o : Added(script)[n] = Meaning(o, b) /\ Between(raw, at(n), b, o)
  BY <1>7, Zenon
<1>9. Scanned(raw)[Len(raw)] = State("text", b, o)
  <2>1. ~(at(n) < Len(raw))
    <3>1. Len(raw) \in Nat
      BY LexemesStand, Elements, Zenon
    <3>2. ~(Len(raw) < Len(raw))
      BY <3>1
    <3> QED BY <1>2, <3>2, Zenon
  <2> QED BY <1>2, <1>8, <2>1, Zenon DEF Between
<1>10. statements(raw) = AppendTo(o, b)
  <2>1. State("text", b, o).out = o /\ State("text", b, o).buf = b
    BY Zenon DEF State
  <2> QED BY <1>9, <2>1, Zenon DEF statements
<1>11. Intended(script) = AppendTo(o, b)
  <2>1. Meaning(o, b).out = o /\ Meaning(o, b).buf = b
    BY Zenon DEF Meaning
  <2> QED BY <1>8, <2>1, Zenon DEF Intended
<1> QED BY <1>10, <1>11, Zenon

(* statements of store.go cuts every script as its author means it to be   *)
(* cut, whatever stands in its literals and comments (store.go:163-209).   *)
THEOREM ScriptsAreCutAsMeant ==
  \A script : IsScript(script) => statements(Text(script)) = Intended(script)
BY CutAsMeant, Zenon

(* So does any process that opens the store (store.go:105-128).            *)
THEOREM NoProcessMissplits == StartSafetySpec => []SplitsAtEnds
<1>1. SplitsAtEnds
  BY ScriptsAssumption, CutAsMeant, Zenon DEF SplitsAtEnds, Missplit
<1> QED BY <1>1, PTL

(* The schema is that of the first migrations, which are the ones          *)
(* recorded, whichever processes migrate at once and are killed            *)
(* (store.go:77-137).                                                      *)
THEOREM SchemaGrowsByMigrations == StartSafetySpec => []SchemaIsPrefix
<1>1. \A m \in 1 .. Migrations : IsScript(Embedded[m])
  <2>1. \A m \in 1 .. Len(Embedded) : Embedded[m] \in Scripts
    BY StartAssumption
  <2> QED BY <2>1, ScriptsAssumption, Zenon DEF Migrations
<1>2. Executed = Meant
  BY <1>1, CutAsMeant, Zenon DEF Executed, Meant
<1> QED BY <1>2, SchemaGrows, Zenon
=============================================================================

--------------------------- MODULE CredentialProofs --------------------------
(***************************************************************************)
(* Proofs about the credentials of Startup, the files that a process loads *)
(* or writes before it serves: for any number of commands beside the       *)
(* router and any number of kills.                                         *)
(***************************************************************************)
EXTENDS StartupProofs

(* The router and its certificate and secret: what it is about to write    *)
(* has never been there, and what it goes on with is in the file.  The     *)
(* command does not touch these files.                                     *)
CertIn == {<<"truncate", "key">>, <<"fill", "key">>, <<"read", "secret">>} \cup OfSecret \cup Ready
CertAt(p) ==
  /\ pc[p] = <<"truncate", "cert">> => file["cert"] = Absent
  /\ pc[p] = <<"fill", "cert">> => file["cert"] = Empty
  /\ pc[p] \in OfCert => holds[p]["key"] = holds[p]["cert"] /\ served["cert"] = {}
  /\ pc[p] \in CertIn => file["cert"] = holds[p]["cert"] /\ holds[p]["cert"] \in Secret
SecretAt(p) ==
  /\ pc[p] = <<"truncate", "secret">> => file["secret"] = Absent
  /\ pc[p] = <<"fill", "secret">> => file["secret"] = Empty
  /\ pc[p] \in OfSecret => served["secret"] = {}
  /\ pc[p] \in Ready => file["secret"] = holds[p]["secret"] /\ holds[p]["secret"] \in Secret
ServedKept == \A f \in {"cert", "secret"} : \A k \in served[f] : file[f] = k /\ k \in Secret

(* The signer, unless two processes were making it at the same time.       *)
OneSigner ==
  /\ \A p, q \in Proc : Making(p) /\ Making(q) => p = q
  /\ \A p \in Proc : pc[p] = <<"truncate", "signer">> => file["signer"] = Absent
  /\ \A p \in Proc : pc[p] = <<"fill", "signer">> => file["signer"] = Empty
  /\ \A p \in Proc : \/ Making(p) \/ holds[p]["signer"] = Absent
                     \/ holds[p]["signer"] = file["signer"] /\ file["signer"] \in Secret
  /\ \A k \in issued : k = file["signer"] /\ k \in Secret

(* A file is only empty while a process is about to fill it, and the       *)
(* certificate only without its key while the router is about to write it. *)
OnlyAtWork ==
  /\ \A f \in {"signer", "cert", "secret"} :
       file[f] = Empty => \E p \in Proc : pc[p] = <<"fill", f>>
  /\ \/ file["cert"] = Absent \/ file["key"] = file["cert"]
     \/ \E p \in Router : pc[p] \in OfCert

CredInv ==
  /\ TypeInv /\ \A p \in Router : CertAt(p) /\ SecretAt(p)
  /\ ServedKept /\ (~raced => OneSigner) /\ (~torn => OnlyAtWork)

(* A command writes no file but the signer's, and serves nothing.          *)
LEMMA CommandFiles ==
  ASSUME TypeInv, NEW p \in Command, Effect(p)
  PROVE  (\A f \in File \ {"signer"} : file'[f] = file[f]) /\ served' = served
<1>1. p \in Proc /\ pc[p] \in Early \cup {<<"issue">>} /\ file \in [File -> Secret \cup {Absent, Empty}]
  BY TypedNow DEF Proc, Typed, Placed
<1>2. ASSUME NEW f \in File, Truncates(p, f) \/ Fills(p, f)
      PROVE  (\A g \in File \ {"signer"} : file'[g] = file[g]) /\ served' = served
  <2>1. f = "signer"
    BY <1>1, <1>2 DEF Truncates, Fills, Early
  <2> QED BY <1>1, <1>2, <2>1 DEF Truncates, Fills
<1>3. ASSUME NEW f \in File, Creates(p, f) \/ Finds(p, f)
      PROVE  (\A g \in File \ {"signer"} : file'[g] = file[g]) /\ served' = served
  BY <1>3 DEF Creates, Finds
<1>4. ~Serves(p)
  BY <1>1 DEF Serves, Early
<1> QED BY <1>2, <1>3, <1>4 DEF Effect, Quits, Opens

(* The other processes stay where they are.                                *)
LEMMA OthersStay ==
  ASSUME TypeInv, NEW p \in Proc, Effect(p), NEW q \in Proc, q # p
  PROVE  pc'[q] = pc[q] /\ holds'[q] = holds[q]
<1>1. pc = [x \in Proc |-> pc[x]] /\ holds \in [Proc -> Memory]
  BY TypedNow DEF Typed, Placed
<1>2. \A to, mem : Becomes(p, to, mem) => pc'[q] = pc[q] /\ holds'[q] = holds[q]
  BY <1>1 DEF Becomes
<1>3. CASE Quits(p) \/ Opens(p) \/ Serves(p)
  BY <1>2, <1>3 DEF Quits, Opens, Serves
<1>4. ASSUME NEW f \in File, Creates(p, f) \/ Finds(p, f) \/ Truncates(p, f) \/ Fills(p, f)
      PROVE  pc'[q] = pc[q] /\ holds'[q] = holds[q]
  BY <1>2, <1>4, ZenonT(30) DEF Creates, Finds, Truncates, Fills
<1> QED BY <1>3, <1>4 DEF Effect

RouterOK(p) == CertAt(p) /\ SecretAt(p) /\ ServedKept

(* A command holds only its signer, and only while it works.               *)
LEMMA CommandOK ==
  ASSUME CredInv, NEW p \in Command, Effect(p), NEW q \in Router
  PROVE  RouterOK(q)'
<1>1. TypeInv /\ p \in Proc /\ q \in Proc /\ p # q
  BY StartAssumption DEF CredInv, Proc
<1>2. pc'[q] = pc[q] /\ holds'[q] = holds[q]
  BY <1>1, OthersStay
<1>3. /\ file'["cert"] = file["cert"] /\ file'["secret"] = file["secret"] /\ served' = served
  BY <1>1, CommandFiles DEF File
<1>4. CertAt(q)' /\ SecretAt(q)'
  BY <1>2, <1>3 DEF CredInv, CertAt, SecretAt
<1>5. ServedKept'
  BY <1>3 DEF CredInv, ServedKept
<1> QED BY <1>4, <1>5 DEF RouterOK

(* The router's own steps.                                                 *)
LEMMA RouterMoves ==
  ASSUME CredInv, NEW p \in Router, Quits(p) \/ Opens(p) \/ Serves(p)
  PROVE  RouterOK(p)'
<1>1. TypeInv /\ p \in Proc /\ RouterOK(p) /\ holds[p] \in Memory /\ served \in [File -> SUBSET (Secret \cup {Absent})]
  BY TypedNow DEF CredInv, Proc, RouterOK, Typed
<1>2. CASE Quits(p)
  <2>1. pc'[p] = <<"off">> /\ file' = file /\ served' = served
    BY <1>1, <1>2, Becoming DEF Quits, Nothing, Memory
  <2> QED BY <1>1, <2>1 DEF RouterOK, CertAt, SecretAt, ServedKept, CertIn, OfCert, OfSecret, Ready
<1>3. CASE Opens(p)
  <2>1. /\ pc'[p] \in {<<"open">>, <<"commit">>, <<"read", "signer">>}
        /\ file' = file /\ served' = served
    BY <1>1, <1>3, Becoming, SMTT(30) DEF Opens
  <2> QED BY <1>1, <2>1 DEF RouterOK, CertAt, SecretAt, ServedKept, CertIn, OfCert, OfSecret, Ready
<1>4. CASE Serves(p)
  <2>1. /\ pc'[p] = <<"serving">> /\ holds'[p] = holds[p] /\ file' = file /\ pc[p] = <<"serve">>
        /\ \A f \in {"cert", "secret"} : served'[f] = served[f] \cup {holds[p][f]}
    BY <1>1, <1>4, Becoming DEF Serves, File
  <2>2. \A f \in {"cert", "secret"} : file[f] = holds[p][f] /\ holds[p][f] \in Secret
    BY <1>1, <2>1 DEF RouterOK, CertAt, SecretAt, CertIn, Ready
  <2>3. ServedKept'
    BY <1>1, <2>1, <2>2 DEF RouterOK, ServedKept
  <2> QED BY <1>1, <2>1, <2>2, <2>3, SMTT(30) DEF RouterOK, CertAt, SecretAt, CertIn, OfCert, OfSecret, Ready
<1> QED BY <1>2, <1>3, <1>4

(* It finds a file, or makes what goes into it.                            *)
LEMMA RouterLoads ==
  ASSUME CredInv, NEW p \in Router, NEW f \in File, Creates(p, f) \/ Finds(p, f)
  PROVE  RouterOK(p)'
<1>1. /\ TypeInv /\ p \in Proc /\ RouterOK(p) /\ holds[p] \in Memory
      /\ file \in [File -> Secret \cup {Absent, Empty}]
  BY TypedNow DEF CredInv, Proc, RouterOK, Typed
<1>2. ServedKept'
  BY <1>1 DEF Creates, Finds, RouterOK, ServedKept
<1>3. CASE Creates(p, f)
  <2>1. PICK k \in Secret :
          Becomes(p, <<"truncate", f>>,
                  [g \in File |-> IF g \in (IF f = "cert" THEN {"cert", "key"} ELSE {f})
                                  THEN k ELSE holds[p][g]])
    BY <1>3 DEF Creates
  <2> DEFINE mem == [g \in File |-> IF g \in (IF f = "cert" THEN {"cert", "key"} ELSE {f})
                                    THEN k ELSE holds[p][g]]
  <2>2. mem \in Memory
    BY <1>1 DEF Memory
  <2>3. pc'[p] = <<"truncate", f>> /\ holds'[p] = mem
    BY <1>1, <2>1, <2>2, Becoming
  <2>4. /\ f = "cert" => mem["cert"] = k /\ mem["key"] = k
        /\ f = "secret" => mem["cert"] = holds[p]["cert"]
    BY DEF File
  <2> HIDE DEF mem
  <2>5. pc[p] = <<"read", f>> /\ f # "key" /\ file[f] = Absent /\ file' = file /\ served' = served
    BY <1>3 DEF Creates
  <2>6. f \in {"cert", "secret"} => served[f] = {}
    BY <1>1, <2>5, NoKeys DEF RouterOK, ServedKept
  <2>7. CertAt(p)'
    BY <1>1, <2>3, <2>4, <2>5, <2>6 DEF RouterOK, CertAt, CertIn, OfCert, OfSecret, Ready, File
  <2>8. SecretAt(p)'
    BY <2>3, <2>5, <2>6 DEF SecretAt, OfSecret, Ready
  <2> QED BY <1>2, <2>7, <2>8 DEF RouterOK
<1>4. CASE Finds(p, f)
  <2> DEFINE mem == [holds[p] EXCEPT ![f] = file[f]]
  <2>1. mem \in Memory /\ mem[f] = file[f] /\ \A g \in File : g # f => mem[g] = holds[p][g]
    BY <1>1, <1>4, SMTT(30) DEF Memory, Finds
  <2>2. pc'[p] = Loaded(p, f) /\ holds'[p] = mem
    BY <1>1, <1>4, <2>1, Becoming, SMTT(30) DEF Finds
  <2> HIDE DEF mem
  <2>3. pc[p] = <<"read", f>> /\ f # "key" /\ file[f] \in Secret /\ file' = file /\ served' = served
    BY <1>4 DEF Finds
  <2>4. Loaded(p, f) = IF f = "signer" THEN <<"read", "cert">>
                       ELSE IF f = "cert" THEN <<"read", "secret">> ELSE <<"serve">>
    BY <2>3 DEF Loaded, File
  <2>5. CertAt(p)'
    BY <1>1, <2>1, <2>2, <2>3, <2>4 DEF RouterOK, CertAt, CertIn, OfCert, OfSecret, Ready, File
  <2>6. SecretAt(p)'
    BY <2>1, <2>2, <2>3, <2>4 DEF SecretAt, OfSecret, Ready, File
  <2> QED BY <1>2, <2>5, <2>6 DEF RouterOK
<1> QED BY <1>3, <1>4

(* It writes a file.                                                       *)
LEMMA RouterWrites ==
  ASSUME CredInv, NEW p \in Router, NEW f \in File, Truncates(p, f) \/ Fills(p, f)
  PROVE  RouterOK(p)'
<1>1. /\ TypeInv /\ p \in Proc /\ RouterOK(p) /\ holds[p] \in Memory /\ Armed(p)
      /\ file \in [File -> Secret \cup {Absent, Empty}]
  BY TypedNow DEF CredInv, Proc, RouterOK, Typed
<1>2. CASE Truncates(p, f)
  <2>1. /\ pc[p] = <<"truncate", f>> /\ pc'[p] = <<"fill", f>> /\ holds'[p] = holds[p]
        /\ served' = served /\ file'[f] = Empty /\ \A g \in File : g # f => file'[g] = file[g]
    BY <1>1, <1>2, Becoming DEF Truncates
  <2>2. CertAt(p)'
    BY <1>1, <2>1, SMTT(30) DEF RouterOK, CertAt, CertIn, OfCert, OfSecret, Ready, File
  <2>3. SecretAt(p)'
    BY <1>1, <2>1, SMTT(30) DEF RouterOK, SecretAt, OfSecret, Ready, File
  <2>4. f \in {"cert", "secret"} => served[f] = {}
    BY <1>1, <2>1, SMTT(30) DEF RouterOK, CertAt, SecretAt, OfCert, OfSecret
  <2>5. ServedKept'
    BY <1>1, <2>1, <2>4 DEF RouterOK, ServedKept, File
  <2> QED BY <2>2, <2>3, <2>5 DEF RouterOK
<1>3. CASE Fills(p, f)
  <2>1. /\ pc[p] = <<"fill", f>> /\ pc'[p] = Written(p, f) /\ holds'[p] = holds[p]
        /\ served' = served /\ file'[f] = holds[p][f] /\ \A g \in File : g # f => file'[g] = file[g]
    BY <1>1, <1>3, Becoming DEF Fills
  <2>2. holds[p][f] \in Secret
    BY <1>1, <2>1 DEF Armed
  <2>3. Written(p, f) = IF f = "signer" THEN <<"read", "cert">>
                        ELSE IF f = "cert" THEN <<"truncate", "key">>
                        ELSE IF f = "key" THEN <<"read", "secret">> ELSE <<"serve">>
    BY DEF Written, Loaded, File
  <2>4. CertAt(p)'
    BY <1>1, <2>1, <2>2, <2>3 DEF RouterOK, CertAt, CertIn, OfCert, OfSecret, Ready, File
  <2>5. SecretAt(p)'
    BY <1>1, <2>1, <2>2, <2>3 DEF RouterOK, SecretAt, OfSecret, Ready, File
  <2>6. f \in {"cert", "secret"} => served[f] = {}
    BY <1>1, <2>1 DEF RouterOK, CertAt, SecretAt, OfCert, OfSecret
  <2>7. ServedKept'
    BY <1>1, <2>1, <2>6 DEF RouterOK, ServedKept, File
  <2> QED BY <2>4, <2>5, <2>7 DEF RouterOK
<1> QED BY <1>2, <1>3

-----------------------------------------------------------------------------
(* A step that does not concern the signer keeps OneSigner.                *)
LEMMA SignerAside ==
  ASSUME CredInv, OneSigner, NEW p \in Proc, Effect(p),
         pc'[p] \notin {<<"truncate", "signer">>, <<"fill", "signer">>},
         \/ holds'[p]["signer"] = Absent
         \/ ~Making(p) /\ holds'[p]["signer"] = holds[p]["signer"],
         UNCHANGED issued, file'["signer"] = file["signer"]
  PROVE  OneSigner'
<1>1. \A q \in Proc \ {p} : pc'[q] = pc[q] /\ holds'[q] = holds[q]
  BY OthersStay DEF CredInv
<1>2. ~Making(p)'
  BY DEF Making
<1>3. \A q \in Proc \ {p} : Making(q)' <=> Making(q)
  BY <1>1 DEF Making
<1>4. /\ \A q, r \in Proc : Making(q)' /\ Making(r)' => q = r
  BY <1>2, <1>3 DEF OneSigner
<1>5. /\ \A q \in Proc : pc'[q] = <<"truncate", "signer">> => file'["signer"] = Absent
      /\ \A q \in Proc : pc'[q] = <<"fill", "signer">> => file'["signer"] = Empty
  BY <1>1, ZenonT(30) DEF OneSigner
<1>6. \A q \in Proc : \/ Making(q)' \/ holds'[q]["signer"] = Absent
                      \/ holds'[q]["signer"] = file'["signer"] /\ file'["signer"] \in Secret
  BY <1>1, <1>3 DEF OneSigner
<1>7. \A k \in issued' : k = file'["signer"] /\ k \in Secret
  BY DEF OneSigner
<1> QED BY <1>4, <1>5, <1>6, <1>7 DEF OneSigner

(* Of the steps on the signer: it is made, ...                             *)
LEMMA SignerMade ==
  ASSUME CredInv, OneSigner, NEW p \in Proc, Creates(p, "signer"), ~raced'
  PROVE  OneSigner'
<1>1. TypeInv /\ Effect(p) /\ holds[p] \in Memory
  BY TypedNow DEF CredInv, Effect, File, Typed
<1>2. /\ file["signer"] = Absent /\ file' = file /\ issued' = issued
      /\ \A q \in Proc \ {p} : ~Making(q)
  BY DEF Creates
<1>3. \A q \in Proc \ {p} : pc'[q] = pc[q] /\ holds'[q] = holds[q]
  BY <1>1, OthersStay
<1>4. pc'[p] = <<"truncate", "signer">>
  <2>1. PICK k \in Secret :
          Becomes(p, <<"truncate", "signer">>,
                  [g \in File |-> IF g \in {"signer"} THEN k ELSE holds[p][g]])
    BY DEF Creates
  <2>2. [g \in File |-> IF g \in {"signer"} THEN k ELSE holds[p][g]] \in Memory
    BY <1>1 DEF Memory
  <2> QED BY <1>1, <2>1, <2>2, Becoming
<1>5. Making(p)' /\ \A q \in Proc \ {p} : ~Making(q)' /\ holds'[q]["signer"] = Absent
  BY <1>2, <1>3, <1>4, NoKeys DEF Making, OneSigner
<1>6. issued' = {}
  BY <1>2, NoKeys DEF OneSigner
<1>7. \A q \in Proc : pc'[q] # <<"fill", "signer">>
  BY <1>4, <1>5 DEF Making
<1>8. \A q, r \in Proc : Making(q)' /\ Making(r)' => q = r
  BY <1>5
<1> QED BY <1>2, <1>5, <1>6, <1>7, <1>8 DEF OneSigner

(* ... found, ...                                                          *)
LEMMA SignerFound ==
  ASSUME CredInv, OneSigner, NEW p \in Proc, Finds(p, "signer")
  PROVE  OneSigner'
<1>1. TypeInv /\ Effect(p) /\ holds[p] \in Memory /\ file \in [File -> Secret \cup {Absent, Empty}]
  BY TypedNow DEF CredInv, Effect, File, Typed
<1>2. file["signer"] \in Secret /\ file' = file /\ issued' = issued
  BY DEF Finds
<1>3. \A q \in Proc \ {p} : pc'[q] = pc[q] /\ holds'[q] = holds[q]
  BY <1>1, OthersStay
<1>4. /\ pc'[p] \in {<<"read", "cert">>, <<"issue">>}
      /\ holds'[p]["signer"] = file["signer"]
  <2> DEFINE mem == [holds[p] EXCEPT !["signer"] = file["signer"]]
  <2>1. mem \in Memory /\ mem["signer"] = file["signer"]
    BY <1>1, <1>2 DEF Memory, File
  <2>2. pc'[p] = Loaded(p, "signer") /\ holds'[p] = mem
    BY <1>1, <2>1, Becoming DEF Finds
  <2> QED BY <2>1, <2>2 DEF Loaded
<1>5. \A q \in Proc : ~Making(q)'
  <2>1. \A q \in Proc : ~Making(q)
    BY <1>2, NoKeys DEF OneSigner, Making
  <2> QED BY <1>3, <1>4, <2>1 DEF Making
<1>6. \A q \in Proc : holds'[q]["signer"] = Absent \/ holds'[q]["signer"] = file'["signer"]
  BY <1>2, <1>3, <1>4, NoKeys DEF OneSigner, Making
<1>7. \A q \in Proc : pc'[q] \notin {<<"truncate", "signer">>, <<"fill", "signer">>}
  BY <1>5 DEF Making
<1> QED BY <1>2, <1>5, <1>6, <1>7, ZenonT(30) DEF OneSigner

(* ... and written, when nobody else has one.                              *)
LEMMA SignerWritten ==
  ASSUME CredInv, OneSigner, NEW p \in Proc, Truncates(p, "signer") \/ Fills(p, "signer")
  PROVE  OneSigner'
<1>1. /\ TypeInv /\ Effect(p) /\ holds[p] \in Memory /\ Armed(p) /\ "signer" \in File
      /\ file \in [File -> Secret \cup {Absent, Empty}]
  BY TypedNow DEF CredInv, Effect, File, Typed
<1>2. \A q \in Proc \ {p} : pc'[q] = pc[q] /\ holds'[q] = holds[q]
  BY <1>1, OthersStay
<1>3. /\ pc[p] \in {<<"truncate", "signer">>, <<"fill", "signer">>} /\ Making(p)
      /\ file["signer"] \notin Secret
  BY NoKeys DEF Truncates, Fills, Making, OneSigner
<1>4. \A q \in Proc \ {p} : ~Making(q)' /\ holds'[q]["signer"] = Absent
  BY <1>2, <1>3 DEF OneSigner, Making
<1>5. issued' = {}
  BY <1>3 DEF OneSigner, Truncates, Fills
<1>6. \A q \in Proc \ {p} : pc'[q] \notin {<<"truncate", "signer">>, <<"fill", "signer">>}
  BY <1>4 DEF Making
<1>7. CASE Truncates(p, "signer")
  <2>1. pc'[p] = <<"fill", "signer">> /\ file'["signer"] = Empty
    BY <1>1, <1>7, Becoming DEF Truncates
  <2>2. Making(p)'
    BY <2>1 DEF Making
  <2>3. \A q, r \in Proc : Making(q)' /\ Making(r)' => q = r
    BY <1>4
  <2>4. \A q \in Proc : pc'[q] # <<"truncate", "signer">>
    BY <1>6, <2>1
  <2>5. \A q \in Proc : Making(q)' \/ holds'[q]["signer"] = Absent
    BY <1>4, <2>2
  <2> QED BY <1>5, <2>1, <2>3, <2>4, <2>5 DEF OneSigner
<1>8. CASE Fills(p, "signer")
  <2>1. /\ pc'[p] = Written(p, "signer") /\ file'["signer"] = holds[p]["signer"]
        /\ holds'[p] = holds[p] /\ holds[p]["signer"] \in Secret
    BY <1>1, <1>8, Becoming DEF Fills, Armed
  <2>2. pc'[p] \in {<<"read", "cert">>, <<"issue">>}
    BY <2>1 DEF Written, Loaded
  <2>3. \A q \in Proc : ~Making(q)' /\ pc'[q] \notin {<<"truncate", "signer">>, <<"fill", "signer">>}
    BY <1>4, <1>6, <2>2 DEF Making
  <2> QED BY <1>4, <1>5, <2>1, <2>3, ZenonT(30) DEF OneSigner
<1> QED BY <1>7, <1>8

(* So every step keeps OneSigner, unless two processes come to make one.   *)
LEMMA SignerStep ==
  ASSUME CredInv, NEW p \in Proc, Effect(p)
  PROVE  ~raced' => OneSigner'
<1> SUFFICES ASSUME ~raced' PROVE OneSigner'
  OBVIOUS
<1>1. /\ TypeInv /\ holds[p] \in Memory /\ file \in [File -> Secret \cup {Absent, Empty}] /\ Armed(p)
      /\ raced \in BOOLEAN
  BY TypedNow DEF CredInv, Typed
<1>2. OneSigner
  BY <1>1, ZenonT(30) DEF CredInv, Effect, Quits, Opens, Serves, Creates, Finds, Truncates, Fills
<1>3. CASE Quits(p)
  <2>1. pc'[p] = <<"off">> /\ holds'[p]["signer"] = Absent /\ file' = file
    BY <1>1, <1>3, Becoming DEF Quits, Nothing, Memory, File
  <2>2. CASE UNCHANGED issued
    BY <1>2, <2>1, <2>2, SignerAside, SMTT(30)
  <2>3. CASE pc[p] = <<"issue">> /\ issued' = issued \cup {holds[p]["signer"]}
    <3>1. holds[p]["signer"] = file["signer"] /\ file["signer"] \in Secret
      BY <1>1, <1>2, <2>3, NoKeys DEF Armed, OneSigner, Making, Early
    <3>2. \A q \in Proc \ {p} : pc'[q] = pc[q] /\ holds'[q] = holds[q]
      BY <1>1, OthersStay
    <3>3. \A q \in Proc : ~Making(q) /\ ~Making(q)' /\ pc'[q] \notin {<<"truncate", "signer">>, <<"fill", "signer">>}
      BY <1>2, <2>1, <3>1, <3>2, NoKeys DEF OneSigner, Making
    <3>4. \A q \in Proc : \/ holds'[q]["signer"] = Absent
                          \/ holds'[q]["signer"] = file'["signer"] /\ file'["signer"] \in Secret
      BY <1>2, <2>1, <3>2, <3>3 DEF OneSigner
    <3>5. \A k \in issued' : k = file'["signer"] /\ k \in Secret
      BY <1>2, <2>1, <2>3, <3>1 DEF OneSigner
    <3> QED BY <3>3, <3>4, <3>5, ZenonT(30) DEF OneSigner
  <2> QED BY <1>3, <2>2, <2>3 DEF Quits
<1>4. CASE Opens(p) \/ Serves(p)
  <2>1. /\ pc'[p] \in {<<"open">>, <<"commit">>, <<"read", "signer">>, <<"serving">>} /\ holds'[p] = holds[p]
    BY <1>1, <1>4, Becoming DEF Opens, Serves
  <2>2. ~Making(p) /\ issued' = issued /\ file' = file
    BY <1>4 DEF Opens, Serves, Making
  <2> QED BY <1>2, <2>1, <2>2, SignerAside
<1>5. ASSUME NEW f \in File, f # "signer", Creates(p, f) \/ Finds(p, f) \/ Truncates(p, f) \/ Fills(p, f)
      PROVE  OneSigner'
  <2>1. /\ ~Making(p) /\ issued' = issued /\ file'["signer"] = file["signer"]
    BY <1>1, <1>5 DEF Creates, Finds, Truncates, Fills, Making, File
  <2>2. /\ pc'[p] \notin {<<"truncate", "signer">>, <<"fill", "signer">>}
        /\ holds'[p]["signer"] = holds[p]["signer"]
    <3>1. CASE Creates(p, f)
      <4>1. PICK k \in Secret :
              Becomes(p, <<"truncate", f>>,
                      [g \in File |-> IF g \in (IF f = "cert" THEN {"cert", "key"} ELSE {f})
                                      THEN k ELSE holds[p][g]])
        BY <3>1 DEF Creates
      <4> DEFINE mem == [g \in File |-> IF g \in (IF f = "cert" THEN {"cert", "key"} ELSE {f})
                                        THEN k ELSE holds[p][g]]
      <4>2. mem \in Memory /\ mem["signer"] = holds[p]["signer"]
        BY <1>1, <1>5, SMTT(30) DEF Memory, File
      <4>3. pc'[p] = <<"truncate", f>> /\ holds'[p] = mem
        BY <1>1, <4>1, <4>2, Becoming
      <4> QED BY <1>5, <4>2, <4>3
    <3>2. CASE Finds(p, f)
      <4> DEFINE mem == [holds[p] EXCEPT ![f] = file[f]]
      <4>1. mem \in Memory /\ mem["signer"] = holds[p]["signer"]
        BY <1>1, <1>5, <3>2, SMTT(30) DEF Memory, File, Finds
      <4>2. Becomes(p, Loaded(p, f), mem)
        BY <3>2, Zenon DEF Finds
      <4> HIDE DEF mem
      <4>3. pc'[p] = Loaded(p, f) /\ holds'[p] = mem
        BY <1>1, <4>1, <4>2, Becoming, ZenonT(30)
      <4>4. Loaded(p, f) \notin {<<"truncate", "signer">>, <<"fill", "signer">>}
        <5>1. f = "cert" \/ f = "secret"
          BY <1>5, <3>2, Zenon DEF File, Finds
        <5>2. Loaded(p, f) = <<"read", "secret">> \/ Loaded(p, f) = <<"serve">>
          BY <5>1, Zenon DEF Loaded
        <5> QED BY <5>2
      <4> QED BY <4>1, <4>3, <4>4, Zenon
    <3>3. CASE Truncates(p, f)
      BY <1>1, <1>5, <3>3, Becoming DEF Truncates
    <3>4. CASE Fills(p, f)
      <4>1. pc'[p] = Written(p, f) /\ holds'[p] = holds[p]
        BY <1>1, <3>4, Becoming DEF Fills
      <4> QED BY <1>5, <4>1 DEF Written, Loaded, File
    <3> QED BY <1>5, <3>1, <3>2, <3>3, <3>4
  <2> QED BY <1>2, <2>1, <2>2, SignerAside
<1>6. CASE Creates(p, "signer") \/ Finds(p, "signer") \/ Truncates(p, "signer") \/ Fills(p, "signer")
  BY <1>2, <1>6, SignerMade, SignerFound, SignerWritten
<1> QED BY <1>3, <1>4, <1>5, <1>6 DEF Effect

-----------------------------------------------------------------------------
(* No step leaves a file empty, or the certificate without its key, with   *)
(* nobody at work on it, but the end of the one who was.                   *)
LEMMA WorkStep ==
  ASSUME CredInv, NEW p \in Proc, Effect(p)
  PROVE  ~torn' => OnlyAtWork'
<1> SUFFICES ASSUME ~torn' PROVE OnlyAtWork'
  OBVIOUS
<1>1. /\ TypeInv /\ holds[p] \in Memory /\ file \in [File -> Secret \cup {Absent, Empty}] /\ Armed(p)
      /\ torn \in BOOLEAN /\ "cert" \in File /\ "key" \in File
  BY TypedNow DEF CredInv, Typed, File
<1>2. OnlyAtWork
  BY <1>1, ZenonT(30) DEF CredInv, Effect, Quits, Opens, Serves, Creates, Finds, Truncates, Fills
<1>3. \A q \in Proc \ {p} : pc'[q] = pc[q]
  BY <1>1, OthersStay
<1>4. \A q \in Proc : pc[q] \in OfCert => q \in Router
  BY <1>1, TypedNow DEF Typed, Placed, Early, OfCert, Proc
<1>5. CASE file' = file /\ pc[p] \notin Midway
  <2>1. \A q \in Proc, f \in File : pc[q] = <<"fill", f>> => pc'[q] = <<"fill", f>>
    BY <1>3, <1>5 DEF Midway
  <2>2. \A q \in Router : pc[q] \in OfCert => pc'[q] \in OfCert \/ file["cert"] = Absent
    <3> TAKE q \in Router
    <3>1. CASE q = p /\ pc[p] \in OfCert
      BY <1>5, <3>1 DEF CredInv, CertAt, OfCert, Midway, File
    <3>2. CASE q # p
      BY <1>3, <3>2 DEF Proc
    <3> QED BY <3>1, <3>2
  <2> QED BY <1>2, <1>5, <2>1, <2>2 DEF OnlyAtWork, File
<1>6. ASSUME NEW f \in File, Truncates(p, f) PROVE OnlyAtWork'
  <2>1. /\ pc[p] = <<"truncate", f>> /\ pc'[p] = <<"fill", f>>
        /\ file'[f] = Empty /\ \A g \in File : g # f => file'[g] = file[g]
    BY <1>1, <1>6, Becoming DEF Truncates
  <2>2. \A g \in {"signer", "cert", "secret"} :
          file'[g] = Empty => \E q \in Proc : pc'[q] = <<"fill", g>>
    BY <1>2, <1>3, <2>1 DEF OnlyAtWork, File
  <2>3. CASE f \in {"cert", "key"}
    BY <1>4, <2>1, <2>2, <2>3, ZenonT(30) DEF OnlyAtWork, OfCert
  <2>4. CASE f \notin {"cert", "key"}
    <3>1. \A q \in Router : pc[q] \in OfCert => pc'[q] \in OfCert
      BY <1>3, <2>1, <2>4 DEF OfCert, Proc
    <3> QED BY <1>1, <1>2, <2>1, <2>2, <2>4, <3>1 DEF OnlyAtWork
  <2> QED BY <2>3, <2>4
<1>7. ASSUME NEW f \in File, Fills(p, f) PROVE OnlyAtWork'
  <2>1. /\ pc[p] = <<"fill", f>> /\ pc'[p] = Written(p, f) /\ holds[p][f] \in Secret
        /\ file'[f] = holds[p][f] /\ \A g \in File : g # f => file'[g] = file[g]
    BY <1>1, <1>7, Becoming DEF Fills, Armed
  <2>2. \A g \in {"signer", "cert", "secret"} :
          file'[g] = Empty => \E q \in Proc : pc'[q] = <<"fill", g>>
    BY <1>2, <1>3, <2>1, NoKeys DEF OnlyAtWork, File
  <2>3. CASE f = "cert"
    <3>1. pc'[p] = <<"truncate", "key">> /\ p \in Router
      BY <1>4, <2>1, <2>3 DEF Written, OfCert
    <3> QED BY <2>2, <3>1 DEF OnlyAtWork, OfCert
  <2>4. CASE f = "key"
    <3>1. p \in Router
      BY <1>4, <2>1, <2>4 DEF OfCert
    <3>2. file["cert"] = holds[p]["cert"] /\ holds[p]["key"] = holds[p]["cert"]
      BY <2>1, <2>4, <3>1, ZenonT(30) DEF CredInv, CertAt, CertIn, OfCert
    <3> QED BY <1>1, <2>1, <2>2, <2>4, <3>2 DEF OnlyAtWork
  <2>5. CASE f \notin {"cert", "key"}
    <3>1. \A q \in Router : pc[q] \in OfCert => pc'[q] \in OfCert
      BY <1>3, <2>1, <2>5 DEF OfCert, Proc
    <3> QED BY <1>1, <1>2, <2>1, <2>2, <2>5, <3>1 DEF OnlyAtWork
  <2> QED BY <2>3, <2>4, <2>5
<1>8. CASE Quits(p) \/ Opens(p) \/ Serves(p)
  BY <1>5, <1>8 DEF Quits, Opens, Serves, Midway
<1>9. ASSUME NEW f \in File, Creates(p, f) \/ Finds(p, f) PROVE OnlyAtWork'
  BY <1>5, <1>9 DEF Creates, Finds, Midway
<1> QED BY <1>6, <1>7, <1>8, <1>9 DEF Effect

-----------------------------------------------------------------------------
(* At the start there is nothing, and nobody runs.                         *)
LEMMA CredInitially == StartInit => CredInv
<1> SUFFICES ASSUME StartInit PROVE CredInv
  OBVIOUS
<1>1. TypeInv
  BY TypeInitially
<1>2. \A p \in Proc : pc[p] = <<"off">> /\ \A f \in File : holds[p][f] = Absent
  BY DEF StartInit, Nothing
<1>3. /\ \A f \in File : file[f] = Absent /\ served[f] = {}
      /\ issued = {}
  BY DEF StartInit, Nothing
<1>4. \A p \in Router : CertAt(p) /\ SecretAt(p)
  BY <1>2 DEF CertAt, SecretAt, CertIn, OfCert, OfSecret, Ready, Proc
<1>5. ServedKept
  BY <1>3 DEF ServedKept, File
<1>6. OneSigner
  BY <1>2, <1>3 DEF OneSigner, Making, File
<1>7. OnlyAtWork
  BY <1>3, NoKeys DEF OnlyAtWork, File
<1> QED BY <1>1, <1>4, <1>5, <1>6, <1>7 DEF CredInv

(* A serving router signs with the signer in the file, unless two          *)
(* processes were making one.                                              *)
LEMMA CreateOK ==
  ASSUME CredInv, NEW p \in Proc, workerKeysCreate(p)
  PROVE  CredInv'
<1>1. /\ UNCHANGED <<pc, holds, file, served, torn, raced>>
      /\ issued' = issued \cup {holds[p]["signer"]} /\ ~Making(p)
  BY DEF workerKeysCreate, Making
<1>2. TypeInv' /\ holds[p]["signer"] \in Secret
  BY SigningTypes DEF CredInv
<1>3. (\A q \in Router : CertAt(q)' /\ SecretAt(q)') /\ ServedKept' /\ (~torn' => OnlyAtWork')
  BY <1>1 DEF CredInv, CertAt, SecretAt, ServedKept, OnlyAtWork
<1>4. ASSUME OneSigner PROVE OneSigner'
  <2>1. holds[p]["signer"] = file["signer"]
    BY <1>1, <1>2, <1>4, NoKeys DEF OneSigner
  <2> QED BY <1>1, <1>2, <1>4, <2>1 DEF OneSigner, Making
<1> QED BY <1>1, <1>2, <1>3, <1>4 DEF CredInv

(* Every step keeps the invariant.                                         *)
LEMMA CredStep == CredInv /\ [StartNext]_startVars => CredInv'
<1> SUFFICES ASSUME CredInv, [StartNext]_startVars PROVE CredInv'
  OBVIOUS
<1>1. ASSUME NEW p \in Proc, migrate(p) \/ Step(p) \/ Shutdown(p) \/ Kill(p)
      PROVE  CredInv'
  <2>1. TypeInv /\ TypeInv' /\ Effect(p)
    BY <1>1, TypeStep, EveryEffect DEF CredInv
  <2>2. ASSUME NEW q \in Router PROVE RouterOK(q)'
    <3>1. CASE p \in Command
      BY <2>1, <3>1, CommandOK
    <3>2. CASE p \in Router
      <4>1. p = q
        BY <3>2, StartAssumption
      <4> QED BY <2>1, <3>2, <4>1, RouterMoves, RouterLoads, RouterWrites DEF Effect
    <3> QED BY <3>1, <3>2 DEF Proc
  <2>3. ServedKept'
    <3>1. CASE Router = {}
      <4>1. p \in Command
        BY <3>1 DEF Proc
      <4>2. file'["cert"] = file["cert"] /\ file'["secret"] = file["secret"] /\ served' = served
        BY <2>1, <4>1, CommandFiles DEF File
      <4> QED BY <4>2 DEF CredInv, ServedKept
    <3>2. CASE Router # {}
      BY <2>2, <3>2 DEF RouterOK
    <3> QED BY <3>1, <3>2
  <2>4. (~raced' => OneSigner') /\ (~torn' => OnlyAtWork')
    BY <2>1, SignerStep, WorkStep
  <2> QED BY <2>1, <2>2, <2>3, <2>4 DEF CredInv, RouterOK
<1>2. CASE UNCHANGED startVars
  <2>1. TypeInv'
    BY <1>2 DEF startVars, CredInv, TypeInv, StartTypeOK, Placed, Armed
  <2>2. (\A p \in Router : CertAt(p)' /\ SecretAt(p)') /\ ServedKept'
    BY <1>2 DEF startVars, CredInv, CertAt, SecretAt, ServedKept
  <2>3. (~raced' => OneSigner') /\ (~torn' => OnlyAtWork')
    BY <1>2 DEF startVars, CredInv, OneSigner, OnlyAtWork, Making
  <2> QED BY <2>1, <2>2, <2>3 DEF CredInv
<1>3. ASSUME NEW p \in Proc, workerKeysCreate(p) PROVE CredInv'
  BY <1>3, CreateOK
<1> QED BY <1>1, <1>2, <1>3 DEF StartNext

(* What was handed out stays good, through any kills and restarts          *)
(* (paseto.go:48-73, tls.go:91-146, secret.go:15-39).                      *)
THEOREM CredentialsKept == StartSafetySpec => []CredentialsSurvive
<1>1. CredInv => CredentialsSurvive
  <2> SUFFICES ASSUME CredInv PROVE CredentialsSurvive
    OBVIOUS
  <2>1. ASSUME ~raced, NEW k \in issued
        PROVE  file["signer"] = k /\ \A p \in Proc : holds[p]["signer"] \in {Absent, k}
    <3>1. OneSigner /\ file["signer"] = k /\ k \in Secret
      BY <2>1 DEF CredInv, OneSigner
    <3>2. \A p \in Proc : ~Making(p)
      BY <3>1, NoKeys DEF OneSigner, Making
    <3> QED BY <3>1, <3>2, ZenonT(30) DEF OneSigner
  <2>2. \A f \in {"cert", "secret"} : \A k \in served[f] : file[f] = k /\ served[f] = {k}
    BY DEF CredInv, ServedKept
  <2> QED BY <2>1, <2>2 DEF CredentialsSurvive
<1> QED BY <1>1, CredInitially, CredStep, PTL DEF StartSafetySpec

(* With nobody at work the files let a router start, unless a process was  *)
(* killed at the wrong moment (tls.go:92-105, 135-140).                    *)
THEOREM OnlyATornWriteWedges == StartSafetySpec => []OnlyTornWedges
<1>1. CredInv => OnlyTornWedges
  <2> SUFFICES ASSUME CredInv, ~torn, \A p \in Proc : pc[p] \in {<<"off">>, <<"serving">>}
               PROVE  Startable
    BY DEF OnlyTornWedges
  <2>1. OnlyAtWork
    BY DEF CredInv
  <2>2. \A p \in Proc, f \in File : pc[p] # <<"fill", f>> /\ pc[p] \notin OfCert
    BY DEF OfCert
  <2> QED BY <2>1, <2>2 DEF OnlyAtWork, Startable, File, Proc
<1> QED BY <1>1, CredInitially, CredStep, PTL DEF StartSafetySpec

=============================================================================

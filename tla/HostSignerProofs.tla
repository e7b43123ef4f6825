-------------------------- MODULE HostSignerProofs --------------------------
(***************************************************************************)
(* Proofs about HostSigner, for every set of workers, envelopes, keys and  *)
(* PCR states.                                                             *)
(***************************************************************************)
EXTENDS HostSigner, TLAPS

USE DEF Goto, files, work

\* TypeOK is not inductive without what the program counters say of the
\* handlers' locals.
TypeInv == TypeOK /\ LocalsOK

LEMMA TypeInit == Init => TypeInv
BY DEF Init, TypeInv, TypeOK, LocalsOK, PCs, KeyPcs, SignPcs

\* What policy::plan and seal_secret put in an envelope.
LEMMA SealedType ==
    ASSUME TypeOK, NEW k \in {"none", "literal", "host", "systemd"},
           NEW key \in HostKeys \cup {NoKey}
    PROVE  Sealed(k, key) \in Envelopes
BY DEF TypeOK, Sealed, Envelopes

\* The entries of a signature file are signatures.
LEMMA EntriesType ==
    ASSUME NEW f \in Documents \cup {Absent, Bad}
    PROVE  Entries(f) \subseteq Sigs
BY SignerAssumption DEF Entries, Documents

LEMMA TypeStart ==
    ASSUME TypeInv, NEW w \in Workers, NEW o \in Ops, NEW s \in Slots,
           Start(w, o, s)
    PROVE  TypeInv'
<1>1. TypeOK'
  BY DEF Start, TypeInv, TypeOK, PCs, Ops
<1>2. LocalsOK'
  BY DEF Start, TypeInv, TypeOK, LocalsOK, KeyPcs, SignPcs, Ops
<1>3. QED
  BY <1>1, <1>2 DEF TypeInv

LEMMA TypeFinish ==
    ASSUME TypeInv, NEW w \in Workers, Finish(w)
    PROVE  TypeInv'
<1>1. TypeOK'
  BY DEF Finish, TypeInv, TypeOK, PCs
<1>2. LocalsOK'
  BY DEF Finish, TypeInv, TypeOK, LocalsOK, KeyPcs, SignPcs
<1>3. QED
  BY <1>1, <1>2 DEF TypeInv

LEMMA TypeKeyStep ==
    ASSUME TypeInv, NEW w \in Workers, KeyStep(w)
    PROVE  TypeInv'
<1> USE DEF TypeInv, TypeOK, LocalsOK, PCs, KeyPcs, SignPcs
<1>1. CASE Plan(w)
  <2>1. CASE Goto(w, "exists") /\ UNCHANGED new
    BY <1>1, <2>1 DEF Plan
  <2>2. ASSUME NEW k \in {"none", "systemd"},
               new' = [new EXCEPT ![w] = Sealed(k, NoKey)],
               Goto(w, IF op[w] = "seal" THEN "store" ELSE "ok")
        PROVE  TypeInv'
    <3>1. Sealed(k, NoKey) \in Envelopes
      BY SealedType
    <3>2. TypeOK'
      BY <1>1, <2>2, <3>1 DEF Plan
    <3>3. LocalsOK'
      BY <1>1, <2>2, <3>1 DEF Plan
    <3>4. QED
      BY <3>2, <3>3
  <2>3. QED
    BY <1>1, <2>1, <2>2 DEF Plan
<1>2. CASE CheckHostKey(w)
  BY <1>2 DEF CheckHostKey
<1>3. CASE ReadPriv(w)
  BY <1>3 DEF ReadPriv, Planned, Unplanned
<1>4. CASE OpenPriv(w)
  BY <1>4 DEF OpenPriv
<1>5. CASE WritePriv(w)
  BY <1>5 DEF WritePriv, Landed
<1>6. CASE OpenPub(w)
  BY <1>6 DEF OpenPub
<1>7. CASE WritePub(w)
  BY <1>7 DEF WritePub, Landed, Planned
<1>8. QED
  BY <1>1, <1>2, <1>3, <1>4, <1>5, <1>6, <1>7 DEF KeyStep

LEMMA TypeSealStep ==
    ASSUME TypeInv, NEW w \in Workers, SealStep(w)
    PROVE  TypeInv'
<1> USE DEF TypeInv, TypeOK, LocalsOK, PCs, KeyPcs, SignPcs
<1>1. CASE SealLiteral(w)
  <2>1. Sealed("literal", NoKey) \in Envelopes
    BY SealedType
  <2>2. QED
    BY <1>1, <2>1 DEF SealLiteral
<1>2. CASE Classify(w)
  <2>1. pem[w] \in HostKeys => Sealed("host", pem[w]) \in Envelopes
    BY SealedType
  <2>2. TypeOK'
    <3>1. PICK p \in {"sign", "find", "fail"} : pc' = [pc EXCEPT ![w] = p]
      BY <1>2 DEF Classify
    <3>2. new' \in [Workers -> Envelopes \cup {NoEnv}]
      BY <1>2, <2>1 DEF Classify
    <3>3. PICK b \in BOOLEAN : hurt' = [hurt EXCEPT ![w] = b]
      <4>1. \E b : hurt' = [hurt EXCEPT ![w] = b]
        BY <1>2 DEF Classify
      <4>2. hurt'[w] \in BOOLEAN
        BY <1>2, Zenon DEF Classify
      <4>3. QED
        BY <4>1, <4>2
    <3>4. UNCHANGED <<pcr, boot, priv, pub, sigs, tmp, env, op, slot, pem, sk, doc,
                      fd, made>>
      BY <1>2 DEF Classify
    <3>5. QED
      BY <3>1, <3>2, <3>3, <3>4
  <2>3. LocalsOK'
    <3>1. /\ pc[w] = "classify" /\ pc'[w] \in {"sign", "find", "fail"}
          /\ pc'[w] = "find" => op[w] = "unseal"
          /\ \A x \in Workers \ {w} : pc'[x] = pc[x] /\ new'[x] = new[x]
          /\ new'[w] \in Envelopes \/ new'[w] = new[w]
          /\ pc'[w] # "fail" /\ op[w] = "seal" => new'[w] \in Envelopes
          /\ UNCHANGED <<op, sk, slot, env>>
      BY <1>2, <2>1 DEF Classify
    <3>2. QED
      BY <3>1
  <2>4. QED
    BY <2>2, <2>3
<1>3. CASE StoreEnvelope(w)
  BY <1>3 DEF StoreEnvelope
<1>4. QED
  BY <1>1, <1>2, <1>3 DEF SealStep

LEMMA TypeSignStep ==
    ASSUME TypeInv, NEW w \in Workers, SignStep(w)
    PROVE  TypeInv'
<1> USE DEF TypeInv, TypeOK, LocalsOK, PCs, KeyPcs, SignPcs, AfterSign
<1>1. CASE LookForSignature(w)
  BY <1>1 DEF LookForSignature
<1>2. CASE SignPolicy(w)
  BY <1>2 DEF SignPolicy
<1>3. CASE ReadDocument(w)
  <2>1. CASE pub \in HostKeys
    <3>1. Entries(sigs) \subseteq Sigs
      BY EntriesType
    <3>2. [pol |-> pcr, by |-> sk[w]] \in Sigs
      BY <1>3 DEF ReadDocument, Sigs
    <3>3. PICK d \in SUBSET Sigs : doc' = [doc EXCEPT ![w] = d]
      BY <1>3, <2>1, <3>1, <3>2 DEF ReadDocument
    <3>4. QED
      BY <1>3, <2>1, <3>3 DEF ReadDocument
  <2>2. CASE pub \notin HostKeys
    BY <1>3, <2>2 DEF ReadDocument
  <2>3. QED
    BY <2>1, <2>2
<1>4. CASE OpenTmp(w)
  BY <1>4 DEF OpenTmp
<1>5. CASE WriteTmp(w)
  <2>1. [ent |-> doc[w]] \in Documents
    BY DEF Documents
  <2>2. tmp' \in Documents \cup {Absent, Bad} /\ sigs' \in Documents \cup {Absent, Bad}
    BY <1>5, <2>1 DEF WriteTmp, Landed
  <2>3. QED
    BY <1>5, <2>2 DEF WriteTmp
<1>6. CASE RenameTmp(w)
  <2>1. TypeOK'
    BY <1>6 DEF RenameTmp
  <2>2. LocalsOK'
    BY <1>6 DEF RenameTmp
  <2>3. QED
    BY <2>1, <2>2
<1>7. QED
  BY <1>1, <1>2, <1>3, <1>4, <1>5, <1>6 DEF SignStep

LEMMA TypeUnsealStep ==
    ASSUME TypeInv, NEW w \in Workers, UnsealStep(w)
    PROVE  TypeInv'
<1> USE DEF TypeInv, TypeOK, LocalsOK, PCs, KeyPcs, SignPcs
<1>1. CASE LoadEnvelope(w)
  <2>1. env[slot[w]] \in Envelopes
    BY <1>1 DEF LoadEnvelope
  <2>2. env[slot[w]].by \in HostKeys \cup {NoKey}
    BY <2>1 DEF Envelopes
  <2>3. PICK p \in {"ok", "fail", "classify"} : pc' = [pc EXCEPT ![w] = p]
    BY <1>1 DEF LoadEnvelope
  <2>4. QED
    BY <1>1, <2>1, <2>2, <2>3 DEF LoadEnvelope
<1>2. CASE FindAndVerify(w)
  BY <1>2 DEF FindAndVerify
<1>3. QED
  BY <1>1, <1>2 DEF UnsealStep

LEMMA TypeNext ==
    ASSUME TypeInv, [Next]_vars PROVE TypeInv'
<1>1. ASSUME NEW w \in Workers, Fails(w) PROVE TypeInv'
  <2>1. TypeOK'
    BY <1>1 DEF Fails, Unplanned, AfterSign, TypeInv, TypeOK, PCs
  <2>2. LocalsOK'
    BY <1>1 DEF Fails, Unplanned, AfterSign, TypeInv, TypeOK, LocalsOK, PCs,
                KeyPcs, SignPcs
  <2>3. QED
    BY <2>1, <2>2 DEF TypeInv
<1>2. ASSUME NEW s \in Pols, NEW b \in BootModes, Reboot(s, b) PROVE TypeInv'
  BY <1>2 DEF Reboot, TypeInv, TypeOK, LocalsOK, PCs, KeyPcs, SignPcs
<1>3. CASE UNCHANGED vars
  BY <1>3 DEF vars, TypeInv, TypeOK, LocalsOK
<1>4. QED
  BY <1>1, <1>2, <1>3, TypeStart, TypeFinish, TypeKeyStep, TypeSealStep,
     TypeSignStep, TypeUnsealStep DEF Next, Step

\* Every file, envelope and local of the sealing code keeps its type, however
\* handlers interleave, fail and are cut off.
THEOREM TypeCorrect == Spec => []TypeOK
<1>1. Spec => []TypeInv
  BY TypeInit, TypeNext, PTL DEF Spec
<1>2. TypeInv => TypeOK
  BY DEF TypeInv
<1>3. QED
  BY <1>1, <1>2, PTL

-----------------------------------------------------------------------------
(* Secure Boot gates the signatures and the release of bound secrets.      *)

\* The part of SignerInv about one worker, given that the files are fine.
WorkerInv(w) ==
    /\ \A s \in doc[w] : s.pol \in OnStates
    /\ pc[w] = "ok" /\ op[w] = "unseal" /\ new[w].kind \in {"literal", "host"}
         => SecureBoot
    /\ Bound(new[w])
    /\ pc[w] \in KeyPcs \cup SignPcs \cup {"literal"} => SecureBoot
    /\ pc[w] = "classify" /\ op[w] = "seal" => SecureBoot

FilesInv ==
    /\ \A s \in Entries(sigs) \cup Entries(tmp) : s.pol \in OnStates
    /\ \A s \in Slots : Bound(env[s])

LEMMA SignerInvParts ==
    SignerInv <=> FilesInv /\ \A w \in Workers : WorkerInv(w)
BY DEF SignerInv, FilesInv, WorkerInv, NeverBlessed, WithheldWithoutSecureBoot

\* A step of worker w within a boot: only its own part and the files matter.
LEMMA OneWorker ==
    ASSUME TypeInv, SignerInv, NEW w \in Workers, UNCHANGED pcr,
           FilesInv', WorkerInv(w)',
           \A x \in Workers \ {w} : /\ pc'[x] = pc[x] /\ op'[x] = op[x]
                                    /\ new'[x] = new[x] /\ doc'[x] = doc[x]
    PROVE  SignerInv'
<1>1. \A x \in Workers \ {w} : WorkerInv(x)'
  BY SignerInvParts DEF WorkerInv, SecureBoot
<1>2. (\A x \in Workers : WorkerInv(x))'
  BY <1>1
<1>3. QED
  BY <1>2 DEF SignerInv, FilesInv, WorkerInv, NeverBlessed,
              WithheldWithoutSecureBoot

\* Steps that leave the signature files and the envelopes alone.
LEMMA FilesStay ==
    ASSUME SignerInv, UNCHANGED <<sigs, tmp, env>>
    PROVE  FilesInv'
BY SignerInvParts DEF FilesInv

\* What is sealed now is bound only when Secure Boot is on.
LEMMA SealedBound ==
    ASSUME TypeOK, NEW k, NEW key,
           k \in {"literal", "host"} => SecureBoot
    PROVE  Bound(Sealed(k, key))
BY SignerAssumption DEF TypeOK, Bound, Sealed, SecureBoot, Pols

LEMMA GateKeyStep ==
    ASSUME TypeInv, SignerInv, NEW w \in Workers, KeyStep(w)
    PROVE  SignerInv'
<1>w. WorkerInv(w)
  BY SignerInvParts
<1> USE DEF KeyPcs, SignPcs
<1>1. CASE Plan(w)
  <2>1. FilesInv'
    BY <1>1, FilesStay DEF Plan
  <2>2. CASE Goto(w, "exists") /\ UNCHANGED new /\ SecureBoot
    <3>1. WorkerInv(w)'
      BY <1>1, <1>w, <2>2 DEF Plan, WorkerInv, TypeInv, TypeOK, SecureBoot
    <3>2. QED
      BY <1>1, <2>1, <2>2, <3>1, OneWorker DEF Plan, TypeInv, TypeOK
  <2>3. ASSUME NEW k \in {"none", "systemd"},
               new' = [new EXCEPT ![w] = Sealed(k, NoKey)],
               Goto(w, IF op[w] = "seal" THEN "store" ELSE "ok")
        PROVE  SignerInv'
    <3>1. Bound(Sealed(k, NoKey))
      BY <2>3, SealedBound DEF TypeInv
    <3>2. op[w] # "unseal"
      BY <1>1 DEF Plan, TypeInv, LocalsOK
    <3>3. new'[w] = Sealed(k, NoKey)
      BY <2>3 DEF TypeInv, TypeOK
    <3>4. pc'[w] \in {"store", "ok"} /\ op' = op /\ doc' = doc /\ pcr' = pcr
      BY <1>1, <2>3 DEF Plan, TypeInv, TypeOK
    <3>5. WorkerInv(w)'
      BY <1>w, <3>1, <3>2, <3>3, <3>4 DEF WorkerInv, Bound
    <3>6. QED
      BY <1>1, <2>1, <2>3, <3>5, OneWorker DEF Plan, TypeInv, TypeOK
  <2>4. QED
    BY <1>1, <2>2, <2>3 DEF Plan, Reported
<1>2. CASE CheckHostKey(w)
  <2>1. FilesInv'
    BY <1>2, FilesStay DEF CheckHostKey
  <2>2. WorkerInv(w)'
    BY <1>2, <1>w DEF CheckHostKey, WorkerInv, TypeInv, TypeOK, SecureBoot
  <2>3. QED
    BY <1>2, <2>1, <2>2, OneWorker DEF CheckHostKey, TypeInv, TypeOK
<1>3. CASE ReadPriv(w)
  <2>1. FilesInv'
    BY <1>3, FilesStay DEF ReadPriv
  <2>2. WorkerInv(w)'
    BY <1>3, <1>w DEF ReadPriv, Planned, Unplanned, WorkerInv, TypeInv, TypeOK,
                      LocalsOK, SecureBoot
  <2>3. QED
    BY <1>3, <2>1, <2>2, OneWorker DEF ReadPriv, TypeInv, TypeOK
<1>4. CASE OpenPriv(w)
  <2>1. FilesInv'
    BY <1>4, FilesStay DEF OpenPriv
  <2>2. WorkerInv(w)'
    BY <1>4, <1>w DEF OpenPriv, WorkerInv, TypeInv, TypeOK, SecureBoot
  <2>3. QED
    BY <1>4, <2>1, <2>2, OneWorker DEF OpenPriv, TypeInv, TypeOK
<1>5. CASE WritePriv(w)
  <2>1. FilesInv'
    BY <1>5, FilesStay DEF WritePriv
  <2>2. WorkerInv(w)'
    BY <1>5, <1>w DEF WritePriv, WorkerInv, TypeInv, TypeOK, SecureBoot
  <2>3. QED
    BY <1>5, <2>1, <2>2, OneWorker DEF WritePriv, TypeInv, TypeOK
<1>6. CASE OpenPub(w)
  <2>1. FilesInv'
    BY <1>6, FilesStay DEF OpenPub
  <2>2. WorkerInv(w)'
    BY <1>6, <1>w DEF OpenPub, WorkerInv, TypeInv, TypeOK, SecureBoot
  <2>3. QED
    BY <1>6, <2>1, <2>2, OneWorker DEF OpenPub, TypeInv, TypeOK
<1>7. CASE WritePub(w)
  <2>1. FilesInv'
    BY <1>7, FilesStay DEF WritePub
  <2>2. WorkerInv(w)'
    BY <1>7, <1>w DEF WritePub, Planned, WorkerInv, TypeInv, TypeOK, LocalsOK,
                      SecureBoot
  <2>3. QED
    BY <1>7, <2>1, <2>2, OneWorker DEF WritePub, TypeInv, TypeOK
<1>8. QED
  BY <1>1, <1>2, <1>3, <1>4, <1>5, <1>6, <1>7 DEF KeyStep

LEMMA GateSealStep ==
    ASSUME TypeInv, SignerInv, NEW w \in Workers, SealStep(w)
    PROVE  SignerInv'
<1>w. WorkerInv(w)
  BY SignerInvParts
<1> USE DEF KeyPcs, SignPcs
<1>1. CASE SealLiteral(w)
  <2>1. FilesInv'
    BY <1>1, FilesStay DEF SealLiteral
  <2>2. Bound(Sealed("literal", NoKey))
    BY <1>1, <1>w, SealedBound DEF SealLiteral, WorkerInv, TypeInv
  <2>3. /\ new'[w] = Sealed("literal", NoKey) /\ pc'[w] = "store"
        /\ op' = op /\ doc' = doc /\ pcr' = pcr
    BY <1>1 DEF SealLiteral, TypeInv, TypeOK
  <2>4. WorkerInv(w)'
    BY <1>w, <2>2, <2>3 DEF WorkerInv, Bound
  <2>5. QED
    BY <1>1, <2>1, <2>4, OneWorker DEF SealLiteral, TypeInv, TypeOK
<1>2. CASE Classify(w)
  <2>1. FilesInv'
    BY <1>2, FilesStay DEF Classify
  <2>2. op[w] \in {"seal", "unseal"}
    BY <1>2 DEF Classify, TypeInv, LocalsOK
  <2>3. op' = op /\ doc' = doc /\ pcr' = pcr
    BY <1>2 DEF Classify
  <2>4. pc'[w] \in {"sign", "find", "fail"} /\ (pc'[w] = "sign" => SecureBoot)
    BY <1>2, <1>w, <2>2 DEF Classify, Reported, WorkerInv, TypeInv, TypeOK
  <2>5. new'[w] = new[w] \/ (op[w] = "seal" /\ new'[w] = Sealed("host", pem[w]))
    BY <1>2 DEF Classify, TypeInv, TypeOK
  <2>6. op[w] = "seal" => Bound(Sealed("host", pem[w]))
    BY <1>2, <1>w, SealedBound DEF Classify, WorkerInv, TypeInv
  <2>7. WorkerInv(w)'
    BY <1>w, <2>3, <2>4, <2>5, <2>6 DEF WorkerInv, Bound, SecureBoot
  <2>8. QED
    BY <1>2, <2>1, <2>7, OneWorker DEF Classify, TypeInv, TypeOK
<1>3. CASE StoreEnvelope(w)
  <2>1. op[w] = "seal"
    BY <1>3 DEF StoreEnvelope, TypeInv, LocalsOK
  <2>2. FilesInv'
    <3>1. \A s \in Slots : env'[s] \in {env[s], new[w]}
      BY <1>3 DEF StoreEnvelope, TypeInv, TypeOK
    <3>2. UNCHANGED <<sigs, tmp>>
      BY <1>3 DEF StoreEnvelope
    <3>3. QED
      BY <1>w, <3>1, <3>2, SignerInvParts DEF FilesInv, WorkerInv, Bound
  <2>3. WorkerInv(w)'
    BY <1>3, <1>w, <2>1 DEF StoreEnvelope, WorkerInv, TypeInv, TypeOK, SecureBoot
  <2>4. QED
    BY <1>3, <2>2, <2>3, OneWorker DEF StoreEnvelope, TypeInv, TypeOK
<1>4. QED
  BY <1>1, <1>2, <1>3 DEF SealStep

LEMMA GateSignStep ==
    ASSUME TypeInv, SignerInv, NEW w \in Workers, SignStep(w)
    PROVE  SignerInv'
<1>w. WorkerInv(w) /\ FilesInv
  BY SignerInvParts
<1> USE DEF KeyPcs, SignPcs, AfterSign
<1>s. SecureBoot
  BY <1>w DEF SignStep, LookForSignature, SignPolicy, ReadDocument, OpenTmp, WriteTmp,
              RenameTmp, WorkerInv
<1>1. CASE LookForSignature(w)
  <2>1. FilesInv'
    BY <1>1, FilesStay DEF LookForSignature
  <2>2. WorkerInv(w)'
    BY <1>1, <1>w, <1>s DEF LookForSignature, WorkerInv, TypeInv, TypeOK, SecureBoot
  <2>3. QED
    BY <1>1, <2>1, <2>2, OneWorker DEF LookForSignature, TypeInv, TypeOK
<1>2. CASE SignPolicy(w)
  <2>1. FilesInv'
    BY <1>2, FilesStay DEF SignPolicy
  <2>2. WorkerInv(w)'
    BY <1>2, <1>w, <1>s DEF SignPolicy, WorkerInv, TypeInv, TypeOK, SecureBoot
  <2>3. QED
    BY <1>2, <2>1, <2>2, OneWorker DEF SignPolicy, TypeInv, TypeOK
<1>3. CASE ReadDocument(w)
  <2>1. FilesInv'
    BY <1>3, FilesStay DEF ReadDocument
  <2>2. \A s \in doc'[w] : s.pol \in OnStates
    <3>1. doc'[w] \subseteq doc[w] \cup Entries(sigs) \cup {[pol |-> pcr, by |-> sk[w]]}
      BY <1>3 DEF ReadDocument, TypeInv, TypeOK
    <3>2. QED
      BY <1>w, <1>s, <3>1 DEF FilesInv, WorkerInv, SecureBoot
  <2>3. WorkerInv(w)'
    BY <1>3, <1>w, <1>s, <2>2 DEF ReadDocument, WorkerInv, TypeInv, TypeOK, SecureBoot
  <2>4. QED
    BY <1>3, <2>1, <2>3, OneWorker DEF ReadDocument, TypeInv, TypeOK
<1>4. CASE OpenTmp(w)
  <2>1. FilesInv'
    BY <1>4, <1>w DEF OpenTmp, FilesInv, Entries
  <2>2. WorkerInv(w)'
    BY <1>4, <1>w, <1>s DEF OpenTmp, WorkerInv, TypeInv, TypeOK, SecureBoot
  <2>3. QED
    BY <1>4, <2>1, <2>2, OneWorker DEF OpenTmp, TypeInv, TypeOK
<1>5. CASE WriteTmp(w)
  <2>1. /\ tmp' \in {tmp, [ent |-> doc[w]], Bad}
        /\ sigs' \in {sigs, [ent |-> doc[w]], Bad} /\ UNCHANGED env
    BY <1>5 DEF WriteTmp, Landed
  <2>2. /\ Entries(tmp') \subseteq Entries(tmp) \cup doc[w]
        /\ Entries(sigs') \subseteq Entries(sigs) \cup doc[w]
    BY <2>1 DEF Entries
  <2>3. FilesInv'
    BY <1>w, <2>1, <2>2 DEF FilesInv, WorkerInv
  <2>4. WorkerInv(w)'
    BY <1>5, <1>w, <1>s DEF WriteTmp, WorkerInv, TypeInv, TypeOK, SecureBoot
  <2>5. QED
    BY <1>5, <2>3, <2>4, OneWorker DEF WriteTmp, TypeInv, TypeOK
<1>6. CASE RenameTmp(w)
  <2>1. sigs' \in {sigs, tmp} /\ tmp' \in {tmp, Absent} /\ UNCHANGED env
    BY <1>6 DEF RenameTmp
  <2>2. FilesInv'
    BY <1>w, <2>1 DEF FilesInv, Entries
  <2>3. WorkerInv(w)'
    BY <1>6, <1>w, <1>s DEF RenameTmp, WorkerInv, TypeInv, TypeOK, SecureBoot
  <2>4. QED
    BY <1>6, <2>2, <2>3, OneWorker DEF RenameTmp, TypeInv, TypeOK
<1>7. QED
  BY <1>1, <1>2, <1>3, <1>4, <1>5, <1>6 DEF SignStep

LEMMA GateUnsealStep ==
    ASSUME TypeInv, SignerInv, NEW w \in Workers, UnsealStep(w)
    PROVE  SignerInv'
<1>w. WorkerInv(w) /\ FilesInv
  BY SignerInvParts
<1> USE DEF KeyPcs, SignPcs
<1>1. CASE LoadEnvelope(w)
  <2>1. FilesInv'
    BY <1>1, FilesStay DEF LoadEnvelope
  <2>2. PICK e \in Envelopes : e = env[slot[w]]
    BY <1>1 DEF LoadEnvelope, TypeInv, LocalsOK
  <2>3. Bound(e) /\ e # NoEnv
    BY <1>w, <2>2, SignerAssumption DEF FilesInv, TypeInv, TypeOK
  <2>4. /\ new'[w] = e /\ op' = op /\ doc' = doc /\ pcr' = pcr /\ op[w] = "unseal"
        /\ pc'[w] \in {"ok", "fail", "classify"}
        /\ pc'[w] = "ok" => e.kind # "host" /\ (e.kind = "literal" => e.pcr = pcr)
    BY <1>1, <2>2 DEF LoadEnvelope, TypeInv, TypeOK, LocalsOK
  <2>5. pc'[w] = "ok" /\ e.kind = "literal" => SecureBoot
    BY <2>3, <2>4 DEF Bound, SecureBoot, TypeInv, TypeOK, Pols
  <2>6. WorkerInv(w)'
    BY <1>w, <2>3, <2>4, <2>5 DEF WorkerInv, Bound, SecureBoot
  <2>7. QED
    BY <1>1, <2>1, <2>6, OneWorker DEF LoadEnvelope, TypeInv, TypeOK
<1>2. CASE FindAndVerify(w)
  <2>1. FilesInv'
    BY <1>2, FilesStay DEF FindAndVerify
  <2>2. pc'[w] \in {"ok", "fail"} /\ (pc'[w] = "ok" => SecureBoot)
    BY <1>2, <1>w DEF FindAndVerify, FilesInv, SecureBoot, TypeInv, TypeOK
  <2>3. WorkerInv(w)'
    BY <1>2, <1>w, <2>2 DEF FindAndVerify, WorkerInv, TypeInv, TypeOK, SecureBoot
  <2>4. QED
    BY <1>2, <2>1, <2>3, OneWorker DEF FindAndVerify, TypeInv, TypeOK
<1>3. QED
  BY <1>1, <1>2 DEF UnsealStep

LEMMA GateNext ==
    ASSUME TypeInv, SignerInv, [Next]_vars PROVE SignerInv'
<1> USE DEF KeyPcs, SignPcs
<1>1. ASSUME NEW w \in Workers, NEW o \in Ops, NEW s \in Slots, Start(w, o, s)
      PROVE  SignerInv'
  <2>1. FilesInv'
    BY <1>1, FilesStay DEF Start
  <2>2. WorkerInv(w)'
    BY <1>1, SignerInvParts DEF Start, WorkerInv, TypeInv, TypeOK
  <2>3. QED
    BY <1>1, <2>1, <2>2, OneWorker DEF Start, TypeInv, TypeOK
<1>2. ASSUME NEW w \in Workers, Finish(w) PROVE SignerInv'
  <2>1. FilesInv'
    BY <1>2, FilesStay DEF Finish
  <2>2. WorkerInv(w)'
    BY <1>2 DEF Finish, WorkerInv, Bound, TypeInv, TypeOK
  <2>3. QED
    BY <1>2, <2>1, <2>2, OneWorker DEF Finish, TypeInv, TypeOK
<1>3. ASSUME NEW w \in Workers, Fails(w) PROVE SignerInv'
  <2>1. FilesInv'
    BY <1>3, FilesStay DEF Fails
  <2>2. WorkerInv(w)
    BY SignerInvParts
  <2>3. /\ pc'[w] \in {"literal", "ok", "find", "fail"}
        /\ pc'[w] = "literal" => pc[w] \in KeyPcs
        /\ pc'[w] = "ok" => op[w] # "unseal"
        /\ op' = op /\ new' = new /\ doc' = doc /\ pcr' = pcr
    BY <1>3 DEF Fails, Unplanned, AfterSign, TypeInv, TypeOK, LocalsOK
  <2>4. WorkerInv(w)'
    BY <2>2, <2>3 DEF WorkerInv, SecureBoot
  <2>5. QED
    BY <1>3, <2>1, <2>4, OneWorker DEF Fails, TypeInv, TypeOK
<1>4. ASSUME NEW s \in Pols, NEW b \in BootModes, Reboot(s, b) PROVE SignerInv'
  <2>1. FilesInv'
    BY <1>4, FilesStay DEF Reboot
  <2>2. ASSUME NEW w \in Workers PROVE WorkerInv(w)'
    BY <1>4, <2>2 DEF Reboot, WorkerInv, Bound
  <2>3. QED
    BY <2>1, <2>2 DEF SignerInv, FilesInv, WorkerInv, NeverBlessed,
                      WithheldWithoutSecureBoot
<1>5. CASE UNCHANGED vars
  <2>1. FilesInv'
    BY <1>5, FilesStay DEF vars
  <2>2. ASSUME NEW w \in Workers PROVE WorkerInv(w)'
    BY <1>5, <2>2, SignerInvParts DEF vars, WorkerInv, Bound, SecureBoot
  <2>3. QED
    BY <2>1, <2>2 DEF SignerInv, FilesInv, WorkerInv, NeverBlessed,
                      WithheldWithoutSecureBoot
<1>6. QED
  BY <1>1, <1>2, <1>3, <1>4, <1>5, GateKeyStep, GateSealStep, GateSignStep,
     GateUnsealStep DEF Next, Step

LEMMA GateInit == Init => SignerInv
BY SignerAssumption
   DEF Init, SignerInv, NeverBlessed, WithheldWithoutSecureBoot,
       Bound, Entries, KeyPcs, SignPcs

LEMMA GateInvariance == Spec => [](TypeInv /\ SignerInv)
<1>1. Init => TypeInv /\ SignerInv
  BY TypeInit, GateInit
<1>2. TypeInv /\ SignerInv /\ [Next]_vars => (TypeInv /\ SignerInv)'
  BY TypeNext, GateNext
<1>3. QED
  BY <1>1, <1>2, PTL DEF Spec

\* No interleaving of handlers, failures and reboots ever signs a PCR state
\* without Secure Boot.
THEOREM NoBlessing == Spec => []NeverBlessed
<1>1. SignerInv => NeverBlessed
  BY DEF SignerInv
<1>2. QED
  BY <1>1, GateInvariance, PTL

\* A PCR-7 bound secret is released in a Secure Boot boot only.
THEOREM Withheld == Spec => []WithheldWithoutSecureBoot
<1>1. SignerInv => WithheldWithoutSecureBoot
  BY DEF SignerInv
<1>2. QED
  BY <1>1, GateInvariance, PTL

-----------------------------------------------------------------------------
(* One operation at a time: the key pair, the signature file and the       *)
(* host-bound envelopes fit together, so that the self-heal succeeds.      *)

\* The key pair is complete as soon as the public half can be read, and only
\* then are there signatures or host-bound envelopes, all of that key.
KeyFiles ==
    /\ pub \in HostKeys => priv = pub
    /\ pub \notin HostKeys => sigs = Absent
    /\ sigs # Bad
    /\ \A e \in Entries(sigs) : e.by = pub

HostEnvelopes ==
    \A s \in Slots : env[s] # NoEnv /\ env[s].kind = "host"
                        => env[s].by = pub /\ pub \in HostKeys

\* Within the generation: which half of the pair has been written.
Generating(w) ==
    /\ pc[w] \in {"genPriv", "genPrivW", "genPub"} => pub = Absent
    /\ pc[w] = "genPrivW" => priv = Bad
    /\ pc[w] \in {"genPub", "genPubW"} => priv = sk[w]
    /\ pc[w] = "genPubW" => pub = Bad

\* What is sealed or unsealed through the host signer names the key on disk.
Naming(w) ==
    /\ pc[w] \in SignPcs => pub \in HostKeys /\ new[w].kind = "host"
    /\ pc[w] \in SignPcs \cup {"store"} /\ new[w].kind = "host"
         => new[w].by = pub /\ pub \in HostKeys
    /\ pc[w] \in SignPcs \cup {"classify", "find"} /\ op[w] = "unseal"
         => /\ new[w].kind = "host" /\ new[w].by = pub
            /\ pem[w] = pub /\ pub \in HostKeys

\* The document in hand has the old entries and one for the running boot, and
\* the temporary file is w's own until it is renamed.
Signing(w) ==
    /\ pc[w] = "persist" => sk[w] = pub
    /\ pc[w] \in {"tmpOpen", "tmpWrite", "rename"} =>
         /\ Entries(sigs) \subseteq doc[w]
         /\ \E e \in doc[w] : e.pol = pcr
         /\ \A e \in doc[w] : e.by = pub
    /\ pc[w] = "tmpWrite" => fd[w] = "tmp" /\ tmp = Bad
    /\ pc[w] = "rename" => tmp = [ent |-> doc[w]]

\* Unless something failed, the lookup finds the running boot's signature.
Finding(w) ==
    /\ pc[w] = "find" /\ SecureBoot => hurt[w] \/ Covers(sigs)
    /\ pc[w] = "fail" /\ op[w] = "unseal" /\ new[w] # NoEnv
         => hurt[w] \/ new[w].kind # "host" \/ ~SecureBoot

Alone == \A v, w \in Workers : pc[v] # "idle" /\ pc[w] # "idle" => v = w

WorkerHeals(w) == Generating(w) /\ Naming(w) /\ Signing(w) /\ Finding(w)

HealInv ==
    /\ Alone
    /\ KeyFiles
    /\ HostEnvelopes
    /\ \A w \in Workers : WorkerHeals(w)

\* At these locations nothing is claimed of a worker.
Unclaimed == {"idle", "plan", "exists", "readPriv", "literal", "load", "ok"}

LEMMA UnclaimedHeals ==
    ASSUME NEW w \in Workers, pc[w] \in Unclaimed
    PROVE  WorkerHeals(w)
BY DEF Unclaimed, WorkerHeals, Generating, Naming, Signing, Finding, SignPcs

\* Only the worker that moves matters: the others are idle.
LEMMA OneHeals ==
    ASSUME HealInv, NEW w \in Workers, pc[w] # "idle" \/ Quiet,
           \A x \in Workers \ {w} : pc'[x] = pc[x],
           KeyFiles', HostEnvelopes', WorkerHeals(w)'
    PROVE  HealInv'
<1>1. \A x \in Workers \ {w} : pc'[x] = "idle"
  BY DEF HealInv, Alone, Quiet
<1>2. Alone'
  BY <1>1 DEF Alone
<1>3. ASSUME NEW x \in Workers \ {w} PROVE WorkerHeals(x)'
  <2>1. pc'[x] = "idle"
    BY <1>1
  <2>2. QED
    BY <2>1 DEF WorkerHeals, Generating, Naming, Signing, Finding, SignPcs
<1>4. QED
  BY <1>2, <1>3 DEF HealInv

LEMMA HealFilesStay ==
    ASSUME HealInv, UNCHANGED <<priv, pub, sigs, env>>
    PROVE  KeyFiles' /\ HostEnvelopes'
BY DEF HealInv, KeyFiles, HostEnvelopes

\* Steps that leave the files alone and come to a location without a claim.
LEMMA HealAside ==
    ASSUME HealInv, TypeInv, NEW w \in Workers, pc[w] # "idle" \/ Quiet,
           UNCHANGED <<priv, pub, sigs, env>>,
           NEW p \in Unclaimed, pc' = [pc EXCEPT ![w] = p]
    PROVE  HealInv'
<1>1. pc'[w] \in Unclaimed /\ \A x \in Workers \ {w} : pc'[x] = pc[x]
  BY DEF TypeInv, TypeOK
<1>2. WorkerHeals(w)'
  BY <1>1 DEF Unclaimed, WorkerHeals, Generating, Naming, Signing, Finding, SignPcs
<1>3. QED
  BY <1>1, <1>2, HealFilesStay, OneHeals

LEMMA HealKeyStep ==
    ASSUME TypeInv, HealInv, NEW w \in Workers, KeyStep(w)
    PROVE  HealInv'
<1>w. WorkerHeals(w) /\ KeyFiles /\ HostEnvelopes
  BY DEF HealInv
<1>b. pc[w] # "idle"
  BY DEF KeyStep, Plan, CheckHostKey, ReadPriv, OpenPriv, WritePriv, OpenPub, WritePub
<1> USE SignerAssumption
<1>1. CASE Plan(w)
  <2>1. CASE Goto(w, "exists")
    BY <1>1, <1>b, <2>1, HealAside DEF Plan, Unclaimed
  <2>2. ASSUME NEW k \in {"none", "systemd"},
               new' = [new EXCEPT ![w] = Sealed(k, NoKey)],
               Goto(w, IF op[w] = "seal" THEN "store" ELSE "ok")
        PROVE  HealInv'
    <3>1. new'[w].kind # "host"
      BY <2>2 DEF TypeInv, TypeOK, Sealed
    <3>2. pc'[w] \in {"store", "ok"} /\ \A x \in Workers \ {w} : pc'[x] = pc[x]
      BY <2>2 DEF TypeInv, TypeOK
    <3>3. WorkerHeals(w)'
      BY <3>1, <3>2 DEF WorkerHeals, Generating, Naming, Signing, Finding, SignPcs
    <3>4. KeyFiles' /\ HostEnvelopes'
      BY <1>1, HealFilesStay DEF Plan
    <3>5. QED
      BY <1>b, <3>2, <3>3, <3>4, OneHeals
  <2>3. QED
    BY <1>1, <2>1, <2>2 DEF Plan
<1>2. CASE CheckHostKey(w)
  <2>1. KeyFiles' /\ HostEnvelopes'
    BY <1>2, HealFilesStay DEF CheckHostKey
  <2>2. /\ pc'[w] \in {"genPriv", "readPriv"} /\ (pc'[w] = "genPriv" => pub' = Absent)
        /\ \A x \in Workers \ {w} : pc'[x] = pc[x]
    BY <1>2 DEF CheckHostKey, TypeInv, TypeOK
  <2>3. WorkerHeals(w)'
    BY <2>2 DEF WorkerHeals, Generating, Naming, Signing, Finding, SignPcs
  <2>4. QED
    BY <1>b, <2>1, <2>2, <2>3, OneHeals
<1>3. CASE ReadPriv(w)
  <2>1. KeyFiles' /\ HostEnvelopes'
    BY <1>3, HealFilesStay DEF ReadPriv
  <2>2. /\ pc'[w] \in {"classify", "literal", "ok"} /\ op'[w] # "unseal"
        /\ \A x \in Workers \ {w} : pc'[x] = pc[x]
    BY <1>3 DEF ReadPriv, Planned, Unplanned, TypeInv, TypeOK, LocalsOK, KeyPcs
  <2>3. WorkerHeals(w)'
    BY <2>2 DEF WorkerHeals, Generating, Naming, Signing, Finding, SignPcs
  <2>4. QED
    BY <1>b, <2>1, <2>2, <2>3, OneHeals
<1>4. CASE OpenPriv(w)
  <2>1. pub' = Absent /\ priv' = Bad /\ UNCHANGED <<pub, sigs, env>>
    BY <1>4, <1>w DEF OpenPriv, WorkerHeals, Generating
  <2>2. KeyFiles' /\ HostEnvelopes'
    BY <1>w, <2>1 DEF KeyFiles, HostEnvelopes
  <2>3. pc'[w] = "genPrivW" /\ \A x \in Workers \ {w} : pc'[x] = pc[x]
    BY <1>4 DEF OpenPriv, TypeInv, TypeOK
  <2>4. WorkerHeals(w)'
    BY <2>1, <2>3 DEF WorkerHeals, Generating, Naming, Signing, Finding, SignPcs
  <2>5. QED
    BY <1>b, <2>2, <2>3, <2>4, OneHeals
<1>5. CASE WritePriv(w)
  <2>1. pub' = Absent /\ priv' = sk[w] /\ UNCHANGED <<pub, sigs, env, sk>>
    BY <1>5, <1>w DEF WritePriv, Landed, WorkerHeals, Generating
  <2>2. KeyFiles' /\ HostEnvelopes'
    BY <1>w, <2>1 DEF KeyFiles, HostEnvelopes
  <2>3. pc'[w] = "genPub" /\ \A x \in Workers \ {w} : pc'[x] = pc[x]
    BY <1>5 DEF WritePriv, TypeInv, TypeOK
  <2>4. WorkerHeals(w)'
    BY <2>1, <2>3 DEF WorkerHeals, Generating, Naming, Signing, Finding, SignPcs
  <2>5. QED
    BY <1>b, <2>2, <2>3, <2>4, OneHeals
<1>6. CASE OpenPub(w)
  <2>1. pub = Absent /\ pub' = Bad /\ priv = sk[w] /\ UNCHANGED <<priv, sigs, env, sk>>
    BY <1>6, <1>w DEF OpenPub, WorkerHeals, Generating
  <2>2. sigs = Absent /\ KeyFiles' /\ HostEnvelopes'
    BY <1>w, <2>1 DEF KeyFiles, HostEnvelopes, Entries
  <2>3. pc'[w] = "genPubW" /\ \A x \in Workers \ {w} : pc'[x] = pc[x]
    BY <1>6 DEF OpenPub, TypeInv, TypeOK
  <2>4. WorkerHeals(w)'
    BY <2>1, <2>3 DEF WorkerHeals, Generating, Naming, Signing, Finding, SignPcs
  <2>5. QED
    BY <1>b, <2>2, <2>3, <2>4, OneHeals
<1>7. CASE WritePub(w)
  <2>1. /\ pub = Bad /\ pub' = sk[w] /\ priv = sk[w] /\ sk[w] \in HostKeys
        /\ UNCHANGED <<priv, sigs, env, sk>>
    BY <1>7, <1>w DEF WritePub, Landed, WorkerHeals, Generating, TypeInv, LocalsOK
  <2>2. sigs = Absent /\ KeyFiles' /\ HostEnvelopes'
    BY <1>w, <2>1 DEF KeyFiles, HostEnvelopes, Entries
  <2>3. /\ pc'[w] \in {"classify", "ok"} /\ op'[w] # "unseal"
        /\ \A x \in Workers \ {w} : pc'[x] = pc[x]
    BY <1>7 DEF WritePub, Planned, TypeInv, TypeOK, LocalsOK, KeyPcs
  <2>4. WorkerHeals(w)'
    BY <2>3 DEF WorkerHeals, Generating, Naming, Signing, Finding, SignPcs
  <2>5. QED
    BY <1>b, <2>2, <2>3, <2>4, OneHeals
<1>8. QED
  BY <1>1, <1>2, <1>3, <1>4, <1>5, <1>6, <1>7 DEF KeyStep

LEMMA HealSealStep ==
    ASSUME TypeInv, HealInv, NEW w \in Workers, SealStep(w)
    PROVE  HealInv'
<1>w. WorkerHeals(w) /\ KeyFiles /\ HostEnvelopes
  BY DEF HealInv
<1>b. pc[w] # "idle"
  BY DEF SealStep, SealLiteral, Classify, StoreEnvelope
<1>1. CASE SealLiteral(w)
  <2>1. KeyFiles' /\ HostEnvelopes'
    BY <1>1, HealFilesStay DEF SealLiteral
  <2>2. /\ pc'[w] = "store" /\ new'[w].kind # "host"
        /\ \A x \in Workers \ {w} : pc'[x] = pc[x]
    BY <1>1 DEF SealLiteral, Sealed, TypeInv, TypeOK
  <2>3. WorkerHeals(w)'
    BY <2>2 DEF WorkerHeals, Generating, Naming, Signing, Finding, SignPcs
  <2>4. QED
    BY <1>b, <2>1, <2>2, <2>3, OneHeals
<1>2. CASE Classify(w)
  <2>1. KeyFiles' /\ HostEnvelopes'
    BY <1>2, HealFilesStay DEF Classify
  <2>2. /\ pc[w] = "classify" /\ op[w] \in {"seal", "unseal"}
        /\ UNCHANGED <<pcr, pub, op, pem, sigs>>
        /\ \A x \in Workers \ {w} : pc'[x] = pc[x]
    BY <1>2 DEF Classify, TypeInv, TypeOK, LocalsOK, SignPcs
  <2>3. CASE pem[w] \in HostKeys /\ pub = pem[w] /\ op[w] = "seal"
    <3>1. pc'[w] = "sign" /\ new'[w].kind = "host" /\ new'[w].by = pub
      BY <1>2, <2>3 DEF Classify, Sealed, TypeInv, TypeOK
    <3>2. WorkerHeals(w)'
      BY <2>2, <2>3, <3>1 DEF WorkerHeals, Generating, Naming, Signing, Finding, SignPcs
    <3>3. QED
      BY <1>b, <2>1, <2>2, <3>2, OneHeals
  <2>4. CASE op[w] = "unseal"
    <3>1. /\ new[w].kind = "host" /\ new[w].by = pub
          /\ pem[w] = pub /\ pub \in HostKeys
      BY <1>w, <2>2, <2>4 DEF WorkerHeals, Naming, SignPcs
    <3>2. /\ pc'[w] \in {"sign", "find"} /\ new' = new
          /\ pc'[w] = "find" => ~SecureBoot \/ hurt'[w]
      BY <1>2, <2>4, <3>1 DEF Classify, TypeInv, TypeOK
    <3>3. WorkerHeals(w)'
      BY <2>2, <2>4, <3>1, <3>2
         DEF WorkerHeals, Generating, Naming, Signing, Finding, SignPcs, SecureBoot
    <3>4. QED
      BY <1>b, <2>1, <2>2, <3>3, OneHeals
  <2>5. CASE ~(pem[w] \in HostKeys /\ pub = pem[w]) /\ op[w] = "seal"
    <3>1. pc'[w] = "fail"
      BY <1>2, <2>5 DEF Classify, TypeInv, TypeOK
    <3>2. WorkerHeals(w)'
      BY <2>2, <2>5, <3>1 DEF WorkerHeals, Generating, Naming, Signing, Finding, SignPcs
    <3>3. QED
      BY <1>b, <2>1, <2>2, <3>2, OneHeals
  <2>6. QED
    BY <2>2, <2>3, <2>4, <2>5
<1>3. CASE StoreEnvelope(w)
  <2>1. pc[w] = "store" /\ \A s \in Slots : env'[s] \in {env[s], new[w]}
    BY <1>3 DEF StoreEnvelope, TypeInv, TypeOK
  <2>2. UNCHANGED <<priv, pub, sigs>>
    BY <1>3 DEF StoreEnvelope
  <2>3. KeyFiles'
    BY <1>w, <2>2 DEF KeyFiles
  <2>4. new[w].kind = "host" => new[w].by = pub /\ pub \in HostKeys
    BY <1>w, <2>1 DEF WorkerHeals, Naming
  <2>5. HostEnvelopes'
    BY <1>w, <2>1, <2>2, <2>4 DEF HostEnvelopes
  <2>6. pc'[w] = "ok" /\ \A x \in Workers \ {w} : pc'[x] = pc[x]
    BY <1>3 DEF StoreEnvelope, TypeInv, TypeOK
  <2>7. WorkerHeals(w)'
    BY <2>6 DEF WorkerHeals, Generating, Naming, Signing, Finding, SignPcs
  <2>8. QED
    BY <1>b, <2>3, <2>5, <2>6, <2>7, OneHeals
<1>4. QED
  BY <1>1, <1>2, <1>3 DEF SealStep

LEMMA HealSignStep ==
    ASSUME TypeInv, HealInv, NEW w \in Workers, SignStep(w)
    PROVE  HealInv'
<1>w. WorkerHeals(w) /\ KeyFiles /\ HostEnvelopes
  BY DEF HealInv
<1>b. pc[w] # "idle" /\ pc[w] \in SignPcs
  BY DEF SignStep, LookForSignature, SignPolicy, ReadDocument, OpenTmp, WriteTmp,
         RenameTmp, SignPcs
<1>c. /\ op[w] \in {"seal", "unseal"} /\ new[w].kind = "host" /\ new[w].by = pub
      /\ pub \in HostKeys /\ priv = pub /\ (op[w] = "unseal" => pem[w] = pub)
  BY <1>w, <1>b DEF TypeInv, LocalsOK, WorkerHeals, Naming, KeyFiles
<1> USE SignerAssumption
<1>1. CASE LookForSignature(w)
  <2>1. KeyFiles' /\ HostEnvelopes'
    BY <1>1, HealFilesStay DEF LookForSignature
  <2>2. /\ UNCHANGED <<pcr, pub, op, pem, new, hurt, sigs>>
        /\ \A x \in Workers \ {w} : pc'[x] = pc[x]
    BY <1>1 DEF LookForSignature, TypeInv, TypeOK
  <2>3. pc'[w] = "signKey" \/ (Covers(sigs) /\ pc'[w] \in {"find", "store"})
    BY <1>1, <1>c, <1>w DEF LookForSignature, AfterSign, KeyFiles, TypeInv, TypeOK
  <2>4. Covers(sigs)' <=> Covers(sigs)
    BY <2>2 DEF Covers, Entries
  <2>5. WorkerHeals(w)'
    BY <1>c, <2>2, <2>3, <2>4
       DEF WorkerHeals, Generating, Naming, Signing, Finding, SignPcs
  <2>6. QED
    BY <1>b, <2>1, <2>2, <2>5, OneHeals
<1>2. CASE SignPolicy(w)
  <2>1. KeyFiles' /\ HostEnvelopes'
    BY <1>2, HealFilesStay DEF SignPolicy
  <2>2. /\ UNCHANGED <<pub, op, pem, new>> /\ pc'[w] = "persist" /\ sk'[w] = pub
        /\ \A x \in Workers \ {w} : pc'[x] = pc[x]
    BY <1>2, <1>c DEF SignPolicy, TypeInv, TypeOK
  <2>3. WorkerHeals(w)'
    BY <1>c, <2>2 DEF WorkerHeals, Generating, Naming, Signing, Finding, SignPcs
  <2>4. QED
    BY <1>b, <2>1, <2>2, <2>3, OneHeals
<1>3. CASE ReadDocument(w)
  <2>1. KeyFiles' /\ HostEnvelopes'
    BY <1>3, HealFilesStay DEF ReadDocument
  <2>2. /\ UNCHANGED <<pcr, pub, op, pem, new, sigs>> /\ pc'[w] = "tmpOpen"
        /\ sk[w] = pub
        /\ \A x \in Workers \ {w} : pc'[x] = pc[x]
    BY <1>3, <1>c, <1>w DEF ReadDocument, WorkerHeals, Signing, TypeInv, TypeOK
  <2>3. doc'[w] = Entries(sigs) \cup
                    IF Covers(sigs) THEN {} ELSE {[pol |-> pcr, by |-> sk[w]]}
    BY <1>3, <1>c DEF ReadDocument, TypeInv, TypeOK
  <2>4. Entries(sigs') \subseteq doc'[w]
    BY <2>2, <2>3
  <2>5. \E e \in doc'[w] : e.pol = pcr
    <3>1. CASE Covers(sigs)
      BY <2>3, <3>1 DEF Covers
    <3>2. CASE ~Covers(sigs)
      <4>1. [pol |-> pcr, by |-> sk[w]] \in doc'[w]
        BY <2>3, <3>2
      <4>2. [pol |-> pcr, by |-> sk[w]].pol = pcr
        OBVIOUS
      <4>3. QED
        BY <4>1, <4>2
    <3>3. QED
      BY <3>1, <3>2
  <2>6. \A e \in doc'[w] : e.by = pub
    BY <1>w, <2>2, <2>3 DEF KeyFiles
  <2>7. WorkerHeals(w)'
    BY <1>c, <2>2, <2>4, <2>5, <2>6
       DEF WorkerHeals, Generating, Naming, Signing, Finding, SignPcs
  <2>8. QED
    BY <1>b, <2>1, <2>2, <2>7, OneHeals
<1>4. CASE OpenTmp(w)
  <2>1. KeyFiles' /\ HostEnvelopes'
    BY <1>4, HealFilesStay DEF OpenTmp
  <2>2. /\ UNCHANGED <<pcr, pub, op, pem, new, sigs, doc>> /\ pc'[w] = "tmpWrite"
        /\ fd'[w] = "tmp" /\ tmp' = Bad
        /\ \A x \in Workers \ {w} : pc'[x] = pc[x]
    BY <1>4 DEF OpenTmp, TypeInv, TypeOK
  <2>3. Signing(w)'
    BY <1>4, <1>w, <2>2 DEF OpenTmp, WorkerHeals, Signing
  <2>4. WorkerHeals(w)'
    BY <1>c, <2>2, <2>3 DEF WorkerHeals, Generating, Naming, Finding, SignPcs
  <2>5. QED
    BY <1>b, <2>1, <2>2, <2>4, OneHeals
<1>5. CASE WriteTmp(w)
  <2>1. pc[w] = "tmpWrite" /\ fd[w] = "tmp" /\ tmp = Bad
    BY <1>5, <1>w DEF WriteTmp, WorkerHeals, Signing
  <2>2. tmp' = [ent |-> doc[w]] /\ sigs' = sigs
    BY <1>5, <2>1 DEF WriteTmp, Landed
  <2>3. KeyFiles' /\ HostEnvelopes'
    BY <1>5, <2>2, HealFilesStay DEF WriteTmp
  <2>4. /\ UNCHANGED <<pcr, pub, op, pem, new, doc>> /\ pc'[w] = "rename"
        /\ \A x \in Workers \ {w} : pc'[x] = pc[x]
    BY <1>5 DEF WriteTmp, TypeInv, TypeOK
  <2>5. Signing(w)'
    BY <1>w, <2>1, <2>2, <2>4 DEF WorkerHeals, Signing
  <2>6. WorkerHeals(w)'
    BY <1>c, <2>4, <2>5 DEF WorkerHeals, Generating, Naming, Finding, SignPcs
  <2>7. QED
    BY <1>b, <2>3, <2>4, <2>6, OneHeals
<1>6. CASE RenameTmp(w)
  <2>1. /\ tmp = [ent |-> doc[w]] /\ Entries(sigs) \subseteq doc[w]
        /\ \E e \in doc[w] : e.pol = pcr
        /\ \A e \in doc[w] : e.by = pub
    BY <1>6, <1>w DEF RenameTmp, WorkerHeals, Signing
  <2>2. tmp \in Documents
    BY <2>1 DEF TypeInv, TypeOK, Documents
  <2>3. /\ sigs' = tmp /\ UNCHANGED <<pcr, priv, pub, env, op, pem, new>>
        /\ pc'[w] \in {"find", "store"}
        /\ \A x \in Workers \ {w} : pc'[x] = pc[x]
    BY <1>6, <1>c, <2>2 DEF RenameTmp, AfterSign, TypeInv, TypeOK
  <2>4. Entries(sigs') = doc[w]
    BY <2>1, <2>2, <2>3 DEF Entries
  <2>5. KeyFiles' /\ HostEnvelopes'
    BY <1>w, <1>c, <2>1, <2>2, <2>3, <2>4 DEF KeyFiles, HostEnvelopes
  <2>6. Covers(sigs)'
    BY <2>1, <2>3, <2>4 DEF Covers
  <2>7. WorkerHeals(w)'
    BY <1>c, <2>3, <2>6 DEF WorkerHeals, Generating, Naming, Signing, Finding, SignPcs
  <2>8. QED
    BY <1>b, <2>3, <2>5, <2>7, OneHeals
<1>7. QED
  BY <1>1, <1>2, <1>3, <1>4, <1>5, <1>6 DEF SignStep

LEMMA HealUnsealStep ==
    ASSUME TypeInv, HealInv, NEW w \in Workers, UnsealStep(w)
    PROVE  HealInv'
<1>w. WorkerHeals(w) /\ KeyFiles /\ HostEnvelopes
  BY DEF HealInv
<1>b. pc[w] # "idle"
  BY DEF UnsealStep, LoadEnvelope, FindAndVerify
<1>1. CASE LoadEnvelope(w)
  <2>1. KeyFiles' /\ HostEnvelopes'
    BY <1>1, HealFilesStay DEF LoadEnvelope
  <2>2. PICK e \in Envelopes : e = env[slot[w]] /\ slot[w] \in Slots
    BY <1>1 DEF LoadEnvelope, TypeInv, TypeOK, LocalsOK
  <2>3. /\ new'[w] = e /\ pem'[w] = e.by /\ UNCHANGED <<pub, op>>
        /\ \A x \in Workers \ {w} : pc'[x] = pc[x]
    BY <1>1, <2>2 DEF LoadEnvelope, TypeInv, TypeOK
  <2>4. /\ pc'[w] \in {"ok", "fail", "classify"}
        /\ pc'[w] = "classify" => e.kind = "host"
        /\ pc'[w] = "fail" => e.kind # "host"
    BY <1>1, <2>2 DEF LoadEnvelope, TypeInv, TypeOK, Envelopes
  <2>5. e.kind = "host" => e.by = pub /\ pub \in HostKeys
    BY <1>w, <2>2, SignerAssumption DEF HostEnvelopes
  <2>6. WorkerHeals(w)'
    BY <2>3, <2>4, <2>5 DEF WorkerHeals, Generating, Naming, Signing, Finding, SignPcs
  <2>7. QED
    BY <1>b, <2>1, <2>3, <2>6, OneHeals
<1>2. CASE FindAndVerify(w)
  <2>1. KeyFiles' /\ HostEnvelopes'
    BY <1>2, HealFilesStay DEF FindAndVerify
  <2>2. /\ pc[w] = "find" /\ op[w] = "unseal" /\ UNCHANGED <<pcr, op, new, hurt>>
        /\ \A x \in Workers \ {w} : pc'[x] = pc[x]
    BY <1>2 DEF FindAndVerify, TypeInv, TypeOK, LocalsOK
  <2>3. /\ pc'[w] \in {"ok", "fail"}
        /\ pc'[w] = "fail" => ~\E s \in Entries(sigs) : s.pol = pcr /\ s.by = pem[w]
    BY <1>2 DEF FindAndVerify, TypeInv, TypeOK
  <2>4. pc'[w] = "fail" => ~Covers(sigs)
    BY <1>w, <2>2, <2>3 DEF Covers, WorkerHeals, Naming, KeyFiles
  <2>5. pc'[w] = "fail" => hurt'[w] \/ ~SecureBoot'
    BY <1>w, <2>2, <2>4 DEF WorkerHeals, Finding, SecureBoot
  <2>6. WorkerHeals(w)'
    BY <2>3, <2>5 DEF WorkerHeals, Generating, Naming, Signing, Finding, SignPcs
  <2>7. QED
    BY <1>b, <2>1, <2>2, <2>6, OneHeals
<1>3. QED
  BY <1>1, <1>2 DEF UnsealStep

LEMMA HealFails ==
    ASSUME TypeInv, HealInv, NEW w \in Workers, Fails(w)
    PROVE  HealInv'
<1>w. WorkerHeals(w) /\ pc[w] # "idle"
  BY DEF HealInv, Fails
<1>1. KeyFiles' /\ HostEnvelopes'
  BY HealFilesStay DEF Fails
<1>2. /\ hurt'[w] /\ UNCHANGED <<pub, op, new, pem>>
      /\ \A x \in Workers \ {w} : pc'[x] = pc[x]
  BY DEF Fails, TypeInv, TypeOK
<1>3. /\ pc'[w] \in {"literal", "ok", "find", "fail"}
      /\ pc'[w] = "find" => pc[w] \in SignPcs
  BY DEF Fails, Unplanned, AfterSign, TypeInv, TypeOK, LocalsOK, KeyPcs, SignPcs
<1>4. WorkerHeals(w)'
  BY <1>w, <1>2, <1>3 DEF WorkerHeals, Generating, Naming, Signing, Finding, SignPcs
<1>5. QED
  BY <1>w, <1>1, <1>2, <1>4, OneHeals

LEMMA HealNext ==
    ASSUME TypeInv, HealInv, [SerialNext]_vars PROVE HealInv'
<1>1. ASSUME NEW w \in Workers, NEW o \in Ops, NEW s \in Slots, Quiet, Start(w, o, s)
      PROVE  HealInv'
  <2>1. PICK p \in Unclaimed : pc' = [pc EXCEPT ![w] = p]
    BY <1>1 DEF Start, Unclaimed
  <2>2. QED
    BY <1>1, <2>1, HealAside DEF Start
<1>2. ASSUME NEW w \in Workers, Finish(w) PROVE HealInv'
  <2>1. PICK p \in Unclaimed : p = "idle"
    BY DEF Unclaimed
  <2>2. QED
    BY <1>2, <2>1, HealAside DEF Finish
<1>3. ASSUME NEW s \in Pols, NEW b \in BootModes, Reboot(s, b) PROVE HealInv'
  <2>1. KeyFiles' /\ HostEnvelopes'
    BY <1>3, HealFilesStay DEF Reboot
  <2>2. \A w \in Workers : pc'[w] = "idle"
    BY <1>3 DEF Reboot
  <2>3. ASSUME NEW w \in Workers PROVE WorkerHeals(w)'
    BY <2>2 DEF WorkerHeals, Generating, Naming, Signing, Finding, SignPcs
  <2>4. QED
    BY <2>1, <2>2, <2>3 DEF HealInv, Alone
<1>4. CASE UNCHANGED vars
  <2>1. KeyFiles' /\ HostEnvelopes'
    BY <1>4, HealFilesStay DEF vars
  <2>2. Alone'
    BY <1>4 DEF vars, HealInv, Alone
  <2>3. ASSUME NEW w \in Workers PROVE WorkerHeals(w)'
    <3>1. WorkerHeals(w)
      BY DEF HealInv
    <3>2. Covers(sigs)' <=> Covers(sigs)
      BY <1>4 DEF vars, Covers, Entries
    <3>3. QED
      BY <1>4, <3>1, <3>2 DEF vars, WorkerHeals, Generating, Naming, Signing, Finding,
                             SecureBoot
  <2>4. QED
    BY <2>1, <2>2, <2>3 DEF HealInv
<1>5. QED
  BY <1>1, <1>2, <1>3, <1>4, HealKeyStep, HealSealStep, HealSignStep,
     HealUnsealStep, HealFails DEF SerialNext, Step

LEMMA HealInit == Init => HealInv
<1>1. ASSUME Init PROVE KeyFiles /\ HostEnvelopes
  BY <1>1, SignerAssumption DEF Init, KeyFiles, HostEnvelopes, Entries
<1>2. ASSUME Init PROVE \A w \in Workers : pc[w] = "idle"
  BY <1>2 DEF Init
<1>3. ASSUME Init, NEW w \in Workers PROVE WorkerHeals(w)
  BY <1>2, <1>3, UnclaimedHeals DEF Unclaimed
<1>4. QED
  BY <1>1, <1>2, <1>3 DEF HealInv, Alone

LEMMA SerialImpliesNext == [SerialNext]_vars => [Next]_vars
BY DEF SerialNext, Next

LEMMA HealInvariance == SerialSpec => [](TypeInv /\ HealInv)
<1>1. Init => TypeInv /\ HealInv
  BY TypeInit, HealInit
<1>2. TypeInv /\ HealInv /\ [SerialNext]_vars => (TypeInv /\ HealInv)'
  BY TypeNext, HealNext, SerialImpliesNext
<1>3. QED
  BY <1>1, <1>2, PTL DEF SerialSpec

\* With one operation at a time, every host-bound envelope stays within reach
\* of the self-heal, whatever fails, is cut off or reboots in between.
THEOREM EnvelopesHealable == SerialSpec => []Healable
<1>1. HealInv => Healable
  BY DEF HealInv, Healable, KeyFiles, HostEnvelopes
<1>2. QED
  BY <1>1, HealInvariance, PTL

\* With one operation at a time, an unseal of a host-bound secret in a boot
\* with Secure Boot fails only if something else failed under it.
THEOREM UnsealHeals == SerialSpec => []SelfHeals
<1>1. HealInv => SelfHeals
  BY DEF HealInv, SelfHeals, WorkerHeals, Finding
<1>2. QED
  BY <1>1, HealInvariance, PTL

\* With one operation at a time, no step ever drops an entry of the signature
\* file: the document that replaces it has all of them.
THEOREM EntriesKept == SerialSpec => SignaturesKept
<1>1. ASSUME TypeInv, HealInv, [SerialNext]_vars
      PROVE  Entries(sigs) \subseteq Entries(sigs')
  <2>1. CASE sigs' = sigs
    BY <2>1
  <2>s. ASSUME NEW w \in Workers PROVE Signing(w)
    BY <1>1 DEF HealInv, WorkerHeals
  <2>2. ASSUME NEW w \in Workers, WriteTmp(w) PROVE sigs' = sigs
    BY <2>2, <2>s DEF WriteTmp, Signing
  <2>3. ASSUME NEW w \in Workers, RenameTmp(w), sigs' # sigs
        PROVE  Entries(sigs) \subseteq Entries(sigs')
    <3>1. tmp = [ent |-> doc[w]] /\ Entries(sigs) \subseteq doc[w]
      BY <2>3, <2>s DEF RenameTmp, Signing
    <3>2. tmp \in Documents /\ sigs' = tmp
      BY <1>1, <2>3, <3>1 DEF RenameTmp, TypeInv, TypeOK, Documents
    <3>3. QED
      BY <3>1, <3>2, SignerAssumption DEF Entries
  <2>4. sigs' = sigs \/ \E w \in Workers : WriteTmp(w) \/ RenameTmp(w)
    <3>1. ASSUME NEW w \in Workers, KeyStep(w) PROVE sigs' = sigs
      BY <3>1 DEF KeyStep, Plan, CheckHostKey, ReadPriv, OpenPriv, WritePriv, OpenPub,
                  WritePub, files
    <3>2. ASSUME NEW w \in Workers, SealStep(w) PROVE sigs' = sigs
      BY <3>2 DEF SealStep, SealLiteral, Classify, StoreEnvelope, files
    <3>3. ASSUME NEW w \in Workers, SignStep(w)
          PROVE  sigs' = sigs \/ WriteTmp(w) \/ RenameTmp(w)
      BY <3>3 DEF SignStep, LookForSignature, SignPolicy, ReadDocument, OpenTmp, files
    <3>4. ASSUME NEW w \in Workers, UnsealStep(w) PROVE sigs' = sigs
      BY <3>4 DEF UnsealStep, LoadEnvelope, FindAndVerify, files
    <3>5. QED
      BY <1>1, <3>1, <3>2, <3>3, <3>4 DEF SerialNext, Step, Start, Finish, Fails,
                                          Reboot, files, vars
  <2>5. QED
    BY <2>1, <2>2, <2>3, <2>4
<1>2. QED
  BY <1>1, HealInvariance, PTL DEF SerialSpec, SignaturesKept
=============================================================================

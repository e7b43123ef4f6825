----------------------------- MODULE HostSigner -----------------------------
(***************************************************************************)
(* How linhello-core binds a secret to the TPM: policy::plan chooses the   *)
(* binding for the machine as it has booted, tpm::seal_secret seals under  *)
(* it, tpm::unseal checks it and, for the per-host PCR-7 signer of         *)
(* pcrsig.rs, signs the new PCR state first while Secure Boot is on.       *)
(*                                                                         *)
(* The signer's files lie under /etc/linhello, shared by all users:        *)
(* pcr-signing-key.pem, pcr-signing-pub.pem and pcr-signature.json with    *)
(* its json.tmp.  Handlers run in parallel tasks, so every file access is  *)
(* a step of its own.  fs::write is two steps, the truncating open and the *)
(* write, and a rename moves the file under a writer that has it open.     *)
(*                                                                         *)
(* PCR 7 has one value per state of the Secure Boot configuration and      *)
(* changes only at a reboot.  A policy digest is represented by that value.*)
(***************************************************************************)
EXTENDS Naturals, FiniteSets

CONSTANTS Workers,   \* handler tasks that may be in flight together
          Slots,     \* envelope files that sealed secrets are kept in
          HostKeys,  \* RSA keys RsaPrivateKey::new may return
          OnStates,  \* PCR-7 values of a boot with Secure Boot enforcing
          OffStates, \* PCR-7 values of a boot without
          Absent, Bad, \* no such file; a file cut short
          NoKey, NoEnv \* no key, no envelope in hand

Pols == OnStates \cup OffStates

\* An entry of pcr-signature.json: the approved policy, and who signed it.
\* (All host entries cover PCR 7; pkfp is written and never looked at.)
Sigs == [pol : Pols, by : HostKeys]

\* the documents pcr-signature.json may hold
Documents == [ent : SUBSET Sigs]

\* SealedEnvelope: policy kind, signing key, and the PCR 7 bound or recorded
Envelopes == [kind : {"none", "literal", "host", "systemd"},
              by : HostKeys \cup {NoKey}, pcr : Pols]

BootModes == {"grub", "uki", "ukiSigned"}

ASSUME SignerAssumption ==
    /\ OnStates \cap OffStates = {}
    /\ Absent # Bad
    /\ Absent \notin HostKeys /\ Bad \notin HostKeys
    /\ Absent \notin Documents /\ Bad \notin Documents
    /\ NoKey \notin HostKeys \cup {Absent, Bad}
    /\ NoEnv \notin Envelopes

VARIABLES
    pcr,   \* the PCR-7 value of the running boot
    boot,  \* boot mode, and whether the UKI carries the pinned key's signature
    priv, pub,  \* the host signing key pair on disk
    sigs, tmp,  \* pcr-signature.json and pcr-signature.json.tmp
    env,   \* env[s]: the envelope kept in slot s
    pc, op, slot,  \* what w does next, its operation, the envelope it is about
    pem,   \* pem[w]: the public key the plan or the envelope names
    sk,    \* sk[w]: the private key w generated or read
    new,   \* new[w]: the envelope w seals or has loaded
    doc,   \* doc[w]: the signature document w writes
    fd,    \* fd[w]: where the file w has open is now: "tmp", "path", "gone"
    made,  \* history: keys ever generated
    hurt   \* history: an I/O or TPM error hit w's operation, efivars included

files == <<priv, pub, sigs, tmp, env>>
work == <<op, slot, pem, sk, new, doc, fd, hurt>>
vars == <<pcr, boot, files, pc, work, made>>

SecureBoot == pcr \in OnStates

\* is_secure_boot_enabled: efivars that cannot be read count as "off".  (An
\* unreadable SetupMode counts as 0; in setup mode the firmware reports
\* SecureBoot = 0 as well.)
Reported == IF SecureBoot THEN BOOLEAN ELSE {FALSE}

PCs == {"idle", "plan", "exists", "readPriv", "genPriv", "genPrivW", "genPub",
        "genPubW", "classify", "literal", "sign", "signKey", "persist",
        "tmpOpen", "tmpWrite", "rename", "store", "load", "find", "ok", "fail"}
KeyPcs == {"exists", "readPriv", "genPriv", "genPrivW", "genPub", "genPubW"}
SignPcs == {"sign", "signKey", "persist", "tmpOpen", "tmpWrite", "rename"}

Goto(w, p) == pc' = [pc EXCEPT ![w] = p]

\* Two writers that both truncated leave the later bytes over the earlier,
\* which parse if they are the same or at least as many.
Landed(cur, v) == IF cur \in {Bad, v} THEN {v} ELSE {v, Bad}

Init ==
    /\ pcr \in Pols
    /\ boot \in BootModes
    /\ priv = Absent /\ pub = Absent
    /\ sigs = Absent /\ tmp = Absent
    /\ env = [s \in Slots |-> NoEnv]
    /\ pc = [w \in Workers |-> "idle"]
    /\ op = [w \in Workers |-> "none"]
    /\ slot \in [Workers -> Slots]
    /\ pem = [w \in Workers |-> NoKey]
    /\ sk = [w \in Workers |-> NoKey]
    /\ new = [w \in Workers |-> NoEnv]
    /\ doc = [w \in Workers |-> {}]
    /\ fd = [w \in Workers |-> "none"]
    /\ made = {}
    /\ hurt = [w \in Workers |-> FALSE]

-----------------------------------------------------------------------------
(* Operations begin and end.                                               *)

\* Status and Diagnose ask for the plan only; sealing follows it.
Start(w, o, s) ==
    /\ pc[w] = "idle"
    /\ o = "unseal" => env[s] # NoEnv
    /\ op' = [op EXCEPT ![w] = o]
    /\ slot' = [slot EXCEPT ![w] = s]
    /\ Goto(w, IF o = "unseal" THEN "load" ELSE "plan")
    /\ UNCHANGED <<pcr, boot, files, pem, sk, new, doc, fd, made, hurt>>

Finish(w) ==
    /\ pc[w] \in {"ok", "fail"}
    /\ Goto(w, "idle")
    /\ op' = [op EXCEPT ![w] = "none"]
    /\ pem' = [pem EXCEPT ![w] = NoKey]
    /\ sk' = [sk EXCEPT ![w] = NoKey]
    /\ new' = [new EXCEPT ![w] = NoEnv]
    /\ doc' = [doc EXCEPT ![w] = {}]
    /\ fd' = [fd EXCEPT ![w] = "none"]
    /\ hurt' = [hurt EXCEPT ![w] = FALSE]
    /\ UNCHANGED <<pcr, boot, files, slot, made>>

-----------------------------------------------------------------------------
(* policy::plan and pcrsig::ensure_host_signing_key.                       *)

Sealed(k, key) == [kind |-> k, by |-> key, pcr |-> pcr]

\* A plan that needs no host key goes straight to seal_literal or to
\* seal_authorized under the pinned key.
Plan(w) ==
    /\ pc[w] = "plan"
    /\ \E seen \in Reported :
         LET kind == IF ~seen THEN "none"
                     ELSE IF boot = "ukiSigned" THEN "systemd" ELSE "host"
         IN  /\ \/ /\ kind = "host"
                   /\ Goto(w, "exists")
                   /\ UNCHANGED new
                \/ /\ kind # "host"
                   /\ new' = [new EXCEPT ![w] = Sealed(kind, NoKey)]
                   /\ Goto(w, IF op[w] = "seal" THEN "store" ELSE "ok")
             /\ hurt' = [hurt EXCEPT ![w] = @ \/ (SecureBoot /\ ~seen)]
    /\ UNCHANGED <<pcr, boot, files, op, slot, pem, sk, doc, fd, made>>

\* Mutant of CheckHostKey: a present public key does not stop the generation.
CheckHostKeyNever(w) ==
    /\ pc[w] = "exists"
    /\ Goto(w, "genPriv")
    /\ UNCHANGED <<pcr, boot, files, work, made>>

\* pub_path.exists(), and its text: of a file cut short, some text
CheckHostKey(w) ==
    /\ pc[w] = "exists"
    /\ pem' = [pem EXCEPT ![w] = IF pub = Absent THEN NoKey ELSE pub]
    /\ Goto(w, IF pub = Absent THEN "genPriv" ELSE "readPriv")
    /\ UNCHANGED <<pcr, boot, files, op, slot, sk, new, doc, fd, made, hurt>>

Planned(w) == IF op[w] = "seal" THEN "classify" ELSE "ok"
Unplanned(w) == IF op[w] = "seal" THEN "literal" ELSE "ok"

\* host_private_key must parse, or the plan falls back to the literal binding
ReadPriv(w) ==
    /\ pc[w] = "readPriv"
    /\ Goto(w, IF priv \in HostKeys THEN Planned(w) ELSE Unplanned(w))
    /\ UNCHANGED <<pcr, boot, files, work, made>>

\* generate, then the truncating open of the private key file
OpenPriv(w) ==
    /\ pc[w] = "genPriv"
    /\ \E k \in HostKeys \ made :
         /\ sk' = [sk EXCEPT ![w] = k]
         /\ pem' = [pem EXCEPT ![w] = k]
         /\ made' = made \cup {k}
    /\ priv' = Bad
    /\ Goto(w, "genPrivW")
    /\ UNCHANGED <<pcr, boot, pub, sigs, tmp, env, op, slot, new, doc, fd, hurt>>

WritePriv(w) ==
    /\ pc[w] = "genPrivW"
    /\ priv' \in Landed(priv, sk[w])
    /\ Goto(w, "genPub")
    /\ UNCHANGED <<pcr, boot, pub, sigs, tmp, env, work, made>>

OpenPub(w) ==
    /\ pc[w] = "genPub"
    /\ pub' = Bad
    /\ Goto(w, "genPubW")
    /\ UNCHANGED <<pcr, boot, priv, sigs, tmp, env, work, made>>

WritePub(w) ==
    /\ pc[w] = "genPubW"
    /\ pub' \in Landed(pub, sk[w])
    /\ Goto(w, Planned(w))
    /\ UNCHANGED <<pcr, boot, priv, sigs, tmp, env, work, made>>

-----------------------------------------------------------------------------
(* tpm::seal_literal, tpm::seal_authorized.                                *)

SealLiteral(w) ==
    /\ pc[w] = "literal"
    /\ new' = [new EXCEPT ![w] = Sealed("literal", NoKey)]
    /\ Goto(w, "store")
    /\ UNCHANGED <<pcr, boot, files, op, slot, pem, sk, doc, fd, made, hurt>>

\* Mutant of Classify: the self-heal does not look at Secure Boot.
ClassifyAnyBoot(w) ==
    /\ pc[w] = "classify"
    /\ IF pem[w] \in HostKeys /\ pub = pem[w]
       THEN /\ new' = IF op[w] = "seal"
                      THEN [new EXCEPT ![w] = Sealed("host", pem[w])] ELSE new
            /\ Goto(w, "sign")
       ELSE /\ Goto(w, "fail")
            /\ UNCHANGED new
    /\ UNCHANGED <<pcr, boot, files, op, slot, pem, sk, doc, fd, made, hurt>>

\* Mutant of Classify: no self-heal before the unseal.
ClassifyNoHeal(w) ==
    /\ pc[w] = "classify"
    /\ IF pem[w] \in HostKeys /\ pub = pem[w]
       THEN /\ new' = IF op[w] = "seal"
                      THEN [new EXCEPT ![w] = Sealed("host", pem[w])] ELSE new
            /\ Goto(w, IF op[w] = "seal" THEN "sign" ELSE "find")
       ELSE /\ Goto(w, "fail")
            /\ UNCHANGED new
    /\ UNCHANGED <<pcr, boot, files, op, slot, pem, sk, doc, fd, made, hurt>>

\* classify_signer: the key the plan or the envelope names must be the one on
\* disk now.  Sealing then creates the object in the TPM and signs; unsealing
\* heals first, while Secure Boot is on.
Classify(w) ==
    /\ pc[w] = "classify"
    /\ IF pem[w] \in HostKeys /\ pub = pem[w]
       THEN /\ new' = IF op[w] = "seal"
                      THEN [new EXCEPT ![w] = Sealed("host", pem[w])] ELSE new
            /\ \E seen \in Reported :
                 /\ Goto(w, IF op[w] = "seal" \/ seen THEN "sign" ELSE "find")
                 /\ hurt' = [hurt EXCEPT ![w] =
                                @ \/ (op[w] = "unseal" /\ SecureBoot /\ ~seen)]
       ELSE /\ Goto(w, "fail")
            /\ UNCHANGED <<new, hurt>>
    /\ UNCHANGED <<pcr, boot, files, op, slot, pem, sk, doc, fd, made>>

\* The caller saves the envelope (ProfileStore models that write).
StoreEnvelope(w) ==
    /\ pc[w] = "store"
    /\ env' = [env EXCEPT ![slot[w]] = new[w]]
    /\ Goto(w, "ok")
    /\ UNCHANGED <<pcr, boot, priv, pub, sigs, tmp, work, made>>

-----------------------------------------------------------------------------
(* tpm::ensure_host_signature and pcrsig::persist_host_signature.          *)

Entries(f) == IF f \in {Absent, Bad} THEN {} ELSE f.ent
Covers(f) == \E s \in Entries(f) : s.pol = pcr   \* find_for_policy

\* Seal-time signing returns its error, the self-heal only warns.
AfterSign(w, good) == IF op[w] = "unseal" THEN "find"
                      ELSE IF good THEN "store" ELSE "fail"

LookForSignature(w) ==
    /\ pc[w] = "sign"
    /\ Goto(w, IF sigs = Bad THEN AfterSign(w, FALSE)
               ELSE IF Covers(sigs) THEN AfterSign(w, TRUE) ELSE "signKey")
    /\ UNCHANGED <<pcr, boot, files, work, made>>

\* sign_ahash, with the private key on disk now
SignPolicy(w) ==
    /\ pc[w] = "signKey"
    /\ IF priv \in HostKeys
       THEN sk' = [sk EXCEPT ![w] = priv] /\ Goto(w, "persist")
       ELSE UNCHANGED sk /\ Goto(w, AfterSign(w, FALSE))
    /\ UNCHANGED <<pcr, boot, files, op, slot, pem, new, doc, fd, made, hurt>>

\* The existing entries, none if the file does not parse, and the new one
\* unless the policy is covered by now; pkfp needs a readable public key.
ReadDocument(w) ==
    /\ pc[w] = "persist"
    /\ IF pub \in HostKeys
       THEN /\ doc' = [doc EXCEPT ![w] =
                         Entries(sigs) \cup
                         IF Covers(sigs) THEN {}
                         ELSE {[pol |-> pcr, by |-> sk[w]]}]
            /\ Goto(w, "tmpOpen")
       ELSE UNCHANGED doc /\ Goto(w, AfterSign(w, FALSE))
    /\ UNCHANGED <<pcr, boot, files, op, slot, pem, sk, new, fd, made, hurt>>

\* json.tmp has one name for all writers: whoever opens it truncates it
OpenTmp(w) ==
    /\ pc[w] = "tmpOpen"
    /\ tmp' = Bad
    /\ fd' = [fd EXCEPT ![w] = "tmp"]
    /\ Goto(w, "tmpWrite")
    /\ UNCHANGED <<pcr, boot, priv, pub, sigs, env, op, slot, pem, sk, new, doc,
                   made, hurt>>

\* the bytes go to the file w opened, wherever a rename has moved it
WriteTmp(w) ==
    /\ pc[w] = "tmpWrite"
    /\ LET v == [ent |-> doc[w]]
       IN  /\ tmp' \in IF fd[w] = "tmp" THEN Landed(tmp, v) ELSE {tmp}
           /\ sigs' \in IF fd[w] = "path" THEN Landed(sigs, v) ELSE {sigs}
    /\ fd' = [fd EXCEPT ![w] = "none"]
    /\ Goto(w, "rename")
    /\ UNCHANGED <<pcr, boot, priv, pub, env, op, slot, pem, sk, new, doc, made,
                   hurt>>

\* set_permissions(tmp) and rename: both fail when another's rename took it
RenameTmp(w) ==
    /\ pc[w] = "rename"
    /\ IF tmp # Absent
       THEN /\ sigs' = tmp
            /\ tmp' = Absent
            /\ fd' = [x \in Workers |-> CASE fd[x] = "tmp" -> "path"
                                          [] fd[x] = "path" -> "gone"
                                          [] OTHER -> fd[x]]
            /\ Goto(w, AfterSign(w, TRUE))
       ELSE /\ Goto(w, AfterSign(w, FALSE))
            /\ UNCHANGED <<sigs, tmp, fd>>
    /\ UNCHANGED <<pcr, boot, priv, pub, env, op, slot, pem, sk, new, doc, made,
                   hurt>>

-----------------------------------------------------------------------------
(* tpm::unseal.                                                            *)

\* The TPM replays PolicyPCR: a literal policy must match the running boot;
\* a systemd one needs the running UKI's signature.
LoadEnvelope(w) ==
    /\ pc[w] = "load"
    /\ LET e == env[slot[w]] IN
         /\ new' = [new EXCEPT ![w] = e]
         /\ pem' = [pem EXCEPT ![w] = e.by]
         /\ Goto(w, CASE e.kind = "none" -> "ok"
                      [] e.kind = "literal" -> IF e.pcr = pcr THEN "ok" ELSE "fail"
                      [] e.kind = "systemd" ->
                           IF boot = "ukiSigned" THEN "ok" ELSE "fail"
                      [] OTHER -> "classify")
    /\ UNCHANGED <<pcr, boot, files, op, slot, sk, doc, fd, made, hurt>>

\* Mutant of FindAndVerify: any entry of the key will do, of whatever policy.
FindAndVerifyAnyPolicy(w) ==
    /\ pc[w] = "find"
    /\ Goto(w, IF \E s \in Entries(sigs) : s.by = pem[w] THEN "ok" ELSE "fail")
    /\ UNCHANGED <<pcr, boot, files, work, made>>

\* find_for_policy, VerifySignature under the envelope's key, PolicyAuthorize
FindAndVerify(w) ==
    /\ pc[w] = "find"
    /\ Goto(w, IF \E s \in Entries(sigs) : s.pol = pcr /\ s.by = pem[w]
               THEN "ok" ELSE "fail")
    /\ UNCHANGED <<pcr, boot, files, work, made>>

-----------------------------------------------------------------------------
(* Failures.                                                               *)

\* An I/O or TPM error: key provisioning falls back to the literal plan,
\* signing takes its error path, the rest fails.  A write cut short stays so.
Fails(w) ==
    /\ pc[w] \notin {"idle", "ok", "fail"}
    /\ hurt' = [hurt EXCEPT ![w] = TRUE]
    /\ Goto(w, IF pc[w] \in KeyPcs THEN Unplanned(w)
               ELSE IF pc[w] \in SignPcs THEN AfterSign(w, FALSE) ELSE "fail")
    /\ fd' = [fd EXCEPT ![w] = "none"]
    /\ UNCHANGED <<pcr, boot, files, op, slot, pem, sk, new, doc, made>>

\* The machine boots again, perhaps with other firmware keys, another kernel
\* or Secure Boot toggled; or the daemon alone restarts (s = pcr, b = boot).
Reboot(s, b) ==
    /\ pcr' = s
    /\ boot' = b
    /\ pc' = [w \in Workers |-> "idle"]
    /\ op' = [w \in Workers |-> "none"]
    /\ pem' = [w \in Workers |-> NoKey]
    /\ sk' = [w \in Workers |-> NoKey]
    /\ new' = [w \in Workers |-> NoEnv]
    /\ doc' = [w \in Workers |-> {}]
    /\ fd' = [w \in Workers |-> "none"]
    /\ hurt' = [w \in Workers |-> FALSE]
    /\ UNCHANGED <<files, slot, made>>

-----------------------------------------------------------------------------
KeyStep(w) == \/ Plan(w) \/ CheckHostKey(w) \/ ReadPriv(w) \/ OpenPriv(w)
              \/ WritePriv(w) \/ OpenPub(w) \/ WritePub(w)

SealStep(w) == SealLiteral(w) \/ Classify(w) \/ StoreEnvelope(w)

SignStep(w) == \/ LookForSignature(w) \/ SignPolicy(w) \/ ReadDocument(w)
               \/ OpenTmp(w) \/ WriteTmp(w) \/ RenameTmp(w)

UnsealStep(w) == LoadEnvelope(w) \/ FindAndVerify(w)

Step(w) == \/ KeyStep(w) \/ SealStep(w) \/ SignStep(w) \/ UnsealStep(w)
           \/ Fails(w) \/ Finish(w)

Ops == {"status", "seal", "unseal"}

Next == \/ \E w \in Workers :
             \/ \E o \in Ops, s \in Slots : Start(w, o, s)
             \/ Step(w)
        \/ \E s \in Pols, b \in BootModes : Reboot(s, b)

Spec == Init /\ [][Next]_vars

\* The same machine with one operation at a time.
Quiet == \A w \in Workers : pc[w] = "idle"

SerialNext == \/ \E w \in Workers :
                   \/ \E o \in Ops, s \in Slots : Quiet /\ Start(w, o, s)
                   \/ Step(w)
              \/ \E s \in Pols, b \in BootModes : Reboot(s, b)

SerialSpec == Init /\ [][SerialNext]_vars

-----------------------------------------------------------------------------
(* Properties.                                                             *)

TypeOK ==
    /\ pcr \in Pols /\ boot \in BootModes
    /\ priv \in HostKeys \cup {Absent, Bad}
    /\ pub \in HostKeys \cup {Absent, Bad}
    /\ sigs \in Documents \cup {Absent, Bad}
    /\ tmp \in Documents \cup {Absent, Bad}
    /\ env \in [Slots -> Envelopes \cup {NoEnv}]
    /\ pc \in [Workers -> PCs]
    /\ op \in [Workers -> Ops \cup {"none"}]
    /\ slot \in [Workers -> Slots]
    /\ pem \in [Workers -> HostKeys \cup {NoKey, Bad}]
    /\ sk \in [Workers -> HostKeys \cup {NoKey}]
    /\ new \in [Workers -> Envelopes \cup {NoEnv}]
    /\ doc \in [Workers -> SUBSET Sigs]
    /\ fd \in [Workers -> {"none", "tmp", "path", "gone"}]
    /\ made \subseteq HostKeys
    /\ hurt \in [Workers -> BOOLEAN]

\* What a program counter says of the locals: keys and envelopes are in hand
\* where they are used, and provisioning and signing are run by the operations
\* that need them.
LocalsOK ==
    \A w \in Workers :
        /\ pc[w] \in {"genPrivW", "genPub", "genPubW", "persist"}
             => sk[w] \in HostKeys
        /\ pc[w] \in KeyPcs \cup {"plan"} => op[w] \in {"status", "seal"}
        /\ pc[w] \in {"literal", "store"} => op[w] = "seal"
        /\ pc[w] \in SignPcs \cup {"classify"} => op[w] \in {"seal", "unseal"}
        /\ pc[w] \in {"load", "find"} => op[w] = "unseal"
        /\ pc[w] = "load" => env[slot[w]] \in Envelopes
        /\ pc[w] \in SignPcs \cup {"store", "find"} => new[w] \in Envelopes
        /\ pc[w] \in {"classify", "ok"} /\ op[w] = "unseal"
             => new[w] \in Envelopes

\* No signature is ever written, or about to be, for a PCR state without
\* Secure Boot (unseal_authorized: "If Secure Boot has been turned OFF, we
\* refuse to bless the new state: no signature is written"), whatever other
\* handlers, crashes and reboots do.
NeverBlessed ==
    /\ \A s \in Entries(sigs) \cup Entries(tmp) : s.pol \in OnStates
    /\ \A w \in Workers : \A s \in doc[w] : s.pol \in OnStates

\* A secret bound to PCR 7, literally or through the host signer, is released
\* only in a boot with Secure Boot on ("face unlock is intentionally withheld").
WithheldWithoutSecureBoot ==
    \A w \in Workers :
        pc[w] = "ok" /\ op[w] = "unseal" /\ new[w].kind \in {"literal", "host"}
           => SecureBoot

\* what is bound to PCR 7 was bound in a boot with Secure Boot on
Bound(e) == e # NoEnv /\ e.kind \in {"literal", "host"} => e.pcr \in OnStates

\* The strengthening under which the two are inductive: provisioning and
\* signing run only in a boot with Secure Boot, and what a handler has sealed
\* or loaded is bound the way the stored envelopes are.
SignerInv ==
    /\ NeverBlessed
    /\ WithheldWithoutSecureBoot
    /\ \A s \in Slots : Bound(env[s])
    /\ \A w \in Workers :
         /\ Bound(new[w])
         /\ pc[w] \in KeyPcs \cup SignPcs \cup {"literal"} => SecureBoot
         /\ pc[w] = "classify" /\ op[w] = "seal" => SecureBoot

\* With one operation at a time, every host-bound envelope stays within reach
\* of the self-heal: the key pair it names is intact, the signature file parses
\* and holds that key's signatures only ("a new key would orphan them").
Healable ==
    \A s \in Slots : env[s] # NoEnv /\ env[s].kind = "host" =>
        /\ pub = env[s].by /\ priv = env[s].by
        /\ sigs # Bad
        /\ \A e \in Entries(sigs) : e.by = env[s].by

\* With one operation at a time, unsealing a host-bound secret with Secure Boot
\* on fails only on an I/O or TPM error, after any change of PCR 7 ("lets the
\* very first unseal succeed without a re-enroll").
SelfHeals ==
    \A w \in Workers :
        pc[w] = "fail" /\ op[w] = "unseal" /\ new[w] # NoEnv
           => hurt[w] \/ new[w].kind # "host" \/ ~SecureBoot

\* "Old entries are kept so a PCR rollback (e.g. a dbx downgrade) still
\* unseals": the signature file never loses an entry, with one operation at a
\* time.
SignaturesKept == [][Entries(sigs) \subseteq Entries(sigs')]_vars

\* What persist_host_signature promises of its temporary file and rename: "a
\* torn write here (concurrent auths, power loss) would otherwise corrupt the
\* signature file and brick the self-heal path".  At rest the file parses.
SignatureFileWhole == Quiet => sigs # Bad

=============================================================================

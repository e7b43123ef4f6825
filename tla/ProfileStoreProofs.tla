------------------------- MODULE ProfileStoreProofs -------------------------
(***************************************************************************)
(* Proofs about ProfileStore, for every set of users, workers, keys and    *)
(* passwords.                                                              *)
(***************************************************************************)
EXTENDS ProfileStore, TLAPS

USE DEF Goto, disk, locals, history

\* TypeOK is not inductive without what the program counters say of the
\* handlers' locals.
TypeInv == TypeOK /\ LocalsOK

LEMMA TypeInit == Init => TypeInv
BY ConstantsAssumption
   DEF Init, TypeInv, TypeOK, LocalsOK, PCs, OpenPcs, HoldsKey

LEMMA TypeStart ==
    ASSUME TypeInv, NEW w \in Workers, NEW u \in Users, NEW r \in AllRequests,
           Start(w, u, r)
    PROVE  TypeInv'
<1>1. Enrolled \subseteq Users
  BY DEF Enrolled
<1>2. /\ FirstPc[r] \in PCs \ HoldsKey
      /\ FirstPc[r] # "idle" /\ FirstPc[r] # "pwW"
      /\ FirstPc[r] = "pwT" => r = "sealPassword"
      /\ r = "delete" => FirstPc[r] = "check"
  BY DEF FirstPc, AllRequests, Enrolling, Matching, PCs, OpenPcs, HoldsKey
<1>3. TypeOK'
  BY <1>1, <1>2 DEF Start, TypeInv, TypeOK
<1>4. LocalsOK'
  BY <1>1, <1>2, ConstantsAssumption DEF Start, TypeInv, TypeOK, LocalsOK
<1>5. QED
  BY <1>3, <1>4 DEF TypeInv

LEMMA TypeKeyStep ==
    ASSUME TypeInv, NEW w \in Workers, KeyStep(w)
    PROVE  TypeInv'
<1> USE ConstantsAssumption DEF TypeInv, TypeOK, LocalsOK, PCs, OpenPcs, HoldsKey
<1>1. CASE LookupKey(w)
  BY <1>1, SMTT(30) DEF LookupKey, AfterKey
<1>2. CASE EnsureKey(w)
  BY <1>2 DEF EnsureKey
<1>3. CASE UnsealKey(w)
  BY <1>3, SMTT(30) DEF UnsealKey
<1>4. CASE CreateKey(w)
  <2>1. user[w] \in Users
    BY <1>4 DEF CreateKey
  <2>2. CASE \E k \in Keys :
               /\ key' = [key EXCEPT ![w] = k]
               /\ generated' = [generated EXCEPT ![user[w]] = @ \cup {k}]
               /\ tke' = [tke EXCEPT ![user[w]] = Bad]
               /\ Goto(w, "createW")
    BY <1>4, <2>1, <2>2 DEF CreateKey
  <2>3. CASE Goto(w, "error") /\ UNCHANGED <<key, generated, tke>>
    BY <1>4, <2>3 DEF CreateKey
  <2>4. QED
    BY <1>4, <2>2, <2>3 DEF CreateKey
<1>5. CASE WriteNewKey(w)
  BY <1>5 DEF WriteNewKey, Landed
<1>6. CASE InsertKey(w)
  BY <1>6 DEF InsertKey, AfterKey
<1>7. QED
  BY <1>1, <1>2, <1>3, <1>4, <1>5, <1>6 DEF KeyStep

LEMMA TypeEnrollStep ==
    ASSUME TypeInv, NEW w \in Workers, EnrollStep(w)
    PROVE  TypeInv'
<1> USE ConstantsAssumption DEF TypeInv, TypeOK, LocalsOK, PCs, OpenPcs, HoldsKey
<1>1. CASE LoadExisting(w)
  BY <1>1 DEF LoadExisting, Decrypts, Embeddings
<1>2. CASE OpenEmbedding(w)
  BY <1>2 DEF OpenEmbedding
<1>3. CASE WriteEmbedding(w)
  BY <1>3 DEF WriteEmbedding, Landed, Embeddings
<1>4. CASE OpenBinding(w)
  <2>1. TypeOK'
    BY <1>4 DEF OpenBinding
  <2>2. LocalsOK'
    BY <1>4 DEF OpenBinding
  <2>3. QED
    BY <2>1, <2>2
<1>5. CASE WriteBinding(w)
  BY <1>5 DEF WriteBinding, Landed
<1>6. CASE LoadCalibration(w)
  BY <1>6 DEF LoadCalibration
<1>7. CASE OpenCalibration(w)
  <2>1. pc[w] = "calibT" /\ user[w] \in Users
    BY <1>7 DEF OpenCalibration
  <2>2. PICK p \in {"calibW", "ok"} : pc' = [pc EXCEPT ![w] = p]
    BY <1>7 DEF OpenCalibration
  <2>3. cal' \in [Users -> (0..MinObs) \cup {Absent, Bad}]
    BY <1>7, <2>1 DEF OpenCalibration
  <2>4. UNCHANGED <<tke, emb, pwe, rec, bind, cache, req, list, user, key, cnt,
                    obs, pw, orphan, generated, half>>
    BY <1>7 DEF OpenCalibration
  <2>5. LocalsOK'
    BY <2>1, <2>2, <2>4
  <2>6. TypeOK'
    BY <2>2, <2>3, <2>4
  <2>7. QED
    BY <2>5, <2>6
<1>8. CASE WriteCalibration(w)
  BY <1>8 DEF WriteCalibration, Landed
<1>9. QED
  BY <1>1, <1>2, <1>3, <1>4, <1>5, <1>6, <1>7, <1>8 DEF EnrollStep

LEMMA TypeMatchStep ==
    ASSUME TypeInv, NEW w \in Workers, MatchStep(w)
    PROVE  TypeInv'
<1> USE ConstantsAssumption DEF TypeInv, TypeOK, LocalsOK, PCs, OpenPcs, HoldsKey
<1>1. CASE CheckBinding(w)
  BY <1>1, SMTT(30) DEF CheckBinding
<1>2. CASE LoadSamples(w)
  BY <1>2 DEF LoadSamples
<1>3. CASE CaptureAndMatch(w)
  BY <1>3 DEF CaptureAndMatch
<1>4. CASE ReleasePassword(w)
  BY <1>4, SMTT(30) DEF ReleasePassword
<1>5. QED
  BY <1>1, <1>2, <1>3, <1>4 DEF MatchStep

LEMMA TypeUnlink ==
    ASSUME TypeOK, NEW u \in Users, NEW S, Unlink(u, S)
    PROVE  /\ tke' \in [Users -> Keys \cup {Absent, Bad}]
           /\ emb' \in [Users -> Embeddings \cup {Absent, Bad}]
           /\ pwe' \in [Users -> Passwords \cup {Absent, Bad}]
           /\ rec' \in [Users -> Keys \cup {Absent, Bad}]
           /\ bind' \in [Users -> Cameras \cup {Absent, Bad}]
           /\ cal' \in [Users -> (0..MinObs) \cup {Absent, Bad}]
           /\ orphan' \in [Workers -> BOOLEAN]
<1>1. tke' \in [Users -> Keys \cup {Absent, Bad}]
  BY DEF TypeOK, Unlink
<1>2. emb' \in [Users -> Embeddings \cup {Absent, Bad}]
  BY DEF TypeOK, Unlink
<1>3. pwe' \in [Users -> Passwords \cup {Absent, Bad}]
  BY DEF TypeOK, Unlink
<1>4. rec' \in [Users -> Keys \cup {Absent, Bad}]
  BY DEF TypeOK, Unlink
<1>5. bind' \in [Users -> Cameras \cup {Absent, Bad}]
  BY DEF TypeOK, Unlink
<1>6. cal' \in [Users -> (0..MinObs) \cup {Absent, Bad}]
  BY DEF TypeOK, Unlink
<1>7. orphan' \in [Workers -> BOOLEAN]
  BY DEF Unlink
<1>8. QED
  BY <1>1, <1>2, <1>3, <1>4, <1>5, <1>6, <1>7

LEMMA TypeDeleteStep ==
    ASSUME TypeInv, NEW w \in Workers, DeleteStep(w)
    PROVE  TypeInv'
<1> USE ConstantsAssumption DEF TypeInv, TypeOK, LocalsOK, PCs, OpenPcs, HoldsKey
<1>1. CASE CheckEnrolled(w)
  BY <1>1 DEF CheckEnrolled
<1>2. CASE RemoveSome(w)
  <2>1. user[w] \in Users
    BY <1>2 DEF RemoveSome
  <2>2. CASE ~DirExists(user[w])
    BY <1>2, <2>2 DEF RemoveSome
  <2>3. CASE DirExists(user[w])
    <3>1. PICK S \in SUBSET Present(user[w]) : Unlink(user[w], S)
      BY <1>2, <2>3 DEF RemoveSome
    <3>2. TypeOK'
      <4>1. /\ pc' = [pc EXCEPT ![w] = "rmRest"]
            /\ half' = [half EXCEPT ![user[w]] = TRUE]
            /\ UNCHANGED <<cache, req, list, user, locals, generated>>
        BY <1>2, <2>3 DEF RemoveSome
      <4>2. /\ pc' \in [Workers -> PCs]
            /\ half' \in [Users -> BOOLEAN]
        BY <2>1, <4>1
      <4>3. QED
        BY <2>1, <3>1, <4>1, <4>2, TypeUnlink
    <3>3. LocalsOK'
      BY <1>2, <2>1, <2>3, <3>1 DEF RemoveSome, Unlink
    <3>4. QED
      BY <3>2, <3>3
  <2>4. QED
    BY <2>2, <2>3
<1>3. CASE RemoveRest(w)
  BY <1>3 DEF RemoveRest, Unlink
<1>4. CASE RemoveFails(w)
  BY <1>4 DEF RemoveFails
<1>5. CASE EvictKey(w)
  BY <1>5 DEF EvictKey
<1>6. QED
  BY <1>1, <1>2, <1>3, <1>4, <1>5 DEF DeleteStep

LEMMA TypeSealStep ==
    ASSUME TypeInv, NEW w \in Workers, SealStep(w)
    PROVE  TypeInv'
<1> USE ConstantsAssumption DEF TypeInv, TypeOK, LocalsOK, PCs, OpenPcs, HoldsKey
<1>1. CASE ReadPassword(w)
  <2>1. TypeOK'
    BY <1>1, SMTT(30) DEF ReadPassword
  <2>2. LocalsOK'
    BY <1>1 DEF ReadPassword
  <2>3. QED
    BY <2>1, <2>2
<1>2. CASE OpenPassword(w)
  BY <1>2, SMTT(30) DEF OpenPassword
<1>3. CASE WritePassword(w)
  <2>1. TypeOK'
    BY <1>3 DEF WritePassword, Landed
  <2>2. LocalsOK'
    BY <1>3 DEF WritePassword
  <2>3. QED
    BY <2>1, <2>2
<1>4. CASE ReadKey(w)
  <2>1. TypeOK'
    BY <1>4 DEF ReadKey
  <2>2. LocalsOK'
    BY <1>4 DEF ReadKey
  <2>3. QED
    BY <2>1, <2>2
<1>5. CASE Unwrap(w)
  BY <1>5, SMTT(30) DEF Unwrap
<1>6. CASE OpenKey(w)
  BY <1>6, SMTT(30) DEF OpenKey
<1>7. CASE WriteKey(w)
  BY <1>7 DEF WriteKey, Landed
<1>8. CASE OpenRecovery(w)
  BY <1>8 DEF OpenRecovery
<1>9. CASE WriteRecovery(w)
  BY <1>9 DEF WriteRecovery, Landed
<1>10. QED
  BY <1>1, <1>2, <1>3, <1>4, <1>5, <1>6, <1>7, <1>8, <1>9 DEF SealStep

LEMMA TypeStep ==
    ASSUME TypeInv, NEW w \in Workers, Step(w)
    PROVE  TypeInv'
<1>1. CASE WriteFails(w)
  <2>1. AfterFailedWrite(w) \in {"calib", "ok", "tkRead", "error"}
    BY DEF AfterFailedWrite
  <2>2. AfterFailedWrite(w) = "calib" => pc[w] = "bindW"
    BY DEF AfterFailedWrite
  <2>3. QED
    BY <1>1, <2>1, <2>2, ConstantsAssumption
       DEF WriteFails, TypeInv, TypeOK, LocalsOK, PCs, OpenPcs, HoldsKey
<1>2. CASE Reply(w)
  <2>1. TypeOK'
    BY <1>2, ConstantsAssumption
       DEF Reply, TypeInv, TypeOK, LocalsOK, PCs, OpenPcs, HoldsKey
  <2>2. LocalsOK'
    BY <1>2, ConstantsAssumption
       DEF Reply, TypeInv, TypeOK, LocalsOK, PCs, OpenPcs, HoldsKey
  <2>3. QED
    BY <2>1, <2>2 DEF TypeInv
<1>3. CASE NextProfile(w)
  <2>1. pc[w] # "idle" /\ req[w] = "identify"
    BY <1>3 DEF NextProfile, TypeInv, LocalsOK
  <2>2. TypeOK'
    BY <1>3, ConstantsAssumption
       DEF NextProfile, TypeInv, TypeOK, PCs, OpenPcs, HoldsKey
  <2>3. LocalsOK'
    BY <1>3, <2>1, ConstantsAssumption
       DEF NextProfile, TypeInv, TypeOK, LocalsOK, PCs, OpenPcs, HoldsKey
  <2>4. QED
    BY <2>2, <2>3 DEF TypeInv
<1>4. QED
  BY <1>1, <1>2, <1>3, TypeKeyStep, TypeEnrollStep, TypeMatchStep, TypeDeleteStep,
     TypeSealStep DEF Step

LEMMA TypeRestart == TypeInv /\ Restart => TypeInv'
BY ConstantsAssumption
   DEF Restart, TypeInv, TypeOK, LocalsOK, PCs, OpenPcs, HoldsKey

LEMMA TypeDrift == TypeInv /\ Drift => TypeInv'
<1> SUFFICES ASSUME TypeInv, Drift PROVE TypeInv'
  OBVIOUS
<1>1. TypeOK'
  BY ConstantsAssumption DEF Drift, TypeInv, TypeOK
<1>2. LocalsOK'
  BY DEF Drift, TypeInv, LocalsOK
<1>3. QED
  BY <1>1, <1>2 DEF TypeInv

LEMMA TypeNext == TypeInv /\ [Next]_vars => TypeInv'
<1> SUFFICES ASSUME TypeInv, [Next]_vars PROVE TypeInv'
  OBVIOUS
<1>1. CASE UNCHANGED vars
  BY <1>1 DEF vars, TypeInv, TypeOK, LocalsOK
<1>2. CASE Next
  BY <1>2, TypeStart, TypeStep, TypeRestart, TypeDrift DEF Next
<1>3. QED
  BY <1>1, <1>2

\* Every handler keeps every file, the cache and its locals within their
\* types, for any number of overlapping requests, restarts and drifts.
THEOREM TypeCorrect == Spec => []TypeOK
<1>1. Spec => []TypeInv
  BY TypeInit, TypeNext, PTL DEF Spec
<1>2. TypeInv => TypeOK
  BY DEF TypeInv
<1>3. QED
  BY <1>1, <1>2, PTL

-----------------------------------------------------------------------------
(* SerialSpec: one template key per profile.                               *)

\* A step that moves one worker, and none of the copies of a key.
LEMMA QuietStep ==
    ASSUME TypeInv, SerialInv, NEW w \in Workers, NEW p,
           pc[w] # "idle",
           pc' = [pc EXCEPT ![w] = p],
           p \in HoldsKey => pc[w] \in HoldsKey,
           p \notin {"create", "rmRest", "evict"},
           UNCHANGED <<tke, rec, emb, cache, half, user, list, req, key>>
    PROVE  SerialInv'
<1> USE DEF TypeInv, TypeOK, LocalsOK
<1>1. ASSUME NEW u \in Users, NoCopies(u) PROVE NoCopies(u)'
  BY <1>1 DEF NoCopies
<1>2. ASSUME NEW u \in Users, NEW k \in Keys, CopiesAgree(u, k)
      PROVE  CopiesAgree(u, k)'
  BY <1>2 DEF CopiesAgree
<1>3. OneKeyPerProfile'
  BY <1>1, <1>2 DEF SerialInv, OneKeyPerProfile, KeyOK
<1>4. QED
  BY <1>1, <1>3 DEF SerialInv, Serving

\* No two workers serve one user.
LEMMA OneServer ==
    ASSUME SerialInv, NEW x \in Workers, NEW y \in Workers, x # y, user[x] # NoUser
    PROVE  user[x] # user[y]
<1>1. user[x] \in Serving(x) /\ user[y] \in Serving(y)
  BY DEF Serving
<1>2. Serving(x) \cap Serving(y) \subseteq {NoUser}
  BY DEF SerialInv
<1>3. QED
  BY <1>1, <1>2

\* A step of the handler that serves u leaves every other user's copies alone.
LEMMA OtherUsers ==
    ASSUME TypeInv, SerialInv, NEW w \in Workers, NEW p, NEW q,
           pc[w] # "idle", user[w] \in Users,
           pc' = [pc EXCEPT ![w] = p], UNCHANGED <<user, list, req>>,
           key' = [key EXCEPT ![w] = q],
           \A u \in Users \ {user[w]} :
              /\ tke'[u] = tke[u] /\ rec'[u] = rec[u] /\ emb'[u] = emb[u]
              /\ cache'[u] = cache[u] /\ half'[u] = half[u],
           KeyOK(user[w])',
           p = "create" => half'[user[w]] \/ NoCopies(user[w])',
           p = "rmRest" => half'[user[w]],
           p = "evict" /\ req[w] = "delete" =>
              /\ half'[user[w]]
              /\ tke'[user[w]] = Absent /\ rec'[user[w]] = Absent
              /\ emb'[user[w]] = Absent
    PROVE  SerialInv'
<1> USE DEF TypeInv, TypeOK, LocalsOK
<1>1. ASSUME NEW u \in Users \ {user[w]}, NoCopies(u) PROVE NoCopies(u)'
  BY <1>1 DEF NoCopies
<1>2. ASSUME NEW u \in Users \ {user[w]}, NEW k \in Keys, CopiesAgree(u, k)
      PROVE  CopiesAgree(u, k)'
  BY <1>2 DEF CopiesAgree
<1>3. OneKeyPerProfile'
  BY <1>1, <1>2 DEF SerialInv, OneKeyPerProfile, KeyOK
<1>4. ASSUME NEW x \in Workers, x # w, user[x] \in Users
      PROVE  user[x] # user[w]
  BY <1>4, OneServer, ConstantsAssumption
<1>5. \A x \in Workers :
         /\ pc'[x] = "create" => half'[user[x]] \/ NoCopies(user[x])'
         /\ pc'[x] = "rmRest" => half'[user[x]]
         /\ pc'[x] = "evict" /\ req[x] = "delete" =>
              /\ half'[user[x]]
              /\ tke'[user[x]] = Absent /\ rec'[user[x]] = Absent
              /\ emb'[user[x]] = Absent
  <2> SUFFICES ASSUME NEW x \in Workers, pc'[x] \in {"create", "rmRest", "evict"}
               PROVE  /\ pc'[x] = "create" => half'[user[x]] \/ NoCopies(user[x])'
                      /\ pc'[x] = "rmRest" => half'[user[x]]
                      /\ pc'[x] = "evict" /\ req[x] = "delete" =>
                           /\ half'[user[x]]
                           /\ tke'[user[x]] = Absent /\ rec'[user[x]] = Absent
                           /\ emb'[user[x]] = Absent
    OBVIOUS
  <2>1. CASE x = w
    BY <2>1
  <2>2. CASE x # w
    BY <1>1, <1>4, <2>2 DEF SerialInv
  <2>3. QED
    BY <2>1, <2>2
<1>6. QED
  BY <1>3, <1>5 DEF SerialInv, Serving

\* The key a handler holds is the one every copy agrees on.
LEMMA HolderAgrees ==
    ASSUME TypeInv, SerialInv, NEW w \in Workers, pc[w] \in HoldsKey
    PROVE  /\ user[w] \in Users /\ key[w] \in Keys
           /\ half[user[w]] \/ CopiesAgree(user[w], key[w])
<1>1. user[w] \in Users /\ key[w] \in Keys
  BY DEF TypeInv, TypeOK, LocalsOK, HoldsKey
<1>2. KeyOK(user[w])
  BY <1>1 DEF SerialInv, OneKeyPerProfile
<1>3. ~NoCopies(user[w])
  BY <1>1 DEF NoCopies
<1>4. ASSUME NEW k \in Keys, CopiesAgree(user[w], k)
      PROVE  k = key[w]
  BY <1>1, <1>4 DEF CopiesAgree
<1>5. QED
  BY <1>1, <1>2, <1>3, <1>4 DEF KeyOK

\* A handler without the key that reads a sealed, wrapped or cached copy.
LEMMA ReadAgrees ==
    ASSUME TypeInv, SerialInv, NEW u \in Users, NEW k \in Keys,
           k \in {tke[u], rec[u], cache[u]}
    PROVE  half[u] \/ CopiesAgree(u, k)
<1>1. KeyOK(u)
  BY DEF SerialInv, OneKeyPerProfile
<1>2. ~NoCopies(u)
  BY ConstantsAssumption DEF NoCopies
<1>3. ASSUME NEW j \in Keys, CopiesAgree(u, j)
      PROVE  j = k
  BY <1>3, ConstantsAssumption DEF CopiesAgree
<1>4. QED
  BY <1>1, <1>2, <1>3 DEF KeyOK

\* A step of a handler that knows the key: whatever copy it writes is a copy
\* of that key, cut short, or left as it was.
LEMMA AgreeStep ==
    ASSUME TypeInv, SerialInv, NEW w \in Workers, NEW k \in Keys, NEW p, NEW q,
           pc[w] # "idle", user[w] \in Users,
           half[user[w]] \/ CopiesAgree(user[w], k),
           pc' = [pc EXCEPT ![w] = p], UNCHANGED <<user, list, req, half>>,
           key' = [key EXCEPT ![w] = q],
           p \in HoldsKey => q = k,
           p \notin {"create", "rmRest"},
           p = "evict" => req[w] # "delete",
           \A u \in Users \ {user[w]} :
              /\ tke'[u] = tke[u] /\ rec'[u] = rec[u] /\ emb'[u] = emb[u]
              /\ cache'[u] = cache[u],
           tke'[user[w]] \in {tke[user[w]], k, Bad},
           rec'[user[w]] \in {rec[user[w]], k, Bad},
           cache'[user[w]] \in {cache[user[w]], k, NoKey},
           \/ emb'[user[w]] = emb[user[w]]
           \/ emb'[user[w]] \in Embeddings => emb'[user[w]].key = k
    PROVE  SerialInv'
<1>1. CopiesAgree(user[w], k) => CopiesAgree(user[w], k)'
  <2> SUFFICES ASSUME CopiesAgree(user[w], k) PROVE CopiesAgree(user[w], k)'
    OBVIOUS
  <2>1. \A x \in Workers : user'[x] = user[w] /\ pc'[x] \in HoldsKey => key'[x] = k
    BY DEF CopiesAgree, TypeInv, TypeOK
  <2>2. QED
    BY <2>1 DEF CopiesAgree
<1>2. KeyOK(user[w])'
  BY <1>1 DEF KeyOK
<1>3. QED
  BY <1>2, OtherUsers

LEMMA SerialKeyStep ==
    ASSUME TypeInv, SerialInv, NEW w \in Workers, KeyStep(w)
    PROVE  SerialInv'
<1>u. pc[w] # "idle" => user[w] \in Users
  BY DEF TypeInv, TypeOK, LocalsOK
<1>t. cache[user[w]] # NoKey /\ user[w] \in Users => cache[user[w]] \in Keys
  BY DEF TypeInv, TypeOK
<1>k. key \in [Workers -> Keys \cup {NoKey}] /\ half \in [Users -> BOOLEAN]
  BY DEF TypeInv, TypeOK
<1>1. CASE LookupKey(w)
  <2>1. CASE cache[user[w]] = NoKey
    BY <1>1, <2>1, QuietStep DEF LookupKey, HoldsKey
  <2>2. CASE cache[user[w]] # NoKey
    <3>1. user[w] \in Users /\ cache[user[w]] \in Keys
      BY <1>1, <1>u, <1>t, <2>2 DEF LookupKey
    <3>2. half[user[w]] \/ CopiesAgree(user[w], cache[user[w]])
      BY <3>1, ReadAgrees
    <3>3. PICK p \in {"save", "load"} : pc' = [pc EXCEPT ![w] = p]
      BY <1>1, <2>2 DEF LookupKey, AfterKey
    <3>4. /\ key' = [key EXCEPT ![w] = cache[user[w]]]
          /\ pc[w] # "idle"
          /\ UNCHANGED <<user, list, req, half, tke, rec, emb, cache>>
      BY <1>1, <2>2 DEF LookupKey, AfterKey
    <3>5. QED
      BY <3>1, <3>2, <3>3, <3>4, AgreeStep
  <2>3. QED
    BY <2>1, <2>2
<1>2. CASE EnsureKey(w)
  <2>1. CASE tke[user[w]] # Absent
    BY <1>2, <2>1, QuietStep DEF EnsureKey, HoldsKey
  <2>2. CASE tke[user[w]] = Absent
    <3>1. user[w] \in Users
      BY <1>2, <1>u DEF EnsureKey
    <3>2. ~\E k \in Keys : CopiesAgree(user[w], k)
      BY <2>2, ConstantsAssumption DEF CopiesAgree
    <3>3. half[user[w]] \/ NoCopies(user[w])
      BY <3>1, <3>2 DEF SerialInv, OneKeyPerProfile, KeyOK
    <3>4. half'[user[w]] \/ NoCopies(user[w])'
      BY <1>2, <2>2, <3>1, <3>3 DEF EnsureKey, NoCopies, HoldsKey, TypeInv, TypeOK
    <3>5. key' = [key EXCEPT ![w] = key[w]]
      BY <1>2, <1>k DEF EnsureKey
    <3>6. KeyOK(user[w])'
      BY <1>2, <3>4 DEF KeyOK, EnsureKey
    <3>7. QED
      BY <1>2, <2>2, <3>1, <3>4, <3>5, <3>6, OtherUsers DEF EnsureKey
  <2>3. QED
    BY <2>1, <2>2
<1>3. CASE UnsealKey(w)
  <2>1. CASE pc' = [pc EXCEPT ![w] = "error"] /\ UNCHANGED key
    BY <1>3, <2>1, QuietStep DEF UnsealKey, HoldsKey
  <2>2. CASE /\ tke[user[w]] \in Keys
             /\ key' = [key EXCEPT ![w] = tke[user[w]]]
             /\ pc' = [pc EXCEPT ![w] = "insert"]
    <3>1. user[w] \in Users
      BY <1>3, <1>u DEF UnsealKey
    <3>2. PICK k \in Keys : k = tke[user[w]]
      BY <2>2
    <3>3. half[user[w]] \/ CopiesAgree(user[w], k)
      BY <3>1, <3>2, ReadAgrees
    <3>4. /\ pc[w] # "idle"
          /\ UNCHANGED <<tke, rec, emb, cache, user, list, req, half>>
      BY <1>3 DEF UnsealKey
    <3>5. key' = [key EXCEPT ![w] = k]
      BY <2>2, <3>2
    <3>6. PICK p \in {"insert"} : pc' = [pc EXCEPT ![w] = p]
      BY <2>2
    <3>7. QED
      BY <3>1, <3>3, <3>4, <3>5, <3>6, AgreeStep
  <2>3. QED
    BY <1>3, <2>1, <2>2 DEF UnsealKey
<1>4. CASE CreateKey(w)
  <2>1. CASE pc' = [pc EXCEPT ![w] = "error"] /\ UNCHANGED <<key, generated, tke>>
    BY <1>4, <2>1, QuietStep DEF CreateKey, HoldsKey
  <2>2. ASSUME NEW k \in Keys,
               key' = [key EXCEPT ![w] = k],
               tke' = [tke EXCEPT ![user[w]] = Bad],
               pc' = [pc EXCEPT ![w] = "createW"]
        PROVE  SerialInv'
    <3>1. user[w] \in Users
      BY <1>4, <1>u DEF CreateKey
    <3>2. half[user[w]] \/ NoCopies(user[w])
      BY <1>4 DEF CreateKey, SerialInv
    <3>3. CASE half[user[w]]
      <4>1. KeyOK(user[w])'
        BY <1>4, <3>3 DEF CreateKey, KeyOK
      <4>2. QED
        BY <1>4, <2>2, <3>1, <4>1, OtherUsers DEF CreateKey, TypeInv, TypeOK
    <3>4. CASE NoCopies(user[w])
      <4>1. CopiesAgree(user[w], k)'
        BY <1>4, <1>k, <2>2, <3>1, <3>4, ConstantsAssumption
           DEF CreateKey, CopiesAgree, NoCopies, TypeInv, TypeOK
      <4>2. KeyOK(user[w])'
        BY <4>1 DEF KeyOK
      <4>3. QED
        BY <1>4, <2>2, <3>1, <4>2, OtherUsers DEF CreateKey, TypeInv, TypeOK
    <3>5. QED
      BY <3>2, <3>3, <3>4
  <2>3. QED
    BY <1>4, <2>1, <2>2 DEF CreateKey
<1>5. CASE WriteNewKey(w)
  <2>1. pc[w] \in HoldsKey
    BY <1>5 DEF WriteNewKey, HoldsKey
  <2>2. user[w] \in Users /\ (half[user[w]] \/ CopiesAgree(user[w], key[w]))
    BY <2>1, HolderAgrees
  <2>3. key[w] \in Keys
    BY <2>1, HolderAgrees
  <2>4. key' = [key EXCEPT ![w] = key[w]]
    BY <1>5, <1>k DEF WriteNewKey
  <2>5. PICK v \in {tke[user[w]], key[w], Bad} : tke' = [tke EXCEPT ![user[w]] = v]
    BY <1>5 DEF WriteNewKey, Landed
  <2>6. /\ pc[w] # "idle"
        /\ UNCHANGED <<rec, emb, cache, user, list, req, half>>
        /\ \A u \in Users \ {user[w]} : tke'[u] = tke[u]
        /\ tke'[user[w]] \in {tke[user[w]], key[w], Bad}
    BY <1>5, <2>2, <2>5 DEF WriteNewKey, TypeInv, TypeOK
  <2>7. PICK p \in {"insert", "error"} : pc' = [pc EXCEPT ![w] = p]
    BY <1>5 DEF WriteNewKey
  <2>8. QED
    BY <2>2, <2>3, <2>4, <2>6, <2>7, AgreeStep
<1>6. CASE InsertKey(w)
  <2>1. pc[w] \in HoldsKey
    BY <1>6 DEF InsertKey, HoldsKey
  <2>2. user[w] \in Users /\ (half[user[w]] \/ CopiesAgree(user[w], key[w]))
    BY <2>1, HolderAgrees
  <2>3. key[w] \in Keys
    BY <2>1, HolderAgrees
  <2>4. key' = [key EXCEPT ![w] = key[w]]
    BY <1>6, <1>k DEF InsertKey
  <2>5. /\ pc[w] # "idle"
        /\ UNCHANGED <<tke, rec, emb, user, list, req, half>>
        /\ \A u \in Users \ {user[w]} : cache'[u] = cache[u]
        /\ cache'[user[w]] = key[w]
    BY <1>6, <2>2 DEF InsertKey, TypeInv, TypeOK
  <2>6. PICK p \in {"load", "save"} : pc' = [pc EXCEPT ![w] = p]
    BY <1>6 DEF InsertKey, AfterKey
  <2>7. QED
    BY <2>2, <2>3, <2>4, <2>5, <2>6, AgreeStep
<1>7. QED
  BY <1>1, <1>2, <1>3, <1>4, <1>5, <1>6 DEF KeyStep

LEMMA SerialEnrollStep ==
    ASSUME TypeInv, SerialInv, NEW w \in Workers, EnrollStep(w)
    PROVE  SerialInv'
<1>u. pc[w] # "idle" => user[w] \in Users
  BY DEF TypeInv, TypeOK, LocalsOK
<1>k. key = [key EXCEPT ![w] = key[w]]
  BY DEF TypeInv, TypeOK
<1>1. CASE LoadExisting(w)
  BY <1>1, QuietStep DEF LoadExisting, HoldsKey
<1>2. CASE OpenEmbedding(w)
  <2>1. pc[w] \in HoldsKey
    BY <1>2 DEF OpenEmbedding, HoldsKey
  <2>2. /\ user[w] \in Users /\ key[w] \in Keys
        /\ half[user[w]] \/ CopiesAgree(user[w], key[w])
    BY <2>1, HolderAgrees
  <2>3. /\ pc[w] # "idle"
        /\ UNCHANGED <<tke, rec, cache, user, list, req, half>>
        /\ key' = [key EXCEPT ![w] = key[w]]
        /\ \A u \in Users \ {user[w]} : emb'[u] = emb[u]
        /\ emb'[user[w]] = Bad
    BY <1>2, <1>k, <2>2 DEF OpenEmbedding, TypeInv, TypeOK
  <2>4. Bad \notin Embeddings
    BY ConstantsAssumption
  <2>5. PICK p \in {"saveW"} : pc' = [pc EXCEPT ![w] = p]
    BY <1>2 DEF OpenEmbedding
  <2>6. QED
    BY <2>2, <2>3, <2>4, <2>5, AgreeStep
<1>3. CASE WriteEmbedding(w)
  <2>1. pc[w] \in HoldsKey
    BY <1>3 DEF WriteEmbedding, HoldsKey
  <2>2. /\ user[w] \in Users /\ key[w] \in Keys
        /\ half[user[w]] \/ CopiesAgree(user[w], key[w])
    BY <2>1, HolderAgrees
  <2>3. PICK v \in {emb[user[w]], [key |-> key[w], n |-> cnt[w]], Bad} :
           emb' = [emb EXCEPT ![user[w]] = v]
    BY <1>3 DEF WriteEmbedding, Landed
  <2>4. PICK p \in {"bind", "error"} : pc' = [pc EXCEPT ![w] = p]
    BY <1>3 DEF WriteEmbedding
  <2>5. /\ pc[w] # "idle"
        /\ UNCHANGED <<tke, rec, cache, user, list, req, half>>
        /\ key' = [key EXCEPT ![w] = key[w]]
        /\ \A u \in Users \ {user[w]} : emb'[u] = emb[u]
        /\ emb'[user[w]] = v
    BY <1>3, <1>k, <2>2, <2>3 DEF WriteEmbedding, TypeInv, TypeOK
  <2>6. v = emb[user[w]] \/ (v \in Embeddings => v.key = key[w])
    BY <2>3, ConstantsAssumption
  <2>7. QED
    BY <2>2, <2>4, <2>5, <2>6, AgreeStep
<1>4. CASE OpenBinding(w)
  BY <1>4, QuietStep DEF OpenBinding, HoldsKey
<1>5. CASE WriteBinding(w)
  BY <1>5, QuietStep DEF WriteBinding, HoldsKey
<1>6. CASE LoadCalibration(w)
  BY <1>6, QuietStep DEF LoadCalibration, HoldsKey
<1>7. CASE OpenCalibration(w)
  BY <1>7, QuietStep DEF OpenCalibration, HoldsKey
<1>8. CASE WriteCalibration(w)
  BY <1>8, QuietStep DEF WriteCalibration, HoldsKey
<1>9. QED
  BY <1>1, <1>2, <1>3, <1>4, <1>5, <1>6, <1>7, <1>8 DEF EnrollStep

LEMMA SerialMatchStep ==
    ASSUME TypeInv, SerialInv, NEW w \in Workers, MatchStep(w)
    PROVE  SerialInv'
<1>1. CASE CheckBinding(w)
  <2>1. PICK p \in {"lookup", "error"} : pc' = [pc EXCEPT ![w] = p]
    BY <1>1 DEF CheckBinding
  <2>2. QED
    BY <1>1, <2>1, QuietStep DEF CheckBinding, HoldsKey
<1>2. CASE LoadSamples(w)
  <2>1. PICK p \in {"ok", "gate", "error"} : pc' = [pc EXCEPT ![w] = p]
    BY <1>2 DEF LoadSamples
  <2>2. QED
    BY <1>2, <2>1, QuietStep DEF LoadSamples, HoldsKey
<1>3. CASE CaptureAndMatch(w)
  <2>1. PICK p \in {"ok", "release", "error"} : pc' = [pc EXCEPT ![w] = p]
    BY <1>3 DEF CaptureAndMatch
  <2>2. QED
    BY <1>3, <2>1, QuietStep DEF CaptureAndMatch, HoldsKey
<1>4. CASE ReleasePassword(w)
  <2>1. PICK p \in {"ok", "error"} : pc' = [pc EXCEPT ![w] = p]
    BY <1>4 DEF ReleasePassword
  <2>2. QED
    BY <1>4, <2>1, QuietStep DEF ReleasePassword, HoldsKey
<1>5. QED
  BY <1>1, <1>2, <1>3, <1>4 DEF MatchStep

LEMMA SerialDeleteStep ==
    ASSUME TypeInv, SerialInv, NEW w \in Workers, DeleteStep(w)
    PROVE  SerialInv'
<1>u. pc[w] # "idle" => user[w] \in Users
  BY DEF TypeInv, TypeOK, LocalsOK
<1>k. key = [key EXCEPT ![w] = key[w]]
  BY DEF TypeInv, TypeOK
<1>1. CASE CheckEnrolled(w)
  <2>1. PICK p \in {"rm", "error"} : pc' = [pc EXCEPT ![w] = p]
    BY <1>1 DEF CheckEnrolled
  <2>2. QED
    BY <1>1, <2>1, QuietStep DEF CheckEnrolled, HoldsKey
<1>2. CASE RemoveSome(w)
  <2>1. CASE ~DirExists(user[w])
    BY <1>2, <2>1, QuietStep DEF RemoveSome, HoldsKey
  <2>2. CASE DirExists(user[w])
    <3>1. user[w] \in Users /\ pc[w] # "idle"
      BY <1>2, <1>u DEF RemoveSome
    <3>2. PICK S : Unlink(user[w], S)
      BY <1>2, <2>2 DEF RemoveSome
    <3>3. \A u \in Users \ {user[w]} :
             tke'[u] = tke[u] /\ rec'[u] = rec[u] /\ emb'[u] = emb[u]
      BY <3>1, <3>2 DEF Unlink, TypeInv, TypeOK
    <3>4. /\ pc' = [pc EXCEPT ![w] = "rmRest"]
          /\ UNCHANGED <<cache, user, list, req>>
          /\ key' = [key EXCEPT ![w] = key[w]]
          /\ \A u \in Users \ {user[w]} : half'[u] = half[u]
          /\ half'[user[w]]
      BY <1>2, <1>k, <2>2, <3>1 DEF RemoveSome, TypeInv, TypeOK
    <3>5. KeyOK(user[w])'
      BY <3>4 DEF KeyOK
    <3>6. QED
      BY <3>1, <3>3, <3>4, <3>5, OtherUsers
  <2>3. QED
    BY <2>1, <2>2
<1>3. CASE RemoveRest(w)
  <2>1. user[w] \in Users /\ pc[w] # "idle"
    BY <1>3, <1>u DEF RemoveRest
  <2>2. half[user[w]]
    BY <1>3 DEF RemoveRest, SerialInv
  <2>3. /\ \A u \in Users \ {user[w]} :
              tke'[u] = tke[u] /\ rec'[u] = rec[u] /\ emb'[u] = emb[u]
        /\ tke'[user[w]] = Absent /\ rec'[user[w]] = Absent
        /\ emb'[user[w]] = Absent
    BY <1>3, <2>1 DEF RemoveRest, Unlink, Files, TypeInv, TypeOK
  <2>4. /\ pc' = [pc EXCEPT ![w] = "evict"]
        /\ UNCHANGED <<cache, user, list, req, half>>
        /\ key' = [key EXCEPT ![w] = key[w]]
    BY <1>3, <1>k DEF RemoveRest
  <2>5. KeyOK(user[w])'
    BY <2>2, <2>4 DEF KeyOK
  <2>6. QED
    BY <2>1, <2>2, <2>3, <2>4, <2>5, OtherUsers
<1>4. CASE RemoveFails(w)
  BY <1>4, QuietStep DEF RemoveFails, HoldsKey
<1>5. CASE EvictKey(w)
  <2>1. user[w] \in Users /\ pc[w] # "idle"
    BY <1>5, <1>u DEF EvictKey
  <2>2. /\ pc' = [pc EXCEPT ![w] = "ok"]
        /\ UNCHANGED <<tke, rec, emb, user, list, req>>
        /\ key' = [key EXCEPT ![w] = key[w]]
        /\ \A u \in Users \ {user[w]} : cache'[u] = cache[u] /\ half'[u] = half[u]
        /\ cache'[user[w]] = NoKey
    BY <1>5, <1>k, <2>1 DEF EvictKey, TypeInv, TypeOK
  <2>3. KeyOK(user[w])'
    <3>1. CASE req[w] = "delete"
      <4>1. tke[user[w]] = Absent /\ rec[user[w]] = Absent /\ emb[user[w]] = Absent
        BY <1>5, <3>1 DEF EvictKey, SerialInv
      <4>2. \A x \in Workers : user'[x] = user'[w] => pc'[x] \notin HoldsKey
        BY <2>1, <2>2, OneServer, ConstantsAssumption
           DEF TypeInv, TypeOK, HoldsKey
      <4>3. NoCopies(user[w])'
        BY <2>2, <4>1, <4>2 DEF NoCopies
      <4>4. QED
        BY <4>3 DEF KeyOK
    <3>2. CASE req[w] # "delete"
      <4>1. half' = half
        BY <1>5, <3>2 DEF EvictKey
      <4>2. KeyOK(user[w])
        BY <2>1 DEF SerialInv, OneKeyPerProfile
      <4>3. NoCopies(user[w]) => NoCopies(user[w])'
        BY <2>1, <2>2 DEF NoCopies, TypeInv, TypeOK, HoldsKey
      <4>4. ASSUME NEW k \in Keys, CopiesAgree(user[w], k)
            PROVE  CopiesAgree(user[w], k)'
        <5>1. \A x \in Workers : user'[x] = user'[w] /\ pc'[x] \in HoldsKey
                                    => key'[x] = k
          BY <2>1, <2>2, <4>4 DEF CopiesAgree, TypeInv, TypeOK, HoldsKey
        <5>2. QED
          BY <2>2, <4>4, <5>1 DEF CopiesAgree
      <4>5. QED
        BY <2>2, <4>1, <4>2, <4>3, <4>4 DEF KeyOK
    <3>3. QED
      BY <3>1, <3>2
  <2>4. QED
    BY <2>1, <2>2, <2>3, OtherUsers
<1>6. QED
  BY <1>1, <1>2, <1>3, <1>4, <1>5 DEF DeleteStep

LEMMA SerialSealStep ==
    ASSUME TypeInv, SerialInv, NEW w \in Workers, SealStep(w)
    PROVE  SerialInv'
<1>u. pc[w] # "idle" => user[w] \in Users
  BY DEF TypeInv, TypeOK, LocalsOK
<1>k. key = [key EXCEPT ![w] = key[w]]
  BY DEF TypeInv, TypeOK
<1>1. CASE ReadPassword(w)
  <2>1. PICK p \in {"pwT", "tkRead"} : pc' = [pc EXCEPT ![w] = p]
    BY <1>1 DEF ReadPassword
  <2>2. QED
    BY <1>1, <2>1, QuietStep DEF ReadPassword, HoldsKey
<1>2. CASE OpenPassword(w)
  <2>1. PICK p \in {"pwW", "tkRead", "error"} : pc' = [pc EXCEPT ![w] = p]
    BY <1>2 DEF OpenPassword
  <2>2. QED
    BY <1>2, <2>1, QuietStep DEF OpenPassword, HoldsKey
<1>3. CASE WritePassword(w)
  <2>1. PICK p \in {"tkRead", "ok", "error"} : pc' = [pc EXCEPT ![w] = p]
    BY <1>3 DEF WritePassword
  <2>2. pc[w] = "pwW" /\ UNCHANGED <<tke, rec, emb, cache, half, user, list, req, key>>
    BY <1>3 DEF WritePassword
  <2>3. QED
    BY <2>1, <2>2, QuietStep DEF HoldsKey
<1>4. CASE ReadKey(w)
  <2>1. user[w] \in Users /\ pc[w] # "idle"
    BY <1>4, <1>u DEF ReadKey
  <2>2. UNCHANGED <<tke, rec, emb, cache, user, list, req, half>>
    BY <1>4 DEF ReadKey
  <2>3. CASE UNCHANGED key /\ \E p \in {"ok", "error"} : pc' = [pc EXCEPT ![w] = p]
    BY <2>1, <2>2, <2>3, QuietStep DEF HoldsKey
  <2>4. ASSUME NEW k \in Keys, NEW p \in {"tkT", "recT"}, k = tke[user[w]],
               key' = [key EXCEPT ![w] = k], pc' = [pc EXCEPT ![w] = p]
        PROVE  SerialInv'
    <3>1. half[user[w]] \/ CopiesAgree(user[w], k)
      BY <2>1, <2>4, ReadAgrees
    <3>2. QED
      BY <2>1, <2>2, <2>4, <3>1, AgreeStep
  <2>5. QED
    BY <1>4, <2>3, <2>4 DEF ReadKey
<1>5. CASE Unwrap(w)
  <2>1. user[w] \in Users /\ pc[w] # "idle"
    BY <1>5, <1>u DEF Unwrap
  <2>2. UNCHANGED <<tke, rec, emb, cache, user, list, req, half>>
    BY <1>5 DEF Unwrap
  <2>3. CASE UNCHANGED key /\ \E p \in {"error"} : pc' = [pc EXCEPT ![w] = p]
    BY <2>1, <2>2, <2>3, QuietStep DEF HoldsKey
  <2>4. ASSUME NEW k \in Keys, NEW p \in {"tkT"}, k = rec[user[w]],
               key' = [key EXCEPT ![w] = k], pc' = [pc EXCEPT ![w] = p]
        PROVE  SerialInv'
    <3>1. half[user[w]] \/ CopiesAgree(user[w], k)
      BY <2>1, <2>4, ReadAgrees
    <3>2. QED
      BY <2>1, <2>2, <2>4, <3>1, AgreeStep
  <2>5. QED
    BY <1>5, <2>3, <2>4 DEF Unwrap
<1>6. CASE OpenKey(w)
  <2>1. pc[w] \in HoldsKey /\ pc[w] # "idle"
    BY <1>6 DEF OpenKey, HoldsKey
  <2>2. /\ user[w] \in Users /\ key[w] \in Keys
        /\ half[user[w]] \/ CopiesAgree(user[w], key[w])
    BY <2>1, HolderAgrees
  <2>3. PICK p \in {"tkW", "ok", "error"} : pc' = [pc EXCEPT ![w] = p]
    BY <1>6 DEF OpenKey
  <2>4. /\ UNCHANGED <<rec, emb, cache, user, list, req, half>>
        /\ key' = [key EXCEPT ![w] = key[w]]
        /\ \A u \in Users \ {user[w]} : tke'[u] = tke[u]
        /\ tke'[user[w]] \in {tke[user[w]], Bad}
    BY <1>6, <1>k, <2>2 DEF OpenKey, TypeInv, TypeOK
  <2>5. QED
    BY <2>1, <2>2, <2>3, <2>4, AgreeStep
<1>7. CASE WriteKey(w)
  <2>1. pc[w] \in HoldsKey /\ pc[w] # "idle"
    BY <1>7 DEF WriteKey, HoldsKey
  <2>2. /\ user[w] \in Users /\ key[w] \in Keys
        /\ half[user[w]] \/ CopiesAgree(user[w], key[w])
    BY <2>1, HolderAgrees
  <2>3. req[w] # "delete"
    BY <1>7 DEF WriteKey, TypeInv, LocalsOK
  <2>4. PICK p \in {"evict", "error"} : pc' = [pc EXCEPT ![w] = p]
    BY <1>7 DEF WriteKey
  <2>5. PICK v \in {tke[user[w]], key[w], Bad} : tke' = [tke EXCEPT ![user[w]] = v]
    BY <1>7 DEF WriteKey, Landed
  <2>6. /\ UNCHANGED <<rec, emb, cache, user, list, req, half>>
        /\ key' = [key EXCEPT ![w] = key[w]]
        /\ \A u \in Users \ {user[w]} : tke'[u] = tke[u]
        /\ tke'[user[w]] = v
    BY <1>7, <1>k, <2>2, <2>5 DEF WriteKey, TypeInv, TypeOK
  <2>7. QED
    BY <2>1, <2>2, <2>3, <2>4, <2>5, <2>6, AgreeStep
<1>8. CASE OpenRecovery(w)
  <2>1. pc[w] \in HoldsKey /\ pc[w] # "idle"
    BY <1>8 DEF OpenRecovery, HoldsKey
  <2>2. /\ user[w] \in Users /\ key[w] \in Keys
        /\ half[user[w]] \/ CopiesAgree(user[w], key[w])
    BY <2>1, HolderAgrees
  <2>3. PICK p \in {"recW"} : pc' = [pc EXCEPT ![w] = p]
    BY <1>8 DEF OpenRecovery
  <2>4. /\ UNCHANGED <<tke, emb, cache, user, list, req, half>>
        /\ key' = [key EXCEPT ![w] = key[w]]
        /\ \A u \in Users \ {user[w]} : rec'[u] = rec[u]
        /\ rec'[user[w]] = Bad
    BY <1>8, <1>k, <2>2 DEF OpenRecovery, TypeInv, TypeOK
  <2>5. QED
    BY <2>1, <2>2, <2>3, <2>4, AgreeStep
<1>9. CASE WriteRecovery(w)
  <2>1. pc[w] \in HoldsKey /\ pc[w] # "idle"
    BY <1>9 DEF WriteRecovery, HoldsKey
  <2>2. /\ user[w] \in Users /\ key[w] \in Keys
        /\ half[user[w]] \/ CopiesAgree(user[w], key[w])
    BY <2>1, HolderAgrees
  <2>3. PICK p \in {"ok", "error"} : pc' = [pc EXCEPT ![w] = p]
    BY <1>9 DEF WriteRecovery
  <2>4. PICK v \in {rec[user[w]], key[w], Bad} : rec' = [rec EXCEPT ![user[w]] = v]
    BY <1>9 DEF WriteRecovery, Landed
  <2>5. /\ UNCHANGED <<tke, emb, cache, user, list, req, half>>
        /\ key' = [key EXCEPT ![w] = key[w]]
        /\ \A u \in Users \ {user[w]} : rec'[u] = rec[u]
        /\ rec'[user[w]] = v
    BY <1>9, <1>k, <2>2, <2>4 DEF WriteRecovery, TypeInv, TypeOK
  <2>6. QED
    BY <2>1, <2>2, <2>3, <2>4, <2>5, AgreeStep
<1>10. QED
  BY <1>1, <1>2, <1>3, <1>4, <1>5, <1>6, <1>7, <1>8, <1>9 DEF SealStep

\* What Start, Reply and Restart do: a worker takes up or drops a user, and no
\* copy of a key moves.
LEMMA SerialStart ==
    ASSUME TypeInv, SerialInv, NEW w \in Workers, NEW u \in Users,
           NEW r \in AllRequests, \A v \in About(u, r) : Alone(v), Start(w, u, r)
    PROVE  SerialInv'
<1>2. FirstPc[r] \notin HoldsKey \cup {"create", "rmRest", "evict"}
  BY DEF FirstPc, AllRequests, Enrolling, Matching, HoldsKey
<1>3. /\ pc' = [pc EXCEPT ![w] = FirstPc[r]]
      /\ user' = [user EXCEPT ![w] = u] /\ req' = [req EXCEPT ![w] = r]
      /\ list' = [list EXCEPT ![w] = IF r = "identify" THEN Enrolled \ {u} ELSE {}]
      /\ UNCHANGED <<tke, rec, emb, cache, key, half>>
  BY DEF Start
<1>4. \A x, y \in Workers : x # y => Serving(x)' \cap Serving(y)' \subseteq {NoUser}
  <2>1. \A x \in Workers \ {w} : Serving(x)' = Serving(x)
    BY <1>3 DEF Serving, TypeInv, TypeOK
  <2>2. Serving(w)' \subseteq About(u, r)
    BY <1>3 DEF Serving, About, TypeInv, TypeOK
  <2>3. \A x \in Workers, v \in About(u, r) : v \notin Serving(x)
    BY DEF Alone, Serving
  <2>4. QED
    BY <2>1, <2>2, <2>3 DEF SerialInv
<1>5. \A x \in Workers :
         pc'[x] \in HoldsKey \cup {"create", "rmRest", "evict"} =>
            /\ x # w /\ pc'[x] = pc[x] /\ user'[x] = user[x] /\ req'[x] = req[x]
  BY <1>2, <1>3 DEF TypeInv, TypeOK
<1>6. ASSUME NEW v \in Users, NoCopies(v) PROVE NoCopies(v)'
  BY <1>3, <1>5, <1>6 DEF NoCopies
<1>7. ASSUME NEW v \in Users, NEW k \in Keys, CopiesAgree(v, k)
      PROVE  CopiesAgree(v, k)'
  BY <1>3, <1>5, <1>7 DEF CopiesAgree
<1>8. OneKeyPerProfile'
  BY <1>3, <1>6, <1>7 DEF SerialInv, OneKeyPerProfile, KeyOK
<1>9. \A x \in Workers : pc'[x] = "create" => half'[user'[x]] \/ NoCopies(user[x])'
  <2> SUFFICES ASSUME NEW x \in Workers, pc'[x] = "create"
               PROVE  half'[user'[x]] \/ NoCopies(user[x])'
    OBVIOUS
  <2>1. /\ pc[x] = "create" /\ user'[x] = user[x] /\ user[x] \in Users
    BY <1>5 DEF TypeInv, TypeOK, LocalsOK
  <2>2. half[user[x]] \/ NoCopies(user[x])
    BY <2>1 DEF SerialInv
  <2>3. NoCopies(user[x]) => NoCopies(user[x])'
    BY <1>3, <1>5, <2>1 DEF NoCopies
  <2>4. QED
    BY <1>3, <2>1, <2>2, <2>3
<1>10. \A x \in Workers :
         /\ pc'[x] = "rmRest" => half'[user'[x]]
         /\ pc'[x] = "evict" /\ req'[x] = "delete" =>
              /\ half'[user'[x]]
              /\ tke'[user'[x]] = Absent /\ rec'[user'[x]] = Absent
              /\ emb'[user'[x]] = Absent
  BY <1>3, <1>5 DEF SerialInv
<1>11. QED
  BY <1>4, <1>8, <1>9, <1>10 DEF SerialInv

LEMMA SerialReply ==
    ASSUME TypeInv, SerialInv, NEW w \in Workers, Reply(w)
    PROVE  SerialInv'
<1>1. /\ pc' = [pc EXCEPT ![w] = "idle"]
      /\ user' = [user EXCEPT ![w] = NoUser] /\ req' = [req EXCEPT ![w] = "none"]
      /\ key' = [key EXCEPT ![w] = NoKey] /\ UNCHANGED list
      /\ UNCHANGED <<tke, rec, emb, cache, half>>
  BY DEF Reply
<1>2. \A x, y \in Workers : x # y => Serving(x)' \cap Serving(y)' \subseteq {NoUser}
  <2>1. \A x \in Workers : Serving(x)' \subseteq Serving(x) \cup {NoUser}
    BY <1>1 DEF Serving, TypeInv, TypeOK
  <2>2. QED
    BY <2>1 DEF SerialInv
<1>3. \A x \in Workers :
         pc'[x] \in HoldsKey \cup {"create", "rmRest", "evict"} =>
            /\ pc'[x] = pc[x] /\ user'[x] = user[x] /\ req'[x] = req[x]
            /\ key'[x] = key[x]
  BY <1>1 DEF TypeInv, TypeOK, HoldsKey
<1>4. ASSUME NEW v \in Users, NoCopies(v) PROVE NoCopies(v)'
  BY <1>1, <1>3, <1>4 DEF NoCopies
<1>5. ASSUME NEW v \in Users, NEW k \in Keys, CopiesAgree(v, k)
      PROVE  CopiesAgree(v, k)'
  BY <1>1, <1>3, <1>5 DEF CopiesAgree
<1>6. OneKeyPerProfile'
  BY <1>1, <1>4, <1>5 DEF SerialInv, OneKeyPerProfile, KeyOK
<1>7. \A x \in Workers : pc'[x] = "create" => half'[user'[x]] \/ NoCopies(user[x])'
  <2> SUFFICES ASSUME NEW x \in Workers, pc'[x] = "create"
               PROVE  half'[user'[x]] \/ NoCopies(user[x])'
    OBVIOUS
  <2>1. /\ pc[x] = "create" /\ user'[x] = user[x] /\ user[x] \in Users
    BY <1>3 DEF TypeInv, TypeOK, LocalsOK
  <2>2. half[user[x]] \/ NoCopies(user[x])
    BY <2>1 DEF SerialInv
  <2>3. NoCopies(user[x]) => NoCopies(user[x])'
    BY <1>1, <1>3, <2>1 DEF NoCopies
  <2>4. QED
    BY <1>1, <2>1, <2>2, <2>3
<1>8. \A x \in Workers :
         /\ pc'[x] = "rmRest" => half'[user'[x]]
         /\ pc'[x] = "evict" /\ req'[x] = "delete" =>
              /\ half'[user'[x]]
              /\ tke'[user'[x]] = Absent /\ rec'[user'[x]] = Absent
              /\ emb'[user'[x]] = Absent
  BY <1>1, <1>3 DEF SerialInv
<1>9. QED
  BY <1>2, <1>6, <1>7, <1>8 DEF SerialInv

LEMMA SerialNextProfile ==
    ASSUME TypeInv, SerialInv, NEW w \in Workers, NextProfile(w)
    PROVE  SerialInv'
<1>1. PICK u \in list[w] :
         /\ pc' = [pc EXCEPT ![w] = "binding"]
         /\ user' = [user EXCEPT ![w] = u] /\ UNCHANGED req
         /\ list' = [list EXCEPT ![w] = @ \ {u}]
         /\ key' = [key EXCEPT ![w] = NoKey]
         /\ UNCHANGED <<tke, rec, emb, cache, half>>
  BY DEF NextProfile
<1>2. \A x, y \in Workers : x # y => Serving(x)' \cap Serving(y)' \subseteq {NoUser}
  <2>1. \A x \in Workers : Serving(x)' \subseteq Serving(x)
    BY <1>1 DEF Serving, TypeInv, TypeOK
  <2>2. QED
    BY <2>1 DEF SerialInv
<1>3. \A x \in Workers :
         pc'[x] \in HoldsKey \cup {"create", "rmRest", "evict"} =>
            /\ pc'[x] = pc[x] /\ user'[x] = user[x] /\ req'[x] = req[x]
            /\ key'[x] = key[x]
  BY <1>1 DEF TypeInv, TypeOK, HoldsKey
<1>4. ASSUME NEW v \in Users, NoCopies(v) PROVE NoCopies(v)'
  BY <1>1, <1>3, <1>4 DEF NoCopies
<1>5. ASSUME NEW v \in Users, NEW k \in Keys, CopiesAgree(v, k)
      PROVE  CopiesAgree(v, k)'
  BY <1>1, <1>3, <1>5 DEF CopiesAgree
<1>6. OneKeyPerProfile'
  BY <1>1, <1>4, <1>5 DEF SerialInv, OneKeyPerProfile, KeyOK
<1>7. \A x \in Workers : pc'[x] = "create" => half'[user'[x]] \/ NoCopies(user[x])'
  <2> SUFFICES ASSUME NEW x \in Workers, pc'[x] = "create"
               PROVE  half'[user'[x]] \/ NoCopies(user[x])'
    OBVIOUS
  <2>1. /\ pc[x] = "create" /\ user'[x] = user[x] /\ user[x] \in Users
    BY <1>3 DEF TypeInv, TypeOK, LocalsOK
  <2>2. half[user[x]] \/ NoCopies(user[x])
    BY <2>1 DEF SerialInv
  <2>3. NoCopies(user[x]) => NoCopies(user[x])'
    BY <1>1, <1>3, <2>1 DEF NoCopies
  <2>4. QED
    BY <1>1, <2>1, <2>2, <2>3
<1>8. \A x \in Workers :
         /\ pc'[x] = "rmRest" => half'[user'[x]]
         /\ pc'[x] = "evict" /\ req'[x] = "delete" =>
              /\ half'[user'[x]]
              /\ tke'[user'[x]] = Absent /\ rec'[user'[x]] = Absent
              /\ emb'[user'[x]] = Absent
  BY <1>1, <1>3 DEF SerialInv
<1>9. QED
  BY <1>2, <1>6, <1>7, <1>8 DEF SerialInv

LEMMA SerialStep ==
    ASSUME TypeInv, SerialInv, NEW w \in Workers, Step(w)
    PROVE  SerialInv'
<1>1. CASE WriteFails(w)
  <2>1. PICK p \in {"calib", "ok", "tkRead", "error"} : pc' = [pc EXCEPT ![w] = p]
    BY <1>1 DEF WriteFails, AfterFailedWrite
  <2>2. /\ pc[w] # "idle"
        /\ p \in HoldsKey => pc[w] \in HoldsKey
        /\ UNCHANGED <<tke, rec, emb, cache, half, user, list, req, key>>
    BY <1>1, <2>1 DEF WriteFails, AfterFailedWrite, OpenPcs, HoldsKey, TypeInv, TypeOK
  <2>3. QED
    BY <2>1, <2>2, QuietStep
<1>2. QED
  BY <1>1, SerialKeyStep, SerialEnrollStep, SerialMatchStep, SerialDeleteStep,
     SerialSealStep, SerialReply, SerialNextProfile DEF Step

LEMMA SerialRestart == TypeInv /\ SerialInv /\ Restart => SerialInv'
<1> SUFFICES ASSUME TypeInv, SerialInv, Restart PROVE SerialInv'
  OBVIOUS
<1>1. /\ UNCHANGED <<tke, rec, emb, half>>
      /\ \A u \in Users : cache'[u] = NoKey
      /\ \A w \in Workers : pc'[w] = "idle" /\ user'[w] = NoUser /\ list'[w] = {}
  BY DEF Restart
<1>2. ASSUME NEW u \in Users, NoCopies(u) PROVE NoCopies(u)'
  BY <1>1, <1>2 DEF NoCopies, HoldsKey
<1>3. ASSUME NEW u \in Users, NEW k \in Keys, CopiesAgree(u, k)
      PROVE  CopiesAgree(u, k)'
  BY <1>1, <1>3 DEF CopiesAgree, HoldsKey
<1>4. OneKeyPerProfile'
  BY <1>1, <1>2, <1>3 DEF SerialInv, OneKeyPerProfile, KeyOK
<1>5. QED
  BY <1>1, <1>4 DEF SerialInv, Serving

LEMMA SerialDrift == TypeInv /\ SerialInv /\ Drift => SerialInv'
<1> SUFFICES ASSUME TypeInv, SerialInv, Drift PROVE SerialInv'
  OBVIOUS
<1>1. /\ UNCHANGED <<rec, emb, cache, half, pc, user, list, req, key>>
      /\ \A u \in Users : tke'[u] = IF tke[u] \in Keys THEN Bad ELSE tke[u]
  BY DEF Drift
<1>2. ASSUME NEW u \in Users, NoCopies(u) PROVE NoCopies(u)'
  BY <1>1, <1>2, ConstantsAssumption DEF NoCopies
<1>3. ASSUME NEW u \in Users, NEW k \in Keys, CopiesAgree(u, k)
      PROVE  CopiesAgree(u, k)'
  BY <1>1, <1>3 DEF CopiesAgree
<1>4. OneKeyPerProfile'
  BY <1>1, <1>2, <1>3 DEF SerialInv, OneKeyPerProfile, KeyOK
<1>5. ASSUME NEW w \in Workers, pc[w] \in {"create", "rmRest", "evict"}
      PROVE  user[w] \in Users
  BY <1>5 DEF TypeInv, TypeOK, LocalsOK
<1>6. \A w \in Workers : pc'[w] = "create" => half'[user'[w]] \/ NoCopies(user[w])'
  <2> SUFFICES ASSUME NEW w \in Workers, pc[w] = "create"
               PROVE  half[user[w]] \/ NoCopies(user[w])'
    BY <1>1
  <2>1. NoCopies(user[w]) => NoCopies(user[w])'
    BY <1>1, <1>5, ConstantsAssumption DEF NoCopies
  <2>2. QED
    BY <2>1 DEF SerialInv
<1>7. \A w \in Workers :
         /\ pc'[w] = "rmRest" => half'[user'[w]]
         /\ pc'[w] = "evict" /\ req'[w] = "delete" =>
              /\ half'[user'[w]]
              /\ tke'[user'[w]] = Absent /\ rec'[user'[w]] = Absent
              /\ emb'[user'[w]] = Absent
  BY <1>1, <1>5, ConstantsAssumption DEF SerialInv
<1>8. QED
  BY <1>1, <1>4, <1>6, <1>7 DEF SerialInv, Serving

LEMMA SerialStutter == TypeInv /\ SerialInv /\ UNCHANGED vars => SerialInv'
BY DEF vars, SerialInv, Serving, OneKeyPerProfile, KeyOK, NoCopies, CopiesAgree

LEMMA SerialInductive ==
    ASSUME TypeInv, SerialInv, [SerialNext]_vars PROVE SerialInv'
BY SerialStart, SerialStep, SerialRestart, SerialDrift, SerialStutter
   DEF SerialNext

LEMMA SerialInit == Init => SerialInv
<1> SUFFICES ASSUME Init PROVE SerialInv
  OBVIOUS
<1>1. ASSUME NEW u \in Users PROVE NoCopies(u)
  BY <1>1 DEF Init, NoCopies, HoldsKey
<1>2. QED
  BY <1>1 DEF Init, SerialInv, Serving, OneKeyPerProfile, KeyOK

LEMMA SerialNextIsNext == [SerialNext]_vars => [Next]_vars
BY DEF SerialNext, Next

LEMMA SerialInvariance == SerialSpec => [](TypeInv /\ SerialInv)
<1>1. Init => TypeInv /\ SerialInv
  BY TypeInit, SerialInit
<1>2. TypeInv /\ SerialInv /\ [SerialNext]_vars => (TypeInv /\ SerialInv)'
  BY SerialInductive, SerialNextIsNext, TypeNext
<1>3. QED
  BY <1>1, <1>2, PTL DEF SerialSpec

\* While a user's requests do not overlap, every copy of the template key
\* agrees, across crashes and TPM drift, for any number of users and workers.
THEOREM OneKey == SerialSpec => []OneKeyPerProfile
<1>1. SerialInv => OneKeyPerProfile
  BY DEF SerialInv
<1>2. QED
  BY <1>1, SerialInvariance, PTL

\* The recovery passphrase brings back the key of the stored template.
THEOREM Restorable == SerialSpec => []RecoveryRestores
<1>1. TypeInv /\ SerialInv => RecoveryRestores
  BY ConstantsAssumption
     DEF SerialInv, OneKeyPerProfile, KeyOK, NoCopies, CopiesAgree, RecoveryRestores
<1>2. QED
  BY <1>1, SerialInvariance, PTL

\* A cached key has a sealed envelope behind it.
THEOREM CacheBacked == SerialSpec => []CachedKeySealed
<1>1. TypeInv /\ SerialInv => CachedKeySealed
  BY ConstantsAssumption
     DEF SerialInv, OneKeyPerProfile, KeyOK, NoCopies, CopiesAgree, CachedKeySealed
<1>2. QED
  BY <1>1, SerialInvariance, PTL

-----------------------------------------------------------------------------
(* Spec: no key crosses from one user to another, whatever overlaps.       *)

\* A handler's step, in which user[w] may be given copies of a key generated
\* for user[w] and nothing else.
LEMMA IsolatedStep ==
    ASSUME TypeInv, KeyIsolation, NEW w \in Workers, NEW p, NEW q,
           user[w] \in Users,
           pc' = [pc EXCEPT ![w] = p], UNCHANGED <<user, generated>>,
           key' = [key EXCEPT ![w] = q],
           p \in HoldsKey => q \in generated[user[w]],
           \A u \in Users \ {user[w]} :
              /\ tke'[u] = tke[u] /\ rec'[u] = rec[u] /\ emb'[u] = emb[u]
              /\ cache'[u] = cache[u],
           \/ tke'[user[w]] \in {tke[user[w]], Bad, Absent}
           \/ tke'[user[w]] \in generated[user[w]],
           \/ rec'[user[w]] \in {rec[user[w]], Bad, Absent}
           \/ rec'[user[w]] \in generated[user[w]],
           \/ cache'[user[w]] \in {cache[user[w]], NoKey}
           \/ cache'[user[w]] \in generated[user[w]],
           \/ emb'[user[w]] \in {emb[user[w]], Bad, Absent}
           \/ emb'[user[w]].key \in generated[user[w]]
    PROVE  KeyIsolation'
<1>1. \A x \in Workers : pc'[x] \in HoldsKey => key'[x] \in generated[user[x]]
  BY DEF KeyIsolation, TypeInv, TypeOK
<1>2. \A u \in Users :
         /\ {tke'[u], rec'[u], cache'[u]} \cap Keys \subseteq generated[u]
         /\ emb'[u] \in Embeddings => emb'[u].key \in generated[u]
  <2> SUFFICES ASSUME NEW u \in Users
               PROVE  /\ {tke'[u], rec'[u], cache'[u]} \cap Keys \subseteq generated[u]
                      /\ emb'[u] \in Embeddings => emb'[u].key \in generated[u]
    OBVIOUS
  <2>1. CASE u = user[w]
    BY <2>1, ConstantsAssumption DEF KeyIsolation
  <2>2. CASE u # user[w]
    BY <2>2 DEF KeyIsolation
  <2>3. QED
    BY <2>1, <2>2
<1>3. QED
  BY <1>1, <1>2 DEF KeyIsolation

\* A step that moves one worker, and none of the copies of a key.
LEMMA IsolatedQuiet ==
    ASSUME TypeInv, KeyIsolation, NEW w \in Workers, NEW p,
           pc' = [pc EXCEPT ![w] = p],
           p \in HoldsKey => pc[w] \in HoldsKey,
           UNCHANGED <<tke, rec, emb, cache, user, key, generated>>
    PROVE  KeyIsolation'
<1>1. \A x \in Workers : pc'[x] \in HoldsKey => pc[x] \in HoldsKey
  BY DEF TypeInv, TypeOK
<1>2. QED
  BY <1>1 DEF KeyIsolation

\* KeyIsolation, copy by copy.
LEMMA CopiesGenerated ==
    ASSUME KeyIsolation, NEW u \in Users
    PROVE  /\ tke[u] \in Keys => tke[u] \in generated[u]
           /\ rec[u] \in Keys => rec[u] \in generated[u]
           /\ cache[u] \in Keys => cache[u] \in generated[u]
           /\ emb[u] \in Embeddings => emb[u].key \in generated[u]
BY DEF KeyIsolation

LEMMA IsolatedKeyStep ==
    ASSUME TypeInv, KeyIsolation, NEW w \in Workers, KeyStep(w)
    PROVE  KeyIsolation'
<1>u. pc[w] # "idle" => user[w] \in Users
  BY DEF TypeInv, TypeOK, LocalsOK
<1>k. key = [key EXCEPT ![w] = key[w]]
  BY DEF TypeInv, TypeOK
<1>1. CASE LookupKey(w)
  <2>1. user[w] \in Users /\ UNCHANGED <<tke, rec, emb, cache, user, generated>>
    BY <1>1, <1>u DEF LookupKey
  <2>2. CASE UNCHANGED key /\ \E p \in {"ensure"} : pc' = [pc EXCEPT ![w] = p]
    BY <2>1, <2>2, IsolatedQuiet DEF HoldsKey
  <2>3. ASSUME NEW k \in Keys, NEW p \in {"load", "save"}, k = cache[user[w]],
               key' = [key EXCEPT ![w] = k], pc' = [pc EXCEPT ![w] = p]
        PROVE  KeyIsolation'
    <3>1. k \in generated[user[w]]
      BY CopiesGenerated, <2>1, <2>3
    <3>2. QED
      BY <2>1, <2>3, <3>1, IsolatedStep
  <2>4. QED
    BY <1>1, <2>1, <2>2, <2>3 DEF LookupKey, AfterKey, TypeInv, TypeOK
<1>2. CASE EnsureKey(w)
  BY <1>2, IsolatedQuiet DEF EnsureKey, HoldsKey
<1>3. CASE UnsealKey(w)
  <2>1. user[w] \in Users /\ UNCHANGED <<tke, rec, emb, cache, user, generated>>
    BY <1>3, <1>u DEF UnsealKey
  <2>2. CASE UNCHANGED key /\ \E p \in {"error"} : pc' = [pc EXCEPT ![w] = p]
    BY <2>1, <2>2, IsolatedQuiet DEF HoldsKey
  <2>3. ASSUME NEW k \in Keys, NEW p \in {"insert"}, k = tke[user[w]],
               key' = [key EXCEPT ![w] = k], pc' = [pc EXCEPT ![w] = p]
        PROVE  KeyIsolation'
    <3>1. k \in generated[user[w]]
      BY CopiesGenerated, <2>1, <2>3
    <3>2. QED
      BY <2>1, <2>3, <3>1, IsolatedStep
  <2>4. QED
    BY <1>3, <2>1, <2>2, <2>3 DEF UnsealKey
<1>4. CASE CreateKey(w)
  <2>1. user[w] \in Users /\ UNCHANGED <<rec, emb, cache, user>>
    BY <1>4, <1>u DEF CreateKey
  <2>2. CASE UNCHANGED <<key, generated, tke>> /\ \E p \in {"error"} : pc' = [pc EXCEPT ![w] = p]
    BY <2>1, <2>2, IsolatedQuiet DEF HoldsKey
  <2>3. ASSUME NEW k \in Keys, \A u \in Users : k \notin generated[u],
               key' = [key EXCEPT ![w] = k],
               generated' = [generated EXCEPT ![user[w]] = @ \cup {k}],
               tke' = [tke EXCEPT ![user[w]] = Bad],
               pc' = [pc EXCEPT ![w] = "createW"]
        PROVE  KeyIsolation'
    <3>1. /\ \A u \in Users : generated[u] \subseteq generated'[u]
          /\ \A u \in Users \ {user[w]} : generated'[u] = generated[u]
          /\ generated'[user[w]] = generated[user[w]] \cup {k}
      BY <2>1, <2>3 DEF TypeInv, TypeOK
    <3>2. \A x \in Workers : pc'[x] \in HoldsKey => key'[x] \in generated'[user[x]]
      <4> SUFFICES ASSUME NEW x \in Workers, pc'[x] \in HoldsKey
                   PROVE  key'[x] \in generated'[user[x]]
        OBVIOUS
      <4>1. CASE x = w
        BY <2>3, <3>1, <4>1 DEF TypeInv, TypeOK
      <4>2. CASE x # w
        <5>1. pc[x] \in HoldsKey /\ key'[x] = key[x] /\ user[x] \in Users
          BY <2>3, <4>2 DEF TypeInv, TypeOK, LocalsOK, HoldsKey
        <5>2. QED
          BY <3>1, <5>1 DEF KeyIsolation
      <4>3. QED
        BY <4>1, <4>2
    <3>3. \A u \in Users :
             /\ {tke'[u], rec[u], cache[u]} \cap Keys \subseteq generated'[u]
             /\ emb[u] \in Embeddings => emb[u].key \in generated'[u]
      <4>1. \A u \in Users : tke'[u] \in {tke[u], Bad}
        BY <2>1, <2>3 DEF TypeInv, TypeOK
      <4>2. QED
        BY CopiesGenerated, <3>1, <4>1, ConstantsAssumption
    <3>4. \A u, v \in Users : u # v => generated'[u] \cap generated'[v] = {}
      BY <2>1, <2>3, <3>1 DEF KeyIsolation
    <3>5. QED
      BY <2>1, <3>2, <3>3, <3>4 DEF KeyIsolation
  <2>4. QED
    BY <1>4, <2>1, <2>2, <2>3 DEF CreateKey
<1>5. CASE WriteNewKey(w)
  <2>1. pc[w] \in HoldsKey /\ user[w] \in Users /\ key[w] \in generated[user[w]]
    BY <1>5, <1>u DEF WriteNewKey, HoldsKey, KeyIsolation
  <2>2. PICK p \in {"insert", "error"} : pc' = [pc EXCEPT ![w] = p]
    BY <1>5 DEF WriteNewKey
  <2>3. PICK v \in {tke[user[w]], key[w], Bad} : tke' = [tke EXCEPT ![user[w]] = v]
    BY <1>5 DEF WriteNewKey, Landed
  <2>4. /\ UNCHANGED <<rec, emb, cache, user, generated>>
        /\ key' = [key EXCEPT ![w] = key[w]]
        /\ \A u \in Users \ {user[w]} : tke'[u] = tke[u]
        /\ tke'[user[w]] = v
    BY <1>5, <1>k, <2>1, <2>3 DEF WriteNewKey, TypeInv, TypeOK
  <2>5. QED
    BY <2>1, <2>2, <2>3, <2>4, IsolatedStep
<1>6. CASE InsertKey(w)
  <2>1. pc[w] \in HoldsKey /\ user[w] \in Users /\ key[w] \in generated[user[w]]
    BY <1>6, <1>u DEF InsertKey, HoldsKey, KeyIsolation
  <2>2. PICK p \in {"load", "save"} : pc' = [pc EXCEPT ![w] = p]
    BY <1>6 DEF InsertKey, AfterKey
  <2>4. /\ UNCHANGED <<tke, rec, emb, user, generated>>
        /\ key' = [key EXCEPT ![w] = key[w]]
        /\ \A u \in Users \ {user[w]} : cache'[u] = cache[u]
        /\ cache'[user[w]] = key[w]
    BY <1>6, <1>k, <2>1 DEF InsertKey, TypeInv, TypeOK
  <2>5. QED
    BY <2>1, <2>2, <2>4, IsolatedStep
<1>7. QED
  BY <1>1, <1>2, <1>3, <1>4, <1>5, <1>6 DEF KeyStep

LEMMA IsolatedEnrollStep ==
    ASSUME TypeInv, KeyIsolation, NEW w \in Workers, EnrollStep(w)
    PROVE  KeyIsolation'
<1>u. pc[w] # "idle" => user[w] \in Users
  BY DEF TypeInv, TypeOK, LocalsOK
<1>k. key = [key EXCEPT ![w] = key[w]]
  BY DEF TypeInv, TypeOK
<1>1. CASE LoadExisting(w)
  BY <1>1, IsolatedQuiet DEF LoadExisting, HoldsKey
<1>2. CASE OpenEmbedding(w)
  <2>1. pc[w] \in HoldsKey /\ user[w] \in Users /\ key[w] \in generated[user[w]]
    BY <1>2, <1>u DEF OpenEmbedding, HoldsKey, KeyIsolation
  <2>2. PICK p \in {"saveW"} : pc' = [pc EXCEPT ![w] = p]
    BY <1>2 DEF OpenEmbedding
  <2>4. /\ UNCHANGED <<tke, rec, cache, user, generated>>
        /\ key' = [key EXCEPT ![w] = key[w]]
        /\ \A u \in Users \ {user[w]} : emb'[u] = emb[u]
        /\ emb'[user[w]] = Bad
    BY <1>2, <1>k, <2>1 DEF OpenEmbedding, TypeInv, TypeOK
  <2>5. QED
    BY <2>1, <2>2, <2>4, IsolatedStep
<1>3. CASE WriteEmbedding(w)
  <2>1. pc[w] \in HoldsKey /\ user[w] \in Users /\ key[w] \in generated[user[w]]
    BY <1>3, <1>u DEF WriteEmbedding, HoldsKey, KeyIsolation
  <2>2. PICK p \in {"bind", "error"} : pc' = [pc EXCEPT ![w] = p]
    BY <1>3 DEF WriteEmbedding
  <2>3. PICK v \in {emb[user[w]], [key |-> key[w], n |-> cnt[w]], Bad} : emb' = [emb EXCEPT ![user[w]] = v]
    BY <1>3 DEF WriteEmbedding, Landed
  <2>4. /\ UNCHANGED <<tke, rec, cache, user, generated>>
        /\ key' = [key EXCEPT ![w] = key[w]]
        /\ \A u \in Users \ {user[w]} : emb'[u] = emb[u]
        /\ emb'[user[w]] = v
    BY <1>3, <1>k, <2>1, <2>3 DEF WriteEmbedding, TypeInv, TypeOK
  <2>5. v \in {emb[user[w]], Bad} \/ v.key \in generated[user[w]]
    BY <2>1, <2>3
  <2>6. QED
    BY <2>1, <2>2, <2>4, <2>5, IsolatedStep
<1>4. CASE OpenBinding(w)
  BY <1>4, IsolatedQuiet DEF OpenBinding, HoldsKey
<1>5. CASE WriteBinding(w)
  BY <1>5, IsolatedQuiet DEF WriteBinding, HoldsKey
<1>6. CASE LoadCalibration(w)
  BY <1>6, IsolatedQuiet DEF LoadCalibration, HoldsKey
<1>7. CASE OpenCalibration(w)
  BY <1>7, IsolatedQuiet DEF OpenCalibration, HoldsKey
<1>8. CASE WriteCalibration(w)
  BY <1>8, IsolatedQuiet DEF WriteCalibration, HoldsKey
<1>9. QED
  BY <1>1, <1>2, <1>3, <1>4, <1>5, <1>6, <1>7, <1>8 DEF EnrollStep

LEMMA IsolatedMatchStep ==
    ASSUME TypeInv, KeyIsolation, NEW w \in Workers, MatchStep(w)
    PROVE  KeyIsolation'
<1>1. CASE CheckBinding(w)
  <2>1. PICK p \in {"lookup", "error"} : pc' = [pc EXCEPT ![w] = p]
    BY <1>1 DEF CheckBinding
  <2>2. UNCHANGED <<tke, rec, emb, cache, user, key, generated>>
    BY <1>1 DEF CheckBinding
  <2>3. QED
    BY <2>1, <2>2, IsolatedQuiet DEF HoldsKey
<1>2. CASE LoadSamples(w)
  <2>1. PICK p \in {"ok", "gate", "error"} : pc' = [pc EXCEPT ![w] = p]
    BY <1>2 DEF LoadSamples
  <2>2. /\ pc[w] \in HoldsKey
        /\ UNCHANGED <<tke, rec, emb, cache, user, key, generated>>
    BY <1>2 DEF LoadSamples, HoldsKey
  <2>3. QED
    BY <2>1, <2>2, IsolatedQuiet
<1>3. CASE CaptureAndMatch(w)
  <2>1. PICK p \in {"ok", "release", "error"} : pc' = [pc EXCEPT ![w] = p]
    BY <1>3 DEF CaptureAndMatch
  <2>2. UNCHANGED <<tke, rec, emb, cache, user, key, generated>>
    BY <1>3 DEF CaptureAndMatch
  <2>3. QED
    BY <2>1, <2>2, IsolatedQuiet DEF HoldsKey
<1>4. CASE ReleasePassword(w)
  <2>1. PICK p \in {"ok", "error"} : pc' = [pc EXCEPT ![w] = p]
    BY <1>4 DEF ReleasePassword
  <2>2. UNCHANGED <<tke, rec, emb, cache, user, key, generated>>
    BY <1>4 DEF ReleasePassword
  <2>3. QED
    BY <2>1, <2>2, IsolatedQuiet DEF HoldsKey
<1>5. QED
  BY <1>1, <1>2, <1>3, <1>4 DEF MatchStep

LEMMA IsolatedDeleteStep ==
    ASSUME TypeInv, KeyIsolation, NEW w \in Workers, DeleteStep(w)
    PROVE  KeyIsolation'
<1>u. pc[w] # "idle" => user[w] \in Users
  BY DEF TypeInv, TypeOK, LocalsOK
<1>k. key = [key EXCEPT ![w] = key[w]]
  BY DEF TypeInv, TypeOK
<1>r. ASSUME NEW S, NEW p \in {"rmRest", "evict"}, pc[w] # "idle",
             Unlink(user[w], S), pc' = [pc EXCEPT ![w] = p],
             UNCHANGED <<cache, user, key, generated>>
      PROVE  KeyIsolation'
  <2>1. user[w] \in Users
    BY <1>u, <1>r
  <2>2. /\ \A u \in Users \ {user[w]} :
              tke'[u] = tke[u] /\ rec'[u] = rec[u] /\ emb'[u] = emb[u]
        /\ tke'[user[w]] \in {tke[user[w]], Absent}
        /\ rec'[user[w]] \in {rec[user[w]], Absent}
        /\ emb'[user[w]] \in {emb[user[w]], Absent}
    BY <1>r, <2>1 DEF Unlink, TypeInv, TypeOK
  <2>3. p \notin HoldsKey /\ key' = [key EXCEPT ![w] = key[w]]
    BY <1>k, <1>r DEF HoldsKey
  <2>4. QED
    BY <1>r, <2>1, <2>2, <2>3, IsolatedStep
<1>1. CASE CheckEnrolled(w)
  <2>1. PICK p \in {"rm", "error"} : pc' = [pc EXCEPT ![w] = p]
    BY <1>1 DEF CheckEnrolled
  <2>2. UNCHANGED <<tke, rec, emb, cache, user, key, generated>>
    BY <1>1 DEF CheckEnrolled
  <2>3. QED
    BY <2>1, <2>2, IsolatedQuiet DEF HoldsKey
<1>2. CASE RemoveSome(w)
  <2>1. CASE ~DirExists(user[w])
    BY <1>2, <2>1, IsolatedQuiet DEF RemoveSome, HoldsKey
  <2>2. CASE DirExists(user[w])
    BY <1>2, <1>r, <2>2 DEF RemoveSome
  <2>3. QED
    BY <2>1, <2>2
<1>3. CASE RemoveRest(w)
  BY <1>3, <1>r DEF RemoveRest
<1>4. CASE RemoveFails(w)
  BY <1>4, IsolatedQuiet DEF RemoveFails, HoldsKey
<1>5. CASE EvictKey(w)
  <2>1. user[w] \in Users
    BY <1>5, <1>u DEF EvictKey
  <2>2. PICK p \in {"ok"} : pc' = [pc EXCEPT ![w] = p]
    BY <1>5 DEF EvictKey
  <2>3. /\ UNCHANGED <<tke, rec, emb, user, generated>>
        /\ key' = [key EXCEPT ![w] = key[w]] /\ p \notin HoldsKey
        /\ \A u \in Users \ {user[w]} : cache'[u] = cache[u]
        /\ cache'[user[w]] = NoKey
    BY <1>5, <1>k, <2>1, <2>2 DEF EvictKey, HoldsKey, TypeInv, TypeOK
  <2>4. QED
    BY <2>1, <2>2, <2>3, IsolatedStep
<1>6. QED
  BY <1>1, <1>2, <1>3, <1>4, <1>5 DEF DeleteStep

LEMMA IsolatedSealStep ==
    ASSUME TypeInv, KeyIsolation, NEW w \in Workers, SealStep(w)
    PROVE  KeyIsolation'
<1>u. pc[w] # "idle" => user[w] \in Users
  BY DEF TypeInv, TypeOK, LocalsOK
<1>k. key = [key EXCEPT ![w] = key[w]]
  BY DEF TypeInv, TypeOK
<1>1. CASE ReadPassword(w)
  <2>1. PICK p \in {"pwT", "tkRead"} : pc' = [pc EXCEPT ![w] = p]
    BY <1>1 DEF ReadPassword
  <2>2. UNCHANGED <<tke, rec, emb, cache, user, key, generated>>
    BY <1>1 DEF ReadPassword
  <2>3. QED
    BY <2>1, <2>2, IsolatedQuiet DEF HoldsKey
<1>2. CASE OpenPassword(w)
  <2>1. PICK p \in {"pwW", "tkRead", "error"} : pc' = [pc EXCEPT ![w] = p]
    BY <1>2 DEF OpenPassword
  <2>2. UNCHANGED <<tke, rec, emb, cache, user, key, generated>>
    BY <1>2 DEF OpenPassword
  <2>3. QED
    BY <2>1, <2>2, IsolatedQuiet DEF HoldsKey
<1>3. CASE WritePassword(w)
  <2>1. PICK p \in {"tkRead", "ok", "error"} : pc' = [pc EXCEPT ![w] = p]
    BY <1>3 DEF WritePassword
  <2>2. UNCHANGED <<tke, rec, emb, cache, user, key, generated>>
    BY <1>3 DEF WritePassword
  <2>3. QED
    BY <2>1, <2>2, IsolatedQuiet DEF HoldsKey
<1>4. CASE ReadKey(w)
  <2>1. user[w] \in Users /\ UNCHANGED <<tke, rec, emb, cache, user, generated>>
    BY <1>4, <1>u DEF ReadKey
  <2>2. CASE UNCHANGED key /\ \E p \in {"ok", "error"} : pc' = [pc EXCEPT ![w] = p]
    BY <2>1, <2>2, IsolatedQuiet DEF HoldsKey
  <2>3. ASSUME NEW k \in Keys, NEW p \in {"tkT", "recT"}, k = tke[user[w]],
               key' = [key EXCEPT ![w] = k], pc' = [pc EXCEPT ![w] = p]
        PROVE  KeyIsolation'
    <3>1. k \in generated[user[w]]
      BY CopiesGenerated, <2>1, <2>3
    <3>2. QED
      BY <2>1, <2>3, <3>1, IsolatedStep
  <2>4. QED
    BY <1>4, <2>1, <2>2, <2>3 DEF ReadKey
<1>5. CASE Unwrap(w)
  <2>1. user[w] \in Users /\ UNCHANGED <<tke, rec, emb, cache, user, generated>>
    BY <1>5, <1>u DEF Unwrap
  <2>2. CASE UNCHANGED key /\ \E p \in {"error"} : pc' = [pc EXCEPT ![w] = p]
    BY <2>1, <2>2, IsolatedQuiet DEF HoldsKey
  <2>3. ASSUME NEW k \in Keys, NEW p \in {"tkT"}, k = rec[user[w]],
               key' = [key EXCEPT ![w] = k], pc' = [pc EXCEPT ![w] = p]
        PROVE  KeyIsolation'
    <3>1. k \in generated[user[w]]
      BY CopiesGenerated, <2>1, <2>3
    <3>2. QED
      BY <2>1, <2>3, <3>1, IsolatedStep
  <2>4. QED
    BY <1>5, <2>1, <2>2, <2>3 DEF Unwrap
<1>6. CASE OpenKey(w)
  <2>1. pc[w] \in HoldsKey /\ user[w] \in Users /\ key[w] \in generated[user[w]]
    BY <1>6, <1>u DEF OpenKey, HoldsKey, KeyIsolation
  <2>2. PICK p \in {"tkW", "ok", "error"} : pc' = [pc EXCEPT ![w] = p]
    BY <1>6 DEF OpenKey
  <2>4. /\ UNCHANGED <<rec, emb, cache, user, generated>>
        /\ key' = [key EXCEPT ![w] = key[w]]
        /\ \A u \in Users \ {user[w]} : tke'[u] = tke[u]
        /\ tke'[user[w]] \in {tke[user[w]], Bad}
    BY <1>6, <1>k, <2>1 DEF OpenKey, TypeInv, TypeOK
  <2>5. QED
    BY <2>1, <2>2, <2>4, IsolatedStep
<1>7. CASE WriteKey(w)
  <2>1. pc[w] \in HoldsKey /\ user[w] \in Users /\ key[w] \in generated[user[w]]
    BY <1>7, <1>u DEF WriteKey, HoldsKey, KeyIsolation
  <2>2. PICK p \in {"evict", "error"} : pc' = [pc EXCEPT ![w] = p]
    BY <1>7 DEF WriteKey
  <2>3. PICK v \in {tke[user[w]], key[w], Bad} : tke' = [tke EXCEPT ![user[w]] = v]
    BY <1>7 DEF WriteKey, Landed
  <2>4. /\ UNCHANGED <<rec, emb, cache, user, generated>>
        /\ key' = [key EXCEPT ![w] = key[w]]
        /\ \A u \in Users \ {user[w]} : tke'[u] = tke[u]
        /\ tke'[user[w]] = v
    BY <1>7, <1>k, <2>1, <2>3 DEF WriteKey, TypeInv, TypeOK
  <2>5. QED
    BY <2>1, <2>2, <2>3, <2>4, IsolatedStep
<1>8. CASE OpenRecovery(w)
  <2>1. pc[w] \in HoldsKey /\ user[w] \in Users /\ key[w] \in generated[user[w]]
    BY <1>8, <1>u DEF OpenRecovery, HoldsKey, KeyIsolation
  <2>2. PICK p \in {"recW"} : pc' = [pc EXCEPT ![w] = p]
    BY <1>8 DEF OpenRecovery
  <2>4. /\ UNCHANGED <<tke, emb, cache, user, generated>>
        /\ key' = [key EXCEPT ![w] = key[w]]
        /\ \A u \in Users \ {user[w]} : rec'[u] = rec[u]
        /\ rec'[user[w]] = Bad
    BY <1>8, <1>k, <2>1 DEF OpenRecovery, TypeInv, TypeOK
  <2>5. QED
    BY <2>1, <2>2, <2>4, IsolatedStep
<1>9. CASE WriteRecovery(w)
  <2>1. pc[w] \in HoldsKey /\ user[w] \in Users /\ key[w] \in generated[user[w]]
    BY <1>9, <1>u DEF WriteRecovery, HoldsKey, KeyIsolation
  <2>2. PICK p \in {"ok", "error"} : pc' = [pc EXCEPT ![w] = p]
    BY <1>9 DEF WriteRecovery
  <2>3. PICK v \in {rec[user[w]], key[w], Bad} : rec' = [rec EXCEPT ![user[w]] = v]
    BY <1>9 DEF WriteRecovery, Landed
  <2>4. /\ UNCHANGED <<tke, emb, cache, user, generated>>
        /\ key' = [key EXCEPT ![w] = key[w]]
        /\ \A u \in Users \ {user[w]} : rec'[u] = rec[u]
        /\ rec'[user[w]] = v
    BY <1>9, <1>k, <2>1, <2>3 DEF WriteRecovery, TypeInv, TypeOK
  <2>5. QED
    BY <2>1, <2>2, <2>3, <2>4, IsolatedStep
<1>10. QED
  BY <1>1, <1>2, <1>3, <1>4, <1>5, <1>6, <1>7, <1>8, <1>9 DEF SealStep

LEMMA IsolatedNext ==
    ASSUME TypeInv, KeyIsolation, [Next]_vars PROVE KeyIsolation'
<1>1. ASSUME NEW w \in Workers, NEW u \in Users, NEW r \in AllRequests, Start(w, u, r)
      PROVE  KeyIsolation'
  <2>1. FirstPc[r] \notin HoldsKey
    BY ConstantsAssumption DEF FirstPc, AllRequests, Enrolling, Matching, HoldsKey
  <2>2. \A x \in Workers : pc'[x] \in HoldsKey =>
           pc[x] \in HoldsKey /\ user'[x] = user[x]
    BY <1>1, <2>1 DEF Start, TypeInv, TypeOK
  <2>3. UNCHANGED <<tke, rec, emb, cache, key, generated>>
    BY <1>1 DEF Start
  <2>4. QED
    BY <2>2, <2>3 DEF KeyIsolation
<1>2. ASSUME NEW w \in Workers, WriteFails(w) PROVE KeyIsolation'
  <2>1. PICK p \in {"calib", "ok", "tkRead", "error"} : pc' = [pc EXCEPT ![w] = p]
    BY <1>2 DEF WriteFails, AfterFailedWrite
  <2>2. /\ p \in HoldsKey => pc[w] \in HoldsKey
        /\ UNCHANGED <<tke, rec, emb, cache, user, key, generated>>
    BY <1>2, <2>1 DEF WriteFails, AfterFailedWrite, OpenPcs, HoldsKey, TypeInv, TypeOK
  <2>3. QED
    BY <2>1, <2>2, IsolatedQuiet
<1>3. ASSUME NEW w \in Workers, Reply(w) PROVE KeyIsolation'
  <2>1. /\ UNCHANGED <<tke, rec, emb, cache, generated>>
        /\ \A x \in Workers : pc'[x] \in HoldsKey =>
              pc[x] \in HoldsKey /\ user'[x] = user[x] /\ key'[x] = key[x]
    BY <1>3 DEF Reply, HoldsKey, TypeInv, TypeOK
  <2>2. QED
    BY <2>1 DEF KeyIsolation
<1>8. ASSUME NEW w \in Workers, NextProfile(w) PROVE KeyIsolation'
  <2>1. /\ UNCHANGED <<tke, rec, emb, cache, generated>>
        /\ \A x \in Workers : pc'[x] \in HoldsKey =>
              pc[x] \in HoldsKey /\ user'[x] = user[x] /\ key'[x] = key[x]
    BY <1>8 DEF NextProfile, HoldsKey, TypeInv, TypeOK
  <2>2. QED
    BY <2>1 DEF KeyIsolation
<1>4. CASE Restart
  <2>1. /\ UNCHANGED <<tke, rec, emb, generated>>
        /\ \A u \in Users : cache'[u] = NoKey
        /\ \A x \in Workers : pc'[x] \notin HoldsKey
    BY <1>4 DEF Restart, HoldsKey
  <2>2. QED
    BY <2>1, ConstantsAssumption DEF KeyIsolation
<1>5. CASE Drift
  <2>1. /\ UNCHANGED <<rec, emb, cache, generated, pc, user, key>>
        /\ \A u \in Users : tke'[u] \in {tke[u], Bad}
    BY <1>5 DEF Drift
  <2>2. QED
    BY <2>1, ConstantsAssumption DEF KeyIsolation
<1>6. CASE UNCHANGED vars
  BY <1>6 DEF vars, KeyIsolation
<1>7. QED
  BY <1>1, <1>2, <1>3, <1>4, <1>5, <1>6, <1>8, IsolatedKeyStep, IsolatedEnrollStep,
     IsolatedMatchStep, IsolatedDeleteStep, IsolatedSealStep DEF Next, Step

LEMMA IsolatedInit == Init => KeyIsolation
BY ConstantsAssumption DEF Init, KeyIsolation, HoldsKey

\* However requests overlap, crash and fail, no profile, cache entry or handler
\* of one user ever holds a key generated for another.
THEOREM Isolation == Spec => []KeyIsolation
<1>1. Init => TypeInv /\ KeyIsolation
  BY TypeInit, IsolatedInit
<1>2. TypeInv /\ KeyIsolation /\ [Next]_vars => (TypeInv /\ KeyIsolation)'
  BY TypeNext, IsolatedNext
<1>3. QED
  BY <1>1, <1>2, PTL DEF Spec

-----------------------------------------------------------------------------
(* SerialSpec: what a delete leaves.                                       *)

\* The last steps of a delete find the directory gone, and the reply finds the
\* key gone from the cache.
WorkerErased(w) ==
    req[w] = "delete" =>
        /\ pc[w] \in {"evict", "ok"} => ~DirExists(user[w])
        /\ pc[w] = "ok" => cache[user[w]] = NoKey

EraseInv == \A w \in Workers : WorkerErased(w)

\* A step of w leaves the other users' profiles and the other workers alone.
Elsewhere(w) ==
    \A v \in Users \ {user[w]} :
       /\ tke'[v] = tke[v] /\ emb'[v] = emb[v] /\ pwe'[v] = pwe[v]
       /\ rec'[v] = rec[v] /\ bind'[v] = bind[v] /\ cal'[v] = cal[v]
       /\ cache'[v] = cache[v]

OthersStay(w) ==
    \A x \in Workers \ {w} :
       pc'[x] = pc[x] /\ req'[x] = req[x] /\ user'[x] = user[x]

LEMMA FrameKeyStep ==
    ASSUME TypeInv, NEW w \in Workers, KeyStep(w)
    PROVE  Elsewhere(w) /\ OthersStay(w)
<1> USE DEF TypeInv, TypeOK, Elsewhere, OthersStay
<1>1. CASE LookupKey(w)
  BY <1>1 DEF LookupKey
<1>2. CASE EnsureKey(w)
  BY <1>2 DEF EnsureKey
<1>3. CASE UnsealKey(w)
  BY <1>3 DEF UnsealKey
<1>4. CASE CreateKey(w)
  BY <1>4 DEF CreateKey
<1>5. CASE WriteNewKey(w)
  BY <1>5 DEF WriteNewKey
<1>6. CASE InsertKey(w)
  BY <1>6 DEF InsertKey
<1>7. QED
  BY <1>1, <1>2, <1>3, <1>4, <1>5, <1>6 DEF KeyStep

LEMMA FrameEnrollStep ==
    ASSUME TypeInv, NEW w \in Workers, EnrollStep(w)
    PROVE  Elsewhere(w) /\ OthersStay(w)
<1> USE DEF TypeInv, TypeOK, Elsewhere, OthersStay
<1>1. CASE LoadExisting(w)
  BY <1>1 DEF LoadExisting
<1>2. CASE OpenEmbedding(w)
  BY <1>2 DEF OpenEmbedding
<1>3. CASE WriteEmbedding(w)
  BY <1>3 DEF WriteEmbedding
<1>4. CASE OpenBinding(w)
  BY <1>4 DEF OpenBinding
<1>5. CASE WriteBinding(w)
  BY <1>5 DEF WriteBinding
<1>6. CASE LoadCalibration(w)
  BY <1>6 DEF LoadCalibration
<1>7. CASE OpenCalibration(w)
  BY <1>7 DEF OpenCalibration
<1>8. CASE WriteCalibration(w)
  BY <1>8 DEF WriteCalibration
<1>9. QED
  BY <1>1, <1>2, <1>3, <1>4, <1>5, <1>6, <1>7, <1>8 DEF EnrollStep

LEMMA FrameMatchStep ==
    ASSUME TypeInv, NEW w \in Workers, MatchStep(w)
    PROVE  Elsewhere(w) /\ OthersStay(w)
<1> USE DEF TypeInv, TypeOK, Elsewhere, OthersStay
<1>1. CASE CheckBinding(w)
  BY <1>1 DEF CheckBinding
<1>2. CASE LoadSamples(w)
  BY <1>2 DEF LoadSamples
<1>3. CASE CaptureAndMatch(w)
  BY <1>3 DEF CaptureAndMatch
<1>4. CASE ReleasePassword(w)
  BY <1>4 DEF ReleasePassword
<1>5. QED
  BY <1>1, <1>2, <1>3, <1>4 DEF MatchStep

LEMMA UnlinkFrame ==
    ASSUME TypeInv, NEW w \in Workers, NEW S, Unlink(user[w], S)
    PROVE  \A v \in Users \ {user[w]} :
              /\ tke'[v] = tke[v] /\ emb'[v] = emb[v] /\ pwe'[v] = pwe[v]
              /\ rec'[v] = rec[v] /\ bind'[v] = bind[v] /\ cal'[v] = cal[v]
BY DEF Unlink, TypeInv, TypeOK

LEMMA FrameDeleteStep ==
    ASSUME TypeInv, NEW w \in Workers, DeleteStep(w)
    PROVE  Elsewhere(w) /\ OthersStay(w)
<1> USE DEF TypeInv, TypeOK, Elsewhere, OthersStay
<1>1. CASE CheckEnrolled(w)
  BY <1>1 DEF CheckEnrolled
<1>2. CASE RemoveSome(w)
  <2>1. CASE ~DirExists(user[w])
    BY <1>2, <2>1 DEF RemoveSome
  <2>2. CASE DirExists(user[w])
    BY <1>2, <2>2, UnlinkFrame DEF RemoveSome
  <2>3. QED
    BY <2>1, <2>2
<1>3. CASE RemoveRest(w)
  BY <1>3, UnlinkFrame DEF RemoveRest
<1>4. CASE RemoveFails(w)
  BY <1>4 DEF RemoveFails
<1>5. CASE EvictKey(w)
  BY <1>5 DEF EvictKey
<1>6. QED
  BY <1>1, <1>2, <1>3, <1>4, <1>5 DEF DeleteStep

LEMMA FrameSealStep ==
    ASSUME TypeInv, NEW w \in Workers, SealStep(w)
    PROVE  Elsewhere(w) /\ OthersStay(w)
<1> USE DEF TypeInv, TypeOK, Elsewhere, OthersStay
<1>1. CASE ReadPassword(w)
  BY <1>1 DEF ReadPassword
<1>2. CASE OpenPassword(w)
  BY <1>2 DEF OpenPassword
<1>3. CASE WritePassword(w)
  BY <1>3 DEF WritePassword
<1>4. CASE ReadKey(w)
  BY <1>4 DEF ReadKey
<1>5. CASE Unwrap(w)
  BY <1>5 DEF Unwrap
<1>6. CASE OpenKey(w)
  BY <1>6 DEF OpenKey
<1>7. CASE WriteKey(w)
  BY <1>7 DEF WriteKey
<1>8. CASE OpenRecovery(w)
  BY <1>8 DEF OpenRecovery
<1>9. CASE WriteRecovery(w)
  BY <1>9 DEF WriteRecovery
<1>10. QED
  BY <1>1, <1>2, <1>3, <1>4, <1>5, <1>6, <1>7, <1>8, <1>9 DEF SealStep

LEMMA FrameStep ==
    ASSUME TypeInv, NEW w \in Workers, Step(w)
    PROVE  Elsewhere(w) /\ OthersStay(w)
<1>1. CASE WriteFails(w)
  BY <1>1 DEF WriteFails, TypeInv, TypeOK, Elsewhere, OthersStay
<1>2. CASE Reply(w)
  BY <1>2 DEF Reply, TypeInv, TypeOK, Elsewhere, OthersStay
<1>3. CASE NextProfile(w)
  BY <1>3 DEF NextProfile, TypeInv, TypeOK, Elsewhere, OthersStay
<1>4. QED
  BY <1>1, <1>2, <1>3, FrameKeyStep, FrameEnrollStep, FrameMatchStep,
     FrameDeleteStep, FrameSealStep DEF Step

\* Hence only w has to be looked at: no other worker serves its user.
LEMMA EraseElsewhere ==
    ASSUME TypeInv, SerialInv, EraseInv, NEW w \in Workers, Step(w),
           WorkerErased(w)'
    PROVE  EraseInv'
<1>1. Elsewhere(w) /\ OthersStay(w)
  BY FrameStep
<1>2. ASSUME NEW x \in Workers \ {w} PROVE WorkerErased(x)'
  <2>1. WorkerErased(x)
    BY DEF EraseInv
  <2>2. pc'[x] = pc[x] /\ req'[x] = req[x] /\ user'[x] = user[x]
    BY <1>1 DEF OthersStay
  <2>3. CASE pc[x] \in {"evict", "ok"}
    <3>1. user[x] \in Users \ {user[w]}
      BY <2>3, OneServer, ConstantsAssumption DEF TypeInv, TypeOK, LocalsOK
    <3>2. Present(user[x])' = Present(user[x]) /\ cache'[user[x]] = cache[user[x]]
      BY <1>1, <2>2, <3>1 DEF Elsewhere, Present
    <3>3. QED
      BY <2>1, <2>2, <3>2 DEF WorkerErased, DirExists
  <2>4. CASE pc[x] \notin {"evict", "ok"}
    BY <2>2, <2>4 DEF WorkerErased
  <2>5. QED
    BY <2>3, <2>4
<1>3. QED
  BY <1>2 DEF EraseInv

\* A delete takes only the steps of do_delete_profile.
LEMMA EraseOwn ==
    ASSUME TypeInv, EraseInv, NEW w \in Workers, Step(w), req'[w] = "delete"
    PROVE  WorkerErased(w)'
<1>t. /\ pc \in [Workers -> PCs] /\ req \in [Workers -> AllRequests \cup {"none"}]
      /\ user \in [Workers -> Users \cup {NoUser}] /\ cache \in [Users -> Keys \cup {NoKey}]
  BY DEF TypeInv, TypeOK
<1>1. ~Reply(w)
  BY <1>t DEF Reply
<1>2. req[w] = "delete"
  BY <1>1, <1>t DEF Step, KeyStep, EnrollStep, MatchStep, DeleteStep, SealStep,
     LookupKey, EnsureKey, UnsealKey, CreateKey, WriteNewKey, InsertKey,
     LoadExisting, OpenEmbedding, WriteEmbedding, OpenBinding, WriteBinding,
     LoadCalibration, OpenCalibration, WriteCalibration, CheckBinding, LoadSamples,
     CaptureAndMatch, ReleasePassword, CheckEnrolled, RemoveSome, RemoveRest,
     RemoveFails, EvictKey, ReadPassword, OpenPassword, WritePassword, ReadKey,
     Unwrap, OpenKey, WriteKey, OpenRecovery, WriteRecovery, WriteFails, NextProfile
<1>3. /\ pc[w] \in {"check", "rm", "rmRest", "evict", "ok", "error"}
      /\ list[w] = {}
      /\ user[w] \in Users
  BY <1>2, <1>t DEF TypeInv, LocalsOK
<1>4. DeleteStep(w)
  BY <1>1, <1>3 DEF Step, KeyStep, EnrollStep, MatchStep, SealStep,
     LookupKey, EnsureKey, UnsealKey, CreateKey, WriteNewKey, InsertKey,
     LoadExisting, OpenEmbedding, WriteEmbedding, OpenBinding, WriteBinding,
     LoadCalibration, OpenCalibration, WriteCalibration, CheckBinding, LoadSamples,
     CaptureAndMatch, ReleasePassword, ReadPassword, OpenPassword, WritePassword,
     ReadKey, Unwrap, OpenKey, WriteKey, OpenRecovery, WriteRecovery, WriteFails,
     OpenPcs, NextProfile
<1>5. CASE RemoveRest(w)
  <2>1. pc'[w] = "evict" /\ user'[w] = user[w]
    BY <1>5, <1>t DEF RemoveRest
  <2>2. /\ tke'[user[w]] = Absent /\ emb'[user[w]] = Absent
        /\ pwe'[user[w]] = Absent /\ rec'[user[w]] = Absent
        /\ bind'[user[w]] = Absent /\ cal'[user[w]] = Absent
    BY <1>3, <1>5 DEF RemoveRest, Unlink, Files, TypeInv, TypeOK
  <2>3. ~DirExists(user[w])'
    BY <2>1, <2>2 DEF DirExists, Present
  <2>4. QED
    BY <2>1, <2>3 DEF WorkerErased
<1>6. CASE EvictKey(w)
  <2>1. /\ pc[w] = "evict" /\ pc'[w] = "ok" /\ user'[w] = user[w]
        /\ cache'[user[w]] = NoKey /\ UNCHANGED <<tke, emb, pwe, rec, bind, cal>>
    BY <1>3, <1>6, <1>t DEF EvictKey
  <2>2. ~DirExists(user[w])
    BY <1>2, <2>1 DEF EraseInv, WorkerErased
  <2>3. ~DirExists(user[w])'
    BY <2>1, <2>2 DEF DirExists, Present
  <2>4. QED
    BY <2>1, <2>3 DEF WorkerErased
<1>7. CASE CheckEnrolled(w) \/ RemoveSome(w) \/ RemoveFails(w)
  <2>1. pc'[w] \in {"rm", "rmRest", "error"}
    BY <1>7, <1>t DEF CheckEnrolled, RemoveSome, RemoveFails
  <2>2. QED
    BY <2>1 DEF WorkerErased
<1>8. QED
  BY <1>4, <1>5, <1>6, <1>7 DEF DeleteStep

LEMMA EraseStep ==
    ASSUME TypeInv, SerialInv, EraseInv, NEW w \in Workers, Step(w)
    PROVE  EraseInv'
<1>1. WorkerErased(w)'
  BY EraseOwn DEF WorkerErased
<1>2. QED
  BY <1>1, EraseElsewhere

LEMMA EraseStart ==
    ASSUME TypeInv, EraseInv, NEW w \in Workers, NEW u \in Users,
           NEW r \in AllRequests, Start(w, u, r)
    PROVE  EraseInv'
<1>1. r = "delete" => FirstPc[r] = "check"
  BY DEF FirstPc, AllRequests, Enrolling, Matching
<1>2. ASSUME NEW x \in Workers PROVE WorkerErased(x)'
  <2>1. CASE x = w
    <3>1. req'[w] = r /\ pc'[w] = FirstPc[r]
      BY DEF Start, TypeInv, TypeOK
    <3>2. QED
      BY <1>1, <2>1, <3>1 DEF WorkerErased
  <2>2. CASE x # w
    <3>1. /\ pc'[x] = pc[x] /\ req'[x] = req[x] /\ user'[x] = user[x]
          /\ UNCHANGED <<tke, emb, pwe, rec, bind, cal, cache>>
      BY <2>2 DEF Start, TypeInv, TypeOK
    <3>2. DirExists(user[x])' = DirExists(user[x])
      BY <3>1 DEF DirExists, Present
    <3>3. QED
      BY <3>1, <3>2 DEF EraseInv, WorkerErased
  <2>3. QED
    BY <2>1, <2>2
<1>3. QED
  BY <1>2 DEF EraseInv

LEMMA EraseDrift == ASSUME TypeInv, EraseInv, Drift PROVE EraseInv'
<1>1. UNCHANGED <<emb, rec, bind, cal, cache, pc, req, user>>
  BY DEF Drift
<1>2. ASSUME NEW u \in Users, ~DirExists(u) PROVE ~DirExists(u)'
  <2>1. tke[u] = Absent /\ pwe[u] = Absent
    BY <1>2 DEF DirExists, Present, Files
  <2>2. tke'[u] = Absent /\ pwe'[u] = Absent
    BY <2>1, ConstantsAssumption DEF Drift
  <2>3. Present(u)' = Present(u)
    BY <1>1, <2>1, <2>2 DEF Present
  <2>4. QED
    BY <1>2, <2>3 DEF DirExists
<1>3. ASSUME NEW w \in Workers PROVE WorkerErased(w)'
  <2>1. WorkerErased(w)
    BY DEF EraseInv
  <2>2. pc[w] \in {"evict", "ok"} => user[w] \in Users
    BY DEF TypeInv, TypeOK, LocalsOK
  <2>3. pc[w] \in {"evict", "ok"} /\ ~DirExists(user[w]) => ~DirExists(user[w])'
    BY <1>1, <1>2, <2>2
  <2>4. QED
    BY <1>1, <2>1, <2>3 DEF WorkerErased
<1>4. QED
  BY <1>3 DEF EraseInv

LEMMA EraseInductive ==
    ASSUME TypeInv, SerialInv, EraseInv, [SerialNext]_vars PROVE EraseInv'
<1>1. CASE UNCHANGED vars
  <2>1. ASSUME NEW w \in Workers PROVE WorkerErased(w)'
    <3>1. WorkerErased(w)
      BY DEF EraseInv
    <3>2. DirExists(user[w])' = DirExists(user[w])
      BY <1>1 DEF vars, DirExists, Present
    <3>3. QED
      BY <1>1, <3>1, <3>2 DEF vars, WorkerErased
  <2>2. QED
    BY <2>1 DEF EraseInv
<1>2. CASE Restart
  BY <1>2 DEF Restart, EraseInv, WorkerErased
<1>3. QED
  BY <1>1, <1>2, EraseStart, EraseStep, EraseDrift DEF SerialNext

LEMMA EraseInvariance == SerialSpec => []EraseInv
<1>1. Init => EraseInv
  BY DEF Init, EraseInv, WorkerErased
<1>2. TypeInv /\ SerialInv /\ EraseInv /\ [SerialNext]_vars => EraseInv'
  BY EraseInductive
<1>3. QED
  BY <1>1, <1>2, SerialInvariance, PTL DEF SerialSpec

\* While a user's requests do not overlap, a delete that reports success has
\* left no file of the profile and no cached key.
THEOREM DeleteComplete == SerialSpec => []DeleteErases
<1>1. EraseInv => DeleteErases
  <2>1. ASSUME EraseInv, NEW w \in Workers PROVE WorkerErased(w)
    BY <2>1 DEF EraseInv
  <2>2. QED
    BY <2>1 DEF DeleteErases, WorkerErased
<1>2. QED
  BY <1>1, EraseInvariance, PTL
=============================================================================

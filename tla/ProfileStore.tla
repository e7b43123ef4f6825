---------------------------- MODULE ProfileStore ----------------------------
(***************************************************************************)
(* The per-user profile store of linhellod: the files under                *)
(* /etc/linhello/<user>/, the in-memory template-key cache, and the        *)
(* request handlers that read and write them.                              *)
(*                                                                         *)
(* Every connection is served by a task of its own                         *)
(* (linhello-daemon/src/main.rs, dispatch, spawn_blocking), so two         *)
(* handlers of one user interleave between any two file or cache accesses. *)
(* A worker is one such task; pc[w] names the next access of its handler.  *)
(*                                                                         *)
(* A file is Absent, Bad (it exists, and reading it fails: cut short by a  *)
(* crash or a failed write, or sealed to a TPM state that is gone) or      *)
(* holds a value.  fs::write is two steps, the truncating open and the     *)
(* write; Spec lets the daemon die and restart between any two steps.      *)
(***************************************************************************)
EXTENDS Naturals, FiniteSets

CONSTANTS Users,       \* login names with a directory under CONFIG_ROOT
          Workers,     \* handler tasks that may be in flight together
          Keys,        \* AES template keys crypto::generate_key may return
          Passwords,   \* login passwords a client may ask to seal
          Requests,    \* <<u, r>>: clients send requests of kind r about u
          Cameras,     \* what snapshot_camera_binding may find: "rgb", "ir"
          MaxSamples,  \* bound: samples are counted up to here
          MinObs,      \* MIN_CALIBRATION_OBSERVATIONS
          Absent, Bad, \* no such file; a file that cannot be read back
          NoKey,       \* no cached key; no key held by a worker
          NoUser       \* the user of an idle worker

AllRequests == {"enroll", "enrollReset", "verify", "unsealPassword",
                "identify", "delete", "reseal", "saveRecovery", "restore",
                "sealPassword"}

Embeddings == [key : Keys, n : Nat]

ASSUME ConstantsAssumption ==
    /\ Requests \subseteq Users \X AllRequests
    /\ Cameras \subseteq {"rgb", "ir"}
    /\ MaxSamples \in Nat \ {0}
    /\ MinObs \in Nat \ {0}
    /\ Absent # Bad
    /\ {Absent, Bad} \cap (Keys \cup Passwords \cup Embeddings) = {}
    /\ {Absent, Bad} \cap ({"rgb", "ir"} \cup Nat) = {}
    /\ NoKey \notin Keys
    /\ NoUser \notin Users

VARIABLES
    tke,    \* tke[u]: template_key_envelope.json, the key it seals
    emb,    \* emb[u]: embedding.enc, its key and its number of samples
    pwe,    \* pwe[u]: password_envelope.json
    rec,    \* rec[u]: recovery_envelope.json, the key it wraps
    bind,   \* bind[u]: camera_binding.json
    cal,    \* cal[u]: ir_calibration.json, observations (saturating at MinObs)
    cache,  \* TEMPLATE_KEY_CACHE
    pc, req, user,  \* pc[w], the request and the user w serves
    list,   \* list[w]: the profiles do_identify has yet to visit
    key, cnt, obs, pw, \* key[w], cnt[w], ...: the handler's locals
    orphan, \* orphan[w]: the file w has open was unlinked under it
    generated, \* history: the keys ever generated for u
    half       \* history: a delete of u began and has not completed since

disk == <<tke, emb, pwe, rec, bind, cal>>
locals == <<key, cnt, obs, pw>>
history == <<generated, half>>
vars == <<disk, cache, pc, req, list, user, locals, orphan, history>>

-----------------------------------------------------------------------------
(* Program counters, grouped by what the worker is about to do.            *)

\* w has opened (and truncated) the file and writes it next
OpenPcs == {"createW", "saveW", "bindW", "calibW", "pwW", "tkW", "recW"}
\* w holds the template key its handler works with
HoldsKey == {"createW", "insert", "load", "save", "saveW", "bind", "bindW",
             "calib", "calibT", "calibW", "gate", "tkT", "tkW", "recT", "recW"}
PCs == {"idle", "binding", "lookup", "ensure", "unseal", "create", "release",
        "check", "rm", "rmRest", "evict", "pwRead", "pwT", "tkRead",
        "recRead", "unwrap", "ok", "error"} \cup OpenPcs \cup HoldsKey

Enrolling == {"enroll", "enrollReset"}
Matching == {"verify", "unsealPassword", "identify"}

FileOf(p) == CASE p \in {"createW", "tkW"} -> "tke"
               [] p = "saveW" -> "emb"
               [] p = "pwW" -> "pwe"
               [] p = "recW" -> "rec"
               [] p = "bindW" -> "bind"
               [] p = "calibW" -> "cal"
               [] OTHER -> "none"

Goto(w, p) == pc' = [pc EXCEPT ![w] = p]

\* What a write that began with O_TRUNC leaves behind.  Two writers that
\* both truncated leave the second's bytes over the first's, which parse
\* only if the second's are at least as many.  The bytes written to an
\* unlinked inode are not in the directory any more.
Landed(w, cur, v) == IF orphan[w] THEN {cur}
                     ELSE IF cur = Bad THEN {v} ELSE {v, Bad}

\* set_permissions(path) after the write: fails when the path is gone
ChmodOk(cur) == cur # Absent

Files == {"tke", "emb", "pwe", "rec", "bind", "cal"}

Present(u) == {f \in Files : \/ f = "tke" /\ tke[u] # Absent
                             \/ f = "emb" /\ emb[u] # Absent
                             \/ f = "pwe" /\ pwe[u] # Absent
                             \/ f = "rec" /\ rec[u] # Absent
                             \/ f = "bind" /\ bind[u] # Absent
                             \/ f = "cal" /\ cal[u] # Absent}

\* create_dir_all comes with the first file, remove_dir_all takes them all
DirExists(u) == Present(u) # {}

-----------------------------------------------------------------------------
Init ==
    /\ tke = [u \in Users |-> Absent]
    /\ emb = [u \in Users |-> Absent]
    /\ pwe = [u \in Users |-> Absent]
    /\ rec = [u \in Users |-> Absent]
    /\ bind = [u \in Users |-> Absent]
    /\ cal = [u \in Users |-> Absent]
    /\ cache = [u \in Users |-> NoKey]
    /\ pc = [w \in Workers |-> "idle"]
    /\ req = [w \in Workers |-> "none"]
    /\ user = [w \in Workers |-> NoUser]
    /\ list = [w \in Workers |-> {}]
    /\ key = [w \in Workers |-> NoKey]
    /\ cnt = [w \in Workers |-> 0]
    /\ obs = [w \in Workers |-> 0]
    /\ pw = [w \in Workers |-> Absent]
    /\ orphan = [w \in Workers |-> FALSE]
    /\ generated = [u \in Users |-> {}]
    /\ half = [u \in Users |-> FALSE]

-----------------------------------------------------------------------------
(* A request arrives, and its reply leaves.                                *)

FirstPc == [r \in AllRequests |->
              CASE r \in Enrolling -> "lookup"
                [] r \in Matching -> "binding"
                [] r = "delete" -> "check"
                [] r = "reseal" -> "pwRead"
                [] r = "saveRecovery" -> "recRead"
                [] r = "restore" -> "unwrap"
                [] r = "sealPassword" -> "pwT"]

\* enrolled_profiles: the directories with a template, readable or not
Enrolled == {u \in Users : emb[u] # Absent}

\* handle, dispatch: spawn_blocking starts the handler.  An enrolling
\* handler captures first; a failed capture changes nothing.  do_identify
\* lists the profiles, refuses an empty list, captures once and visits them
\* one after the other (by name in the code, in any order here).
Start(w, u, r) ==
    /\ pc[w] = "idle"
    /\ r = "identify" => u \in Enrolled
    /\ req' = [req EXCEPT ![w] = r]
    /\ user' = [user EXCEPT ![w] = u]
    /\ list' = [list EXCEPT ![w] = IF r = "identify" THEN Enrolled \ {u}
                                   ELSE {}]
    /\ Goto(w, FirstPc[r])
    /\ IF r = "sealPassword"
       THEN \E p \in Passwords : pw' = [pw EXCEPT ![w] = p]
       ELSE pw' = pw
    /\ UNCHANGED <<disk, cache, key, cnt, obs, orphan, history>>

\* Mutant of NextProfile: the key is fetched once, for the first profile.
NextProfileSameKey(w) ==
    /\ pc[w] \in {"ok", "error"}
    /\ \E u \in list[w] :
         /\ user' = [user EXCEPT ![w] = u]
         /\ list' = [list EXCEPT ![w] = @ \ {u}]
    /\ Goto(w, IF key[w] = NoKey THEN "binding" ELSE "load")
    /\ UNCHANGED <<disk, cache, req, locals, orphan, history>>

\* The loop of do_identify goes on to the next profile of the list it took
\* before the capture, whether or not the last one could be read.
NextProfile(w) ==
    /\ pc[w] \in {"ok", "error"}
    /\ \E u \in list[w] :
         /\ user' = [user EXCEPT ![w] = u]
         /\ list' = [list EXCEPT ![w] = @ \ {u}]
    /\ key' = [key EXCEPT ![w] = NoKey]
    /\ Goto(w, "binding")
    /\ UNCHANGED <<disk, cache, req, cnt, obs, pw, orphan, history>>

\* The reply is written and the task ends, dropping the handler's locals.
Reply(w) ==
    /\ pc[w] \in {"ok", "error"}
    /\ list[w] = {}
    /\ Goto(w, "idle")
    /\ req' = [req EXCEPT ![w] = "none"]
    /\ user' = [user EXCEPT ![w] = NoUser]
    /\ key' = [key EXCEPT ![w] = NoKey]
    /\ cnt' = [cnt EXCEPT ![w] = 0]
    /\ obs' = [obs EXCEPT ![w] = 0]
    /\ pw' = [pw EXCEPT ![w] = Absent]
    /\ orphan' = [orphan EXCEPT ![w] = FALSE]
    /\ UNCHANGED <<disk, cache, list, history>>

-----------------------------------------------------------------------------
(* cached_template_key and core::ensure_template_key.                      *)

AfterKey(w) == IF req[w] = "enrollReset" THEN "save" ELSE "load"

\* The first critical section: a hit returns a clone of the cached key.
LookupKey(w) ==
    /\ pc[w] = "lookup"
    /\ IF cache[user[w]] # NoKey
       THEN /\ key' = [key EXCEPT ![w] = cache[user[w]]]
            /\ Goto(w, AfterKey(w))
       ELSE /\ Goto(w, "ensure")
            /\ UNCHANGED key
    /\ UNCHANGED <<disk, cache, req, list, user, cnt, obs, pw, orphan, history>>

\* Mutant of EnsureKey: the existence check is missing.
EnsureKeyUnchecked(w) ==
    /\ pc[w] = "ensure"
    /\ Goto(w, "create")
    /\ UNCHANGED <<disk, cache, req, list, user, locals, orphan, history>>

\* kp.exists()
EnsureKey(w) ==
    /\ pc[w] = "ensure"
    /\ Goto(w, IF tke[user[w]] # Absent THEN "unseal" ELSE "create")
    /\ UNCHANGED <<disk, cache, req, list, user, locals, orphan, history>>

\* unseal_template_key: the TPM may refuse, whatever the envelope holds
UnsealKey(w) ==
    /\ pc[w] = "unseal"
    /\ \/ /\ tke[user[w]] \in Keys
          /\ key' = [key EXCEPT ![w] = tke[user[w]]]
          /\ Goto(w, "insert")
       \/ /\ Goto(w, "error")
          /\ UNCHANGED key
    /\ UNCHANGED <<disk, cache, req, list, user, cnt, obs, pw, orphan, history>>

\* generate_key, tpm::seal_secret, then the truncating open of env.save
CreateKey(w) ==
    /\ pc[w] = "create"
    /\ \/ \E k \in Keys :
            /\ \A u \in Users : k \notin generated[u]
            /\ key' = [key EXCEPT ![w] = k]
            /\ generated' = [generated EXCEPT ![user[w]] = @ \cup {k}]
            /\ tke' = [tke EXCEPT ![user[w]] = Bad]
            /\ Goto(w, "createW")
       \/ /\ Goto(w, "error")      \* the TPM cannot seal
          /\ UNCHANGED <<key, generated, tke>>
    /\ UNCHANGED <<emb, pwe, rec, bind, cal, cache, req, list, user, cnt, obs, pw, orphan,
                   half>>

\* the write of env.save, then set_permissions
WriteNewKey(w) ==
    /\ pc[w] = "createW"
    /\ \E v \in Landed(w, tke[user[w]], key[w]) :
            tke' = [tke EXCEPT ![user[w]] = v]
    /\ Goto(w, IF ChmodOk(tke[user[w]]) THEN "insert" ELSE "error")
    /\ orphan' = [orphan EXCEPT ![w] = FALSE]
    /\ UNCHANGED <<emb, pwe, rec, bind, cal, cache, req, list, user, locals, history>>

\* The second critical section: the key enters the cache, whatever became
\* of the envelope meanwhile.
InsertKey(w) ==
    /\ pc[w] = "insert"
    /\ cache' = [cache EXCEPT ![user[w]] = key[w]]
    /\ Goto(w, AfterKey(w))
    /\ UNCHANGED <<disk, req, list, user, locals, orphan, history>>

-----------------------------------------------------------------------------
(* do_enroll, after the key.                                               *)

\* AES-GCM: decryption succeeds under the encrypting key only
Decrypts(e, k) == e \in Embeddings /\ e.key = k

\* load_encrypted_embedding; every error counts as "no enrollment yet"
LoadExisting(w) ==
    /\ pc[w] = "load"
    /\ req[w] = "enroll"
    /\ LET e == emb[user[w]] IN
         cnt' = [cnt EXCEPT ![w] = IF Decrypts(e, key[w]) THEN e.n ELSE 0]
    /\ Goto(w, "save")
    /\ UNCHANGED <<disk, cache, req, list, user, key, obs, pw, orphan, history>>

\* save_encrypted_embedding: create_dir_all, encrypt, truncating open
OpenEmbedding(w) ==
    /\ pc[w] = "save"
    /\ emb' = [emb EXCEPT ![user[w]] = Bad]
    /\ cnt' = [cnt EXCEPT ![w] = IF @ < MaxSamples THEN @ + 1 ELSE @]
    /\ Goto(w, "saveW")
    /\ UNCHANGED <<tke, pwe, rec, bind, cal, cache, req, list, user, key, obs, pw, orphan,
                   history>>

WriteEmbedding(w) ==
    /\ pc[w] = "saveW"
    /\ \E v \in Landed(w, emb[user[w]], [key |-> key[w], n |-> cnt[w]]) :
            emb' = [emb EXCEPT ![user[w]] = v]
    /\ Goto(w, IF ChmodOk(emb[user[w]]) THEN "bind" ELSE "error")
    /\ orphan' = [orphan EXCEPT ![w] = FALSE]
    /\ UNCHANGED <<tke, pwe, rec, bind, cal, cache, req, list, user, locals, history>>

\* save_camera_binding: best effort, and the directory is not created
OpenBinding(w) ==
    /\ pc[w] = "bind"
    /\ \/ /\ DirExists(user[w])
          /\ bind' = [bind EXCEPT ![user[w]] = Bad]
          /\ Goto(w, "bindW")
       \/ /\ ~DirExists(user[w])
          /\ Goto(w, "calib")
          /\ UNCHANGED bind
    /\ UNCHANGED <<tke, emb, pwe, rec, cal, cache, req, list, user, locals, orphan,
                   history>>

WriteBinding(w) ==
    /\ pc[w] = "bindW"
    /\ \E cam \in Cameras : \E v \in Landed(w, bind[user[w]], cam) :
            bind' = [bind EXCEPT ![user[w]] = v]
    /\ Goto(w, "calib")
    /\ orphan' = [orphan EXCEPT ![w] = FALSE]
    /\ UNCHANGED <<tke, emb, pwe, rec, cal, cache, req, list, user, locals, history>>

\* load_ir_calibration (unreadable: the default, no observations), or the
\* default on reset; an IR frame in this capture adds one observation
LoadCalibration(w) ==
    /\ pc[w] = "calib"
    /\ \E got \in IF "ir" \in Cameras THEN {0, 1} ELSE {0} :
         LET c == cal[user[w]]
             old == IF req[w] = "enrollReset" \/ c \in {Absent, Bad} THEN 0
                    ELSE c
         IN  obs' = [obs EXCEPT ![w] = IF old + got > MinObs THEN MinObs
                                       ELSE old + got]
    /\ Goto(w, "calibT")
    /\ UNCHANGED <<disk, cache, req, list, user, key, cnt, pw, orphan, history>>

\* save_ir_calibration: best effort, like the binding
OpenCalibration(w) ==
    /\ pc[w] = "calibT"
    /\ \/ /\ DirExists(user[w])
          /\ cal' = [cal EXCEPT ![user[w]] = Bad]
          /\ Goto(w, "calibW")
       \/ /\ ~DirExists(user[w])
          /\ Goto(w, "ok")
          /\ UNCHANGED cal
    /\ UNCHANGED <<tke, emb, pwe, rec, bind, cache, req, list, user, locals, orphan,
                   history>>

WriteCalibration(w) ==
    /\ pc[w] = "calibW"
    /\ \E v \in Landed(w, cal[user[w]], obs[w]) :
            cal' = [cal EXCEPT ![user[w]] = v]
    /\ Goto(w, "ok")
    /\ orphan' = [orphan EXCEPT ![w] = FALSE]
    /\ UNCHANGED <<tke, emb, pwe, rec, bind, cache, req, list, user, locals, history>>

-----------------------------------------------------------------------------
(* load_user_samples, do_verify, do_unseal_password, do_identify.          *)

\* check_camera_binding: no file passes, an unreadable one does not, and a
\* camera that is not the enrolled one does not
CheckBinding(w) ==
    /\ pc[w] = "binding"
    /\ \/ /\ bind[user[w]] # Bad
          /\ Goto(w, "lookup")
       \/ Goto(w, "error")
    /\ UNCHANGED <<disk, cache, req, list, user, locals, orphan, history>>

LoadSamples(w) ==
    /\ pc[w] = "load"
    /\ req[w] \in Matching
    /\ IF Decrypts(emb[user[w]], key[w])
       THEN Goto(w, IF req[w] = "identify" THEN "ok" ELSE "gate")
       ELSE Goto(w, "error")
    /\ UNCHANGED <<disk, cache, req, list, user, locals, orphan, history>>

\* capture_embed_gated and match_against: the capture, the IR gate or the
\* match may fail
CaptureAndMatch(w) ==
    /\ pc[w] = "gate"
    /\ \/ Goto(w, IF req[w] = "unsealPassword" THEN "release" ELSE "ok")
       \/ Goto(w, "error")
    /\ UNCHANGED <<disk, cache, req, list, user, locals, orphan, history>>

ReleasePassword(w) ==
    /\ pc[w] = "release"
    /\ \/ /\ pwe[user[w]] \in Passwords
          /\ pw' = [pw EXCEPT ![w] = pwe[user[w]]]
          /\ Goto(w, "ok")
       \/ /\ Goto(w, "error")
          /\ UNCHANGED pw
    /\ UNCHANGED <<disk, cache, req, list, user, key, cnt, obs, orphan, history>>

-----------------------------------------------------------------------------
(* do_delete_profile.                                                      *)

CheckEnrolled(w) ==
    /\ pc[w] = "check"
    /\ Goto(w, IF emb[user[w]] # Absent THEN "rm" ELSE "error")
    /\ UNCHANGED <<disk, cache, req, list, user, locals, orphan, history>>

\* The files of S are unlinked; writers that have one open keep an orphan.
Unlink(u, S) ==
    LET Gone(f, name) == IF name \in S THEN [f EXCEPT ![u] = Absent] ELSE f
    IN  /\ tke' = Gone(tke, "tke")
        /\ emb' = Gone(emb, "emb")
        /\ pwe' = Gone(pwe, "pwe")
        /\ rec' = Gone(rec, "rec")
        /\ bind' = Gone(bind, "bind")
        /\ cal' = Gone(cal, "cal")
        /\ orphan' = [x \in Workers |->
                         orphan[x] \/ (user[x] = u /\ FileOf(pc[x]) \in S)]

\* remove_dir_all unlinks the entries one by one, in directory order; the
\* daemon may be interrupted after any of them.
RemoveSome(w) ==
    /\ pc[w] = "rm"
    /\ \/ /\ DirExists(user[w])
          /\ \E S \in SUBSET Present(user[w]) : Unlink(user[w], S)
          /\ half' = [half EXCEPT ![user[w]] = TRUE]
          /\ Goto(w, "rmRest")
       \/ /\ ~DirExists(user[w])
          /\ Goto(w, "error")
          /\ UNCHANGED <<disk, orphan, half>>
    /\ UNCHANGED <<cache, req, list, user, locals, generated>>

\* Mutant of RemoveRest: the recovery envelope is kept.
RemoveRestButRecovery(w) ==
    /\ pc[w] = "rmRest"
    /\ Unlink(user[w], Files \ {"rec"})
    /\ Goto(w, "evict")
    /\ UNCHANGED <<cache, req, list, user, locals, history>>

RemoveRest(w) ==
    /\ pc[w] = "rmRest"
    /\ Unlink(user[w], Files)
    /\ Goto(w, "evict")
    /\ UNCHANGED <<cache, req, list, user, locals, history>>

\* An unlink fails, or a file appeared after the directory was listed: the
\* handler returns before it evicts the cached key.
RemoveFails(w) ==
    /\ pc[w] = "rmRest"
    /\ Goto(w, "error")
    /\ UNCHANGED <<disk, cache, req, list, user, locals, orphan, history>>

\* evict_template_key (delete) and the map.remove of reseal and restore
EvictKey(w) ==
    /\ pc[w] = "evict"
    /\ cache' = [cache EXCEPT ![user[w]] = NoKey]
    /\ half' = IF req[w] = "delete" THEN [half EXCEPT ![user[w]] = FALSE]
               ELSE half
    /\ Goto(w, "ok")
    /\ UNCHANGED <<disk, req, list, user, locals, orphan, generated>>

-----------------------------------------------------------------------------
(* do_reseal_user_envelopes, do_seal_password, do_save_recovery,           *)
(* do_restore_from_recovery.                                               *)

\* reseal, first half: unseal_password; a failure is only logged
ReadPassword(w) ==
    /\ pc[w] = "pwRead"
    /\ \/ /\ pwe[user[w]] \in Passwords
          /\ pw' = [pw EXCEPT ![w] = pwe[user[w]]]
          /\ Goto(w, "pwT")
       \/ /\ Goto(w, "tkRead")
          /\ UNCHANGED pw
    /\ UNCHANGED <<disk, cache, req, list, user, key, cnt, obs, orphan, history>>

\* seal_password: tpm::seal_secret, create_dir_all and the truncating open
OpenPassword(w) ==
    /\ pc[w] = "pwT"
    /\ \/ /\ pwe' = [pwe EXCEPT ![user[w]] = Bad]
          /\ Goto(w, "pwW")
       \/ /\ Goto(w, IF req[w] = "reseal" THEN "tkRead" ELSE "error")
          /\ UNCHANGED pwe
    /\ UNCHANGED <<tke, emb, rec, bind, cal, cache, req, list, user, locals, orphan,
                   history>>

WritePassword(w) ==
    /\ pc[w] = "pwW"
    /\ \E v \in Landed(w, pwe[user[w]], pw[w]) :
            pwe' = [pwe EXCEPT ![user[w]] = v]
    /\ Goto(w, IF req[w] = "reseal" THEN "tkRead"
               ELSE IF ChmodOk(pwe[user[w]]) THEN "ok" ELSE "error")
    /\ orphan' = [orphan EXCEPT ![w] = FALSE]
    /\ UNCHANGED <<tke, emb, rec, bind, cal, cache, req, list, user, locals,
                   history>>

\* unseal_template_key: in reseal a failure is only logged
ReadKey(w) ==
    /\ pc[w] \in {"tkRead", "recRead"}
    /\ \/ /\ tke[user[w]] \in Keys
          /\ key' = [key EXCEPT ![w] = tke[user[w]]]
          /\ Goto(w, IF req[w] = "reseal" THEN "tkT" ELSE "recT")
       \/ /\ Goto(w, IF req[w] = "reseal" THEN "ok" ELSE "error")
          /\ UNCHANGED key
    /\ UNCHANGED <<disk, cache, req, list, user, cnt, obs, pw, orphan, history>>

\* restore_from_recovery: read and unwrap; a wrong passphrase fails
Unwrap(w) ==
    /\ pc[w] = "unwrap"
    /\ \/ /\ rec[user[w]] \in Keys
          /\ key' = [key EXCEPT ![w] = rec[user[w]]]
          /\ Goto(w, "tkT")
       \/ /\ Goto(w, "error")
          /\ UNCHANGED key
    /\ UNCHANGED <<disk, cache, req, list, user, cnt, obs, pw, orphan, history>>

\* seal_secret of the key in hand, then the truncating open of env.save
OpenKey(w) ==
    /\ pc[w] = "tkT"
    /\ \/ /\ tke' = [tke EXCEPT ![user[w]] = Bad]
          /\ Goto(w, "tkW")
       \/ /\ Goto(w, IF req[w] = "reseal" THEN "ok" ELSE "error")
          /\ UNCHANGED tke
    /\ UNCHANGED <<emb, pwe, rec, bind, cal, cache, req, list, user, locals, orphan,
                   history>>

\* restore sets the permissions afterwards and fails when the file is gone;
\* reseal does not look
WriteKey(w) ==
    /\ pc[w] = "tkW"
    /\ \E v \in Landed(w, tke[user[w]], key[w]) :
            tke' = [tke EXCEPT ![user[w]] = v]
    /\ Goto(w, IF req[w] = "reseal" \/ ChmodOk(tke[user[w]])
               THEN "evict" ELSE "error")
    /\ orphan' = [orphan EXCEPT ![w] = FALSE]
    /\ UNCHANGED <<emb, pwe, rec, bind, cal, cache, req, list, user, locals, history>>

OpenRecovery(w) ==
    /\ pc[w] = "recT"
    /\ rec' = [rec EXCEPT ![user[w]] = Bad]
    /\ Goto(w, "recW")
    /\ UNCHANGED <<tke, emb, pwe, bind, cal, cache, req, list, user, locals, orphan,
                   history>>

WriteRecovery(w) ==
    /\ pc[w] = "recW"
    /\ \E v \in Landed(w, rec[user[w]], key[w]) :
            rec' = [rec EXCEPT ![user[w]] = v]
    /\ Goto(w, IF ChmodOk(rec[user[w]]) THEN "ok" ELSE "error")
    /\ orphan' = [orphan EXCEPT ![w] = FALSE]
    /\ UNCHANGED <<tke, emb, pwe, bind, cal, cache, req, list, user, locals, history>>

-----------------------------------------------------------------------------
(* Failures.                                                               *)

\* The write after a truncating open fails (no space, I/O error): the file
\* stays cut short, and the handler goes where its error path takes it.
AfterFailedWrite(w) ==
    CASE pc[w] = "bindW" -> "calib"
      [] pc[w] = "calibW" -> "ok"
      [] pc[w] = "pwW" /\ req[w] = "reseal" -> "tkRead"
      [] pc[w] = "tkW" /\ req[w] = "reseal" -> "ok"
      [] OTHER -> "error"

WriteFails(w) ==
    /\ pc[w] \in OpenPcs
    /\ Goto(w, AfterFailedWrite(w))
    /\ orphan' = [orphan EXCEPT ![w] = FALSE]
    /\ UNCHANGED <<disk, cache, req, list, user, locals, history>>

\* The daemon dies (or is try-restarted by the resume and camera hooks) and
\* comes back: the tasks and the cache are gone, the files stay as they are.
Restart ==
    /\ pc' = [w \in Workers |-> "idle"]
    /\ req' = [w \in Workers |-> "none"]
    /\ user' = [w \in Workers |-> NoUser]
    /\ list' = [w \in Workers |-> {}]
    /\ key' = [w \in Workers |-> NoKey]
    /\ cnt' = [w \in Workers |-> 0]
    /\ obs' = [w \in Workers |-> 0]
    /\ pw' = [w \in Workers |-> Absent]
    /\ orphan' = [w \in Workers |-> FALSE]
    /\ cache' = [u \in Users |-> NoKey]
    /\ UNCHANGED <<disk, history>>

\* The TPM is cleared, or PCRs a literal policy binds have moved: what is
\* sealed does not unseal any more.  The recovery envelope is not sealed.
Drift ==
    /\ tke' = [u \in Users |-> IF tke[u] \in Keys THEN Bad ELSE tke[u]]
    /\ pwe' = [u \in Users |-> IF pwe[u] \in Passwords THEN Bad ELSE pwe[u]]
    /\ UNCHANGED <<emb, rec, bind, cal, cache, pc, req, list, user, locals, orphan,
                   history>>

-----------------------------------------------------------------------------
KeyStep(w) == \/ LookupKey(w) \/ EnsureKey(w) \/ UnsealKey(w)
              \/ CreateKey(w) \/ WriteNewKey(w) \/ InsertKey(w)

EnrollStep(w) == \/ LoadExisting(w) \/ OpenEmbedding(w) \/ WriteEmbedding(w)
                 \/ OpenBinding(w) \/ WriteBinding(w) \/ LoadCalibration(w)
                 \/ OpenCalibration(w) \/ WriteCalibration(w)

MatchStep(w) == \/ CheckBinding(w) \/ LoadSamples(w) \/ CaptureAndMatch(w)
                \/ ReleasePassword(w)

DeleteStep(w) == \/ CheckEnrolled(w) \/ RemoveSome(w) \/ RemoveRest(w)
                 \/ RemoveFails(w) \/ EvictKey(w)

SealStep(w) == \/ ReadPassword(w) \/ OpenPassword(w) \/ WritePassword(w)
               \/ ReadKey(w) \/ Unwrap(w) \/ OpenKey(w) \/ WriteKey(w)
               \/ OpenRecovery(w) \/ WriteRecovery(w)

Step(w) == \/ KeyStep(w) \/ EnrollStep(w) \/ MatchStep(w) \/ DeleteStep(w)
           \/ SealStep(w) \/ WriteFails(w) \/ NextProfile(w) \/ Reply(w)

\* The daemon as it is written: nothing keeps two handlers of a user apart.
Next == \/ \E w \in Workers :
             \/ \E u \in Users, r \in AllRequests :
                  <<u, r>> \in Requests /\ Start(w, u, r)
             \/ Step(w)
        \/ Restart
        \/ Drift

Spec == Init /\ [][Next]_vars

\* The same daemon under clients that send a user's next request only after
\* the reply to the previous one (or after a restart).  An identify is a
\* request about every profile it lists.
Alone(u) == \A x \in Workers : user[x] # u /\ u \notin list[x]

About(u, r) == {u} \cup IF r = "identify" THEN Enrolled ELSE {}

SerialNext == \/ \E w \in Workers :
                   \/ \E u \in Users, r \in AllRequests :
                        /\ <<u, r>> \in Requests
                        /\ \A v \in About(u, r) : Alone(v)
                        /\ Start(w, u, r)
                   \/ Step(w)
              \/ Restart
              \/ Drift

SerialSpec == Init /\ [][SerialNext]_vars

-----------------------------------------------------------------------------
(* Properties.                                                             *)

TypeOK ==
    /\ tke \in [Users -> Keys \cup {Absent, Bad}]
    /\ emb \in [Users -> Embeddings \cup {Absent, Bad}]
    /\ pwe \in [Users -> Passwords \cup {Absent, Bad}]
    /\ rec \in [Users -> Keys \cup {Absent, Bad}]
    /\ bind \in [Users -> Cameras \cup {Absent, Bad}]
    /\ cal \in [Users -> (0..MinObs) \cup {Absent, Bad}]
    /\ cache \in [Users -> Keys \cup {NoKey}]
    /\ pc \in [Workers -> PCs]
    /\ req \in [Workers -> AllRequests \cup {"none"}]
    /\ user \in [Workers -> Users \cup {NoUser}]
    /\ key \in [Workers -> Keys \cup {NoKey}]
    /\ cnt \in [Workers -> Nat]
    /\ obs \in [Workers -> 0..MinObs]
    /\ pw \in [Workers -> Passwords \cup {Absent}]
    /\ orphan \in [Workers -> BOOLEAN]
    /\ generated \in [Users -> SUBSET Keys]
    /\ list \in [Workers -> SUBSET Users]
    /\ half \in [Users -> BOOLEAN]

\* What a handler's program counter says of its locals: a handler in flight
\* serves a user, one past the key or the password has it in hand, and a
\* delete runs the code of do_delete_profile only.
LocalsOK ==
    \A w \in Workers :
        /\ pc[w] = "idle" <=> user[w] = NoUser
        /\ pc[w] # "idle" => req[w] \in AllRequests
        /\ pc[w] \in HoldsKey => key[w] \in Keys
        /\ pc[w] \in {"pwT", "pwW"} => pw[w] \in Passwords
        /\ list[w] # {} => req[w] = "identify"
        /\ req[w] = "delete" =>
             pc[w] \in {"check", "rm", "rmRest", "evict", "ok", "error"}

\* Every place that holds a copy of u's template key holds k, and the sealed
\* envelope exists: the sealed, wrapped and cached copies, the key embedding.enc
\* is encrypted under, and the key a handler in flight works with.
CopiesAgree(u, k) ==
    /\ tke[u] \in {k, Bad}
    /\ rec[u] \in {k, Bad, Absent}
    /\ cache[u] \in {k, NoKey}
    /\ emb[u] \in Embeddings => emb[u].key = k
    /\ \A w \in Workers : user[w] = u /\ pc[w] \in HoldsKey => key[w] = k

NoCopies(u) ==
    /\ tke[u] = Absent /\ rec[u] = Absent /\ emb[u] = Absent
    /\ cache[u] = NoKey
    /\ \A w \in Workers : user[w] = u => pc[w] \notin HoldsKey

KeyOK(u) == half[u] \/ NoCopies(u) \/ \E k \in Keys : CopiesAgree(u, k)

\* One template key per profile: unless a delete was cut short, all copies of
\* a user's template key agree.  (ensure_template_key: "Ensure a per-user
\* template AES-256 key exists"; handlers that do not overlap.)
OneKeyPerProfile == \A u \in Users : KeyOK(u)

\* the users w has taken up, now or later in its walk
Serving(w) == {user[w]} \cup list[w]

\* The strengthening under which OneKeyPerProfile is inductive for requests
\* that do not overlap: a user is served by one worker at a time, a handler
\* about to create a key still has no copy to disagree with, and one that has
\* unlinked files has marked the profile, until the last step of the delete.
SerialInv ==
    /\ \A x, y \in Workers : x # y => Serving(x) \cap Serving(y) \subseteq {NoUser}
    /\ \A w \in Workers :
         /\ pc[w] = "create" => half[user[w]] \/ NoCopies(user[w])
         /\ pc[w] = "rmRest" => half[user[w]]
         /\ pc[w] = "evict" /\ req[w] = "delete" =>
              /\ half[user[w]]
              /\ tke[user[w]] = Absent /\ rec[user[w]] = Absent
              /\ emb[user[w]] = Absent
    /\ OneKeyPerProfile

\* Restoring from the recovery passphrase brings back the key the template is
\* encrypted under (restore_from_recovery: "Face unlock works again
\* afterwards with no re-enrollment").
RecoveryRestores ==
    \A u \in Users : ~half[u] /\ emb[u] \in Embeddings /\ rec[u] \in Keys
                        => rec[u] = emb[u].key

\* With no request of u in flight, a cached key has a sealed envelope, so
\* that after a completed delete "a later re-enrollment derives/seals a fresh
\* key instead of reusing the stale one" (evict_template_key).
CachedKeySealed ==
    \A u \in Users : Alone(u) /\ ~half[u] /\ cache[u] # NoKey
                        => tke[u] # Absent

\* When a delete reports success nothing of the profile is left: no file, no
\* cached key (do_delete_profile: "Permanently delete an enrolled profile").
DeleteErases ==
    \A w \in Workers : pc[w] = "ok" /\ req[w] = "delete"
                         => ~DirExists(user[w]) /\ cache[user[w]] = NoKey

\* No key crosses from one user's profile to another's: whatever holds a key
\* for u holds one generated for u, and no key was generated for two users.
\* do_identify is the handler that could mix them: it fetches, creates and
\* caches the keys of several users one after the other.
KeyIsolation ==
    /\ \A u \in Users :
         /\ {tke[u], rec[u], cache[u]} \cap Keys \subseteq generated[u]
         /\ emb[u] \in Embeddings => emb[u].key \in generated[u]
    /\ \A w \in Workers :
         pc[w] \in HoldsKey => key[w] \in generated[user[w]]
    /\ \A u, v \in Users : u # v => generated[u] \cap generated[v] = {}

=============================================================================

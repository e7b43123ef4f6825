# A verification project for linhello

linhello is face login for Linux: a root daemon (`linhellod`) keeps encrypted
face templates and TPM-sealed passwords, a PAM module asks it to authenticate,
and a command line and a setup wizard administer both.  This directory holds
TLA+ models of its stateful parts, TLC configurations that check them on small
instances, and TLAPS proofs of the results that matter most.

Paths are relative to the repository; `D` is
`crates/linhello-daemon/src/main.rs`.  `PROJECT.json` maps every definition that
models code to the lines it models.

## 1. The system

| Component | State | Operations | Interacts with |
|---|---|---|---|
| Profile store (`D`, `linhello-core`) | per user, under `/etc/linhello/<user>/`: template key envelope, encrypted template, password and recovery envelopes, camera binding, IR calibration; in memory the template-key cache | Enroll (append, reset), Verify, Identify, UnsealPassword, DeleteProfile, ResealUserEnvelopes, SaveRecovery, RestoreFromRecovery, SealPassword | cameras, TPM, all clients |
| TPM policy and host signer (`policy.rs`, `pcrsig.rs`, `tpm.rs`) | host key pair, signature file and its temporary under `/etc/linhello`; PCR 7 | plan, seal, unseal, self-heal | the profile store, through every envelope |
| Socket server (`D`) | one task per connection, nothing else | accept, check the peer, dispatch, reply | all clients |
| Biometric policy (`biopolicy.rs`, `D`) | `policy.conf`, logind sessions | AuthIntent, Authenticate | PAM module, profile store |
| PAM module, FFI bridge, socket client (`pam_linhello.c`, `linhello-pam`, `client.rs`) | a conversation: user, service, deadline, open connection | pre-flight, request with timeout, retry, return code | PAM stack, daemon |
| Capture (`camera.rs`, `linhello-biometrics`) | one capture lock, a cached path per camera with its TTL and mutex, abandoned threads | resolve a camera, capture a burst, an IR frame | daemon handlers, drivers |
| Liveness and IR gate (`linhello-liveness`) | none of its own (calibration and binding are files) | evaluate, calibrate, gate; the framing advice | daemon handlers, enrollment guide |
| PAM wiring (`pamwire.rs`) | files of `/etc/pam.d`, backups, the pam-auth-update profile, an authselect profile and its base | enable, disable | CLI, wizard, updater, uninstaller |
| Installer, updater, uninstaller (`install.rs`) | git tree and tags, build output, installed programs, package record, PAM module, models, ONNX Runtime | deploy, update, fetch-models, fetch-onnx, uninstall | PAM wiring, systemd, package managers |
| Setup wizard (`tui.rs`) | screen, modal states, copies of the host's state, enrollment, calibration and password progress | keys, ticks, live polls | daemon, all of the above |
| Setup commands (`main.rs`, `linhello-fingerprint`) | SELinux modules, reseal hook, `cameras.conf`, `settings.conf`, `policy.conf`, fprintd's fingers and their names | setup, enroll, set-recovery, fingerprint, selinux, reseal-hook | daemon, fprintd, PAM |
| Detection, embedding, matching, probes, packaging | none that a decision depends on | numeric or declarative | |

How they interact: PAM and the command line talk to the daemon over one
Unix socket, a connection per request.  The daemon gives every connection a
task and every handler a blocking thread (`spawn_blocking`), and **nothing keeps
two handlers of the same user apart**; the only lock in the store guards single
accesses of the key cache.  All handlers share the signer's files and one
capture lock.

What is hard here, and a test hardly reaches:

* interleavings of handlers between any two file or cache accesses, with
  `fs::write` itself two steps (truncate, write);
* a restart between any two accesses, which the resume and camera hooks cause on
  purpose (`try-restart`), and writes that fail half-way;
* clients that give up after 30 s while their handler runs on, and whose retry is
  a second handler;
* a policy file, a session, a camera and a person that change between the reads of
  one plan;
* PCR 7 moving, Secure Boot going off and on, while secrets are sealed to it;
* commands run as root that edit live system files one after the other, any of
  which may fail or be interrupted, and the next command that starts from there;
* a wizard that decides from copies of a host other sessions are changing;
* drivers that hang for ever inside a call.

What makes the parts correct: all copies of a template key agree and stay with
their user; a template stays restorable; a delete leaves nothing;
no signature is written for a boot without Secure Boot and no bound secret is
released in one; a host-bound secret stays within reach of the self-heal; an
authentication succeeds only for the person present, within the policy, with the
password for root only, and always ends.  Whatever is interrupted, the password
stays usable, the PAM module outlives the stacks that name it, a disable undoes an
enable, and fingerprint login replaces face login only over an enrolled finger.  A hung
driver delays a request by a
bounded time and never for good.  `PROJECT.json` lists the hazards line
by line with the properties that cover them.

## 2. Modules

| Module | What it is |
|---|---|
| `ProfileStore` | the store, its cache and all its handlers, one action per access |
| `ProfileStoreProofs` | its theorems |
| `HostSigner` | the choice of a TPM binding, sealing, unsealing, the host signer |
| `HostSignerProofs` | its theorems |
| `PamPromise` | abstract: what the PAM module promises the stack |
| `AuthFlow` | PAM module, client, daemon task and policy of one authentication |
| `AuthFlowProofs` | its theorems, and that `AuthFlow` implements `PamPromise` |
| `Liveness` | the decisions on one capture as pure operators, and what they promise |
| `Capture` | handlers sharing two cameras, with time; `EXTENDS Liveness` |
| `CaptureProofs` | its theorems |
| `PamWire` | `pam enable` and `pam disable`, file access by file access |
| `PamWireProofs` | its theorems |
| `Installer` | the commands of `install.rs`, step by step |
| `InstallerProofs` | its theorems |
| `Wizard` | the wizard's loop: one key, what it asked for, one tick |
| `WizardProofs` | its theorems |
| `Setup` | the commands of `main.rs` that set a machine up |
| `SetupProofs` | its theorems |
| `MC...` | instances for TLC: symmetry sets, policies, machines, grids of inputs |

### ProfileStore

A *worker* is one handler task; `pc[w]` names its next file or cache access,
`key`, `cnt`, `obs`, `pw` are the locals it carries from access to access.  The
files of a user are six variables.  A file is `Absent`, `Bad` (it exists, but
reading it back fails: cut short, or sealed to a TPM state that is gone) or a
value: a key, a template (the key it is encrypted under, the number of samples),
a password, a kind of camera, a number of observations.

* **Writing** is two actions, `Open...` (the truncating open, which leaves `Bad`)
  and `Write...`.  `Landed` says what two writers who both truncated leave: the
  second's bytes over the first's, which parse only if they are not fewer.  A
  write to a file that was unlinked meanwhile (`orphan`) changes nothing in the
  directory, and the `set_permissions` that follows fails.
* `cached_template_key` is `LookupKey`, `EnsureKey`, `UnsealKey` or `CreateKey` and
  `WriteNewKey`, then `InsertKey`: the cache's two critical sections with
  everything unlocked in between (`D` 25-36, `linhello-core/src/lib.rs`).
* `do_enroll` after the key is `LoadExisting` to `WriteCalibration`; the best-effort
  writes of binding and calibration go on after an error, as the code does.
* `do_identify` takes the list of enrolled profiles when it starts and goes through the
  whole of cache lookup, key and template for each of them (`NextProfile`), one after the
  other in one handler.
* `do_delete_profile` is `CheckEnrolled`, `RemoveSome` and `RemoveRest`
  (`remove_dir_all` in two steps of any size, in any order), `EvictKey`;
  `RemoveFails` returns before the eviction.
* `Restart` drops tasks and cache at any time, `WriteFails` any write, `Drift` makes
  all sealed envelopes unreadable.

History variables carry what a property needs: `generated` (keys ever made for a user)
and `half` (a delete began and has not completed: the profile is in pieces until the next
complete delete).

`Spec` is the daemon as written.  `SerialSpec` adds one guard, `Alone(u)`, to
`Start`: a user's next request comes after the reply to the previous one, or after
a restart; an identification is about every profile on its list.  Requests of different
users still overlap.

### HostSigner

`pcr` is the PCR-7 value of the running boot, from `OnStates` (Secure Boot
enforcing) or `OffStates`; it changes in `Reboot` only, and stands for the policy
digest computed from it.  `Reported` is what `is_secure_boot_enabled` answers: efivars
that cannot be read count as off, in any boot.  `priv`, `pub`, `sigs`, `tmp` are the four shared files,
`env` the sealed envelopes.  `Plan` is `policy::plan`; `CheckHostKey` to `WritePub`
`ensure_host_signing_key`; `Classify` `classify_signer` with the decision to heal;
`LookForSignature` to `RenameTmp` `ensure_host_signature` and
`persist_host_signature`; `LoadEnvelope` and `FindAndVerify` `tpm::unseal`.  `fd[w]`
follows the temporary file a writer has open through the renames of others: to the
signature file itself, and out of the directory.  `Fails` is an I/O or TPM error at
any step, taking the error path the code has there (fall back to the literal
binding, warn and go on, fail); `hurt` remembers it.

### AuthFlow and PamPromise

A *client* is a conversation: `pam_sm_authenticate` with its pre-flight
(`AuthIntent`), deadline and pause, or a direct `Verify` or `UnsealPassword`.  A
*task* is the daemon's side of one connection: `ReadSession`, `ReadTier`, `ReadRow`,
`ReadMethod` are the separate reads of `plan_action`, then `CheckBinding`,
`CaptureRgb`, `CaptureIr`, `GateAndMatch`, `Unseal`, `Reply`.  `conn[c]` ties a
client to its task; when the client gives up (`NoAnswer`) the tie is cut and the
task is not told.  `Restart` kills all tasks.  `EditConf`, `OpenConf`/`WriteConf`
(`write_kv`: truncate, write), `ChangeSession`, `ChangeCamera` and `ChangeFace` are
the world.  Capture, liveness and matching are reduced to who was in front of the
camera and whether there was an IR frame, each free to fail; a profile is chosen in
`Init`, since `ProfileStore` models how it changes.

`PamPromise` knows nothing of the daemon: a conversation opens, is vouched for once
its user has been in front of the camera, and closes as granted, released (root
only) or declined, the first two only when vouched for.  The mapping: `Stage` is the
client's state with its outcome, `AsRoot` its uid, `Vouched` whether its user is in
`seen`, the history of faces since it began.

### Capture and Liveness

A handler goes through `Resolve` (the cached path, the pinned one, or `Lookup`, the
enumeration under the cache's mutex), `TakeLock`, and one of `Captured`, `Refused`,
`Expired`; first for RGB, then for IR; then `Decide`.  A verification has resolved both
cameras before that, to compare them with the enrolled binding (`CheckBinding`), and an
enrollment resolves them again afterwards, to store it (`SaveBinding`); `phase` says for
what a handler is resolving.  Only a verification passes the calibrated IR gate.  Identify
is left out: it looks the cameras up once per profile.  A device is `ok`, `wedged` (its
calls do not return) or `gone`.  `Expired` is `run_with_deadline`: the thread is
abandoned and keeps the device (`stuck`), the handler gives up the lock.  Time is
discrete, and `Tick` is enabled only when no handler can go on without it, so `age` is
the longest a request can have waited.  `Liveness` holds `evaluate` (the first check
that fails decides), `robust_low` (on samples sorted by rank) and `gate` of the
calibration, `ir_gate_check`, and `guidance` and `well_framed` of the enrollment guide,
over integers: degrees, percent, luma, hundredths.

### PamWire

A file is the sequence of its lines, a line is its kind (`auth`, `rest`, `comment`, one
of linhello's stanzas, the mark of an override it created).  A command is a list of work
in the order of the code.  Editing a file of `/etc/pam.d` is `Begin` (with the backup
opened), `Copy`, `OpenTmp`, `WriteTmp`, `Rename`; the Debian profile, the authselect
templates and the base record are written in place, in two steps.  `CutShort` ends a
command anywhere.  `Replace` is a package upgrade or an administrator, `OtherUpdate`
someone else's pam-auth-update or authselect.  `orig` remembers what others last put in
a file.

### Installer

One variable per thing on the disk: tags and tree, build output, programs in
`/usr/local` and `/usr`, package record, directories with the PAM module, models.  A
release is a version and the signer of its tag; the updater keeps the version only and
resolves it against the tree's tags at each use, as the code does with the name.  A copy in
`/usr/local` comes before a package's (`First`), and deploy may put one over a package.  `Fails` aborts at any step; best-effort
steps go on and set `erred`.  Versions 9 and 10 are in the instance because
`newest_built` orders them as strings.  The wiring is summed up as the set of stacks
that name the module; `PamWire` has the detail.

### Wizard

`turn` alternates between a key and a tick, as `event_loop` does.  Every key that changes
something is an action, guarded by the screen, the modal states that swallow keys
(`Typing`, `Blocked`) and the gate of the step.  `tick` runs what was asked to run
outside the view, then the live poll, then the screen's own work.  `Others` enrolls and
deletes profiles and stops the daemon meanwhile.  A password entry is `entry` (empty),
`typed`, `confirm`: on entering its screen a half-typed first entry is kept, anything later
starts again (`on_enter`).

### Setup

A command is the list of steps it still has to take; a question is a step that is left
out or replaced by more steps.  `Stop` is an error or an interruption at any step,
`Bail` the way an error leaves the command (setup only prints those of its last part).
`loaded` is what the daemon has read since it was started.

## 3. Runs

Deadlock is checked in `wizard`, whose loop always has a next turn until it is left.
Elsewhere a system with no request to serve, or with its bounded commands used up,
really may stop.

| Run | Specification | Bounds | Shows |
|---|---|---|---|
| `profiles_serial` | `SerialSpec` | 2 users, 1 worker, 2 keys; all requests about one user, enrollments of both; at most 2 unreadable files of the one, 1 of the other, at a time | `OneKeyPerProfile`, `RecoveryRestores`, `DeleteErases`, `KeyIsolation` under restarts, failed writes and drift, with identifications that walk both profiles |
| `stale_key` | `Spec` | 1 user, 2 workers | the first finding below |
| `signer_serial` | `SerialSpec` | 1 worker, 2 envelopes, 2 keys, 2 + 1 PCR states | `Healable`, `SelfHeals` |
| `signer_overlap` | `Spec` | 2 workers, 1 envelope, 2 keys, 1 + 1 PCR states | `NeverBlessed`, `WithheldWithoutSecureBoot` |
| `shared_tmp` | `Spec` | as `signer_overlap` | the second finding below |
| `auth_policy` | `Spec` | all services and peers, 6 policies, 2 bindings | `SecretToRoot`, `NoIrNoUnlock`, `ObeysPolicy` |
| `auth_promise` | `FairSpec` | 1 user and a second face, the greeter, edits of `policy.conf` | `GrantedToPresent`, `KeepsPromise` |
| `capture` | `Spec` (fair) | 2 requests, 2 changes of a device, deadlines of 1 | `OneStream`, `AnsweredInTime`, `IrOfThisRequest`, `Answered`; over grids of inputs `ReportAgrees`, `FairGate` |
| `pamwire` | `Spec` | 3 families, 1 greeter, 3 commands, 1 fault, 1 edit by others, 2 contents | `PasswordKept`, `DisableUndoes`, `EnableWires` |
| `installer` | `Spec` | 4 formats, versions 9 and 10, 3 commands, of which the first may fetch, 1 failure, 1 step of others | `BuildsTrustedOnly`, `UpdatedIsTag`, `ModuleKept`, `UninstallErases` |
| `wizard` | `Spec` (fair) | 2 profiles, 3 machines, targets 2/2/2, calibration 2 in 2 attempts, 3 keys that change something, 1 step of others | `EditsHitTheirProfile`, `ConfirmedForActive`, `EnrollEarned`, `SamplingEnds` |
| `setup` | `Spec` | 3 families, 1 RGB + 1 IR camera, 2 slots, 2 fingers, 2 captures, 2 commands, 1 fault | `SetupInForce`, `ResetKeepsSamples`, `WiredWithFinger` |

`TypeOK` of every module is proved (`TypeCorrect`), so the runs do not repeat it.  The
largest run, `installer`, has 4 million states, `setup` 3, `profiles_serial` 1.5.

Why the bounds are enough.  Two keys are what a disagreement needs; a third adds no
case, for every property compares two places.  One worker suffices where a user's
requests do not overlap, two are what a race needs, and two profiles are what a walk of
Identify needs to carry something from one to the next.  Two Secure Boot states are one
PCR change and a rollback, one without Secure Boot is the refused state.  One task in
`AuthFlow` still lets a task outlive its conversation and answer while the next one
waits; two tasks are beyond five minutes with the temporal property and are covered by
the proofs.  `MaxSamples` and `MinObs` are 1 or 2: samples are counted to tell "fewer"
from "not fewer", observations to tell "ready" from "not ready".  In `capture` all
deadlines are 1, so a cached path may run out between the lookups of one request, as it
may in the code; the proof has any deadlines.  One handler verifies, the other enrolls or
is the guide; two requests are what a lock is about, and a device that is wedged and
recovers, or is wedged and unplugged, takes two changes.  `Grid` gives the operators of
`Liveness` values around their thresholds, and enrolled samples 0 to 2 in
sequences of 3 to 6, the lengths around the five at which one sample may be passed over;
the theorems have any values.  In `pamwire`, `installer` and
`setup` a fault, the retry and the undoing are what a property needs.  The wizard's
targets are 2 instead of 5, 3 and 8: every counter passes through its start, its middle
and its end.

**Fairness.**  `FairSpec` of `AuthFlow` assumes only the client's own clock: a request
times out (`set_read_timeout`, `client.rs`), `nanosleep` ends, the deadline is reached.
The daemon owes nothing: it may never accept, hang in a capture or restart for ever,
and conversations must still end.  `Capture` assumes that time passes and that threads
that can run do run; of devices it assumes nothing, a wedged one may stay so.  `Wizard`
assumes that the loop goes round: `event::poll` waits 200 ms at most and a tick is
called after it; the user and the daemon owe nothing.

### Findings

`stale_key` is expected to fail: a Verify that unsealed the key before a concurrent
DeleteProfile evicted it puts it back (`D` 34).  The next enrollment is encrypted under a
key no envelope seals and cannot be read after a restart.

`shared_tmp` is expected to fail: `persist_host_signature` means its temporary file and
rename to protect the signature file from "concurrent auths" (`pcrsig.rs` 391), but all
writers use one name, `json.tmp` (394).  One renames the file the other has just truncated,
and the signature file no longer parses; the next writer takes that for an empty one
(356) and the signatures of other PCR states are lost.

### Seen while modelling

These have no run of their own.  Where a property had to except one of them, its comment
says so.

*Daemon.*  A reseal that read the password before a concurrent password change writes
the old one back (`D` 1256).  `enroll --reset` needs the old key envelope to unseal
(`D` 408), so it is no way out of drift, as `docs/setup-signed-pcr.md` 89 says it is.  An
append over a template that cannot be read starts from nothing, without a word (`D`
417-419).  Identify takes its list before the capture (`D` 1084): a profile that is deleted
meanwhile gets a directory with a new key envelope.  `write_kv` truncates `policy.conf`
before it writes it (`config.rs` 85); in between every key reads as unset, and face login
is back on under `method = fingerprint`.  When efivars cannot be read, a secret is sealed
without a PCR binding although Secure Boot is on (`linhello-secureboot` 54), and the
self-heal is left out.  Two first uses of the host signer generate a key each
(`pcrsig.rs` 273); a public key cut short by a crash is never rewritten, and seals fail
from then on.  `AuthIntent` and `Authenticate` plan separately, so the prompt may promise
what the request refuses.  The direct `UnsealPassword` does not look at the tier; an
uncalibrated profile unseals without an IR frame.  Some declines are `PAM_AUTH_ERR` where
the documents say `PAM_IGNORE`.

*Capture.*  With three or more requests a waiter waits for more than "a single capture
deadline" (`camera.rs` 384-393), and two slow requests together
exceed the client's 30 s.  Abandoned threads are not limited in
number.  A calibration is ready with three observations, but `robust_low` of three or four
is their minimum, so "one noisy enroll frame" does set the floor (`ir.rs` 364); `FairGate`
states this side of the boundary too.  The calibration's depth cue cannot reject a flat
medium when the enrolled reference is between 1.10 and about 1.17.
`LivenessEvaluator::cached` keeps an error for the life of the daemon.

*PAM wiring.*  On Fedora, enable, enable, disable ends with the line still in the shared
stacks: the second enable remembers linhello's own profile as the base to go back to.  A
template cut short is rendered as it is.

*Installer.*  An update cut short after the checkout makes the next one say "up to date"
(`install.rs` 507).  A deploy over a package leaves a copy in `/usr/local` that shadows
every later package update, which still reports success.  A `systemctl disable --now` that
fails is logged as "was not running" (1353), and the daemon runs on.  `newest_built` prefers 0.9 to 0.10 where the output directory is not
emptied.  A source update leaves a running daemon on its old program.
`scrub_pam_references` truncates a live stack before it writes it.  A PAM module in a
Debian multiarch directory that no package owns survives uninstall.  A model file or a
Copr repository file that was cut short counts as present.

*Wizard and setup.*  The name edit saves to whatever row the cursor is on by then
(`tui.rs` 1199).  A password half typed for one profile is still there after switching to
another (`tui.rs` 607) and may become the first entry for that one; only the confirmation
stands against it.  `EnrollState::Done` of one profile opens the enroll step's gate for the
next (`tui.rs` 535).  Switching the profile during an enrollment spreads its samples over
two profiles.  `cameras_saved` stays set after an uninstall.  After `q` one more tick
runs, which may still capture.  When `fprintd-list` fails, a taken slot is offered
(`linhello-fingerprint` 92).  On Fedora and Arch `method = fingerprint` is written although
the wiring failed or was only printed, and `fingerprint enable` announces the method also
when it could not be written (`main.rs` 553-561).  A finger deleted later leaves
`method = fingerprint` behind.  A disable stopped between the unwiring and the
method leaves face login off with nothing in its place.  Any file at the hook's path
counts as an installed hook, a half-written one too, and `reseal-hook install` says
"installed" without a reseal script for it to run (`main.rs` 2156-2162).  `selinux uninstall` removes the greeter module only.
`write_cameras_conf` without an IR camera leaves an earlier IR pin in place.

## 4. Proofs

All for any number of users, handlers, keys, envelopes, PCR states, clients, tasks and
policies, from the `ASSUME`s of the modules only (markers such as `Absent` are
not values, the kinds of request and camera are the known ones, Secure Boot states
are not states without).

* **Types.**  `TypeOK` is not inductive alone: that an action writes a key needs that
  its worker has one.  `LocalsOK` says what each program counter implies of the
  locals, and `TypeOK /\ LocalsOK` is inductive (`ProfileStoreProofs`,
  `HostSignerProofs`).  `AuthFlow` needs no strengthening.  In `Wizard` the counters are
  bounded because `Counting` ties the samples stored to the ones the enrollment counts.  In
  `Installer` it must be known that something was built before the newest build is looked
  for; that the newest is one of them is `MaxIn` and `LastIn`, the rest is `UpdateInv`.  In
  `Setup` the other invariants carry most types;
  `PolicyInv` adds that modules are compiled and loaded on Fedora only, which needs the
  order of the steps (`Follows`).  In `PamWire` the invariants of the stacks say what every
  file holds, and `SpareOK` adds the files no property reads.
* **`OneKeyPerProfile`** under `SerialSpec`.  `SerialInv` adds that a user is served
  by one worker, that a worker about to create a key has no copy to disagree with,
  and that a delete has marked the profile until its last step.  The step lemma has a
  case per action; most reduce to a frame lemma on the user's own variables.
  `RecoveryRestores` and `CachedKeySealed` follow from it (the latter is what
  `stale_key` refutes under `Spec`).
* **`DeleteErases`** under `SerialSpec`: `EraseInv`, on top of `SerialInv`, says that the
  last steps of a delete find the directory gone and its reply the key evicted.
* **`KeyIsolation`** under `Spec`, with all overlaps and with identifications that walk
  any number of profiles: inductive with `TypeOK` and `LocalsOK`; it rests on the walk
  dropping the key of one profile before it fetches the next one's.
* **`NeverBlessed`, `WithheldWithoutSecureBoot`** under `Spec`:
  `SignerInv` adds that provisioning and signing run only in a boot with Secure Boot
  (they start after a check, and a reboot ends every task) and that what a worker has
  in hand is bound only to a boot with Secure Boot, like what is stored.
* **`Healable`, `SelfHeals`, `SignaturesKept`** under `SerialSpec` (one operation at a
  time; `SignaturesKept`, an action property, is proved only, since `shared_tmp` shows what
  overlap does to the file): `HealInv` follows the key pair and the
  signature file through the writes.  A published envelope names a key whose files are
  both intact; the temporary file holds the old entries before it replaces the file; a
  worker past the healing step finds this boot's signature, or an error was noted.
* **`GrantedToPresent`, `SecretToRoot`** under `Spec`: `AuthInv` says, per client,
  that the task on its connection serves its user and its uid; that no two clients
  share a task; that a live task's captured face was seen by the client on the other
  end; and, per task, that an answer has the capture and the uid it needs behind it.
  Without the second a reply could end someone else's conversation.
* **`ObeysPolicy`, `NoIrNoUnlock`** under `Spec`: `PolicyInv` says of a client and
  the task on its connection that, while policy and session stand still, what the task
  has read so far is what it would read now and its answer is the plan's (`Follows`), and
  that past the binding check of a user with an IR camera the camera was there (`SawIr`).
* **`OneStream`, `IrOfThisRequest`** (`CaptureProofs`), for any number of requests,
  any deadlines and any behaviour of the drivers.  `OneStream` is not inductive:
  `LockHeld` says that a handler in a capture holds `CAPTURE_LOCK`.  `TypeOK`, proved
  first, ties deadlines and mutexes to the step of their handler.  `LiveNeedsIr` is the
  fact about `evaluate` and `ir_gate_check` the second one rests on; `SaveIr` carries it
  through the binding an enrollment stores.
* **`AnsweredInTime`** (`CaptureProofs`), for any number of handlers and any deadlines.
  The bound sums what every handler may still capture for, so the invariant needs that
  sum.  `Units` is the set of the time units left (handler, unit); its size is the sum,
  and a tick while someone captures takes at least one unit out of it.  `InBudget`: what
  a request has waited, what the lookups of this and of the coming phase may still take
  (`Here`, `Ahead`) and the size of `Units` together stay within `Budget`; `Armed`: a deadline is at most what was set and
  the lock is only held to capture.  The cardinality steps cite `FiniteSetTheorems`.
* **`ReportAgrees`, `FairGate`** (`CaptureProofs`), for any `Grid`.  They follow from facts
  about the operators alone, for all integers or naturals: `FramingForAll`, `GateForAll` and
  `FloorForAll`.  The last needs what sorting computes.  `sort` is defined by ranks: `Place`
  counts the samples up to and including one, and the k-th of the sorted sequence is the sample
  of rank k.  `PlaceTaken` shows that every rank is taken once (`Place` is an injection of a
  finite set into one of the same size, so it is onto), and `FloorSample` that the floor is
  the sample with a fifth of the others before it; what is below it is among those.
* **`BuildsTrustedOnly`, `ModuleKept`, `UninstallErases`** (`InstallerProofs`), without
  bounds on commands, failures and foreign tags.  `TrustInv` carries the signature from
  the verification to the build; `ModuleInv` says that the stacks still naming the
  module are on the list being scrubbed and that whoever wires one has just installed
  the module; `EraseInv` says what each step of an uninstall has left behind.
* **`UpdatedIsTag`** (`InstallerProofs`): `UpdateInv` says which packaging each step of an
  update belongs to and carries the verified release from the checkout through the build
  to the installed programs; only the update's own fetch changes what the tag's name means.
  That the newest of a finite set of versions is one of them
  (`MaxIn`) comes from the strict-subset order being well founded.
* **`ConfirmedForActive`, `EnrollEarned`, `EditsHitTheirProfile`** (`WizardProofs`), for
  any users, keys, ticks and other sessions.  The first speaks of the second password entry,
  which must equal the first, and is inductive as it stands;
  `EditInv` ties an open edit to the row it was opened on, and the list to the profiles
  there are as long as no other session changed them; `EnrollInv` backs streak and
  countdown by the length of the run of good frames (`EnrollEarned` is an action property).
  `SamplingAdvances` is the step argument behind `SamplingEnds`: nothing but a tick on its
  screen changes a running calibration or identification, and such a tick counts an attempt
  below the limit or ends it.
* **`ResetKeepsSamples`** (`SetupProofs`), for any number of captures: `SamplesInv` says
  that while a command runs all it stored was acknowledged, and that `enroll --reset` has
  stored nothing or replaced the old samples.  Most actions reduce to `Untouched`.
* **`WiredWithFinger`, `SetupInForce`** (`SetupProofs`, both action properties), for any cameras, slots, fingers and captures.  They need what the list of
  remaining steps can look like: `Follows` says which step may stand behind which (`"end"`
  behind the last), a `Chain` is a list in which all do, and `TodoInv` that the list is
  one.  `TailChain` and `JoinChain` show that dropping the first step, and putting other
  steps in its place, leave a chain; so every action is a `Turn` from one step to one that
  may come next.  `FingerInv` and `ForceInv` then say what the next step promises of the
  state: about to wire PAM or to set the method, a finger is enrolled; past the restart, the
  daemon has read what was written.
* **`PasswordKept`, `DisableUndoes`, `EnableWires`** (`PamWireProofs`), for any finite set
  of greeters, any stacks of known lines and any number of commands, faults, cuts and
  edits by others.  `WireInv` (`WireSafe`) says what the work left is about, where in its
  first item the command is, and what every stack, temporary file and template holds at
  that point; `PasswordKept` follows, with its two exceptions for the authselect stacks (a
  stock profile's lines, or a template write that was cut short).  `DisableUndoes` adds `FamilyInv` (what a family
  leaves alone), `BaseInv` (the remembered authselect base is linhello's own only after a
  second enable) and `UndoInv` (a stack that is not yet what others made of it is still on
  the list, and the profile goes before `pam-auth-update` runs).  `EnableWires` adds
  `ReachInv`, the same for the stacks still to wire.  All three rest on what `Without`
  computes: it drops the lines put in and nothing else, and undoes an insertion.
  `Without` is a recursive function on the prefixes of a file; a fact about every prefix is
  proved from a least counterexample, which exists because `<` on the naturals is well
  founded (`WFMin`).  That a finite set can be listed without repetition, for the work of a
  command, comes from the finite-set theorems (hence `IsFiniteSet(Greeters)`: `GREETERS` in
  `pamwire.rs` is a constant array).
* **Refinement**: `Spec => Promise!Safety`, each action of `AuthFlow` a step of
  `PamPromise` or a stutter, from the same invariant.

Writing the proofs showed one thing wrong with the models: where the code tests conditions
in order, some operators (`evaluate`, `guidance`, `Edited`) had a `CASE` whose guards
overlapped, of which TLC takes the first and the logic any.  They are `IF` chains now.

Only model-checked: liveness (`Answered`, `SamplingEnds`, the liveness part of
`KeepsPromise`), which needs fairness and `ENABLED` and so is beyond TLAPS as used here.  The
safety part of each is proved: `AnsweredInTime`, `SamplingAdvances` and `Promise!Safety`.
`OneKeyPerProfile` and what follows from it are proved for `SerialSpec`; under `Spec` the
finding above refutes them.

## 5. Not modelled, and what comes next

* Detection, alignment, embedding, matching, pose estimation and anti-spoofing are
  numeric; their outcome is a free choice.  So are the image statistics behind the IR
  cues.
* UVC and V4L2 protocols, exposure control, the IR emitter: driver I/O.
* TPM sessions and handles: the TPM serialises its commands, a failed one is `Fails`.
* The machine-wide keyring envelope (`Reseal`, `Unseal`): one file written whole; its
  sealing is `HostSigner`'s.  Profile names: a label no decision reads.
* Reports: Status, PolicyStatus, Diagnose, the cached version check of `update.rs`, the
  text of the capability probes.
* Rendering, scrolling, mouse, argument parsing, the `secureboot` commands (they run
  `sbctl`).
* Package managers, git, gpg, curl and systemd are external: what they do to the state
  the code keeps is an action.
* An empty sealed password, the request size cap and name validation are left out of
  `AuthFlow`.

Next: `ProfileStore` and `AuthFlow` composed, so that a profile is deleted or re-enrolled
during an authentication.

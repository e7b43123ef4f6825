----------------------------- MODULE Installer -----------------------------
(***************************************************************************)
(* install.rs: deploy, update, fetch-models, fetch-onnx and uninstall, run *)
(* as root by the command line and by the wizard, one command at a time.   *)
(* Each is a chain of steps of which any may fail or be cut short, and the *)
(* next command starts from what is then on the disk.                      *)
(*                                                                         *)
(* A release is its version and the key its tag is signed with.  A program *)
(* is represented by the release it was built from.  What PamWire shows of *)
(* pamwire::enable and disable is summed up here by the set of stacks that *)
(* name the PAM module.                                                    *)
(***************************************************************************)
EXTENDS Naturals, FiniteSets, FiniteSetsExt

CONSTANTS Versions,   \* release versions, ordered as git orders them
          Formats,    \* ways to install: "pkg", "deb", "copr", "source"
          MaxOps, MaxFaults, MaxNews, \* bounds: commands, failures, others' steps
          MaxFetches  \* bound: only so many first commands fetch models and runtime

Signers  == {"trusted", "other"}  \* the pinned key; another one, or none
Releases == [v : Versions, by : Signers]
None     == [v |-> 0, by |-> "none"]    \* not installed, not tagged, not running
Branch   == [v |-> 0, by |-> "branch"]  \* the tip of the default branch
Models   == {"det_10g", "face"}
States   == {"absent", "torn", "bad", "good"}  \* a file: cut short, wrong hash

\* Stacks naming the module: those of pamwire, the reseal line an administrator
\* adds to system-auth, and the throwaway linhello-test service.
Managed == {"login", "sudo"}
Stacks  == Managed \cup {"reseal", "test"}

ASSUME InstallerAssumption ==
    /\ Versions \subseteq Nat \ {0} /\ Versions # {} /\ IsFiniteSet(Versions)
    /\ Formats \subseteq {"pkg", "deb", "copr", "source"}
    /\ {MaxOps, MaxFaults, MaxNews, MaxFetches} \subseteq Nat

VARIABLES
    format,  \* how this machine installs
    remote,  \* the tags of the remote repository (or the Copr builds)
    tags, head,  \* the tags fetched, the release checked out (None: no tree)
    target,  \* the programs cargo built in the tree, in target/release
    built,   \* the packages in the build's output directory
    repo,    \* the Copr repository file
    local, usr, db,  \* programs in /usr/local and /usr, the package record
    so,      \* PAM module directories that hold the module
    daemon,  \* the release the running linhellod was started from
    wired,   \* stacks that name the module
    torn,    \* stacks truncated and not yet rewritten
    models, onnx, data,  \* model files, ONNX Runtime, enrolled faces and keys
    cmd, pc, \* the running command and its step
    tag, work, now, bad, \* the tag's name, the files left and in hand, the wrong ones
    outcome, \* how the last command ended
    keep,    \* uninstall keeps the models
    erred,   \* history: a step of this command failed and was only logged
    missed,  \* history: stacks that scrub could not rewrite
    trustedOnly, \* history: what update built was signed by the trusted key
    ops, faults, news

tree   == <<remote, tags, head, target, built, repo>>
system == <<local, usr, db, so, daemon>>
stacks == <<wired, torn>>
files  == <<models, onnx, data>>
ctl    == <<tag, work, now, bad, keep, erred, missed, trustedOnly>>
bounds == <<ops, faults, news>>
vars   == <<format, tree, system, stacks, files, cmd, pc, outcome, ctl, bounds>>

-----------------------------------------------------------------------------
Here == IF format = "deb" THEN "multiarch" ELSE "security"

Init ==
    /\ format \in Formats
    /\ \E r \in Versions :
         LET release == [v |-> r, by |-> "trusted"] IN
         /\ remote = [v \in Versions |-> IF v = r THEN release ELSE None]
         /\ \E i \in {None, release} :
              /\ local = (IF format = "source" THEN i ELSE None)
              /\ usr = (IF format # "source" THEN i ELSE None)
              /\ daemon \in {None, i}
              /\ so = IF i = None THEN {} ELSE {Here}
              /\ wired \in IF i = None THEN {{}}
                         ELSE {W \in SUBSET Stacks : "sudo" \in W => "login" \in W}
              /\ data = (i # None)
    /\ head \in {Branch} \cup IF format = "source" THEN {} ELSE {None}
    /\ target = head /\ built = {} /\ db = usr
    /\ tags = [v \in Versions |-> None] /\ repo = "absent"
    /\ torn = {}
    /\ models = [m \in Models |-> "absent"] /\ onnx = "absent"
    /\ cmd = "idle" /\ pc = "idle" /\ outcome = "none"
    /\ tag = 0 /\ work = {} /\ now = "-" /\ bad = {}
    /\ keep = TRUE /\ erred = FALSE /\ missed = {} /\ trustedOnly = TRUE
    /\ ops = 0 /\ faults = 0 /\ news = 0

Start(c, p) ==
    /\ cmd = "idle" /\ ops < MaxOps /\ ops' = ops + 1
    /\ cmd' = c /\ pc' = p /\ outcome' = "none" /\ erred' = FALSE
    /\ UNCHANGED <<now, missed, trustedOnly, faults, news>>

Goto(p) == pc' = p /\ UNCHANGED <<cmd, outcome>>
End(o)  == cmd' = "idle" /\ pc' = "idle" /\ outcome' = o
At(p)   == cmd # "idle" /\ pc = p

\* Any step may return an error or be cut short by a crash.
Abort == cmd # "idle" /\ faults < MaxFaults /\ faults' = faults + 1 /\ End("failed")

Fails ==
    /\ Abort
    /\ UNCHANGED <<format, tree, system, stacks, files, ctl, ops, news>>

\* what a program started now would be: /usr/local and its unit come first
First(pkg) == IF local # None THEN local ELSE pkg
Cli        == First(usr)

-----------------------------------------------------------------------------
(* update: from a signed tag, or through Copr on Fedora.                    *)

update ==
    /\ Start("update", IF format = "copr" THEN "repo" ELSE "fetch")
    /\ UNCHANGED <<format, tree, system, stacks, files, tag, work, bad, keep>>

rest == <<format, system, stacks, files, work, now, bad, keep, erred, missed, bounds>>

\* git clone if there is no tree yet, git fetch --tags --force
Fetch ==
    /\ At("fetch")
    /\ tags' = remote
    /\ head' = IF head = None THEN Branch ELSE head
    /\ Goto("latest")
    /\ UNCHANGED <<remote, target, built, repo, tag, trustedOnly, rest>>

latest_release_tag == Max({v \in Versions : tags[v] # None})

\* Only the name is kept: each step below resolves it again in the tree, whose
\* tags change by update's own fetch alone (nothing else runs git there).
Latest ==
    /\ At("latest")
    /\ tag' = latest_release_tag
    /\ Goto("verify")
    /\ UNCHANGED <<tree, trustedOnly, rest>>

\* mutant: any valid signature will do
VerifyAny ==
    /\ At("verify")
    /\ IF tags[tag] # None THEN Goto("compare") ELSE End("untrusted")
    /\ UNCHANGED <<tree, tag, trustedOnly, rest>>

\* verify_tag_signature: a VALIDSIG of the pinned key, no bypass
Verify ==
    /\ At("verify")
    /\ IF tags[tag].by = "trusted" THEN Goto("compare") ELSE End("untrusted")
    /\ UNCHANGED <<tree, tag, trustedOnly, rest>>

\* already at the tag and installed: nothing to do
Compare ==
    /\ At("compare")
    /\ IF head = tags[tag] /\ Cli # None THEN End("uptodate") ELSE Goto("checkout")
    /\ UNCHANGED <<tree, tag, trustedOnly, rest>>

Checkout ==
    /\ At("checkout")
    /\ head' = tags[tag]
    /\ Goto("build")
    /\ UNCHANGED <<remote, tags, target, built, repo, tag, trustedOnly, rest>>

\* newest_built takes the last name in the order of strings, in which 9 comes
\* after 10; the Arch build directory is emptied first, the Debian one is not
Last(P) == CHOOSE r \in P : \A q \in P :
             IF (q.v < 10) = (r.v < 10) THEN q.v <= r.v ELSE r.v < 10

\* mutant: the build directory is not emptied
BuildKeepsOld ==
    /\ At("build")
    /\ built' = IF format = "source" THEN built ELSE built \cup {head}
    /\ target' = IF format = "pkg" THEN target ELSE head
    /\ trustedOnly' = (trustedOnly /\ head.by = "trusted")
    /\ Goto(IF format = "source" THEN "make" ELSE "package")
    /\ UNCHANGED <<remote, tags, head, repo, tag, rest>>

\* build_native_package, or cargo build without build tooling; a failed build is
\* an error.  makepkg works on a copy of the tree, dpkg-buildpackage in the tree.
Build ==
    /\ At("build")
    /\ built' = CASE format = "source" -> built
                  [] format = "deb" -> built \cup {head}
                  [] OTHER -> {head}
    /\ target' = IF format = "pkg" THEN target ELSE head
    /\ trustedOnly' = (trustedOnly /\ head.by = "trusted")
    /\ Goto(IF format = "source" THEN "make" ELSE "package")
    /\ UNCHANGED <<remote, tags, head, repo, tag, rest>>

\* install_native_package; the package's scriptlet restarts a running daemon, by
\* the unit in /etc if a deploy left one
InstallPackage ==
    /\ At("package")
    /\ usr' = Last(built) /\ db' = usr'
    /\ so' = so \cup {Here}
    /\ daemon' = IF daemon = None THEN None ELSE First(usr')
    /\ Goto("rewire")
    /\ UNCHANGED <<format, tree, local, stacks, files, ctl, bounds>>

\* wiring is extended only if there was some, sudo kept as opted; an error of
\* pamwire::enable is only logged
Rewire ==
    /\ At("rewire")
    /\ wired' \in {wired, IF wired \cap Managed # {} THEN wired \cup {"login"} ELSE wired}
    /\ End("updated")
    /\ UNCHANGED <<format, tree, system, torn, files, ctl, bounds>>

\* update_via_copr: the repository file is written in place
Repo ==
    /\ At("repo")
    /\ repo' = IF repo = "absent" THEN "torn" ELSE repo
    /\ Goto(IF repo = "absent" THEN "repo2" ELSE "dnf")
    /\ UNCHANGED <<remote, tags, head, target, built, tag, trustedOnly, rest>>

Repo2 ==
    /\ At("repo2")
    /\ repo' = "good"
    /\ Goto("dnf")
    /\ UNCHANGED <<remote, tags, head, target, built, tag, trustedOnly, rest>>

\* dnf install --refresh (external), then try-restart
Dnf ==
    /\ At("dnf")
    /\ IF repo = "good"
       THEN /\ usr' = remote[Max({v \in Versions : remote[v] # None})] /\ db' = usr'
            /\ so' = so \cup {"security"}
            /\ daemon' = IF daemon = None THEN None ELSE First(usr')
            /\ End("updated")
       ELSE End("failed") /\ UNCHANGED <<usr, db, so, daemon>>
    /\ UNCHANGED <<format, tree, local, stacks, files, ctl, bounds>>

-----------------------------------------------------------------------------
(* deploy_from: make install, then start the daemon and see it answer.      *)

\* from a source tree with its programs built, also over an installed package,
\* which the copy in /usr/local then shadows
deploy ==
    /\ head # None /\ target # None
    /\ Start("deploy", "make")
    /\ UNCHANGED <<format, tree, system, stacks, files, tag, work, bad, keep>>

\* what cargo built last, whatever is checked out (CARGO=true); the programs are
\* installed before the PAM module, which goes where this distribution looks
MakeInstall ==
    /\ At("make")
    /\ local' = target
    /\ Goto("module")
    /\ UNCHANGED <<format, tree, usr, db, so, daemon, stacks, files, ctl, bounds>>

InstallModule ==
    /\ At("module")
    /\ so' = so \cup {Here}
    /\ Goto("enable")
    /\ UNCHANGED <<format, tree, local, usr, db, daemon, stacks, files, ctl, bounds>>

\* systemctl enable --now starts a daemon that is not running; wait_for_daemon
\* takes an answer from whichever is
EnableDaemon ==
    /\ At("enable")
    /\ daemon' = IF daemon = None THEN Cli ELSE daemon
    /\ IF cmd = "update" THEN Goto("rewire") ELSE End("deployed")
    /\ UNCHANGED <<format, tree, local, usr, db, so, stacks, files, ctl, bounds>>

-----------------------------------------------------------------------------
(* fetch_models, copy_models_from and fetch_onnx.                           *)

rest2 == <<format, tree, system, stacks, onnx, data, tag, keep, missed, trustedOnly>>

\* both files there, whatever is in them, is enough without --force
fetch_models == \E force \in BOOLEAN :
    /\ ops < MaxFetches
    /\ IF ~force /\ \A m \in Models : models[m] # "absent"
       THEN /\ cmd = "idle" /\ ops < MaxOps /\ ops' = ops + 1 /\ End("present")
            /\ UNCHANGED <<now, missed, trustedOnly, faults, news, erred>>
       ELSE Start("models", "download")
    /\ UNCHANGED <<format, tree, system, stacks, files, tag, work, bad, keep>>

\* curl, unzip, then both hashes before either file is copied
Download ==
    /\ At("download")
    /\ bad' \in SUBSET Models /\ work' = Models
    /\ IF bad' = {} THEN Goto("copy") ELSE End("mismatch")
    /\ UNCHANGED <<models, rest2, now, erred, bounds>>

\* copy_models_from takes the files of a directory as they are
copy_models_from ==
    /\ ops < MaxFetches
    /\ Start("copyin", "copy")
    /\ bad' \in SUBSET Models /\ work' = Models
    /\ UNCHANGED <<format, tree, system, stacks, files, tag, keep>>

\* fs::copy in place, the detector first
OpenModel ==
    /\ At("copy") /\ work # {}
    /\ now' = IF "det_10g" \in work THEN "det_10g" ELSE "face"
    /\ models' = [models EXCEPT ![now'] = "torn"]
    /\ Goto("write")
    /\ UNCHANGED <<rest2, work, bad, erred, bounds>>

WriteModel ==
    /\ At("write")
    /\ models' = [models EXCEPT ![now] = IF now \in bad THEN "bad" ELSE "good"]
    /\ work' = work \ {now}
    /\ Goto("copy")
    /\ UNCHANGED <<rest2, now, bad, erred, bounds>>

\* fetch-models restarts the daemon, which starts it if it was not running
CopiedModels ==
    /\ At("copy") /\ work = {}
    /\ IF cmd = "models" THEN daemon' \in {daemon, Cli} /\ End("fetched")
       ELSE UNCHANGED daemon /\ End("copied")
    /\ UNCHANGED <<format, tree, local, usr, db, so, stacks, files, ctl, bounds>>

fetch_onnx ==
    /\ ops < MaxFetches /\ onnx = "absent"
    /\ Start("onnx", "library")
    /\ UNCHANGED <<format, tree, system, stacks, files, tag, work, bad, keep>>

\* the archive's hash is checked before it is unpacked; the links that make the
\* library visible come after the copy
Library ==
    /\ At("library")
    /\ \/ End("mismatch") /\ UNCHANGED <<onnx, daemon>>
       \/ onnx' = "good" /\ daemon' \in {daemon, Cli} /\ End("runtime")
    /\ UNCHANGED <<format, tree, local, usr, db, so, stacks, models, data, ctl, bounds>>

-----------------------------------------------------------------------------
(* uninstall.                                                               *)

uninstall ==
    /\ Cli # None
    /\ Start("uninstall", "pam")
    /\ UNCHANGED <<format, tree, system, stacks, files, tag, work, bad, keep>>

pamOnly == <<format, tree, system, torn, files, tag, now, bad, keep, missed, trustedOnly, ops, news>>

\* mutant: the stacks pamwire does not manage are forgotten
UnwireOnly ==
    /\ At("pam")
    /\ wired' = wired \ Managed
    /\ work' = {}
    /\ Goto("scrub")
    /\ UNCHANGED <<pamOnly, erred, faults>>

\* pamwire::disable; on Fedora it may succeed and leave the shared stack wired
\* (see PamWire, Revert).  scrub_pam_references then goes through /etc/pam.d.
Unwire ==
    /\ At("pam")
    /\ \/ wired' = wired \ Managed
       \/ format = "copr" /\ wired' = wired \ {"sudo"}
    /\ work' = wired'
    /\ Goto("scrub")
    /\ UNCHANGED <<pamOnly, erred, faults>>

\* an error aborts before anything is removed
UnwireFails ==
    /\ At("pam") /\ Abort
    /\ \E gone \in SUBSET Managed : wired' = wired \ gone
    /\ UNCHANGED <<pamOnly, work, erred>>

scrubOnly == <<format, tree, system, files, tag, bad, keep, trustedOnly, ops, news>>

\* the throwaway service is removed, any other file truncated and rewritten;
\* an error on one is not reported and the next is tried
Scrub(s) ==
    /\ At("scrub") /\ s \in work
    /\ \/ /\ wired' = wired \ {s}
          /\ IF s = "test" THEN Goto("scrub") /\ UNCHANGED torn
             ELSE Goto("fill") /\ torn' = torn \cup {s}
          /\ UNCHANGED <<missed, erred, faults>>
       \/ /\ faults < MaxFaults /\ faults' = faults + 1
          /\ missed' = missed \cup {s} /\ erred' = TRUE
          /\ Goto("scrub") /\ UNCHANGED stacks
    /\ work' = work \ {s} /\ now' = s
    /\ UNCHANGED scrubOnly

Fill ==
    /\ At("fill")
    /\ torn' = torn \ {now}
    /\ Goto("scrub")
    /\ UNCHANGED <<scrubOnly, wired, work, now, missed, erred, faults>>

Scrubbed ==
    /\ At("scrub") /\ work = {}
    /\ Goto("stop")
    /\ UNCHANGED <<scrubOnly, stacks, work, now, missed, erred, faults>>

\* An error that is logged, the rest being done all the same.
Logged(failed) ==
    IF failed THEN faults < MaxFaults /\ faults' = faults + 1 /\ erred' = TRUE
    ELSE UNCHANGED <<faults, erred>>

\* disable --now; its failure is logged as "was not running / already disabled"
StopDaemon ==
    /\ At("stop")
    /\ \E failed \in BOOLEAN :
         Logged(failed) /\ daemon' = IF failed THEN daemon ELSE None
    /\ Goto("remove")
    /\ UNCHANGED <<format, tree, local, usr, db, so, stacks, files, tag, work, now, bad,
                   keep, missed, trustedOnly, ops, news>>

\* remove_package: through the manager that has the record, best effort
RemovePackage ==
    /\ At("remove")
    /\ \E failed \in BOOLEAN :
         /\ Logged(failed)
         /\ IF db = None \/ failed THEN UNCHANGED <<db, usr, so>>
            ELSE db' = None /\ usr' = None /\ so' = so \ {Here}
    /\ Goto("sweep")
    /\ UNCHANGED <<format, tree, local, daemon, stacks, files, tag, work, now, bad,
                   keep, missed, trustedOnly, ops, news>>

\* the files of BIN_DIRS and PAM_DIRS, whoever put them there
Sweep ==
    /\ At("sweep")
    /\ \E failed \in BOOLEAN :
         /\ Logged(failed)
         /\ local' \in {None} \cup IF failed THEN {local} ELSE {}
         /\ usr' \in {None} \cup IF failed THEN {usr} ELSE {}
         /\ so' \in {so \ {"security"}} \cup IF failed THEN {so} ELSE {}
    /\ Goto("data")
    /\ UNCHANGED <<format, tree, db, daemon, stacks, files, tag, work, now, bad,
                   keep, missed, trustedOnly, ops, news>>

\* mutant: an early return keeps the faces with the models
RemoveDataKeeps ==
    /\ At("data")
    /\ keep' \in BOOLEAN
    /\ data' = (data /\ keep')
    /\ models' = IF keep' THEN models ELSE [m \in Models |-> "absent"]
    /\ End("uninstalled")
    /\ UNCHANGED <<format, tree, system, stacks, onnx, tag, work, now, bad, erred,
                   missed, trustedOnly, bounds>>

\* remove_config_data: all but the models, which go only when asked
RemoveData ==
    /\ At("data")
    /\ keep' \in BOOLEAN
    /\ data' = FALSE
    /\ models' = IF keep' THEN models ELSE [m \in Models |-> "absent"]
    /\ End("uninstalled")
    /\ UNCHANGED <<format, tree, system, stacks, onnx, tag, work, now, bad, erred,
                   missed, trustedOnly, bounds>>

-----------------------------------------------------------------------------
\* The maintainer tags a release, someone else does; the machine reboots.
News ==
    /\ news < MaxNews /\ news' = news + 1
    /\ \/ \E r \in Releases : remote' = [remote EXCEPT ![r.v] = r] /\ UNCHANGED daemon
       \/ daemon # None /\ daemon' = Cli /\ UNCHANGED remote
    /\ UNCHANGED <<format, tags, head, target, built, repo, local, usr, db, so, stacks, files,
                   cmd, pc, outcome, ctl, ops, faults>>

Next ==
    \/ update \/ Fetch \/ Latest \/ Verify \/ Compare \/ Checkout \/ Build
    \/ InstallPackage \/ Rewire \/ Repo \/ Repo2 \/ Dnf
    \/ deploy \/ MakeInstall \/ InstallModule \/ EnableDaemon
    \/ fetch_models \/ Download \/ copy_models_from \/ OpenModel \/ WriteModel \/ CopiedModels
    \/ fetch_onnx \/ Library
    \/ uninstall \/ Unwire \/ UnwireFails \/ (\E s \in Stacks : Scrub(s)) \/ Fill \/ Scrubbed
    \/ StopDaemon \/ RemovePackage \/ Sweep \/ RemoveData
    \/ Fails \/ News

Spec == Init /\ [][Next]_vars

-----------------------------------------------------------------------------
\* Every variable keeps its type; nothing is removed from the machine before
\* uninstall has gone through every stack that names the module.
TypeOK ==
    /\ format \in Formats
    /\ remote \in [Versions -> Releases \cup {None}] /\ tags \in [Versions -> Releases \cup {None}]
    /\ {head, target, local, usr, db, daemon} \cup built \subseteq Releases \cup {None, Branch}
    /\ tag \in Versions \cup {0}
    /\ repo \in States /\ models \in [Models -> States] /\ onnx \in States
    /\ so \subseteq {"security", "multiarch"}
    /\ wired \subseteq Stacks /\ torn \subseteq Stacks /\ missed \subseteq Stacks
    /\ work \subseteq Stacks \cup Models /\ bad \subseteq Models
    /\ {data, keep, erred, trustedOnly} \subseteq BOOLEAN
    /\ pc \in {"stop", "remove", "sweep", "data"} => work = {}

\* update never builds, as root, a release whose tag the trusted key did not
\* sign, whatever tags appear or move while it runs and is retried ("There is
\* deliberately no override or prompt").
BuildsTrustedOnly == trustedOnly

\* An update that reports success has put the release it verified on the disk:
\* in /usr/local from source, or as the package whose record says so.  That is
\* also what runs from now on, unless a copy that an earlier deploy left in
\* /usr/local shadows the package, which no update removes.  (Debian only while
\* no older package lies beside the new one; what dnf installs is Copr's.)
UpdatedIsTag ==
    outcome = "updated" /\ format # "copr" /\ (format = "deb" => Cardinality(built) = 1) =>
        /\ (IF format = "source" THEN local ELSE usr) = tags[tag]
        /\ format # "source" => db = usr
        /\ Cli = tags[tag] \/ (format # "source" /\ local # None)

\* "PAM is unwired first so the module is never deleted while a login stack
\* still references it", also when an uninstall is cut short, except for a
\* stack that scrub_pam_references could not rewrite.
ModuleKept == so = {} => wired \subseteq missed

\* An uninstall in which nothing failed leaves no program, no package record, no
\* wiring, no enrolled face or key, and no model it was told to remove.  (A
\* module in a Debian multiarch directory stays unless a package owned it.)
UninstallErases ==
    outcome = "uninstalled" /\ ~erred =>
        /\ {local, usr, db, daemon} = {None} /\ wired = {} /\ ~data
        /\ so \subseteq {"multiarch"}
        /\ ~keep => \A m \in Models : models[m] = "absent"
=============================================================================

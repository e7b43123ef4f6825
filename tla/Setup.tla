------------------------------- MODULE Setup -------------------------------
(***************************************************************************)
(* The commands of linhello-cli main.rs that set a machine up, run as root *)
(* one at a time: setup, enroll, fingerprint enable/disable/add, selinux   *)
(* install/uninstall, reseal-hook install/uninstall and set-recovery.  A   *)
(* command is the sequence of the steps it still has to take.  A step may  *)
(* fail, which ends the command with what it has done so far in place, or  *)
(* the command may be interrupted; the next one starts from there.         *)
(*                                                                         *)
(* The user's face template is the number of samples it holds, a           *)
(* fingerprint the finger it was taken from.  The daemon is what it has    *)
(* read of the configuration since it was started.  What a command prints  *)
(* is left out.                                                            *)
(***************************************************************************)
EXTENDS Naturals, Sequences, FiniteSets

CONSTANTS Families,   \* distributions: "Debian", "Fedora", "Arch"
          Cameras,    \* the RGB cameras there are to choose from
          IrCameras,  \* the IR cameras there are to choose from
          Slots,      \* fprintd's finger slots, in the order they are offered
          Fingers,    \* the user's fingers
          Captures,   \* captures of one enrollment
          MaxOps, MaxFaults \* bounds: commands, failures

None    == 0       \* no finger in a slot, no name given to it
Unknown == "auto"  \* a camera not pinned: the daemon detects one
NoPins  == [rgb |-> Unknown, ir |-> Unknown]
Modules == {"linhello", "linhello-daemon"}  \* greeter access, the package's

ASSUME SetupAssumption ==
    /\ Families \subseteq {"Debian", "Fedora", "Arch"}
    /\ Slots \subseteq Nat \ {0} /\ Fingers \subseteq Nat \ {0}
    /\ {Captures, MaxOps, MaxFaults} \subseteq Nat

VARIABLES
    family, te,   \* the distribution; whether linhello.te is on the disk
    modules,      \* SELinux modules loaded
    hook,         \* the reseal hook: [text, exec]
    inGroup,      \* the user is a member of the socket's group
    pins, tuned,  \* cameras.conf, and match_threshold in settings.conf
    up, loaded,   \* linhellod runs; what it read when it was started
    old, new,     \* samples stored before this command and by it
    recovery,     \* a recovery passphrase is set
    prints, names, \* the finger in each fprintd slot, the finger its name is of
    wired, method, \* pam_fprintd is in the PAM stacks; method= in policy.conf
    cmd, todo,    \* the running command and its remaining steps
    reset,        \* reset_pending of enroll_guided
    chosen, slot, \* the cameras picked, the slot being enrolled
    outcome,      \* how the last command ended
    acks,         \* history: samples this command was told are stored
    cams,         \* history: cameras this command's samples were taken with
    ops, faults

machine == <<family, te>>
selinux == modules
config  == <<pins, tuned>>
daemon  == <<up, loaded>>
face    == <<old, new, reset, acks, cams, recovery>>
finger  == <<prints, names, wired, method, slot>>
run     == <<cmd, outcome>>
bounds  == <<ops, faults>>
vars    == <<machine, selinux, hook, inGroup, config, daemon, face, finger,
             run, todo, chosen, bounds>>

Nothing == [text |-> "none", exec |-> FALSE]
Loads   == [pins |-> pins, tuned |-> tuned, label |-> modules # {}]

Init ==
    /\ family \in Families /\ te \in (IF family = "Fedora" THEN BOOLEAN ELSE {FALSE})
    /\ modules \in {{}} \cup (IF family = "Fedora" THEN {{"linhello-daemon"}} ELSE {})
    /\ hook = Nothing /\ inGroup = FALSE
    /\ pins = NoPins /\ tuned = FALSE
    /\ up = TRUE /\ loaded = Loads
    /\ old \in {0, 1} /\ new = 0 /\ reset = FALSE /\ acks = 0 /\ cams = {}
    /\ recovery = FALSE
    /\ prints = [s \in Slots |-> None] /\ names = prints
    /\ wired = FALSE /\ method = "auto" /\ slot = None
    /\ cmd = "idle" /\ outcome = "none" /\ todo = <<>> /\ chosen = NoPins
    /\ ops = 0 /\ faults = 0

-----------------------------------------------------------------------------
(* Commands.                                                                *)

WriteHook == <<"open hook", "fill hook", "chmod hook">>
Policy    == <<"compile", "load", "relabel">>
Enable    == <<"first finger", "wire", "method">>
Samples   == [i \in 1..Captures |-> "sample"] \o <<"captured?">>

Steps ==
    [setup   |-> <<"probe", "selinux?", "hook?", "group", "cameras", "rgb", "ir",
                   "restart", "calibrate?", "enroll?", "finger?">>,
     enroll  |-> Samples,
     replace |-> Samples,  \* enroll --reset
     recover |-> <<"recovery">>,
     enable  |-> Enable,
     disable |-> <<"unwire", "method auto">>,
     add     |-> <<"finger">>,
     policy  |-> <<"policy?">>,
     unload  |-> <<"unload">>,
     hookOn  |-> WriteHook,
     hookOff |-> <<"rm hook">>]

Begin(c) ==
    /\ cmd = "idle" /\ ops < MaxOps /\ ops' = ops + 1
    /\ cmd' = c /\ todo' = Steps[c] /\ outcome' = "none"
    /\ old' = old + new /\ new' = 0 /\ acks' = 0 /\ cams' = {}
    /\ reset' = (c = "replace")
    /\ chosen' = NoPins /\ slot' = None
    /\ UNCHANGED <<machine, selinux, hook, inGroup, config, daemon, recovery, prints,
                   names, wired, method, faults>>

\* A failure that the code passes over, or the step going well.
Fault == faults < MaxFaults /\ faults' = faults + 1
Well  == UNCHANGED faults

At(s) == todo # <<>> /\ Head(todo) = s

End(o)  == cmd' = "idle" /\ todo' = <<>> /\ outcome' = o
Then(s) == todo' = s \o Tail(todo) /\ UNCHANGED run
Next1   == Then(<<>>)

Finish ==
    /\ cmd # "idle" /\ todo = <<>> /\ End("done")
    /\ UNCHANGED <<machine, selinux, hook, inGroup, config, daemon, face, finger,
                   chosen, bounds>>

\* The error of a step ends the command; setup only prints those of
\* fingerprint_enable, which comes last.
FingerSteps == {"first finger", "finger", "scan", "wire"}
Bail == IF cmd = "setup" /\ Head(todo) \in FingerSteps
        THEN todo' = <<>> /\ UNCHANGED run
        ELSE End("failed")

\* A step fails or the command is interrupted.  A configuration file is
\* truncated before it is written again.
Stop ==
    /\ todo # <<>> /\ Fault
    /\ Bail \/ End("failed")
    /\ pins' \in IF Head(todo) \in {"rgb", "ir"} THEN {pins, NoPins} ELSE {pins}
    /\ method' \in IF Head(todo) = "method" THEN {method, "auto"} ELSE {method}
    /\ up' \in IF Head(todo) \in {"restart", "relabel"} THEN {up, FALSE} ELSE {up}
    /\ UNCHANGED <<machine, selinux, hook, inGroup, tuned, loaded, face, prints, names,
                   wired, slot, chosen, ops>>

-----------------------------------------------------------------------------
(* SELinux policy, reseal hook, socket group.                               *)

\* Asked: the step is left out, or the steps s are taken.
Offer(s) == Next1 \/ Then(s)

host == <<machine, config, face, finger, chosen, bounds>>

\* selinux_setup_step: nothing to do without SELinux, with a module loaded or
\* without the source; a failing `semodule -l` counts as not loaded.
SelinuxStep ==
    /\ At("selinux?")
    /\ IF family = "Fedora" /\ te THEN \/ modules # {} /\ Next1
                                       \/ Offer(Policy)
                                  ELSE Next1
    /\ UNCHANGED <<host, selinux, hook, inGroup, daemon>>

\* selinux install
PolicyCmd ==
    /\ At("policy?")
    /\ CASE family # "Fedora" -> Next1
         [] family = "Fedora" /\ ~te -> Bail
         [] OTHER -> Then(Policy)
    /\ UNCHANGED <<host, selinux, hook, inGroup, daemon>>

\* checkmodule and semodule_package in a scratch directory
Compile ==
    /\ At("compile") /\ Next1
    /\ UNCHANGED <<host, selinux, hook, inGroup, daemon>>

LoadModule ==
    /\ At("load") /\ Next1 /\ modules' = modules \cup {"linhello"}
    /\ UNCHANGED <<host, hook, inGroup, daemon>>

\* selinux uninstall removes the greeter module; without it semodule fails
Unload ==
    /\ At("unload")
    /\ \/ modules = {} /\ Next1 /\ UNCHANGED selinux
       \/ modules # {} /\ "linhello" \notin modules /\ Bail /\ UNCHANGED selinux
       \/ "linhello" \in modules /\ Then(<<"relabel">>) /\ modules' = modules \ {"linhello"}
    /\ UNCHANGED <<host, hook, inGroup, daemon>>

\* systemctl restart linhellod, after a change of the policy ("relabel") or of
\* cameras and threshold: the socket is labelled by the policy in force, the
\* configuration is read again.
Restart ==
    /\ (At("restart") \/ At("relabel")) /\ Next1
    /\ up' = TRUE /\ loaded' = Loads
    /\ UNCHANGED <<host, selinux, hook, inGroup>>

\* reseal_hook_setup_step: a file at the hook's path, whatever is in it, is taken
\* for a hook.  (Neither this nor reseal-hook install looks further than a printed
\* note at whether there is a reseal script for the hook to run.)
HookStep ==
    /\ At("hook?")
    /\ IF hook.text # "none" THEN Next1 ELSE Offer(WriteHook)
    /\ UNCHANGED <<host, selinux, hook, inGroup, daemon>>

\* write_reseal_hook: create or truncate, write, then set the mode (0755 for
\* the scripts, 0644 for the pacman hook)
OpenHook ==
    /\ At("open hook") /\ Next1 /\ hook' = [hook EXCEPT !.text = "torn"]
    /\ UNCHANGED <<host, selinux, inGroup, daemon>>
FillHook ==
    /\ At("fill hook") /\ Next1 /\ hook' = [hook EXCEPT !.text = "full"]
    /\ UNCHANGED <<host, selinux, inGroup, daemon>>
ChmodHook ==
    /\ At("chmod hook") /\ Next1 /\ hook' = [hook EXCEPT !.exec = (family # "Arch")]
    /\ UNCHANGED <<host, selinux, inGroup, daemon>>
RemoveHook ==
    /\ At("rm hook") /\ Next1 /\ hook' = Nothing
    /\ UNCHANGED <<host, selinux, inGroup, daemon>>

\* ensure_socket_group_membership: usermod -aG; a missing group or a failure
\* is only printed
Group ==
    /\ At("group") /\ Next1 /\ inGroup' \in {inGroup, TRUE}
    /\ UNCHANGED <<host, selinux, hook, daemon>>

-----------------------------------------------------------------------------
(* setup: readiness, cameras, threshold.                                    *)

parts == <<machine, selinux, hook, inGroup, bounds>>

Probe ==
    /\ At("probe") /\ ((up /\ Next1) \/ Bail)
    /\ UNCHANGED <<parts, config, daemon, face, finger, chosen>>

\* choose_cameras: no camera at all is an error, no IR camera is not
Choose ==
    /\ At("cameras")
    /\ \/ \E c \in Cameras, i \in IrCameras \cup {Unknown} :
            chosen' = [rgb |-> c, ir |-> i] /\ Next1
       \/ Bail /\ UNCHANGED chosen
    /\ UNCHANGED <<parts, config, daemon, face, finger>>

\* write_cameras_conf: one write_kv for each camera, none to forget the IR one
WriteRgb ==
    /\ At("rgb") /\ Next1 /\ pins' = [pins EXCEPT !.rgb = chosen.rgb]
    /\ UNCHANGED <<parts, tuned, daemon, face, finger, chosen>>
WriteIr ==
    /\ At("ir") /\ Next1
    /\ pins' = IF chosen.ir = Unknown THEN pins ELSE [pins EXCEPT !.ir = chosen.ir]
    /\ UNCHANGED <<parts, tuned, daemon, face, finger, chosen>>

\* Mutant of Calibrate: the daemon is left running.
CalibrateOnly ==
    /\ At("calibrate?") /\ Next1
    /\ tuned' \in {tuned} \cup (IF up /\ old > 0 THEN {TRUE} ELSE {})
    /\ UNCHANGED <<parts, pins, daemon, face, finger, chosen>>

\* calibrate_threshold writes what it measured, if it measured enough; the
\* daemon is restarted either way
Calibrate ==
    /\ At("calibrate?")
    /\ \/ Next1 /\ UNCHANGED tuned
       \/ Then(<<"restart">>) /\ tuned' \in {tuned} \cup (IF up /\ old > 0 THEN {TRUE} ELSE {})
    /\ UNCHANGED <<parts, pins, daemon, face, finger, chosen>>

\* The daemon looks the cameras up again every few seconds (camera.rs).
LookUpCameras ==
    /\ up /\ loaded.pins # pins /\ loaded' = [loaded EXCEPT !.pins = pins]
    /\ UNCHANGED <<parts, config, up, face, finger, run, todo, chosen>>

-----------------------------------------------------------------------------
(* enroll_guided, set_recovery_interactive.                                 *)

AskEnroll ==
    /\ At("enroll?") /\ Offer(Samples \o <<"recovery?">>)
    /\ UNCHANGED <<parts, config, daemon, face, finger, chosen>>

\* The daemon's part of Request::Enroll: replace or append (ProfileStore).
Store ==
    /\ old' = IF reset THEN 0 ELSE old
    /\ new' = IF reset THEN 1 ELSE new + 1
    /\ cams' = cams \cup {loaded.pins.rgb}

\* Mutant of Sample: every request asks for a reset.
SampleResets ==
    /\ At("sample") /\ up
    /\ Store /\ acks' = acks + 1 /\ Next1 /\ UNCHANGED <<reset, recovery>>
    /\ UNCHANGED <<parts, config, daemon, finger, chosen>>

\* One Request::Enroll: stored; refused (no face, not live) and skipped; or no
\* answer, which ends the command whether or not the sample was stored.
Sample ==
    /\ At("sample")
    /\ \/ up /\ Store /\ acks' = acks + 1 /\ reset' = FALSE /\ Next1
       \/ up /\ Next1 /\ UNCHANGED <<old, new, cams, acks, reset>>
       \/ Bail /\ UNCHANGED <<acks, reset>> /\ ((up /\ Store) \/ UNCHANGED <<old, new, cams>>)
    /\ UNCHANGED <<parts, config, daemon, finger, recovery, chosen>>

Captured ==
    /\ At("captured?") /\ (IF acks = 0 THEN Bail ELSE Next1)
    /\ UNCHANGED <<parts, config, daemon, face, finger, chosen>>

AskRecovery ==
    /\ At("recovery?") /\ Offer(<<"recovery">>)
    /\ UNCHANGED <<parts, config, daemon, face, finger, chosen>>

\* The passphrases differ, are empty, or the daemon has no key to wrap: an
\* error, which setup only prints.
Recovery ==
    /\ At("recovery")
    /\ \/ up /\ old + new > 0 /\ recovery' = TRUE /\ Next1
       \/ (IF cmd = "setup" THEN Next1 ELSE Bail) /\ UNCHANGED recovery
    /\ UNCHANGED <<parts, config, daemon, old, new, reset, acks, cams, finger, chosen>>

-----------------------------------------------------------------------------
(* fingerprint enable, disable, add.                                        *)

rest == <<machine, selinux, hook, inGroup, ops, config, daemon, face, chosen>>

AskFinger ==
    /\ At("finger?") /\ Offer(Enable)
    /\ UNCHANGED <<rest, faults, finger>>

Taken == {s \in Slots : prints[s] # None}

\* fp::first_free
first_free(taken) ==
    CHOOSE s \in Slots \ taken : \A t \in Slots \ taken : s <= t

\* enrolled_fingers: what fprintd-list prints, nothing when it cannot be run
List(taken) ==
    \/ taken = Taken /\ Well
    \/ taken = {} /\ Taken # {} /\ Fault

\* fingerprint_enable's first half: fprintd and a reader, then a finger unless
\* one is listed
FirstFinger ==
    /\ At("first finger")
    /\ \/ \E taken \in SUBSET Slots : List(taken) /\ Then(IF taken # {} THEN <<>> ELSE <<"finger">>)
       \/ Bail /\ Well
    /\ UNCHANGED <<rest, prints, names, wired, method, slot>>

\* enroll_named_finger up to fprintd-enroll: pick a slot
PickSlot ==
    /\ At("finger")
    /\ \E taken \in SUBSET Slots :
         /\ List(taken)
         /\ IF taken = Slots THEN Bail /\ UNCHANGED slot
                             ELSE slot' = first_free(taken) /\ Then(<<"scan">>)
    /\ UNCHANGED <<rest, prints, names, wired, method>>

\* Mutant of Scan: whether a finger was enrolled is not looked at.
ScanUnchecked ==
    /\ At("scan")
    /\ \/ \E f \in Fingers \ {prints[s] : s \in Slots} :
            prints' = [prints EXCEPT ![slot] = f] /\ Then(<<"name">>)
       \/ UNCHANGED prints /\ Next1
    /\ UNCHANGED <<rest, faults, names, wired, method, slot>>

\* fprintd-enroll: a new finger in the slot, a duplicate or a failure.  Without
\* a finger enable stops, with nothing wired; add just ends.
Scan ==
    /\ At("scan")
    /\ \/ \E f \in Fingers \ {prints[s] : s \in Slots} :
            prints' = [prints EXCEPT ![slot] = f] /\ Then(<<"name">>)
       \/ UNCHANGED prints /\ Bail
       \/ cmd = "add" /\ Taken # {} /\ UNCHANGED prints /\ Next1
    /\ UNCHANGED <<rest, faults, names, wired, method, slot>>

\* set_fingerprint_name only warns when it fails
Name ==
    /\ At("name") /\ Next1
    /\ \/ names' = [names EXCEPT ![slot] = prints[slot]] /\ Well
       \/ UNCHANGED names /\ Fault
    /\ UNCHANGED <<rest, prints, wired, method, slot>>

\* pam-auth-update on Debian, or an error; authselect on Fedora, whose failure
\* is printed; on Arch the lines to add are printed
Wires(on) ==
    \/ family # "Arch" /\ wired' = on /\ Well /\ Next1
    \/ family = "Debian" /\ UNCHANGED wired /\ Well /\ Bail
    \/ family = "Fedora" /\ UNCHANGED wired /\ Fault /\ Next1
    \/ family = "Arch" /\ UNCHANGED wired /\ Well /\ Next1

Wire ==
    /\ At("wire") /\ Wires(TRUE)
    /\ UNCHANGED <<rest, prints, names, method, slot>>
Unwire ==
    /\ At("unwire") /\ Wires(FALSE)
    /\ UNCHANGED <<rest, prints, names, method, slot>>

\* write_kv("policy.conf", "method", ..): a failure is noted and passed over
SetMethod ==
    /\ At("method") /\ Next1
    /\ (method' = "fingerprint" /\ Well) \/ (UNCHANGED method /\ Fault)
    /\ UNCHANGED <<rest, prints, names, wired, slot>>
ClearMethod ==
    /\ At("method auto") /\ Next1
    /\ (method' = "auto" /\ Well) \/ (UNCHANGED method /\ Fault)
    /\ UNCHANGED <<rest, prints, names, wired, slot>>

-----------------------------------------------------------------------------
(* Between commands the machine is rebooted, or the user deletes a finger.  *)

Reboot ==
    /\ cmd = "idle" /\ (~up \/ loaded # Loads)
    /\ up' = TRUE /\ loaded' = Loads /\ outcome' = "none"
    /\ UNCHANGED <<parts, config, face, finger, cmd, todo, chosen>>

\* fprintd-delete
DeleteFinger ==
    /\ cmd = "idle"
    /\ \E s \in Taken : prints' = [prints EXCEPT ![s] = None]
    /\ UNCHANGED <<rest, faults, names, wired, method, slot, run, todo>>

PartStep   == SelinuxStep \/ PolicyCmd \/ Compile \/ LoadModule \/ Unload \/ Restart
                \/ HookStep \/ OpenHook \/ FillHook \/ ChmodHook \/ RemoveHook
                \/ Group
SetupStep  == Probe \/ Choose \/ WriteRgb \/ WriteIr \/ Calibrate
FaceStep   == AskEnroll \/ Sample \/ Captured \/ AskRecovery \/ Recovery
FingerStep == AskFinger \/ FirstFinger \/ PickSlot \/ Scan \/ Name \/ Wire \/ Unwire
                \/ SetMethod \/ ClearMethod

Next == \/ \E c \in DOMAIN Steps : Begin(c)
        \/ PartStep \/ SetupStep \/ FaceStep \/ FingerStep
        \/ Finish \/ Stop \/ LookUpCameras \/ Reboot \/ DeleteFinger

Spec == Init /\ [][Next]_vars

-----------------------------------------------------------------------------
(* Properties.                                                              *)

\* Every variable keeps its type; a slot holds a finger of the user's or none.
TypeOK ==
    /\ modules \subseteq Modules /\ (family # "Fedora" => modules = {})
    /\ hook \in [text : {"none", "torn", "full"}, exec : BOOLEAN]
    /\ pins \in [rgb : Cameras \cup {Unknown}, ir : IrCameras \cup {Unknown}]
    /\ {inGroup, tuned, up, recovery, wired, reset} \subseteq BOOLEAN
    /\ {old, new, acks} \subseteq Nat
    /\ {prints, names} \subseteq [Slots -> Fingers \cup {None}]
    /\ method \in {"auto", "fingerprint"} /\ slot \in Slots \cup {None}
    /\ cmd \in DOMAIN Steps \cup {"idle"} /\ (cmd = "idle" => todo = <<>>)
    /\ outcome \in {"none", "done", "failed"}

\* When setup says it is complete, the daemon in service is one that was
\* started after everything setup changed: its socket has the label of the
\* SELinux policy (also when this setup only found the policy loaded by one that
\* was cut short), and it matches with the threshold setup measured.  And the
\* samples setup enrolls are taken with the camera chosen in it, whatever camera
\* the daemon used before.
InForce == up /\ loaded.tuned = tuned /\ (modules # {} => loaded.label)
SetupInForce ==
    [][/\ cmd = "setup" /\ outcome' = "done" => InForce
       /\ cmd' = "setup" => cams' \subseteq {chosen'.rgb}]_vars

\* enroll --reset: the old samples are dropped with the first sample that is
\* stored and not before, and what the command is told is stored is there at the
\* end (and at most one sample more, whose answer was lost).
ResetKeepsSamples ==
    /\ new \in {acks, acks + 1}
    /\ cmd = "replace" /\ reset => new = 0
    /\ ~reset /\ acks > 0 /\ new > 0 => cmd # "replace" \/ old = 0

\* "no fingerprint was enrolled; nothing was wired": pam_fprintd is put into the
\* PAM stacks, and face unlock switched off by method=fingerprint, only while the
\* user has a finger enrolled, whether fprintd-list fails, a scan fails or is of a
\* finger enrolled already, or an earlier enable was cut short.
WiredWithFinger ==
    [][(wired' /\ ~wired) \/ (method' = "fingerprint" /\ method = "auto") => Taken # {}]_vars
=============================================================================

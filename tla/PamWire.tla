------------------------------ MODULE PamWire ------------------------------
(***************************************************************************)
(* pamwire.rs: `linhello pam enable` and `linhello pam disable`, which put *)
(* the face line into the PAM stacks of the machine and take it out again. *)
(*                                                                         *)
(* A file is the sequence of its lines, a line is represented by its kind. *)
(* PAM reads /etc/pam.d live, so the model goes file access by file access *)
(* and an error, a crash or a full disk may end a command between any two. *)
(* An /etc/pam.d file is replaced by rename; backups, the pam-auth-update  *)
(* profile and the authselect templates are written in place, in two       *)
(* steps: the truncating open and the write.                               *)
(*                                                                         *)
(* pam-auth-update and authselect are external: each renders the shared    *)
(* stacks from the profile it is given, in one step.                       *)
(***************************************************************************)
EXTENDS Naturals, Sequences, FiniteSets, SequencesExt

CONSTANTS Families,   \* distribution families a run covers
          Greeters,   \* the candidate greeter services that exist here
          Originals,  \* what a distribution or the administrator puts in a file
          MaxOps,     \* bound on enable and disable commands
          MaxFaults,  \* bound on commands cut short
          MaxEdits    \* bound on changes by others

Absent == <<"absent">>  \* no such file
Torn   == << >>         \* opened for writing, nothing written

Stanzas == {"greeter", "sufficient", "wait"}
Mark    == "created"    \* first line of an override linhello materialized

Vendored  == {"plasmalogin", "kde", "kde-fingerprint"}
Templates == {"system-auth", "password-auth"}
Shared    == {"common-auth"} \cup Templates
Files     == Greeters \cup {"sudo"} \cup Vendored \cup Shared

\* The authselect profiles, and a profile's templates (external).
Stock    == {"sssd", "local"}
Custom   == "custom/linhello"
StockTemplate(p) ==
    IF p = "sssd" THEN <<"auth", "rest">> ELSE <<"rest", "auth">>

ASSUME WireAssumption ==
    /\ Families \subseteq {"Arch", "Debian", "Fedora"}
    /\ IsFiniteSet(Greeters)
    /\ Greeters \cap ({"sudo"} \cup Vendored \cup Shared) = {}
    /\ \A o \in Originals :
         o \in Seq({"auth", "rest", "comment"}) /\ o # Torn
    /\ {MaxOps, MaxFaults, MaxEdits} \subseteq Nat

VARIABLES
    family,  \* platform::distro_family()
    etc,     \* etc[f]: /etc/pam.d/f
    vendor,  \* vendor[f]: /usr/lib/pam.d/f
    bak,     \* bak[f]: f.pre-linhello
    tmp,     \* .f.linhello.tmp of the file being replaced
    profile, \* the pam-auth-update profile
    dir,     \* dir[t]: template t of custom/linhello
    base,    \* /etc/linhello/authselect-base: Stock, Custom, "" (torn, absent)
    active,  \* the profile `authselect current` names, or "none"
    cmd, todo, at,  \* the running command, its work left, where it is in it
    found,   \* the base profile fedora_enable read
    last,    \* how the last command ended: "none", "enabled", "disabled", "cut"
    orig,    \* history: what others last put in f, without the face line
    broken,  \* history: an authselect template was cut short
    rebased, \* history: enable ran while custom/linhello was active
    ops, faults, edits

disk   == <<etc, vendor, bak, tmp, profile, dir, base, active>>
hist   == <<family, orig, broken, rebased>>
counts == <<ops, faults, edits>>
vars   == <<disk, cmd, todo, at, found, last, hist, counts>>

-----------------------------------------------------------------------------
(* The pure helpers.                                                        *)

content_has_module(c) == \E i \in DOMAIN c : c[i] \in Stanzas

\* mutant: the stanza at the end of the stack
insert_last(c, stanza) == IF content_has_module(c) THEN c ELSE Append(c, stanza)

\* the stanza goes before the first auth line, or at the end
insert_first_auth(c, stanza) ==
    LET auths == {i \in DOMAIN c : c[i] = "auth"}
        k == IF auths = {} THEN Len(c) + 1
             ELSE CHOOSE i \in auths : \A j \in auths : i <= j
    IN  IF content_has_module(c) THEN c ELSE InsertAt(c, k, stanza)

\* the lines of c whose kind is not in S, in their order
Without(c, S) ==
    LET kept[i \in 0 .. Len(c)] ==
          IF i = 0 THEN << >>
          ELSE IF c[i] \in S THEN kept[i - 1] ELSE Append(kept[i - 1], c[i])
    IN  kept[Len(c)]

remove_module(c) == Without(c, Stanzas)

is_created_override(c) == c # Torn /\ Head(c) = Mark

build_override(c, stanza) == <<Mark>> \o insert_first_auth(c, stanza)

Exists(f) == etc[f] # Absent

\* the service a plan would manage, wherever its file is
Managed(f) == Exists(f) \/ vendor[f] # Absent

\* lockscreen_plan: the parallel stack if this Plasma has it, else `kde`
lockscreen_plan ==
    IF Managed("kde-fingerprint") THEN {"kde-fingerprint"}
    ELSE IF Managed("kde") THEN {"kde"} ELSE {}

plasmalogin_greeter_plan == IF Managed("plasmalogin") THEN {"plasmalogin"} ELSE {}

Stanza(f) == CASE f \in Greeters -> "greeter"
               [] f = "kde-fingerprint" -> "wait"
               [] OTHER -> "sufficient"

-----------------------------------------------------------------------------
(* What a command does, as a list of work in the order of the code.         *)

Work(do, S) == LET s == SetToSeq(S) IN [i \in 1 .. Len(s) |-> [do |-> do, f |-> s[i]]]
Call(do) == <<[do |-> do, f |-> "-"]>>

existing_targets == {g \in Greeters : Exists(g)}

SharedEnable(include_sudo) ==
    CASE family = "Debian" -> Call("openProfile") \o Call("writeProfile") \o Call("authUpdate")
      [] family = "Fedora" ->
           Call("current") \o Call("create")
             \o Work("inject", {"system-auth"}) \o Work("inject", {"password-auth"})
             \o Call("openBase") \o Call("writeBase") \o Call("select")
      [] OTHER ->
           Work("edit", existing_targets)
             \o Work("edit", plasmalogin_greeter_plan)
             \o Work("edit", IF include_sudo /\ Exists("sudo") THEN {"sudo"} ELSE {})

SharedDisable ==
    CASE family = "Debian" -> Call("removeProfile") \o Call("authUpdate")
      [] family = "Fedora" -> Call("revert") \o Call("removeDir") \o Call("removeBase")
      [] OTHER ->
           Work("remove", existing_targets)
             \o Work("remove", {f \in {"sudo"} : Exists(f)})
             \o Work("remove", {f \in {"plasmalogin"} : Exists(f)})

EnableWork(include_sudo) ==
    SharedEnable(include_sudo) \o Work("edit", lockscreen_plan)

\* mutant: only the lock screen service enable would choose now
DisableWorkFewer ==
    SharedDisable \o Work("remove", {f \in lockscreen_plan : Exists(f)})

\* existing_targets(true): sudo is cleaned though enabling it is opt-in
DisableWork ==
    SharedDisable \o Work("remove", {f \in {"kde-fingerprint"} : Exists(f)})
                  \o Work("remove", {f \in {"kde"} : Exists(f)})

-----------------------------------------------------------------------------
Init ==
    /\ family \in Families
    /\ \E o \in Originals : etc \in [Files -> {o, Absent}]
                            /\ vendor \in [Vendored -> {o, Absent}]
    /\ \A f \in Shared :
         Exists(f) <=> f \in (CASE family = "Debian" -> {"common-auth"}
                                [] family = "Fedora" -> Templates
                                [] OTHER -> {})
    /\ family # "Arch" => \A f \in Greeters \cup {"sudo", "plasmalogin"} : ~Exists(f)
    /\ active \in IF family = "Fedora" THEN Stock \cup {"none"} ELSE {"none"}
    /\ active \in Stock => \A f \in Templates : etc[f] = StockTemplate(active)
    /\ bak = [f \in Files |-> Absent] /\ tmp = Absent
    /\ profile = Absent /\ dir = [t \in Templates |-> Absent] /\ base = ""
    /\ cmd = "idle" /\ todo = << >> /\ at = "begin" /\ found = "" /\ last = "none"
    /\ orig = etc /\ broken = FALSE /\ rebased = FALSE
    /\ ops = 0 /\ faults = 0 /\ edits = 0

\* The command goes on to its next piece of work, or ends: both return Ok.
NextItem ==
    /\ at' = "begin"
    /\ todo' = Tail(todo)
    /\ IF Len(todo) > 1 THEN UNCHANGED <<cmd, last>>
       ELSE cmd' = "idle" /\ last' = IF cmd = "enable" THEN "enabled" ELSE "disabled"

Goto(a) == at' = a /\ UNCHANGED <<cmd, todo, last>>

Command(c, work) ==
    /\ cmd = "idle" /\ ops < MaxOps
    /\ ops' = ops + 1
    /\ todo' = work /\ at' = "begin"
    /\ IF work # << >> THEN cmd' = c /\ last' = "none"
       ELSE cmd' = "idle" /\ last' = IF c = "enable" THEN "enabled" ELSE "disabled"
    /\ UNCHANGED <<disk, found, hist, faults, edits>>

enable  == \E include_sudo \in BOOLEAN : Command("enable", EnableWork(include_sudo))
disable == Command("disable", DisableWork)

Doing(w) == cmd # "idle" /\ Head(todo).do = w
File == Head(todo).f

-----------------------------------------------------------------------------
(* edit_in, apply_override and remove_in on one file.                       *)

rest == <<vendor, profile, dir, base, active, found, hist, counts>>

\* The content an edit would leave, from the file as it is.
Edited(f) ==
    IF Head(todo).do = "remove" THEN remove_module(etc[f])
    ELSE IF Exists(f) THEN insert_first_auth(etc[f], Stanza(f))
    ELSE build_override(vendor[f], Stanza(f))

\* backup: an existing copy is never overwritten; fs::copy opens it first
Begin ==
    /\ (Doing("edit") \/ Doing("remove")) /\ at = "begin"
    /\ LET f == File IN
       IF Head(todo).do = "remove" /\ is_created_override(etc[f])
       THEN etc' = [etc EXCEPT ![f] = Absent] /\ NextItem /\ UNCHANGED <<bak, tmp>>
       ELSE IF Edited(f) = etc[f]
       THEN NextItem /\ UNCHANGED <<etc, bak, tmp>>
       ELSE IF Exists(f) /\ bak[f] = Absent
       THEN bak' = [bak EXCEPT ![f] = Torn] /\ Goto("copy") /\ UNCHANGED <<etc, tmp>>
       ELSE Goto("open") /\ UNCHANGED <<etc, bak, tmp>>
    /\ UNCHANGED rest

Copy ==
    /\ cmd # "idle" /\ at = "copy"
    /\ bak' = [bak EXCEPT ![File] = etc[File]]
    /\ Goto("open")
    /\ UNCHANGED <<etc, tmp, rest>>

\* mutant: truncate the live file
OpenTmpInPlace ==
    /\ cmd # "idle" /\ at = "open"
    /\ tmp' = Torn
    /\ etc' = [etc EXCEPT ![File] = Torn]
    /\ Goto("write")
    /\ UNCHANGED <<bak, rest>>

\* write_atomic
OpenTmp ==
    /\ cmd # "idle" /\ at = "open"
    /\ tmp' = Torn
    /\ Goto("write")
    /\ UNCHANGED <<etc, bak, rest>>

WriteTmp ==
    /\ cmd # "idle" /\ at = "write"
    /\ tmp' = Edited(File)
    /\ Goto("rename")
    /\ UNCHANGED <<etc, bak, rest>>

Rename ==
    /\ cmd # "idle" /\ at = "rename"
    /\ etc' = [etc EXCEPT ![File] = tmp]
    /\ tmp' = Absent
    /\ NextItem
    /\ UNCHANGED <<bak, rest>>

-----------------------------------------------------------------------------
(* Debian: the profile, and pam-auth-update over it (external).             *)

\* Debian's common-auth holds the face line iff a complete profile is there.
Rendered(c, p) == IF p = <<"profile">> THEN insert_first_auth(c, "sufficient")
                  ELSE remove_module(c)

OpenProfile ==
    /\ Doing("openProfile")
    /\ profile' = Torn
    /\ NextItem
    /\ UNCHANGED <<etc, vendor, bak, tmp, dir, base, active, found, hist, counts>>

WriteProfile ==
    /\ Doing("writeProfile")
    /\ profile' = <<"profile">>
    /\ NextItem
    /\ UNCHANGED <<etc, vendor, bak, tmp, dir, base, active, found, hist, counts>>

RemoveProfile ==
    /\ Doing("removeProfile")
    /\ profile' = Absent
    /\ NextItem
    /\ UNCHANGED <<etc, vendor, bak, tmp, dir, base, active, found, hist, counts>>

Render == etc' = [etc EXCEPT !["common-auth"] = Rendered(@, profile)]

AuthUpdate ==
    /\ Doing("authUpdate")
    /\ Render
    /\ NextItem
    /\ UNCHANGED <<vendor, bak, tmp, profile, dir, base, active, found, hist, counts>>

-----------------------------------------------------------------------------
(* Fedora: a custom authselect profile based on the active one.             *)

fedora == <<vendor, bak, profile, family, counts>>  \* what these steps leave alone

HasDir == \E t \in Templates : dir[t] # Absent

TemplatesOf(p) == IF p = Custom THEN dir ELSE [t \in Templates |-> StockTemplate(p)]

\* `authselect select p --force` (external) renders the stacks from profile p
Select(p) ==
    /\ p = Custom => HasDir
    /\ active' = p
    /\ etc' = [f \in Files |-> IF f \in Templates THEN TemplatesOf(p)[f] ELSE etc[f]]

\* parse_authselect_current; "sssd" when authselect names no profile
Current ==
    /\ Doing("current")
    /\ found' = IF active = "none" THEN "sssd" ELSE active
    /\ rebased' = (rebased \/ active = Custom)
    /\ NextItem
    /\ UNCHANGED <<etc, tmp, dir, base, active, orig, broken, fedora>>

\* create-profile --base-on, unless the directory is there already
Create ==
    /\ Doing("create")
    /\ found = Custom => HasDir
    /\ dir' = IF HasDir THEN dir ELSE TemplatesOf(found)
    /\ NextItem
    /\ UNCHANGED <<etc, tmp, base, active, found, orig, broken, rebased, fedora>>

\* fs::write of a template; the text to write is in memory meanwhile
Inject ==
    /\ Doing("inject") /\ at = "begin"
    /\ LET new == insert_first_auth(dir[File], "sufficient") IN
       IF new = dir[File] THEN NextItem /\ UNCHANGED <<dir, tmp>>
       ELSE dir' = [dir EXCEPT ![File] = Torn] /\ tmp' = new /\ Goto("fill")
    /\ UNCHANGED <<etc, base, active, found, orig, broken, rebased, fedora>>

Fill ==
    /\ cmd # "idle" /\ at = "fill"
    /\ dir' = [dir EXCEPT ![File] = tmp] /\ tmp' = Absent
    /\ NextItem
    /\ UNCHANGED <<etc, base, active, found, orig, broken, rebased, fedora>>

\* store_authselect_base, truncating and writing
StoreBase ==
    /\ \/ Doing("openBase") /\ base' = ""
       \/ Doing("writeBase") /\ base' = found
    /\ NextItem
    /\ UNCHANGED <<etc, tmp, dir, active, found, orig, broken, rebased, fedora>>

SelectCustom ==
    /\ Doing("select")
    /\ Select(Custom)
    /\ NextItem
    /\ UNCHANGED <<tmp, dir, base, found, orig, broken, rebased, fedora>>

load_authselect_base == IF base = "" THEN "sssd" ELSE base

\* fedora_disable: back to the remembered profile if ours is active
Revert ==
    /\ Doing("revert")
    /\ IF active = Custom THEN Select(load_authselect_base) ELSE UNCHANGED <<active, etc>>
    /\ NextItem
    /\ UNCHANGED <<tmp, dir, base, found, orig, broken, rebased, fedora>>

\* the histories end with the profile, unless it is still the live one
RemoveDir ==
    /\ Doing("removeDir")
    /\ dir' = [t \in Templates |-> Absent]
    /\ broken' = (broken /\ active = Custom)
    /\ rebased' = (rebased /\ active = Custom)
    /\ NextItem
    /\ UNCHANGED <<etc, tmp, base, active, found, orig, fedora>>

RemoveBase ==
    /\ Doing("removeBase")
    /\ base' = ""
    /\ NextItem
    /\ UNCHANGED <<etc, tmp, dir, active, found, orig, broken, rebased, fedora>>

-----------------------------------------------------------------------------
\* An error returned by any of the steps, or a crash: the rest is not done.
CutShort ==
    /\ cmd # "idle" /\ faults < MaxFaults
    /\ faults' = faults + 1
    /\ cmd' = "idle" /\ todo' = << >> /\ at' = "begin" /\ last' = "cut" /\ tmp' = Absent
    /\ broken' = (broken \/ at = "fill")
    /\ UNCHANGED <<etc, vendor, bak, profile, dir, base, active, found,
                   family, orig, rebased, ops, edits>>

Others == cmd = "idle" /\ edits < MaxEdits /\ edits' = edits + 1 /\ last' = "none"

\* a package or the administrator replaces a file, or adds one
Replace(f, o) ==
    /\ Others
    /\ IF f \in Vendored /\ ~Exists(f)
       THEN vendor' = [vendor EXCEPT ![f] = o] /\ UNCHANGED <<etc, orig>>
       ELSE /\ Exists(f) /\ f \notin Shared
            /\ etc' = [etc EXCEPT ![f] = o] /\ orig' = [orig EXCEPT ![f] = o]
            /\ UNCHANGED vendor
    /\ UNCHANGED <<bak, tmp, profile, dir, base, active, cmd, todo, at, found,
                   family, broken, rebased, ops, faults>>

\* another package runs pam-auth-update; the administrator selects a profile
OtherUpdate ==
    /\ Others
    /\ \/ family = "Debian" /\ Render /\ UNCHANGED active
       \/ family = "Fedora" /\ \E p \in Stock : Select(p)
    /\ UNCHANGED <<vendor, bak, tmp, profile, dir, base, cmd, todo, at, found,
                   hist, ops, faults>>

Next ==
    \/ enable \/ disable
    \/ Begin \/ Copy \/ OpenTmp \/ WriteTmp \/ Rename
    \/ OpenProfile \/ WriteProfile \/ RemoveProfile \/ AuthUpdate
    \/ Current \/ Create \/ Inject \/ Fill \/ StoreBase \/ SelectCustom
    \/ Revert \/ RemoveDir \/ RemoveBase
    \/ CutShort
    \/ \E f \in Files, o \in Originals : Replace(f, o)
    \/ OtherUpdate

Spec == Init /\ [][Next]_vars

-----------------------------------------------------------------------------
Contents == Seq({"auth", "rest", "comment", "absent", "profile", Mark} \cup Stanzas)

\* Every variable keeps its type: the base profile remembered for disable is one
\* authselect knows, or empty.
TypeOK ==
    /\ family \in Families
    /\ etc \in [Files -> Contents] /\ bak \in [Files -> Contents]
    /\ vendor \in [Vendored -> Contents]
    /\ tmp \in Contents /\ profile \in Contents
    /\ dir \in [Templates -> Contents]
    /\ base \in Stock \cup {Custom, ""} /\ active \in Stock \cup {Custom, "none"}
    /\ cmd \in {"idle", "enable", "disable"}
    /\ \A i \in DOMAIN todo : todo[i].f \in Files \cup {"-"}
    /\ at \in {"begin", "copy", "open", "write", "rename", "fill"}
    /\ last \in {"none", "enabled", "disabled", "cut"}

\* what a stack holds besides linhello's lines
Foreign(c) == Without(c, Stanzas \cup {Mark})

\* Whatever command is running or was cut short, every stack PAM may read holds
\* the lines others put there, all of them and in order, so the password stays
\* usable ("could expose a half-written auth stack if the process is
\* interrupted", write_atomic).  The shared Fedora stacks are rendered from a
\* stock profile's lines, unless a template write was cut short.
PasswordKept ==
    \A f \in Files : Exists(f) =>
        \/ Foreign(etc[f]) = orig[f]
        \/ f \in Vendored /\ orig[f] = Absent /\ is_created_override(etc[f])
             /\ Foreign(etc[f]) \in Originals
        \/ f \in Templates /\ (broken \/ \E p \in Stock : Foreign(etc[f]) = StockTemplate(p))

\* After a disable that ran to its end no stack names the module any more, and
\* the files linhello edited are what others made of them, whatever enables and
\* disables ran or were cut short before ("revert is one command").  The shared
\* Fedora stacks are excepted once enable has run with its own profile active.
DisableUndoes ==
    last = "disabled" =>
        \A f \in Files :
            /\ content_has_module(etc[f]) => f \in Templates /\ rebased
            /\ f \notin Templates => etc[f] = orig[f]

\* the stacks an enable reaches on this machine
Reached == (CASE family = "Debian" -> {"common-auth"}
              [] family = "Fedora" -> Templates
              [] OTHER -> existing_targets \cup plasmalogin_greeter_plan)
           \cup lockscreen_plan

\* After an enable that ran to its end every stack it reaches asks for the face
\* before anything else, also when an earlier enable was cut short half way.
EnableWires ==
    last = "enabled" =>
        \A f \in Reached : \E k \in DOMAIN etc[f] :
            etc[f][k] \in Stanzas /\ \A i \in 1 .. k : etc[f][i] # "auth"
=============================================================================

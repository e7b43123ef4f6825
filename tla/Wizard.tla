------------------------------- MODULE Wizard -------------------------------
(***************************************************************************)
(* tui.rs: the setup wizard, a loop that takes at most one key, runs what  *)
(* the key asked to run outside the full-screen view, and then ticks.  A   *)
(* tick re-reads the host about once a second and advances enrollment,     *)
(* identification and calibration by one request to linhellod.             *)
(*                                                                         *)
(* The wizard decides from copies of the host's state: install (taken by   *)
(* InstallState::detect), the profile list, the probe report and its own   *)
(* flags, while other programs and the daemon change the host under it.    *)
(***************************************************************************)
EXTENDS Naturals, Sequences, FiniteSets, SequencesExt, FiniteSetsExt

CONSTANTS Users, Login,   \* profile names (numbered), the user being set up
          EnrollTarget, EnrollStreak, CountdownFrom,  \* 5, 3 and 3 in the code
          CalTarget, CalMaxAttempts, CalEnough,       \* 8, 16 and 3
          Machines,       \* the hosts the wizard may be started on
          MaxKeys, MaxOthers  \* bounds: keys that change something, others' steps

Order == <<"Welcome", "Install", "Doctor", "Cameras", "Profiles", "Enroll", "Calibrate",
           "Identify", "Fingerprint", "Password", "Pam", "Done">>

ASSUME WizardAssumption ==
    /\ Users \subseteq Nat /\ IsFiniteSet(Users) /\ Login \in Users
    /\ {EnrollTarget, EnrollStreak, CountdownFrom, CalTarget, CalMaxAttempts, CalEnough}
         \subseteq Nat \ {0}
    /\ Machines \subseteq [installed : BOOLEAN, daemon : BOOLEAN, models : BOOLEAN,
                           ir : BOOLEAN, probe : {"ok", "fail"}]
    /\ {MaxKeys, MaxOthers} \subseteq Nat

VARIABLES
    host,      \* programs, daemon, models, an IR camera, what the probe finds
    samples, sealed,  \* samples[u]: stored by the daemon; users with a password
    screen, turn,     \* the screen shown; key, tick, the last tick, or over
    install,   \* the last InstallState
    report,    \* the last probe: "none", "ok", "fail"
    cameras_saved,
    profiles, cursor, \* the last profile list and the highlighted row
    active_profile,
    modal, target,    \* an inline edit or question; the profile it was asked for
    enroll, cal, identify, password, uninstall, install_step,
    pending,   \* what the loop runs next outside the full-screen view
    named,     \* history: profiles renamed, and the one the edit was opened on
    erased,    \* history: profiles deleted, and the one the question named
    confirmed, \* history: the profile for which Enter ended the first entry
    frames,    \* history: good frames in a row
    stored,    \* history: samples stored since enrollment was started
    keys, others

outer  == <<host, samples, sealed>>
lists  == <<install, report, profiles, cursor>>
steps  == <<enroll, cal, identify, password, uninstall, install_step>>
hist   == <<named, erased, confirmed, frames, stored>>
vars   == <<outer, screen, turn, lists, cameras_saved, active_profile, modal, target,
            steps, pending, hist, keys, others>>

-----------------------------------------------------------------------------
(* What the wizard reads.                                                   *)

\* profiles with a stored sample, and the order of their names
Enrolled  == {u \in Users : samples[u] > 0}
ByName(S) == [i \in 1 .. Cardinality(S) |->
                CHOOSE u \in S : Cardinality({v \in S : v <= u}) = i]

\* InstallState::detect
detect == [installed |-> host.installed, daemon |-> host.daemon, models |-> host.models,
           enrolled |-> Enrolled]

\* ListProfiles: the enrolled profiles by name, and whether each has a password
Listing == [i \in 1 .. Cardinality(Enrolled) |->
              LET u == ByName(Enrolled)[i] IN [user |-> u, has_password |-> u \in sealed]]

Listed(u) == \E i \in DOMAIN profiles : profiles[i].user = u

Clamp(c, list) == IF list = << >> THEN 1 ELSE IF c > Len(list) THEN Len(list) ELSE c

\* refresh_profiles: the old list stays when the daemon does not answer
refresh_profiles ==
    IF host.daemon THEN profiles' = Listing /\ cursor' = Clamp(cursor, Listing)
    ELSE UNCHANGED <<profiles, cursor>>

refresh_probe == report' = IF host.daemon THEN host.probe ELSE "fail"

active_profile_enrolled ==
    enroll.st = "done" \/ Listed(active_profile) \/ active_profile \in install.enrolled

has_password(list) ==
    \E i \in DOMAIN list : list[i].user = active_profile /\ list[i].has_password

gate ==
    CASE screen = "Install"  -> install.installed /\ install.daemon /\ install.models
      [] screen = "Doctor"   -> report = "ok"
      [] screen = "Cameras"  -> cameras_saved
      [] screen = "Enroll"   -> active_profile_enrolled
      [] screen = "Password" -> password = "sealed" \/ has_password(profiles)
      [] OTHER -> TRUE

\* the password step exists only for an IR camera's face tier
Applicable == {i \in DOMAIN Order : Order[i] = "Password" => host.ir}
StepIndex == CHOOSE i \in DOMAIN Order : Order[i] = screen

-----------------------------------------------------------------------------
Framing(n, k)   == [st |-> "framing", captured |-> n, streak |-> k]
Countdown(n, k) == [st |-> "countdown", captured |-> n, streak |-> k]
Ended(st)       == [st |-> st, captured |-> 0, streak |-> 0]
Sampling(s, a)  == [st |-> "sampling", scores |-> s, attempts |-> a]
CalIs(st)       == [st |-> st, scores |-> 0, attempts |-> 0]

\* a fresh machine, or one that is set up for the login user
Init ==
    /\ host \in Machines
    /\ samples = [u \in Users |-> IF host.installed /\ u = Login THEN 1 ELSE 0]
    /\ cameras_saved = host.installed
    /\ sealed = {}
    /\ screen = "Welcome" /\ turn = "key"
    /\ install = detect /\ report = "none" /\ profiles = << >> /\ cursor = 1
    /\ active_profile = Login /\ modal = "none" /\ target = Login
    /\ enroll = Ended("idle") /\ cal = CalIs("idle") /\ identify = "idle"
    /\ password = "entry" /\ uninstall = "idle" /\ install_step = "idle"
    /\ pending = {}
    /\ named = {} /\ erased = {} /\ confirmed = Login /\ frames = 0 /\ stored = 0
    /\ keys = 0 /\ others = 0

\* mutant: the password step is left as it was
EnterKeepsPassword(s) ==
    /\ screen' = s
    /\ install' = detect
    /\ modal' = IF modal = "name" THEN "none" ELSE modal
    /\ IF s = "Doctor" THEN refresh_probe ELSE UNCHANGED report
    /\ IF s \in {"Profiles", "Password"} THEN refresh_profiles
       ELSE UNCHANGED <<profiles, cursor>>
    /\ UNCHANGED password

\* on_enter: everything is detected anew and a name being edited is dropped; a
\* password half confirmed has to be typed again, while a first entry that is
\* half typed stays, whichever profile is active by now
on_enter(s) ==
    /\ screen' = s
    /\ install' = detect
    /\ modal' = IF modal = "name" THEN "none" ELSE modal
    /\ IF s = "Doctor" THEN refresh_probe ELSE UNCHANGED report
    /\ IF s \in {"Profiles", "Password"} THEN refresh_profiles
       ELSE UNCHANGED <<profiles, cursor>>
    /\ password' = IF s # "Password" THEN password
                   ELSE IF has_password(profiles') THEN "sealed"
                   ELSE IF password = "typed" THEN "typed" ELSE "entry"

After  == {i \in Applicable : i > StepIndex}
Before == {i \in Applicable : i < StepIndex}

\* to the screen with index i, if there is one to go to
Go(S, i) == IF S = {} THEN UNCHANGED <<screen, lists, modal, password>>
            ELSE on_enter(Order[i])

-----------------------------------------------------------------------------
(* Keys.  Modal states take every key, or every key but navigation.         *)

AtKey    == turn = "key" /\ turn' = "tick"
Typing   == \/ screen = "Profiles" /\ modal \in {"name", "new"}
            \/ screen = "Install" /\ install_step = "path"
            \/ screen = "Password" /\ password \in {"entry", "typed", "confirm"}
Blocked  == \/ screen = "Uninstall"
            \/ screen = "Profiles" /\ modal = "delete"
Act      == AtKey /\ keys < MaxKeys /\ keys' = keys + 1 /\ UNCHANGED others
On(s)    == Act /\ screen = s /\ ~Blocked /\ ~Typing

NoKey ==
    /\ AtKey
    /\ UNCHANGED <<outer, screen, lists, cameras_saved, active_profile, modal, target,
                   steps, pending, hist, keys, others>>

next ==
    /\ AtKey /\ ~Blocked /\ gate
    /\ Go(After, Min(After))
    /\ UNCHANGED <<outer, cameras_saved, active_profile, target, enroll, cal, identify,
                   uninstall, install_step, pending, hist, keys, others>>

prev ==
    /\ AtKey /\ ~Blocked
    /\ Go(Before, Max(Before))
    /\ UNCHANGED <<outer, cameras_saved, active_profile, target, enroll, cal, identify,
                   uninstall, install_step, pending, hist, keys, others>>

\* q or Esc outside a text entry: the loop goes round once more
Quit ==
    /\ turn = "key" /\ ~Blocked /\ ~Typing
    /\ turn' = "last"
    /\ UNCHANGED <<outer, screen, lists, cameras_saved, active_profile, modal, target, steps,
                   pending, hist, keys, others>>

\* what a key of one screen leaves alone
others1 == <<screen, cameras_saved, active_profile, modal, target, pending, hist>>
inner   == <<host, samples, sealed, lists>>

-----------------------------------------------------------------------------
(* Install and Uninstall.                                                   *)

\* deploy; then, if the models are missing, those of a bundle and a restart, and
\* without a bundle (or with a broken one) their folder is asked for
Deploy ==
    /\ On("Install") /\ install_step = "idle"
    /\ \/ /\ host' \in {[host EXCEPT !.installed = TRUE], host}
          /\ install_step' = "failed" /\ UNCHANGED install
       \/ \E up \in BOOLEAN, again \in BOOLEAN, bundled \in BOOLEAN :
            LET deployed == [host EXCEPT !.installed = TRUE, !.daemon = up]
                copied   == ~host.models /\ bundled
            IN  /\ host' = IF copied THEN [deployed EXCEPT !.models = TRUE, !.daemon = again]
                           ELSE deployed
                /\ install' = [detect EXCEPT !.installed = TRUE, !.daemon = up,
                                             !.models = host'.models]
                /\ install_step' = IF host'.models THEN "done" ELSE "path"
    /\ UNCHANGED <<samples, sealed, report, profiles, cursor, enroll, cal, identify,
                   password, uninstall, others1>>

\* m asks for the folder, i starts over, Esc gives up
InstallKey ==
    /\ Act /\ screen = "Install"
    /\ \/ install_step = "idle" /\ install_step' = "path"
       \/ install_step \in {"path", "done", "failed"} /\ install_step' = "idle"
    /\ UNCHANGED <<inner, enroll, cal, identify, password, uninstall, others1>>

\* copy_models_from and a restart of the daemon, either of which may fail
CopyModels ==
    /\ Act /\ screen = "Install" /\ install_step = "path"
    /\ \E ok \in BOOLEAN, up \in BOOLEAN :
         /\ host' = [host EXCEPT !.models = @ \/ ok,
                                 !.daemon = IF ok THEN up /\ host.installed ELSE @]
         /\ install' = IF ok THEN [detect EXCEPT !.models = TRUE] ELSE install
         /\ install_step' = IF ok THEN "done" ELSE "path"
    /\ UNCHANGED <<samples, sealed, report, profiles, cursor, enroll, cal, identify,
                   password, uninstall, others1>>

\* u on Welcome, only when something is installed
OpenUninstall ==
    /\ On("Welcome") /\ install.installed
    /\ screen' = "Uninstall" /\ uninstall' = "idle"
    /\ UNCHANGED <<inner, enroll, cal, identify, password, install_step, cameras_saved,
                   active_profile, modal, target, pending, hist>>

\* x arms it, Esc disarms it
ArmUninstall ==
    /\ Act /\ screen = "Uninstall"
    /\ \/ uninstall = "idle" /\ uninstall' = "confirm"
       \/ uninstall = "confirm" /\ uninstall' = "idle"
    /\ UNCHANGED <<inner, enroll, cal, identify, password, install_step, others1>>

\* the word typed out and Enter; the models may be kept
DoUninstall ==
    /\ Act /\ screen = "Uninstall" /\ uninstall = "confirm"
    /\ \/ \E keep \in BOOLEAN :
            /\ host' = [host EXCEPT !.installed = FALSE, !.daemon = FALSE,
                                    !.models = @ /\ keep]
            /\ samples' = [u \in Users |-> 0] /\ sealed' = {}
            /\ install' = [installed |-> FALSE, daemon |-> FALSE, models |-> host'.models,
                           enrolled |-> {}]
            /\ uninstall' = "done"
       \/ uninstall' = "failed" /\ UNCHANGED <<outer, install>>
    /\ UNCHANGED <<report, profiles, cursor, enroll, cal, identify, password, install_step, others1>>

LeaveUninstall ==
    /\ AtKey /\ screen = "Uninstall" /\ uninstall \in {"idle", "done", "failed"}
    /\ uninstall' = "idle"
    /\ on_enter("Welcome")
    /\ UNCHANGED <<outer, cameras_saved, active_profile, target, enroll, cal, identify,
                   install_step, pending, hist, keys, others>>

-----------------------------------------------------------------------------
(* Doctor, Cameras and Profiles.                                            *)

\* r probes again, s restarts the daemon first
DoctorKey ==
    /\ On("Doctor")
    /\ \E up \in {host.daemon, host.installed, FALSE} :
         /\ host' = [host EXCEPT !.daemon = up]
         /\ report' = IF up THEN host.probe ELSE "fail"
    /\ UNCHANGED <<samples, sealed, install, profiles, cursor, steps, others1>>

\* save_cameras writes cameras.conf, if it can, and restarts the daemon
SaveCameras ==
    /\ On("Cameras")
    /\ \E up \in {host.installed, FALSE} : host' = [host EXCEPT !.daemon = up]
    /\ cameras_saved' = TRUE
    /\ UNCHANGED <<samples, sealed, lists, steps, screen, active_profile, modal, target,
                   pending, hist>>

MoveCursor ==
    /\ On("Profiles") /\ profiles # << >>
    /\ cursor' \in {Clamp(cursor + 1, profiles), IF cursor > 1 THEN cursor - 1 ELSE 1} \ {cursor}
    /\ UNCHANGED <<outer, install, report, profiles, steps, others1>>

\* s: the highlighted profile becomes the enroll target
SetActive ==
    /\ On("Profiles") /\ profiles # << >>
    /\ active_profile' = profiles[cursor].user
    /\ UNCHANGED <<inner, steps, screen, cameras_saved, modal, target, pending, hist>>

\* n, d and a open an edit or a question; the deletion remembers its profile
OpenModal ==
    /\ On("Profiles")
    /\ \/ profiles # << >> /\ modal' \in {"name", "delete"} /\ target' = profiles[cursor].user
       \/ modal' = "new" /\ UNCHANGED target
    /\ UNCHANGED <<inner, steps, screen, cameras_saved, active_profile, pending, hist>>

CancelModal ==
    /\ AtKey /\ screen = "Profiles" /\ modal # "none"
    /\ modal' = "none"
    /\ UNCHANGED <<inner, steps, screen, cameras_saved, active_profile, target, pending, hist,
                   keys, others>>

\* Enter in the name edit: the profile highlighted by now
SetName ==
    /\ Act /\ screen = "Profiles" /\ modal = "name"
    /\ modal' = "none"
    /\ IF profiles # << >> /\ host.daemon
       THEN named' = named \cup {<<profiles[cursor].user, target>>} /\ refresh_profiles
       ELSE UNCHANGED <<named, profiles, cursor>>
    /\ UNCHANGED <<outer, install, report, steps, screen, cameras_saved, active_profile, target,
                   pending, erased, confirmed, frames, stored>>

NewProfile ==
    /\ Act /\ screen = "Profiles" /\ modal = "new"
    /\ modal' = "none"
    /\ active_profile' \in Users
    /\ UNCHANGED <<inner, steps, screen, cameras_saved, target, pending, hist>>

Delete(u) ==
    /\ Act /\ screen = "Profiles" /\ modal = "delete"
    /\ modal' = "none"
    /\ IF host.daemon /\ samples[u] > 0
       THEN /\ samples' = [samples EXCEPT ![u] = 0] /\ sealed' = sealed \ {u}
            /\ erased' = erased \cup {<<u, target>>}
            /\ active_profile' = IF active_profile = u THEN Login ELSE active_profile
            /\ profiles' = Listing' /\ cursor' = 1
       ELSE UNCHANGED <<samples, sealed, erased, active_profile, profiles, cursor>>
    /\ UNCHANGED <<host, install, report, steps, screen, cameras_saved, target, pending,
                   named, confirmed, frames, stored>>

\* mutant: y deletes the highlighted profile
ConfirmCursor == profiles # << >> /\ Delete(profiles[cursor].user)

\* y: the profile the question named, whatever the list shows by now
ConfirmDelete == Delete(target)

-----------------------------------------------------------------------------
(* Enroll, Calibrate, Identify, Fingerprint, Password, Pam and Done.        *)

StartEnroll ==
    /\ On("Enroll") /\ enroll.st \in {"idle", "done", "failed"}
    /\ enroll' = Framing(0, 0) /\ frames' = 0 /\ stored' = 0
    /\ UNCHANGED <<inner, cal, identify, password, uninstall, install_step, screen,
                   cameras_saved, active_profile, modal, target, pending, named, erased, confirmed>>

\* c starts sampling; Enter in the review saves the threshold and restarts
CalibrateKey ==
    /\ On("Calibrate")
    /\ \/ cal.st \in {"idle", "notEnough", "saved"} /\ cal' = Sampling(0, 0)
          /\ UNCHANGED host
       \/ cal.st = "review" /\ cal' = CalIs("saved")
          /\ \E up \in {host.installed, FALSE} : host' = [host EXCEPT !.daemon = up]
    /\ UNCHANGED <<samples, sealed, lists, enroll, identify, password, uninstall, install_step, others1>>

IdentifyKey ==
    /\ On("Identify") /\ identify # "running"
    /\ identify' = "running"
    /\ UNCHANGED <<inner, enroll, cal, password, uninstall, install_step, others1>>

\* letters and backspaces in the first entry, with or without text in it
TypePassword ==
    /\ Act /\ screen = "Password" /\ password \in {"entry", "typed"}
    /\ password' \in {"entry", "typed"} \ {password}
    /\ UNCHANGED <<inner, enroll, cal, identify, uninstall, install_step, others1>>

\* Enter on the first entry, if there is text in it, asks for the second
EnterPassword ==
    /\ Act /\ screen = "Password" /\ password = "typed"
    /\ password' = "confirm" /\ confirmed' = active_profile
    /\ UNCHANGED <<inner, enroll, cal, identify, uninstall, install_step, screen, cameras_saved,
                   active_profile, modal, target, pending, named, erased, frames, stored>>

\* the second entry differs, or equals the first and SealPassword is sent
SealPassword ==
    /\ Act /\ screen = "Password" /\ password = "confirm"
    /\ \/ password' = "entry" /\ UNCHANGED <<sealed, install>>
       \/ /\ host.daemon /\ sealed' = sealed \cup {active_profile}
          /\ password' = "sealed" /\ install' = detect
       \/ password' = "failed" /\ UNCHANGED <<sealed, install>>
    /\ UNCHANGED <<host, samples, report, profiles, cursor, enroll, cal, identify, uninstall,
                   install_step, others1>>

\* Esc in either entry, r once it is sealed or failed
RetypePassword ==
    /\ Act /\ screen = "Password" /\ password # "entry"
    /\ password' = "entry"
    /\ UNCHANGED <<inner, enroll, cal, identify, uninstall, install_step, others1>>

\* pam_apply (its edits are PamWire's); enabling also asks for the platform step
PamKey ==
    /\ On("Pam")
    /\ pending' \in {pending, pending \cup {"platform"}}
    /\ install' \in {detect, install}
    /\ <<pending', install'>> # <<pending, install>>
    /\ UNCHANGED <<outer, report, profiles, cursor, steps, screen, cameras_saved,
                   active_profile, modal, target, hist>>

SuspendKey ==
    /\ \/ On("Fingerprint") /\ pending' = pending \cup {"fingerprint"}
       \/ On("Done") /\ pending' = pending \cup {"recovery"}
    /\ UNCHANGED <<inner, steps, screen, cameras_saved, active_profile, modal, target, hist>>

-----------------------------------------------------------------------------
(* The tick.                                                                *)

\* The sample that completes the enrollment is followed by a fresh detect.
Completes == enroll'.st = "done" /\ enroll.st # "done"
Detects   == install' = IF Completes THEN detect' ELSE detect

\* poll_live
poll_live ==
    /\ Detects
    /\ IF screen = "Doctor" THEN refresh_probe ELSE UNCHANGED report
    /\ IF screen = "Profiles" THEN refresh_profiles ELSE UNCHANGED <<profiles, cursor>>

\* mutant: a bad frame holds the countdown instead of cancelling it
EnrollStepHeld(good, taken) ==
    CASE enroll.st = "framing" ->
           IF ~good THEN Framing(enroll.captured, 0)
           ELSE IF enroll.streak + 1 >= EnrollStreak THEN Countdown(enroll.captured, CountdownFrom)
           ELSE Framing(enroll.captured, enroll.streak + 1)
      [] enroll.st = "countdown" ->
           IF ~good THEN enroll
           ELSE IF enroll.streak > 1 THEN Countdown(enroll.captured, enroll.streak - 1)
           ELSE IF ~taken THEN Ended("failed")
           ELSE IF enroll.captured + 1 >= EnrollTarget THEN Ended("done")
           ELSE Framing(enroll.captured + 1, 0)
      [] OTHER -> enroll

\* one framing poll; on the last good one of the countdown a sample is taken
EnrollStep(good, taken) ==
    CASE enroll.st = "framing" ->
           IF ~good THEN Framing(enroll.captured, 0)
           ELSE IF enroll.streak + 1 >= EnrollStreak THEN Countdown(enroll.captured, CountdownFrom)
           ELSE Framing(enroll.captured, enroll.streak + 1)
      [] enroll.st = "countdown" ->
           IF ~good THEN Framing(enroll.captured, 0)
           ELSE IF enroll.streak > 1 THEN Countdown(enroll.captured, enroll.streak - 1)
           ELSE IF ~taken THEN Ended("failed")
           ELSE IF enroll.captured + 1 >= EnrollTarget THEN Ended("done")
           ELSE Framing(enroll.captured + 1, 0)
      [] OTHER -> enroll

tick_enroll == \E good \in BOOLEAN, taken \in BOOLEAN :
    LET asked  == enroll.st \in {"framing", "countdown"}
        sample == enroll.st = "countdown" /\ good /\ enroll.streak <= 1 /\ taken
    IN  /\ good \/ taken => host.daemon
        /\ enroll' = EnrollStep(good, taken)
        /\ frames' = IF asked THEN IF good /\ ~sample THEN frames + 1 ELSE 0 ELSE frames
        /\ stored' = IF sample THEN stored + 1 ELSE stored
        /\ samples' = IF sample /\ samples[active_profile] < EnrollTarget
                      THEN [samples EXCEPT ![active_profile] = @ + 1] ELSE samples

tick_identify == identify' \in IF identify # "running" THEN {identify}
                               ELSE {"failed"} \cup IF host.daemon THEN {"done"} ELSE {}

\* mutant: only a score counts as an attempt
CalStepHits(hit) ==
    LET n == cal.scores + (IF hit THEN 1 ELSE 0)
        a == cal.attempts + (IF hit THEN 1 ELSE 0)
    IN  IF n < CalTarget /\ a < CalMaxAttempts THEN Sampling(n, a)
        ELSE CalIs(IF n < CalEnough THEN "notEnough" ELSE "review")

\* one Verify: a score, or a miss; both count as an attempt
CalStep(hit) ==
    LET n == cal.scores + (IF hit THEN 1 ELSE 0)
        a == cal.attempts + 1
    IN  IF n < CalTarget /\ a < CalMaxAttempts THEN Sampling(n, a)
        ELSE CalIs(IF n < CalEnough THEN "notEnough" ELSE "review")

tick_calibrate == cal' \in IF cal.st # "sampling" THEN {cal}
                           ELSE {CalStep(FALSE)} \cup IF host.daemon THEN {CalStep(TRUE)} ELSE {}

\* What was asked to run outside the view runs before the tick; then the live
\* poll, when a second has gone by, and the work of the screen.
tick ==
    /\ turn \in {"tick", "last"}
    /\ turn' = IF turn = "last" THEN "over" ELSE "key"
    /\ pending' = {}
    /\ UNCHANGED <<host, sealed, screen, cameras_saved, active_profile, modal, target, password,
                   uninstall, install_step, named, erased, confirmed, keys, others>>
    /\ IF screen = "Enroll" THEN tick_enroll ELSE UNCHANGED <<enroll, frames, stored, samples>>
    /\ \/ poll_live
       \/ "platform" \in pending /\ Detects /\ UNCHANGED <<report, profiles, cursor>>
       \/ /\ pending = {} /\ IF Completes THEN Detects ELSE UNCHANGED install
          /\ UNCHANGED <<report, profiles, cursor>>
    /\ IF screen = "Identify" THEN tick_identify ELSE UNCHANGED identify
    /\ IF screen = "Calibrate" THEN tick_calibrate ELSE UNCHANGED cal

-----------------------------------------------------------------------------
\* Another session enrolls or deletes a profile; the daemon stops or starts.
Others ==
    /\ turn # "over" /\ others < MaxOthers /\ others' = others + 1
    /\ \/ \E u \in Users :
            /\ host.daemon
            /\ samples' = [samples EXCEPT ![u] = IF @ > 0 THEN 0 ELSE 1]
            /\ sealed' = sealed \ {u}
            /\ UNCHANGED host
       \/ /\ host.installed /\ host' = [host EXCEPT !.daemon = ~@]
          /\ UNCHANGED <<samples, sealed>>
    /\ UNCHANGED <<screen, turn, lists, cameras_saved, active_profile, modal, target, steps,
                   pending, hist, keys>>

Over == turn = "over" /\ UNCHANGED vars

Next ==
    \/ NoKey \/ next \/ prev \/ Quit
    \/ Deploy \/ InstallKey \/ CopyModels
    \/ OpenUninstall \/ ArmUninstall \/ DoUninstall \/ LeaveUninstall
    \/ DoctorKey \/ SaveCameras
    \/ MoveCursor \/ SetActive \/ OpenModal \/ CancelModal \/ SetName \/ NewProfile \/ ConfirmDelete
    \/ StartEnroll \/ CalibrateKey \/ IdentifyKey
    \/ TypePassword \/ EnterPassword \/ SealPassword \/ RetypePassword
    \/ PamKey \/ SuspendKey
    \/ tick \/ Others \/ Over

\* event::poll waits 200 ms at most, so the loop goes round whatever is pressed.
Fairness == WF_vars(NoKey) /\ WF_vars(tick)

Spec == Init /\ [][Next]_vars /\ Fairness

-----------------------------------------------------------------------------
(* Properties.                                                              *)

Rows == [user : Users, has_password : BOOLEAN]

HostOK ==
    /\ host \in [installed : BOOLEAN, daemon : BOOLEAN, models : BOOLEAN, ir : BOOLEAN,
                 probe : {"ok", "fail"}]
    /\ samples \in [Users -> 0 .. EnrollTarget] /\ sealed \subseteq Users

ViewOK ==
    /\ screen \in ToSet(Order) \cup {"Uninstall"}
    /\ turn \in {"key", "tick", "last", "over"}
    /\ install \in [installed : BOOLEAN, daemon : BOOLEAN, models : BOOLEAN,
                    enrolled : SUBSET Users]
    /\ report \in {"none", "ok", "fail"} /\ cameras_saved \in BOOLEAN
    /\ modal \in {"none", "name", "new", "delete"}

ListOK == profiles \in Seq(Rows) /\ (cursor = 1 \/ cursor \in DOMAIN profiles)

WhoOK ==
    /\ {active_profile, target, confirmed} \subseteq Users
    /\ named \cup erased \subseteq Users \X Users

EnrollOK ==
    /\ enroll \in [st : {"idle", "framing", "countdown", "done", "failed"},
                   captured : 0 .. EnrollTarget - 1, streak : 0 .. EnrollStreak + CountdownFrom]
    /\ frames \in Nat /\ stored \in 0 .. EnrollTarget

StepsOK ==
    /\ cal \in [st : {"idle", "sampling", "review", "notEnough", "saved"},
                scores : 0 .. CalTarget - 1, attempts : 0 .. CalMaxAttempts - 1]
    /\ identify \in {"idle", "running", "done", "failed"}
    /\ password \in {"entry", "typed", "confirm", "sealed", "failed"}
    /\ uninstall \in {"idle", "confirm", "done", "failed"}
    /\ install_step \in {"idle", "path", "done", "failed"}
    /\ pending \subseteq {"platform", "fingerprint", "recovery"}
    /\ keys \in 0 .. MaxKeys /\ others \in 0 .. MaxOthers

\* Every variable keeps its type: the cursor stays on a row of the list, and no
\* counter of an enrollment or a calibration passes its target.
TypeOK == HostOK /\ ViewOK /\ ListOK /\ WhoOK /\ EnrollOK /\ StepsOK

\* The question and the edit name a profile, and the list is refreshed under
\* them once a second (tui.rs, profiles_key, delete_confirm_key, name_edit_key,
\* poll_live): a deletion erases the profile that was named, whatever other
\* sessions did to the list meanwhile; a name goes to the profile it was typed
\* for as long as no other session changes the list.
EditsHitTheirProfile ==
    /\ \A e \in erased : e[1] = e[2]
    /\ others = 0 => \A e \in named : e[1] = e[2]

\* password_key and on_enter: the second entry, which has to equal the first, is
\* begun, typed and sealed for one profile, whatever was visited in between.  So
\* the whole of a sealed password was typed for the profile it is sealed for,
\* though its first entry may have been begun while another one was active.
ConfirmedForActive ==
    screen = "Password" /\ password = "confirm" => confirmed = active_profile

\* tick_enroll: every sample follows EnrollStreak + CountdownFrom good polls in a
\* row, the last of them at the capture, also when the screen was left and
\* entered again; and enrollment is reported done after EnrollTarget samples.
EnrollEarned ==
    [][/\ stored' > stored => frames + 1 >= EnrollStreak + CountdownFrom
       /\ enroll.st # "done" /\ enroll'.st = "done" => stored' >= EnrollTarget]_vars

\* tick, CAL_MAX_ATTEMPTS: calibration and identification come to an end by
\* themselves, with the daemon answering or not, unless the screen is left;
\* calibration ignores every key but navigation meanwhile.
SamplingEnds ==
    /\ (cal.st = "sampling") ~> (cal.st # "sampling" \/ screen # "Calibrate" \/ turn = "over")
    /\ (identify = "running") ~> (identify # "running" \/ screen # "Identify" \/ turn = "over")

=============================================================================

---------------------------- MODULE WizardProofs ----------------------------
(***************************************************************************)
(* Proofs about Wizard, for any profiles, any machine, any targets of the  *)
(* enrollment and the calibration and any number of keys and of others'    *)
(* steps: whose profile an edit, a deletion and a password reach, and what *)
(* a stored sample was preceded by.                                        *)
(***************************************************************************)
EXTENDS Wizard, FiniteSetTheorems, WellFoundedInduction, TLAPS

USE DEF outer, lists, steps, hist, others1, inner, AtKey, Act, On

-----------------------------------------------------------------------------
(* The password.                                                           *)

\* What on_enter does to the screen, the edit and the password; going nowhere
\* changes none of them.
LEMMA Moves ==
    ASSUME NEW S, NEW i, Go(S, i)
    PROVE  \/ UNCHANGED <<screen, lists, modal, password>>
           \/ /\ modal' = IF modal = "name" THEN "none" ELSE modal
              /\ screen' = "Password" => password' \in {"sealed", "typed", "entry"}
              /\ screen' \in {"Profiles", "Password"} => refresh_profiles
              /\ screen' \notin {"Profiles", "Password"} => UNCHANGED <<profiles, cursor>>
BY DEF Go, on_enter

LEMMA ConfirmNext == ConfirmedForActive /\ [Next]_vars => ConfirmedForActive'
<1> SUFFICES ASSUME ConfirmedForActive, [Next]_vars PROVE ConfirmedForActive'
  OBVIOUS
<1> USE DEF ConfirmedForActive
<1>1. ASSUME UNCHANGED <<screen, password, confirmed, active_profile>>
      PROVE  ConfirmedForActive'
  BY <1>1
<1>2. ASSUME NoKey \/ Quit \/ tick \/ Others \/ Over \/ UNCHANGED vars
      PROVE  ConfirmedForActive'
  BY <1>1, <1>2 DEF NoKey, Quit, tick, Others, Over, vars
<1>3. ASSUME next \/ prev PROVE ConfirmedForActive'
  <2>1. UNCHANGED <<confirmed, active_profile>>
    BY <1>3 DEF next, prev
  <2>2. \E S, i : Go(S, i)
    BY <1>3 DEF next, prev
  <2>3. QED
    BY <2>1, <2>2, Moves
<1>4. ASSUME Deploy \/ InstallKey \/ CopyModels \/ OpenUninstall \/ ArmUninstall \/ DoUninstall
      PROVE  ConfirmedForActive'
  BY <1>1, <1>4 DEF Deploy, InstallKey, CopyModels, OpenUninstall, ArmUninstall, DoUninstall
<1>5. ASSUME LeaveUninstall PROVE ConfirmedForActive'
  BY <1>5 DEF LeaveUninstall, on_enter
<1>6. ASSUME DoctorKey \/ SaveCameras \/ MoveCursor \/ OpenModal \/ CancelModal \/ SetName
      PROVE  ConfirmedForActive'
  BY <1>1, <1>6 DEF DoctorKey, SaveCameras, MoveCursor, OpenModal, CancelModal, SetName
<1>7. ASSUME SetActive \/ NewProfile \/ ConfirmDelete PROVE ConfirmedForActive'
  BY <1>7 DEF SetActive, NewProfile, ConfirmDelete, Delete
<1>8. ASSUME \/ StartEnroll \/ CalibrateKey \/ IdentifyKey \/ TypePassword \/ EnterPassword \/ SealPassword
             \/ RetypePassword \/ PamKey \/ SuspendKey
      PROVE  ConfirmedForActive'
  BY <1>8 DEF StartEnroll, CalibrateKey, IdentifyKey, TypePassword, EnterPassword, SealPassword,
              RetypePassword, PamKey, SuspendKey
<1>9. QED
  BY <1>2, <1>3, <1>4, <1>5, <1>6, <1>7, <1>8 DEF Next

\* The second entry, which has to equal the password that SealPassword sends, was
\* begun and typed while the profile it is sealed for was the active one; the
\* first may have been begun for another (password_key, on_enter).
THEOREM PasswordForActive == Spec => []ConfirmedForActive
<1>1. Init => ConfirmedForActive
  BY DEF Init, ConfirmedForActive
<1>2. QED
  BY <1>1, ConfirmNext, PTL DEF Spec

-----------------------------------------------------------------------------
(* The enrollment.                                                         *)

\* The streak and the countdown are backed by good frames in a row, and the
\* samples counted by samples stored.
EnrollInv ==
    /\ enroll.captured \in Nat /\ enroll.streak \in Nat /\ frames \in Nat /\ stored \in Nat
    /\ enroll.st \in {"framing", "countdown"} => stored >= enroll.captured
    /\ enroll.st = "framing" => frames >= enroll.streak
    /\ enroll.st = "countdown" => frames + enroll.streak >= EnrollStreak + CountdownFrom

EnrollStored ==
    /\ stored' > stored => frames + 1 >= EnrollStreak + CountdownFrom
    /\ enroll.st # "done" /\ enroll'.st = "done" => stored' >= EnrollTarget

\* One poll of the enrollment.
LEMMA EnrollTick ==
    ASSUME EnrollInv, tick_enroll
    PROVE  EnrollInv' /\ EnrollStored
<1>1. PICK good \in BOOLEAN, taken \in BOOLEAN :
        LET asked  == enroll.st \in {"framing", "countdown"}
            sample == enroll.st = "countdown" /\ good /\ enroll.streak <= 1 /\ taken
        IN  /\ enroll' = EnrollStep(good, taken)
            /\ frames' = IF asked THEN IF good /\ ~sample THEN frames + 1 ELSE 0 ELSE frames
            /\ stored' = IF sample THEN stored + 1 ELSE stored
  BY DEF tick_enroll
<1>2. EnrollStreak \in Nat \ {0} /\ CountdownFrom \in Nat \ {0} /\ EnrollTarget \in Nat \ {0}
  BY WizardAssumption
<1>3. CASE enroll.st = "framing"
  BY <1>1, <1>2, <1>3 DEF EnrollStep, EnrollInv, EnrollStored, Framing, Countdown
<1>4. CASE enroll.st = "countdown"
  BY <1>1, <1>2, <1>4 DEF EnrollStep, EnrollInv, EnrollStored, Framing, Countdown, Ended
<1>5. CASE enroll.st \notin {"framing", "countdown"}
  BY <1>1, <1>5 DEF EnrollStep, EnrollInv, EnrollStored
<1>6. QED
  BY <1>3, <1>4, <1>5

LEMMA EnrollNext == EnrollInv /\ [Next]_vars => EnrollInv' /\ EnrollStored
<1> SUFFICES ASSUME EnrollInv, [Next]_vars PROVE EnrollInv' /\ EnrollStored
  OBVIOUS
<1>1. ASSUME UNCHANGED <<enroll, frames, stored>> PROVE EnrollInv' /\ EnrollStored
  BY <1>1 DEF EnrollInv, EnrollStored
<1>2. ASSUME tick PROVE EnrollInv' /\ EnrollStored
  BY <1>1, <1>2, EnrollTick DEF tick
<1>3. ASSUME StartEnroll PROVE EnrollInv' /\ EnrollStored
  BY <1>3 DEF StartEnroll, Framing, EnrollInv, EnrollStored
<1>4. ASSUME \/ NoKey \/ next \/ prev \/ Quit \/ Deploy \/ InstallKey \/ CopyModels
             \/ OpenUninstall \/ ArmUninstall \/ DoUninstall \/ LeaveUninstall
      PROVE  UNCHANGED <<enroll, frames, stored>>
  BY <1>4 DEF NoKey, next, prev, Quit, Deploy, InstallKey, CopyModels, OpenUninstall,
              ArmUninstall, DoUninstall, LeaveUninstall
<1>5. ASSUME \/ DoctorKey \/ SaveCameras \/ MoveCursor \/ SetActive \/ OpenModal \/ CancelModal
             \/ SetName \/ NewProfile \/ ConfirmDelete
      PROVE  UNCHANGED <<enroll, frames, stored>>
  BY <1>5 DEF DoctorKey, SaveCameras, MoveCursor, SetActive, OpenModal, CancelModal, SetName,
              NewProfile, ConfirmDelete, Delete
<1>6. ASSUME \/ CalibrateKey \/ IdentifyKey \/ TypePassword \/ EnterPassword \/ SealPassword \/ RetypePassword
             \/ PamKey \/ SuspendKey \/ Others \/ Over \/ UNCHANGED vars
      PROVE  UNCHANGED <<enroll, frames, stored>>
  BY <1>6 DEF CalibrateKey, IdentifyKey, TypePassword, EnterPassword, SealPassword, RetypePassword, PamKey,
              SuspendKey, Others, Over, vars
<1>7. QED
  BY <1>1, <1>2, <1>3, <1>4, <1>5, <1>6 DEF Next

\* No sample is taken without EnrollStreak + CountdownFrom good polls in a row,
\* wherever the user went between them, and none is missing when enrollment is
\* reported done (tick_enroll).
THEOREM SamplesEarned == Spec => EnrollEarned
<1>1. Init => EnrollInv
  BY DEF Init, Ended, EnrollInv
<1>2. EnrollInv /\ [Next]_vars => EnrollInv'
  BY EnrollNext
<1>3. EnrollInv /\ [Next]_vars => [EnrollStored]_vars
  BY EnrollNext
<1>4. QED
  BY <1>1, <1>2, <1>3, PTL DEF Spec, EnrollEarned, EnrollStored

-----------------------------------------------------------------------------
(* The profile list.                                                       *)

\* The list is on a screen that keeps it fresh while nobody else changes it; an
\* edit is open on that screen only, on the row it was opened on.
Fresh   == screen = "Profiles" /\ others = 0 /\ host.daemon => profiles = Listing
OnRow   == /\ cursor \in Nat \ {0} /\ Len(profiles) \in Nat
           /\ profiles # << >> => cursor <= Len(profiles)
Editing ==
    modal = "name" =>
        /\ screen = "Profiles"
        /\ others = 0 /\ profiles # << >> => profiles[cursor].user = target

EditInv == others \in Nat /\ Fresh /\ OnRow /\ Editing /\ EditsHitTheirProfile

\* The list is a sequence.
LEMMA ListingLen ==
    /\ Len(Listing) \in Nat /\ (Listing # << >> => Len(Listing) >= 1)
    /\ Len(Listing)' \in Nat /\ (Listing' # << >> => Len(Listing)' >= 1)
<1>1. ASSUME NEW f, NEW n \in Nat, DOMAIN f = 1 .. n, f = [i \in 1 .. n |-> f[i]]
      PROVE  Len(f) \in Nat /\ (f # << >> => Len(f) >= 1)
  <2> DEFINE E == {f[i] : i \in 1 .. n}
  <2>1. f \in [1 .. n -> E]
    BY <1>1
  <2>2. f \in Seq(E)
    BY <2>1
  <2>3. QED
    BY <2>2
<1>2. Cardinality(Enrolled) \in Nat /\ Cardinality(Enrolled') \in Nat
  <2>1. IsFiniteSet(Enrolled) /\ IsFiniteSet(Enrolled')
    BY WizardAssumption, FS_Subset DEF Enrolled
  <2>2. QED
    BY <2>1, FS_CardinalityType
<1>3. Len(Listing) \in Nat /\ (Listing # << >> => Len(Listing) >= 1)
  <2> DEFINE N == Cardinality(Enrolled)
  <2>1. N \in Nat
    BY <1>2
  <2>2. DOMAIN Listing = 1 .. N /\ Listing = [i \in 1 .. N |-> Listing[i]]
    BY DEF Listing
  <2>3. QED
    BY <1>1, <2>1, <2>2
<1>4. Len(Listing)' \in Nat /\ (Listing' # << >> => Len(Listing)' >= 1)
  <2> DEFINE N == Cardinality(Enrolled')
  <2>1. N \in Nat
    BY <1>2
  <2>2. DOMAIN Listing' = 1 .. N /\ Listing' = [i \in 1 .. N |-> Listing'[i]]
    BY DEF Listing
  <2>3. QED
    BY <1>1, <2>1, <2>2
<1>5. QED
  BY <1>3, <1>4

LEMMA ListingStays ==
    ASSUME UNCHANGED <<samples, sealed>> PROVE Listing' = Listing
<1>1. Enrolled' = Enrolled
  BY DEF Enrolled
<1>2. QED
  BY <1>1 DEF Listing

\* refresh_profiles puts the cursor on a row, and moves neither the cursor nor
\* the list when nothing has changed.
LEMMA Refreshes ==
    ASSUME OnRow, refresh_profiles, UNCHANGED <<host, samples, sealed>>
    PROVE  /\ OnRow'
           /\ host.daemon => profiles' = Listing'
           /\ profiles = Listing =>
                profiles' = profiles /\ (profiles # << >> => cursor' = cursor)
           /\ ~host.daemon => UNCHANGED <<profiles, cursor>>
<1>1. Listing' = Listing
  BY ListingStays
<1>2. CASE host.daemon
  <2>1. profiles' = Listing /\ cursor' = Clamp(cursor, Listing)
    BY <1>2 DEF refresh_profiles
  <2>2. OnRow'
    BY <2>1, ListingLen DEF OnRow, Clamp
  <2>3. profiles = Listing => cursor' = cursor \/ Listing = << >>
    BY <2>1, ListingLen DEF OnRow, Clamp
  <2>4. QED
    BY <1>1, <1>2, <2>1, <2>2, <2>3
<1>3. CASE ~host.daemon
  BY <1>3 DEF refresh_profiles, OnRow
<1>4. QED
  BY <1>2, <1>3

\* A step that leaves the list and what it shows alone.
LEMMA EditStays ==
    ASSUME EditInv, UNCHANGED <<screen, outer, profiles, cursor, target, named, erased, others>>,
           modal' \in {modal, "none"}
    PROVE  EditInv'
<1>1. Listing' = Listing
  BY ListingStays
<1>2. QED
  BY <1>1 DEF EditInv, Fresh, OnRow, Editing, EditsHitTheirProfile

\* A step away from the list, or to another screen.
LEMMA EditElsewhere ==
    ASSUME EditInv, screen' # "Profiles", modal' # "name",
           UNCHANGED <<profiles, cursor, named, erased, others>>
    PROVE  EditInv'
BY DEF EditInv, Fresh, OnRow, Editing, EditsHitTheirProfile

\* A step that asks the daemon for the list, on the screen or on the way to it.
LEMMA EditRefreshed ==
    ASSUME EditInv, refresh_profiles, UNCHANGED <<outer, target, erased, others>>,
           screen' = "Profiles" => named' = named \/ modal' = "none",
           \A e \in named' : others = 0 => e[1] = e[2],
           \/ modal' = "none"
           \/ modal' = modal /\ modal' # "name"
           \/ modal' = modal /\ UNCHANGED screen
    PROVE  EditInv'
<1>1. /\ OnRow'
      /\ host.daemon => profiles' = Listing'
      /\ profiles = Listing => profiles' = profiles /\ (profiles # << >> => cursor' = cursor)
      /\ ~host.daemon => UNCHANGED <<profiles, cursor>>
  BY Refreshes DEF EditInv
<1>2. Fresh'
  BY <1>1 DEF Fresh
<1>3. EditsHitTheirProfile'
  BY DEF EditInv, EditsHitTheirProfile
<1>4. ASSUME modal' = "name" PROVE Editing'
  <2>1. modal = "name" /\ screen = "Profiles" /\ screen' = "Profiles"
    BY <1>4 DEF EditInv, Editing
  <2>2. others = 0 => profiles' = profiles /\ (profiles # << >> => cursor' = cursor)
    BY <1>1, <2>1 DEF EditInv, Fresh
  <2>3. QED
    BY <2>1, <2>2 DEF EditInv, Editing
<1>5. QED
  BY <1>1, <1>2, <1>3, <1>4 DEF EditInv, Editing

LEMMA EditMove ==
    ASSUME EditInv, NEW S, NEW i, Go(S, i),
           UNCHANGED <<outer, target, named, erased, others>>
    PROVE  EditInv'
<1>1. CASE UNCHANGED <<screen, lists, modal, password>>
  BY <1>1, EditStays
<1>2. ASSUME modal' = IF modal = "name" THEN "none" ELSE modal,
             screen' \in {"Profiles", "Password"} => refresh_profiles,
             screen' \notin {"Profiles", "Password"} => UNCHANGED <<profiles, cursor>>
      PROVE  EditInv'
  <2>1. modal' # "name" /\ modal' \in {modal, "none"}
    BY <1>2
  <2>2. CASE screen' \in {"Profiles", "Password"}
    BY <1>2, <2>1, <2>2, EditRefreshed DEF EditInv, EditsHitTheirProfile
  <2>3. CASE screen' \notin {"Profiles", "Password"}
    BY <1>2, <2>1, <2>3, EditElsewhere
  <2>4. QED
    BY <2>2, <2>3
<1>3. QED
  BY <1>1, <1>2, Moves

LEMMA EditProfiles ==
    ASSUME EditInv,
           MoveCursor \/ SetActive \/ OpenModal \/ CancelModal \/ SetName \/ NewProfile
             \/ ConfirmDelete
    PROVE  EditInv'
<1>1. CASE SetActive \/ CancelModal \/ NewProfile
  <2>1. UNCHANGED <<screen, outer, profiles, cursor, target, named, erased, others>>
    BY <1>1 DEF SetActive, CancelModal, NewProfile
  <2>2. modal' \in {modal, "none"}
    BY <1>1 DEF SetActive, CancelModal, NewProfile
  <2>3. QED
    BY <2>1, <2>2, EditStays
<1>2. CASE MoveCursor
  <2>1. UNCHANGED <<screen, outer, profiles, modal, target, named, erased, others>>
    BY <1>2 DEF MoveCursor
  <2>2. modal # "name" /\ profiles # << >>
    BY <1>2 DEF MoveCursor, Typing
  <2>3. cursor' \in Nat \ {0} /\ cursor' <= Len(profiles)
    <3>1. cursor' \in {Clamp(cursor + 1, profiles), IF cursor > 1 THEN cursor - 1 ELSE 1}
      BY <1>2 DEF MoveCursor
    <3>2. cursor \in Nat \ {0} /\ Len(profiles) \in Nat /\ cursor <= Len(profiles)
      BY <2>2 DEF EditInv, OnRow
    <3>3. QED
      BY <2>2, <3>1, <3>2 DEF Clamp
  <2>4. Listing' = Listing
    BY <2>1, ListingStays
  <2>5. QED
    BY <2>1, <2>2, <2>3, <2>4 DEF EditInv, Fresh, OnRow, Editing, EditsHitTheirProfile
<1>3. CASE OpenModal
  <2>1. UNCHANGED <<screen, outer, profiles, cursor, named, erased, others>>
    BY <1>3 DEF OpenModal
  <2>2. screen = "Profiles" /\ (modal' = "name" => target' = profiles[cursor].user)
    BY <1>3 DEF OpenModal
  <2>3. Listing' = Listing
    BY <2>1, ListingStays
  <2>4. QED
    BY <2>1, <2>2, <2>3 DEF EditInv, Fresh, OnRow, Editing, EditsHitTheirProfile
<1>4. CASE SetName
  <2>1. /\ UNCHANGED <<screen, outer, target, erased, others>>
        /\ modal = "name" /\ modal' = "none"
    BY <1>4 DEF SetName
  <2>2. CASE profiles # << >> /\ host.daemon
    <3>1. refresh_profiles /\ named' = named \cup {<<profiles[cursor].user, target>>}
      BY <1>4, <2>2 DEF SetName
    <3>2. others = 0 => profiles[cursor].user = target
      BY <2>1, <2>2 DEF EditInv, Editing
    <3>3. \A e \in named' : others = 0 => e[1] = e[2]
      BY <3>1, <3>2 DEF EditInv, EditsHitTheirProfile
    <3>4. QED
      BY <2>1, <3>1, <3>3, EditRefreshed
  <2>3. CASE ~(profiles # << >> /\ host.daemon)
    <3>1. UNCHANGED <<named, profiles, cursor>>
      BY <1>4, <2>3 DEF SetName
    <3>2. QED
      BY <2>1, <3>1, EditStays
  <2>4. QED
    BY <2>2, <2>3
<1>5. CASE ConfirmDelete
  <2>1. UNCHANGED <<screen, host, target, named, others>> /\ modal' = "none"
    BY <1>5 DEF ConfirmDelete, Delete
  <2>2. CASE host.daemon /\ samples[target] > 0
    <3>1. /\ profiles' = Listing' /\ cursor' = 1
          /\ erased' = erased \cup {<<target, target>>}
      BY <1>5, <2>2 DEF ConfirmDelete, Delete
    <3>2. OnRow'
      BY <3>1, ListingLen DEF OnRow
    <3>3. EditsHitTheirProfile'
      BY <2>1, <3>1 DEF EditInv, EditsHitTheirProfile
    <3>4. QED
      BY <2>1, <3>1, <3>2, <3>3 DEF EditInv, Fresh, Editing
  <2>3. CASE ~(host.daemon /\ samples[target] > 0)
    <3>1. UNCHANGED <<samples, sealed, erased, profiles, cursor>>
      BY <1>5, <2>3 DEF ConfirmDelete, Delete
    <3>2. QED
      BY <2>1, <3>1, EditStays
  <2>4. QED
    BY <2>2, <2>3
<1>6. QED
  BY <1>1, <1>2, <1>3, <1>4, <1>5

LEMMA EditTick ==
    ASSUME EditInv, tick
    PROVE  EditInv'
<1>1. UNCHANGED <<host, sealed, screen, modal, target, named, erased, others>>
  BY DEF tick
<1>2. CASE screen = "Profiles"
  <2>1. UNCHANGED samples
    BY <1>2 DEF tick
  <2>2. refresh_profiles \/ UNCHANGED <<profiles, cursor>>
    BY <1>2 DEF tick, poll_live
  <2>3. CASE refresh_profiles
    BY <1>1, <2>1, <2>3, EditRefreshed DEF EditInv, EditsHitTheirProfile
  <2>4. CASE UNCHANGED <<profiles, cursor>>
    BY <1>1, <2>1, <2>4, EditStays
  <2>5. QED
    BY <2>2, <2>3, <2>4
<1>3. CASE screen # "Profiles"
  <2>1. UNCHANGED <<profiles, cursor>> /\ modal # "name"
    BY <1>3 DEF tick, poll_live, EditInv, Editing
  <2>2. QED
    BY <1>1, <1>3, <2>1, EditElsewhere
<1>4. QED
  BY <1>2, <1>3

LEMMA EditNext == EditInv /\ [Next]_vars => EditInv'
<1> SUFFICES ASSUME EditInv, [Next]_vars PROVE EditInv'
  OBVIOUS
<1>1. ASSUME \/ NoKey \/ Quit \/ InstallKey \/ ArmUninstall \/ StartEnroll \/ IdentifyKey
             \/ TypePassword \/ EnterPassword \/ RetypePassword \/ PamKey \/ SuspendKey \/ Over \/ UNCHANGED vars
      PROVE  EditInv'
  <2>1. UNCHANGED <<screen, outer, profiles, cursor, modal, target, named, erased, others>>
    BY <1>1 DEF NoKey, Quit, InstallKey, ArmUninstall, StartEnroll, IdentifyKey, TypePassword, EnterPassword,
                RetypePassword, PamKey, SuspendKey, Over, vars
  <2>2. QED
    BY <2>1, EditStays
<1>2. ASSUME \/ Deploy \/ CopyModels \/ OpenUninstall \/ DoUninstall \/ DoctorKey \/ SaveCameras
             \/ CalibrateKey \/ SealPassword
      PROVE  EditInv'
  <2>1. /\ UNCHANGED <<profiles, cursor, modal, named, erased, others>>
        /\ screen # "Profiles" /\ screen' # "Profiles"
    BY <1>2 DEF Deploy, CopyModels, OpenUninstall, DoUninstall, DoctorKey, SaveCameras,
                CalibrateKey, SealPassword
  <2>2. modal # "name"
    BY <2>1 DEF EditInv, Editing
  <2>3. QED
    BY <2>1, <2>2, EditElsewhere
<1>3. ASSUME next \/ prev PROVE EditInv'
  <2>1. UNCHANGED <<outer, target, named, erased, others>>
    BY <1>3 DEF next, prev
  <2>2. \E S, i : Go(S, i)
    BY <1>3 DEF next, prev
  <2>3. QED
    BY <2>1, <2>2, EditMove
<1>4. ASSUME LeaveUninstall PROVE EditInv'
  <2>1. /\ UNCHANGED <<profiles, cursor, named, erased, others>>
        /\ screen' # "Profiles" /\ modal' # "name"
    BY <1>4 DEF LeaveUninstall, on_enter
  <2>2. QED
    BY <2>1, EditElsewhere
<1>5. ASSUME Others PROVE EditInv'
  <2>1. /\ UNCHANGED <<screen, profiles, cursor, modal, target, named, erased>>
        /\ others' = others + 1
    BY <1>5 DEF Others
  <2>2. others' \in Nat /\ others' # 0
    BY <2>1 DEF EditInv
  <2>3. QED
    BY <2>1, <2>2 DEF EditInv, Fresh, OnRow, Editing, EditsHitTheirProfile
<1>6. QED
  BY <1>1, <1>2, <1>3, <1>4, <1>5, EditProfiles, EditTick DEF Next

\* A deletion erases the profile its question named, whatever other sessions do
\* to the list meanwhile, and a name goes to the profile it was typed for while
\* no other session changes the list (delete_confirm_key, name_edit_key,
\* poll_live).
THEOREM EditsLand == Spec => []EditsHitTheirProfile
<1>1. Init => EditInv
  <2> SUFFICES ASSUME Init PROVE EditInv
    OBVIOUS
  <2>1. Len(profiles) \in Nat
    BY DEF Init
  <2>2. QED
    BY <2>1 DEF Init, EditInv, Fresh, OnRow, Editing, EditsHitTheirProfile
<1>2. EditInv => EditsHitTheirProfile
  BY DEF EditInv
<1>3. QED
  BY <1>1, <1>2, EditNext, PTL DEF Spec

-----------------------------------------------------------------------------
(* Types.                                                                  *)

\* Every place of the sorted list has its profile.
LEMMA NameAt ==
    ASSUME NEW S, S \subseteq Nat, IsFiniteSet(S), NEW k \in 1 .. Cardinality(S)
    PROVE  \E u \in S : Cardinality({v \in S : v <= u}) = k
<1> DEFINE Upto(u) == {v \in S : v <= u}
           n == Cardinality(S)
           f == [u \in S |-> Cardinality(Upto(u))]
<1>1. n \in Nat
  BY FS_CardinalityType
<1>2. IsFiniteSet(1 .. n) /\ Cardinality(1 .. n) = n
  BY <1>1, FS_Interval
<1>3. \A u \in S : IsFiniteSet(Upto(u)) /\ Cardinality(Upto(u)) \in Nat /\ Cardinality(Upto(u)) <= n
  BY FS_Subset, FS_CardinalityType
<1>4. ASSUME NEW u \in S PROVE f[u] \in 1 .. n
  <2>1. u \in Upto(u)
    OBVIOUS
  <2>2. Cardinality(Upto(u)) # 0
    BY <1>3, <2>1, FS_EmptySet
  <2>3. QED
    BY <1>1, <1>3, <2>2
<1>5. ASSUME NEW u \in S, NEW w \in S, f[u] = f[w] PROVE u = w
  <2>1. ASSUME NEW a \in S, NEW b \in S, a < b, f[a] = f[b] PROVE FALSE
    <3>1. Upto(a) \subseteq Upto(b) /\ b \in Upto(b) /\ b \notin Upto(a)
      <4>1. a \in Nat /\ b \in Nat /\ \A v \in S : v \in Nat
        OBVIOUS
      <4>2. b <= b /\ ~(b <= a) /\ \A v \in S : v <= a => v <= b
        BY <2>1, <4>1
      <4>3. QED
        BY <4>2, Zenon
    <3>2. Cardinality(Upto(a)) = Cardinality(Upto(b))
      BY <2>1
    <3> HIDE DEF Upto, f
    <3>3. IsFiniteSet(Upto(b)) /\ Upto(a) \in SUBSET Upto(b)
      BY <1>3, <3>1
    <3>4. Upto(b) = Upto(a)
      BY <3>2, <3>3, FS_Subset
    <3>5. QED
      BY <3>1, <3>4
  <2>2. u \in Nat /\ w \in Nat
    OBVIOUS
  <2>3. QED
    BY <1>5, <2>1, <2>2
<1>6. f \in Injection(S, 1 .. n)
  <2>1. f \in [S -> 1 .. n]
    BY <1>4
  <2>2. \A a, b \in S : f[a] = f[b] => a = b
    BY <1>5
  <2> HIDE DEF f
  <2>3. QED
    BY <2>1, <2>2 DEF Injection, IsInjective
<1>7. f \in Surjection(S, 1 .. n)
  <2> HIDE DEF f, n
  <2>1. QED
    BY <1>2, <1>6, FS_Injection DEF n
<1>8. \E u \in S : f[u] = k
  <2> HIDE DEF f
  <2>1. QED
    BY <1>7 DEF Surjection
<1>9. QED
  BY <1>8

LEMMA ListingType == Listing \in Seq(Rows)
<1> DEFINE n == Cardinality(Enrolled)
<1>1. Enrolled \subseteq Nat /\ Enrolled \subseteq Users /\ IsFiniteSet(Enrolled)
  BY WizardAssumption, FS_Subset DEF Enrolled
<1>2. n \in Nat
  BY <1>1, FS_CardinalityType
<1>3. ASSUME NEW i \in 1 .. n PROVE ByName(Enrolled)[i] \in Users
  <2>1. \E u \in Enrolled : Cardinality({v \in Enrolled : v <= u}) = i
    BY <1>1, NameAt
  <2>2. QED
    BY <1>1, <2>1 DEF ByName
<1>4. \A i \in 1 .. n : Listing[i] \in Rows
  BY <1>3 DEF Listing, Rows
<1>5. Listing \in [1 .. n -> Rows]
  BY <1>4 DEF Listing
<1>6. QED
  BY <1>2, <1>5

LEMMA ListingTypeNext == Listing' \in Seq(Rows)
<1>1. (Listing \in Seq(Rows))'
  BY ListingType, PTL
<1>2. QED
  BY <1>1 DEF Rows

LEMMA Least == ASSUME NEW T, T \subseteq Nat, T # {} PROVE \E n \in T : \A m \in T : n <= m
<1> DEFINE R == OpToRel(<, Nat)
<1>1. IsWellFoundedOn(R, Nat)
  BY NatLessThanWellFounded
<1>2. \A x, y \in Nat : y < x => <<y, x>> \in R
  BY DEF OpToRel
<1> HIDE DEF R
<1>3. PICK x \in T : \A y \in T : ~(<<y, x>> \in R)
  BY <1>1, WFMin, Zenon
<1>4. ASSUME NEW y \in T PROVE x <= y
  <2>1. x \in Nat /\ y \in Nat /\ ~(<<y, x>> \in R)
    BY <1>3
  <2>2. ~(y < x)
    BY <1>2, <2>1, Zenon
  <2>3. QED
    BY <2>1, <2>2
<1>5. QED
  BY <1>4

\* next and prev go to a screen of the order.
LEMMA Neighbours ==
    /\ DOMAIN Order = 1 .. 12 /\ \A i \in 1 .. 12 : Order[i] \in ToSet(Order)
    /\ After # {} => Min(After) \in 1 .. 12
    /\ Before # {} => Max(Before) \in 1 .. 12
<1>1. DOMAIN Order = 1 .. 12
  BY DEF Order
<1>2. \A i \in 1 .. 12 : Order[i] \in ToSet(Order)
  BY <1>1 DEF ToSet
<1>3. After \subseteq 1 .. 12 /\ Before \subseteq 1 .. 12
  BY <1>1 DEF After, Before, Applicable
<1>4. ASSUME After # {} PROVE Min(After) \in 1 .. 12
  <2>1. \E x \in After : \A y \in After : x <= y
    <3>1. After \subseteq Nat
      BY <1>3
    <3>2. QED
      BY <1>4, <3>1, Least
  <2>2. Min(After) \in After
    BY <2>1 DEF Min
  <2>3. QED
    BY <1>3, <2>2
<1>5. ASSUME Before # {} PROVE Max(Before) \in 1 .. 12
  <2> DEFINE T == {12 - i : i \in Before}
  <2>1. T \subseteq Nat /\ T # {}
    <3>1. \A i \in Before : 12 - i \in Nat
      BY <1>3
    <3>2. QED
      BY <1>5, <3>1, Zenon
  <2>2. PICK n \in T : \A m \in T : n <= m
    BY <2>1, Least
  <2>3. PICK x \in Before : n = 12 - x
    BY <2>2
  <2>4. ASSUME NEW y \in Before PROVE x >= y
    <3>1. 12 - y \in T /\ x \in 1 .. 12 /\ y \in 1 .. 12
      BY <1>3
    <3>2. 12 - x <= 12 - y
      BY <2>2, <2>3, <3>1
    <3>3. QED
      BY <3>1, <3>2
  <2>5. Max(Before) \in Before
    BY <2>4 DEF Max
  <2>6. QED
    BY <1>3, <2>5
<1>6. QED
  BY <1>1, <1>2, <1>4, <1>5

Installs == [installed : BOOLEAN, daemon : BOOLEAN, models : BOOLEAN, enrolled : SUBSET Users]
Screens  == ToSet(Order) \cup {"Uninstall"}

LEMMA DetectType == ASSUME HostOK PROVE detect \in Installs
BY DEF HostOK, detect, Enrolled, Installs

LEMMA DetectTypeNext == ASSUME HostOK' PROVE detect' \in Installs
BY DEF HostOK, detect, Enrolled, Installs

\* A fresh list, the cursor clamped to it.
LEMMA RefreshType == ASSUME ListOK, refresh_profiles PROVE ListOK'
<1>1. CASE host.daemon
  <2>1. profiles' = Listing /\ cursor' = Clamp(cursor, Listing)
    BY <1>1 DEF refresh_profiles
  <2>2. Listing \in Seq(Rows) /\ Len(Listing) \in Nat /\ DOMAIN Listing = 1 .. Len(Listing)
    BY ListingType
  <2>3. cursor \in Nat \ {0}
    <3>1. Len(profiles) \in Nat /\ DOMAIN profiles = 1 .. Len(profiles)
      BY DEF ListOK
    <3>2. QED
      BY <3>1 DEF ListOK
  <2>4. Listing = << >> \/ Len(Listing) >= 1
    BY <2>2
  <2>5. QED
    BY <2>1, <2>2, <2>3, <2>4 DEF ListOK, Clamp, Rows
<1>2. CASE ~host.daemon
  BY <1>2 DEF refresh_profiles, ListOK, Rows
<1>3. QED
  BY <1>1, <1>2

\* What entering a screen may change.
Entered ==
    /\ screen' \in Screens /\ install' \in Installs /\ report' \in {"none", "ok", "fail"}
    /\ modal' \in {"none", "name", "new", "delete"} /\ ListOK'
    /\ password' \in {"entry", "typed", "confirm", "sealed", "failed"}

LEMMA EnterType ==
    ASSUME TypeOK, NEW s \in ToSet(Order), on_enter(s)
    PROVE  Entered
<1>1. HostOK /\ ViewOK /\ ListOK /\ StepsOK
  BY DEF TypeOK
<1>2. install' \in Installs
  BY <1>1, DetectType DEF on_enter
<1>3. report' \in {"none", "ok", "fail"}
  BY <1>1 DEF on_enter, refresh_probe, HostOK, ViewOK
<1>4. ListOK'
  <2>1. CASE refresh_profiles
    BY <1>1, <2>1, RefreshType
  <2>2. CASE UNCHANGED <<profiles, cursor>>
    BY <1>1, <2>2 DEF ListOK, Rows
  <2>3. QED
    BY <2>1, <2>2 DEF on_enter
<1>5. QED
  BY <1>1, <1>2, <1>3, <1>4 DEF on_enter, Entered, Screens, ViewOK, StepsOK

LEMMA GoType ==
    ASSUME TypeOK, NEW S, NEW i, S # {} => i \in 1 .. 12, Go(S, i)
    PROVE  Entered
<1>1. CASE S = {}
  BY <1>1 DEF Go, TypeOK, ViewOK, ListOK, StepsOK, Entered, Rows, Screens, Installs
<1>2. CASE S # {}
  BY <1>2, EnterType, Neighbours DEF Go
<1>3. QED
  BY <1>1, <1>2

LEMMA Targets ==
    /\ EnrollTarget \in Nat \ {0} /\ EnrollStreak \in Nat \ {0} /\ CountdownFrom \in Nat \ {0}
    /\ CalTarget \in Nat \ {0} /\ CalMaxAttempts \in Nat \ {0} /\ CalEnough \in Nat \ {0}
    /\ MaxKeys \in Nat /\ MaxOthers \in Nat /\ Login \in Users
BY WizardAssumption

\* While an enrollment runs, what it has captured is what was stored, and the
\* streak or the countdown is not past its start.
Counting ==
    enroll.st \in {"framing", "countdown"} =>
        /\ stored = enroll.captured
        /\ enroll.streak <= IF enroll.st = "framing" THEN EnrollStreak ELSE CountdownFrom

TypeInv == TypeOK /\ Counting

LEMMA TypeInit == Init => TypeInv
<1> SUFFICES ASSUME Init PROVE TypeInv
  OBVIOUS
<1> USE Targets
<1>1. HostOK
  BY WizardAssumption DEF Init, HostOK
<1>2. ViewOK
  <2>1. "Welcome" \in ToSet(Order)
    <3>1. 1 \in DOMAIN Order /\ Order[1] = "Welcome"
      BY DEF Order
    <3>2. QED
      BY <3>1 DEF ToSet
  <2>2. install \in Installs
    BY <1>1, DetectType DEF Init
  <2>3. cameras_saved \in BOOLEAN
    BY <1>1 DEF Init, HostOK
  <2>4. QED
    BY <2>1, <2>2, <2>3 DEF Init, ViewOK, Installs
<1>3. ListOK /\ WhoOK
  BY DEF Init, ListOK, WhoOK
<1>4. EnrollOK /\ Counting
  BY DEF Init, EnrollOK, Counting, Ended
<1>5. StepsOK
  BY DEF Init, StepsOK, CalIs
<1>6. QED
  BY <1>1, <1>2, <1>3, <1>4, <1>5 DEF TypeInv, TypeOK

Enrolls == [st : {"idle", "framing", "countdown", "done", "failed"},
            captured : 0 .. EnrollTarget - 1, streak : 0 .. EnrollStreak + CountdownFrom]

\* The records of an enrollment, by their fields.
LEMMA EnrollIs ==
    ASSUME NEW n \in 0 .. EnrollTarget - 1, NEW k \in 0 .. EnrollStreak + CountdownFrom
    PROVE  /\ Framing(n, k) \in Enrolls /\ Countdown(n, k) \in Enrolls
           /\ Ended("done") \in Enrolls /\ Ended("failed") \in Enrolls
           /\ Framing(n, k).st = "framing" /\ Framing(n, k).captured = n /\ Framing(n, k).streak = k
           /\ Countdown(n, k).st = "countdown" /\ Countdown(n, k).captured = n
           /\ Countdown(n, k).streak = k
           /\ Ended("done").st = "done" /\ Ended("failed").st = "failed"
<1>1. 0 \in 0 .. EnrollTarget - 1 /\ 0 \in 0 .. EnrollStreak + CountdownFrom
  BY Targets
<1>2. QED
  BY <1>1 DEF Framing, Countdown, Ended, Enrolls

\* What holds of the next enrollment record makes the next state's types.
LEMMA EnrollTyped ==
    ASSUME NEW n \in 0 .. EnrollTarget - 1, NEW k \in 0 .. EnrollStreak + CountdownFrom,
           frames' \in Nat, stored' \in 0 .. EnrollTarget,
           \/ enroll' = Framing(n, k) /\ stored' = n /\ k <= EnrollStreak
           \/ enroll' = Countdown(n, k) /\ stored' = n /\ k <= CountdownFrom
           \/ enroll' \in {Ended("done"), Ended("failed")}
    PROVE  EnrollOK' /\ Counting'
<1>1. EnrollOK'
  <2>1. enroll' \in Enrolls
    BY EnrollIs
  <2>2. QED
    BY <2>1 DEF EnrollOK, Enrolls
<1>2. Counting'
  <2>1. \/ /\ enroll'.st = "framing" /\ enroll'.captured = n /\ enroll'.streak = k
           /\ stored' = n /\ k <= EnrollStreak
        \/ /\ enroll'.st = "countdown" /\ enroll'.captured = n /\ enroll'.streak = k
           /\ stored' = n /\ k <= CountdownFrom
        \/ enroll'.st = "done" \/ enroll'.st = "failed"
    BY EnrollIs
  <2>2. QED
    BY <2>1 DEF Counting
<1>3. QED
  BY <1>1, <1>2

\* One poll of the enrollment.
LEMMA TypeEnrollTick ==
    ASSUME TypeInv, tick_enroll
    PROVE  EnrollOK' /\ Counting' /\ samples' \in [Users -> 0 .. EnrollTarget]
<1> USE Targets
<1>1. PICK good \in BOOLEAN, taken \in BOOLEAN :
        LET asked  == enroll.st \in {"framing", "countdown"}
            sample == enroll.st = "countdown" /\ good /\ enroll.streak <= 1 /\ taken
        IN  /\ enroll' = EnrollStep(good, taken)
            /\ frames' = IF asked THEN IF good /\ ~sample THEN frames + 1 ELSE 0 ELSE frames
            /\ stored' = IF sample THEN stored + 1 ELSE stored
            /\ samples' = IF sample /\ samples[active_profile] < EnrollTarget
                          THEN [samples EXCEPT ![active_profile] = @ + 1] ELSE samples
  BY DEF tick_enroll
<1>2. EnrollOK /\ Counting /\ samples \in [Users -> 0 .. EnrollTarget]
  BY DEF TypeInv, TypeOK, HostOK
<1>3. samples' \in [Users -> 0 .. EnrollTarget]
  <2>1. active_profile \in Users
    BY DEF TypeInv, TypeOK, WhoOK
  <2>2. \/ samples' = samples
        \/ /\ samples[active_profile] < EnrollTarget
           /\ samples' = [samples EXCEPT ![active_profile] = @ + 1]
    BY <1>1
  <2>3. QED
    BY <1>2, <2>1, <2>2
<1>4. frames' \in Nat
  BY <1>1, <1>2 DEF EnrollOK
<1>5. CASE enroll.st = "framing"
  <2> DEFINE n == enroll.captured
  <2>1. n \in 0 .. EnrollTarget - 1 /\ enroll.streak \in 0 .. EnrollStreak
    BY <1>2, <1>5 DEF EnrollOK, Counting
  <2>2. stored' = n
    BY <1>1, <1>2, <1>5 DEF Counting
  <2>3. \/ enroll' = Framing(n, 0)
        \/ enroll' = Countdown(n, CountdownFrom)
        \/ enroll' = Framing(n, enroll.streak + 1) /\ ~(enroll.streak + 1 >= EnrollStreak)
    BY <1>1, <1>5 DEF EnrollStep
  <2>4. PICK k \in 0 .. EnrollStreak + CountdownFrom :
           \/ enroll' = Framing(n, k) /\ k <= EnrollStreak
           \/ enroll' = Countdown(n, k) /\ k <= CountdownFrom
    <3>1. /\ 0 \in 0 .. EnrollStreak + CountdownFrom /\ 0 <= EnrollStreak
          /\ CountdownFrom \in 0 .. EnrollStreak + CountdownFrom /\ CountdownFrom <= CountdownFrom
      OBVIOUS
    <3>2. ASSUME ~(enroll.streak + 1 >= EnrollStreak)
          PROVE  /\ enroll.streak + 1 \in 0 .. EnrollStreak + CountdownFrom
                 /\ enroll.streak + 1 <= EnrollStreak
      BY <2>1, <3>2
    <3>3. QED
      BY <2>3, <3>1, <3>2, Zenon
  <2>5. stored' \in 0 .. EnrollTarget
    BY <2>1, <2>2
  <2>6. QED
    <3> HIDE DEF n
    <3>1. EnrollOK' /\ Counting'
      BY <1>4, <2>1, <2>2, <2>4, <2>5, EnrollTyped, Zenon
    <3>2. QED
      BY <1>3, <3>1
<1>6. CASE enroll.st = "countdown"
  <2> DEFINE n == enroll.captured
  <2>1. n \in 0 .. EnrollTarget - 1 /\ enroll.streak \in 0 .. CountdownFrom /\ stored = n
    BY <1>2, <1>6 DEF EnrollOK, Counting
  <2>2. \/ enroll' = Framing(n, 0) /\ stored' = stored
        \/ /\ enroll' = Countdown(n, enroll.streak - 1) /\ stored' = stored
           /\ enroll.streak > 1
        \/ enroll' = Ended("failed") /\ stored' = stored
        \/ enroll' = Ended("done") /\ stored' = stored + 1
        \/ /\ enroll' = Framing(n + 1, 0) /\ stored' = stored + 1
           /\ ~(n + 1 >= EnrollTarget)
    BY <1>1, <1>6, <2>1 DEF EnrollStep
  <2> HIDE DEF n
  <2>3. stored' \in 0 .. EnrollTarget
    BY <2>1, <2>2
  <2>4. 0 \in 0 .. EnrollStreak + CountdownFrom /\ 0 <= EnrollStreak
    OBVIOUS
  <2>5. CASE enroll' = Framing(n, 0) /\ stored' = stored
    BY <1>3, <1>4, <2>1, <2>3, <2>4, <2>5, EnrollTyped, Zenon
  <2>6. CASE /\ enroll' = Countdown(n, enroll.streak - 1) /\ stored' = stored
             /\ enroll.streak > 1
    <3>1. /\ enroll.streak - 1 \in 0 .. EnrollStreak + CountdownFrom
          /\ enroll.streak - 1 <= CountdownFrom
      BY <2>1, <2>6
    <3>2. QED
      BY <1>3, <1>4, <2>1, <2>3, <2>6, <3>1, EnrollTyped, Zenon
  <2>7. CASE enroll' = Ended("failed") \/ enroll' = Ended("done")
    BY <1>3, <1>4, <2>1, <2>3, <2>4, <2>7, EnrollTyped, Zenon
  <2>8. CASE /\ enroll' = Framing(n + 1, 0) /\ stored' = stored + 1
             /\ ~(n + 1 >= EnrollTarget)
    <3>1. n + 1 \in 0 .. EnrollTarget - 1 /\ stored' = n + 1
      BY <2>1, <2>8
    <3>2. QED
      BY <1>3, <1>4, <2>3, <2>4, <2>8, <3>1, EnrollTyped, Zenon
  <2>9. QED
    BY <2>2, <2>5, <2>6, <2>7, <2>8
<1>7. CASE enroll.st \notin {"framing", "countdown"}
  <2>1. enroll' = enroll /\ stored' = stored
    BY <1>1, <1>7 DEF EnrollStep
  <2>2. QED
    BY <1>2, <1>3, <1>4, <1>7, <2>1 DEF EnrollOK, Counting
<1>8. QED
  BY <1>5, <1>6, <1>7

LEMMA TypeTick == ASSUME TypeInv, tick PROVE TypeInv'
<1>1. UNCHANGED <<host, sealed, screen, cameras_saved, active_profile, modal, target, password,
                  uninstall, install_step, named, erased, confirmed, keys, others>>
  BY DEF tick
<1>2. EnrollOK' /\ Counting' /\ samples' \in [Users -> 0 .. EnrollTarget]
  <2>1. CASE tick_enroll
    BY <2>1, TypeEnrollTick
  <2>2. CASE UNCHANGED <<enroll, frames, stored, samples>>
    BY <2>2 DEF TypeInv, TypeOK, HostOK, EnrollOK, Counting
  <2>3. QED
    BY <2>1, <2>2 DEF tick
<1>3. HostOK'
  BY <1>1, <1>2 DEF TypeInv, TypeOK, HostOK
<1>4. ListOK'
  <2>1. CASE refresh_profiles
    BY <2>1, RefreshType DEF TypeInv, TypeOK
  <2>2. CASE UNCHANGED <<profiles, cursor>>
    BY <2>2 DEF TypeInv, TypeOK, ListOK, Rows
  <2>3. QED
    BY <2>1, <2>2 DEF tick, poll_live
<1>5. install' \in Installs
  <2>1. install' \in {detect, detect', install}
    BY DEF tick, poll_live, Detects
  <2>2. QED
    BY <1>3, <2>1, DetectType, DetectTypeNext DEF TypeInv, TypeOK, ViewOK, Installs
<1>6. report' \in {"none", "ok", "fail"}
  BY DEF tick, poll_live, refresh_probe, TypeInv, TypeOK, HostOK, ViewOK
<1>7. turn' \in {"key", "tick", "last", "over"}
  BY DEF tick
<1>8. ViewOK'
  BY <1>1, <1>5, <1>6, <1>7 DEF TypeInv, TypeOK, ViewOK, Installs
<1>9. WhoOK'
  BY <1>1 DEF TypeInv, TypeOK, WhoOK
<1>10. StepsOK'
  <2>1. identify' \in {"idle", "running", "done", "failed"} /\ pending' = {}
    BY DEF tick, tick_identify, TypeInv, TypeOK, StepsOK
  <2>2. cal' \in [st : {"idle", "sampling", "review", "notEnough", "saved"},
                  scores : 0 .. CalTarget - 1, attempts : 0 .. CalMaxAttempts - 1]
    <3>1. cal' \in {cal, CalStep(TRUE), CalStep(FALSE)}
      BY DEF tick, tick_calibrate
    <3>2. QED
      BY <3>1, Targets DEF CalStep, Sampling, CalIs, TypeInv, TypeOK, StepsOK
  <2>3. QED
    BY <1>1, <2>1, <2>2 DEF TypeInv, TypeOK, StepsOK
<1>11. QED
  BY <1>2, <1>3, <1>4, <1>8, <1>9, <1>10 DEF TypeInv, TypeOK

Hosts == [installed : BOOLEAN, daemon : BOOLEAN, models : BOOLEAN, ir : BOOLEAN,
          probe : {"ok", "fail"}]

LEMMA MoveType == ASSUME TypeInv, next \/ prev \/ LeaveUninstall PROVE Entered
<1>1. TypeOK
  BY DEF TypeInv
<1>2. CASE next
  BY <1>1, <1>2, GoType, Neighbours, Zenon DEF next
<1>3. CASE prev
  BY <1>1, <1>3, GoType, Neighbours, Zenon DEF prev
<1>4. CASE LeaveUninstall
  <2>1. "Welcome" \in ToSet(Order)
    <3>1. 1 \in 1 .. 12 /\ Order[1] = "Welcome"
      BY DEF Order
    <3>2. QED
      BY <3>1, Neighbours, Zenon
  <2>2. QED
    BY <1>1, <1>4, <2>1, EnterType, Zenon DEF LeaveUninstall
<1>5. QED
  BY <1>2, <1>3, <1>4

(* One key, or a step of another session, and each part of the types. *)

LEMMA HostKey == ASSUME TypeInv, [Next]_vars PROVE tick \/ HostOK'
<1>1. HostOK
  BY DEF TypeInv, TypeOK
<1>2. ASSUME \/ NoKey \/ next \/ prev \/ Quit \/ InstallKey \/ OpenUninstall \/ ArmUninstall
             \/ LeaveUninstall \/ MoveCursor \/ SetActive \/ OpenModal \/ CancelModal \/ SetName
             \/ NewProfile \/ StartEnroll \/ IdentifyKey \/ TypePassword \/ EnterPassword \/ RetypePassword
             \/ PamKey \/ SuspendKey \/ Over \/ UNCHANGED vars
      PROVE  HostOK'
  <2>1. UNCHANGED outer
    BY <1>2 DEF NoKey, next, prev, Quit, InstallKey, OpenUninstall, ArmUninstall, LeaveUninstall,
                MoveCursor, SetActive, OpenModal, CancelModal, SetName, NewProfile, StartEnroll,
                IdentifyKey, TypePassword, EnterPassword, RetypePassword, PamKey, SuspendKey, Over, vars,
                inner, outer
  <2>2. QED
    BY <1>1, <2>1 DEF outer, HostOK
<1>3. ASSUME Deploy \/ CopyModels PROVE HostOK'
  <2>1. UNCHANGED <<samples, sealed>> /\ host' \in Hosts
    BY <1>1, <1>3 DEF Deploy, CopyModels, HostOK, Hosts
  <2>2. QED
    BY <1>1, <2>1 DEF HostOK, Hosts
<1>4. ASSUME DoctorKey \/ SaveCameras \/ CalibrateKey PROVE HostOK'
  <2>1. UNCHANGED <<samples, sealed>> /\ host' \in Hosts
    BY <1>1, <1>4 DEF DoctorKey, SaveCameras, CalibrateKey, HostOK, Hosts
  <2>2. QED
    BY <1>1, <2>1 DEF HostOK, Hosts
<1>5. ASSUME DoUninstall PROVE HostOK'
  <2>1. CASE UNCHANGED outer
    BY <1>1, <2>1 DEF outer, HostOK
  <2>2. CASE \E keep \in BOOLEAN :
               /\ host' = [host EXCEPT !.installed = FALSE, !.daemon = FALSE,
                                       !.models = @ /\ keep]
               /\ samples' = [u \in Users |-> 0] /\ sealed' = {}
    <3>1. host' \in Hosts
      <4>1. host.models \in BOOLEAN /\ host \in Hosts
        BY <1>1 DEF HostOK, Hosts
      <4>2. \A keep \in BOOLEAN : (host.models /\ keep) \in BOOLEAN
        OBVIOUS
      <4>3. QED
        BY <2>2, <4>1, <4>2 DEF Hosts
    <3>2. 0 \in 0 .. EnrollTarget
      BY Targets
    <3>3. samples' \in [Users -> 0 .. EnrollTarget] /\ sealed' \subseteq Users
      BY <2>2, <3>2
    <3>4. QED
      BY <3>1, <3>3 DEF HostOK, Hosts
  <2>3. QED
    BY <1>5, <2>1, <2>2 DEF DoUninstall
<1>6. ASSUME ConfirmDelete \/ SealPassword PROVE HostOK'
  <2>1. active_profile \in Users /\ target \in Users
    BY DEF TypeInv, TypeOK, WhoOK
  <2>2. host' = host
    BY <1>6 DEF ConfirmDelete, Delete, SealPassword
  <2>3. samples' = samples \/ samples' = [samples EXCEPT ![target] = 0]
    BY <1>6 DEF ConfirmDelete, Delete, SealPassword
  <2>4. sealed' \subseteq Users
    BY <1>1, <1>6, <2>1 DEF ConfirmDelete, Delete, SealPassword, HostOK
  <2>5. QED
    BY <1>1, <2>2, <2>3, <2>4, Targets DEF HostOK
<1>7. ASSUME Others PROVE HostOK'
  <2>1. CASE \E u \in Users : /\ samples' = [samples EXCEPT ![u] = IF @ > 0 THEN 0 ELSE 1]
                              /\ sealed' = sealed \ {u} /\ UNCHANGED host
    <3>1. 0 \in 0 .. EnrollTarget /\ 1 \in 0 .. EnrollTarget
      BY Targets
    <3>2. QED
      BY <1>1, <2>1, <3>1 DEF HostOK
  <2>2. CASE host' = [host EXCEPT !.daemon = ~@] /\ UNCHANGED <<samples, sealed>>
    BY <1>1, <2>2 DEF HostOK
  <2>3. QED
    BY <1>7, <2>1, <2>2 DEF Others
<1>8. QED
  BY <1>2, <1>3, <1>4, <1>5, <1>6, <1>7 DEF Next

LEMMA ListKey == ASSUME TypeInv, [Next]_vars PROVE tick \/ ListOK'
<1>1. ListOK
  BY DEF TypeInv, TypeOK
<1>2. ASSUME UNCHANGED <<profiles, cursor>> PROVE ListOK'
  BY <1>1, <1>2 DEF ListOK, Rows
<1>3. ASSUME \/ NoKey \/ Quit \/ InstallKey \/ OpenUninstall \/ ArmUninstall \/ SetActive
             \/ OpenModal \/ CancelModal \/ NewProfile \/ StartEnroll \/ IdentifyKey
             \/ TypePassword \/ EnterPassword \/ RetypePassword \/ PamKey \/ SuspendKey \/ Over \/ UNCHANGED vars
             \/ Deploy \/ CopyModels \/ DoUninstall \/ DoctorKey \/ SaveCameras \/ CalibrateKey
             \/ SealPassword \/ Others
      PROVE  ListOK'
  <2>1. UNCHANGED <<profiles, cursor>>
    BY <1>3 DEF NoKey, Quit, InstallKey, OpenUninstall, ArmUninstall, SetActive, OpenModal,
                CancelModal, NewProfile, StartEnroll, IdentifyKey, TypePassword, EnterPassword, RetypePassword,
                PamKey, SuspendKey, Over, vars, inner, lists, Deploy, CopyModels, DoUninstall,
                DoctorKey, SaveCameras, CalibrateKey, SealPassword, Others
  <2>2. QED
    BY <1>2, <2>1
<1>4. ASSUME next \/ prev \/ LeaveUninstall PROVE ListOK'
  BY <1>4, MoveType DEF Entered
<1>5. ASSUME MoveCursor PROVE ListOK'
  <2>1. profiles' = profiles /\ profiles # << >>
    BY <1>5 DEF MoveCursor
  <2>2. Len(profiles) \in Nat /\ DOMAIN profiles = 1 .. Len(profiles) /\ Len(profiles) # 0
    BY <1>1, <2>1 DEF ListOK
  <2>3. cursor' \in {Clamp(cursor + 1, profiles), IF cursor > 1 THEN cursor - 1 ELSE 1}
    BY <1>5 DEF MoveCursor
  <2>4. cursor \in 1 .. Len(profiles)
    BY <1>1, <2>2 DEF ListOK
  <2>5. cursor' \in 1 .. Len(profiles)
    BY <2>1, <2>2, <2>3, <2>4 DEF Clamp
  <2>6. QED
    BY <1>1, <2>1, <2>2, <2>5 DEF ListOK, Rows
<1>6. ASSUME SetName PROVE ListOK'
  BY <1>1, <1>2, <1>6, RefreshType DEF SetName
<1>7. ASSUME ConfirmDelete PROVE ListOK'
  <2>1. CASE profiles' = Listing' /\ cursor' = 1
    BY <2>1, ListingTypeNext DEF ListOK, Rows
  <2>2. CASE UNCHANGED <<profiles, cursor>>
    BY <1>2, <2>2
  <2>3. QED
    BY <1>7, <2>1, <2>2 DEF ConfirmDelete, Delete
<1>8. QED
  BY <1>3, <1>4, <1>5, <1>6, <1>7 DEF Next

LEMMA WhoKey == ASSUME TypeInv, [Next]_vars PROVE tick \/ WhoOK'
<1>1. WhoOK /\ Login \in Users
  BY Targets DEF TypeInv, TypeOK
<1>2. ASSUME profiles # << >> PROVE profiles[cursor].user \in Users
  <2>1. /\ profiles \in Seq(Rows) /\ Len(profiles) \in Nat /\ Len(profiles) # 0
        /\ DOMAIN profiles = 1 .. Len(profiles)
    BY <1>2 DEF TypeInv, TypeOK, ListOK
  <2>2. cursor \in 1 .. Len(profiles)
    BY <2>1 DEF TypeInv, TypeOK, ListOK
  <2>3. profiles[cursor] \in Rows
    BY <2>1, <2>2
  <2>4. QED
    BY <2>3 DEF Rows
<1>3. ASSUME UNCHANGED <<active_profile, target, confirmed, named, erased>> PROVE WhoOK'
  BY <1>1, <1>3 DEF WhoOK
<1>4. ASSUME \/ NoKey \/ next \/ prev \/ Quit \/ InstallKey \/ OpenUninstall \/ ArmUninstall
             \/ LeaveUninstall \/ MoveCursor \/ CancelModal \/ StartEnroll \/ IdentifyKey
             \/ TypePassword \/ RetypePassword \/ PamKey \/ SuspendKey \/ Over \/ UNCHANGED vars \/ Deploy
             \/ CopyModels \/ DoUninstall \/ DoctorKey \/ SaveCameras \/ CalibrateKey
             \/ SealPassword \/ Others
      PROVE  WhoOK'
  <2>1. UNCHANGED <<active_profile, target, confirmed, named, erased>>
    BY <1>4 DEF NoKey, next, prev, Quit, InstallKey, OpenUninstall, ArmUninstall, LeaveUninstall,
                MoveCursor, CancelModal, StartEnroll, IdentifyKey, TypePassword, RetypePassword, PamKey,
                SuspendKey, Over, vars, Deploy, CopyModels, DoUninstall, DoctorKey, SaveCameras,
                CalibrateKey, SealPassword, Others, others1, hist
  <2>2. QED
    BY <1>3, <2>1
<1>5. ASSUME SetActive \/ NewProfile \/ OpenModal PROVE WhoOK'
  <2>1. UNCHANGED <<confirmed, named, erased>>
    BY <1>5 DEF SetActive, NewProfile, OpenModal, hist
  <2>2. active_profile' \in Users
    BY <1>1, <1>2, <1>5 DEF SetActive, NewProfile, OpenModal, WhoOK
  <2>3. target' \in Users
    BY <1>1, <1>2, <1>5 DEF SetActive, NewProfile, OpenModal, WhoOK
  <2>4. QED
    BY <1>1, <2>1, <2>2, <2>3 DEF WhoOK
<1>6. ASSUME SetName PROVE WhoOK'
  <2>1. UNCHANGED <<active_profile, target, confirmed, erased>>
    BY <1>6 DEF SetName
  <2>2. \/ named' = named
        \/ profiles # << >> /\ named' = named \cup {<<profiles[cursor].user, target>>}
    BY <1>6 DEF SetName
  <2>3. QED
    BY <1>1, <1>2, <2>1, <2>2 DEF WhoOK
<1>7. ASSUME ConfirmDelete PROVE WhoOK'
  <2>1. UNCHANGED <<target, confirmed, named>>
    BY <1>7 DEF ConfirmDelete, Delete
  <2>2. erased' = erased \/ erased' = erased \cup {<<target, target>>}
    BY <1>7 DEF ConfirmDelete, Delete
  <2>3. active_profile' \in {active_profile, Login}
    BY <1>7 DEF ConfirmDelete, Delete
  <2>4. QED
    BY <1>1, <2>1, <2>2, <2>3 DEF WhoOK
<1>8. ASSUME EnterPassword PROVE WhoOK'
  BY <1>1, <1>8 DEF EnterPassword, WhoOK
<1>9. QED
  BY <1>4, <1>5, <1>6, <1>7, <1>8 DEF Next

LEMMA EnrollKey == ASSUME TypeInv, [Next]_vars PROVE tick \/ (EnrollOK' /\ Counting')
<1>1. EnrollOK /\ Counting
  BY DEF TypeInv, TypeOK
<1>2. ASSUME \/ NoKey \/ next \/ prev \/ Quit \/ InstallKey \/ OpenUninstall \/ ArmUninstall
             \/ LeaveUninstall \/ MoveCursor \/ SetActive \/ OpenModal \/ CancelModal \/ SetName
             \/ NewProfile \/ ConfirmDelete \/ IdentifyKey \/ TypePassword \/ EnterPassword \/ RetypePassword
             \/ PamKey \/ SuspendKey \/ Over \/ UNCHANGED vars \/ Deploy \/ CopyModels
             \/ DoUninstall \/ DoctorKey \/ SaveCameras \/ CalibrateKey \/ SealPassword \/ Others
      PROVE  EnrollOK' /\ Counting'
  <2>1. UNCHANGED <<enroll, frames, stored>>
    BY <1>2 DEF NoKey, next, prev, Quit, InstallKey, OpenUninstall, ArmUninstall, LeaveUninstall,
                MoveCursor, SetActive, OpenModal, CancelModal, SetName, NewProfile, ConfirmDelete,
                Delete, IdentifyKey, TypePassword, EnterPassword, RetypePassword, PamKey, SuspendKey, Over, vars,
                Deploy, CopyModels, DoUninstall, DoctorKey, SaveCameras, CalibrateKey,
                SealPassword, Others, others1, hist, steps
  <2>2. QED
    BY <1>1, <2>1 DEF EnrollOK, Counting
<1>3. ASSUME StartEnroll PROVE EnrollOK' /\ Counting'
  <2>1. enroll' = Framing(0, 0) /\ frames' = 0 /\ stored' = 0
    BY <1>3 DEF StartEnroll
  <2>2. /\ 0 \in 0 .. EnrollTarget - 1 /\ 0 \in 0 .. EnrollStreak + CountdownFrom
        /\ 0 \in Nat /\ 0 \in 0 .. EnrollTarget /\ 0 <= EnrollStreak
    BY Targets
  <2>3. QED
    BY <2>1, <2>2, EnrollTyped, Zenon
<1>4. QED
  BY <1>2, <1>3 DEF Next

LEMMA ViewKey == ASSUME TypeInv, [Next]_vars PROVE tick \/ ViewOK'
<1>1. HostOK /\ ViewOK
  BY DEF TypeInv, TypeOK
<1>2. /\ screen \in Screens /\ turn \in {"key", "tick", "last", "over"} /\ install \in Installs
      /\ report \in {"none", "ok", "fail"} /\ cameras_saved \in BOOLEAN
      /\ modal \in {"none", "name", "new", "delete"}
  BY <1>1 DEF ViewOK, Screens, Installs
<1>3. ASSUME tick \/ turn' \in {"key", "tick", "last", "over"},
             screen' \in Screens, install' \in Installs, report' \in {"none", "ok", "fail"},
             cameras_saved' \in BOOLEAN, modal' \in {"none", "name", "new", "delete"}
      PROVE  tick \/ ViewOK'
  BY <1>3 DEF ViewOK, Screens, Installs
<1>4. tick \/ turn' \in {"key", "tick", "last", "over"}
  <2>1. tick \/ turn' = turn \/ turn' \in {"tick", "last"}
    BY DEF Next, vars, NoKey, next, prev, Quit, Deploy, InstallKey, CopyModels, OpenUninstall,
           ArmUninstall, DoUninstall, LeaveUninstall, DoctorKey, SaveCameras, MoveCursor,
           SetActive, OpenModal, CancelModal, SetName, NewProfile, ConfirmDelete, Delete,
           StartEnroll, CalibrateKey, IdentifyKey, TypePassword, EnterPassword, SealPassword, RetypePassword,
           PamKey, SuspendKey, Others, Over, On, Act, AtKey
  <2>2. QED
    BY <1>2, <2>1
<1>5. ASSUME \/ NoKey \/ Quit \/ InstallKey \/ ArmUninstall \/ MoveCursor \/ SetActive
             \/ StartEnroll \/ IdentifyKey \/ TypePassword \/ EnterPassword \/ RetypePassword \/ SuspendKey
             \/ Over \/ UNCHANGED vars \/ CalibrateKey \/ Others
      PROVE  tick \/ ViewOK'
  <2>1. UNCHANGED <<screen, install, report, cameras_saved, modal>>
    BY <1>5 DEF NoKey, Quit, InstallKey, ArmUninstall, MoveCursor, SetActive, StartEnroll,
                IdentifyKey, TypePassword, EnterPassword, RetypePassword, SuspendKey, Over, vars, CalibrateKey,
                Others, others1, inner, lists
  <2>2. QED
    BY <1>2, <1>3, <1>4, <2>1
<1>6. ASSUME next \/ prev \/ LeaveUninstall PROVE tick \/ ViewOK'
  <2>1. cameras_saved' = cameras_saved
    BY <1>6 DEF next, prev, LeaveUninstall
  <2>2. QED
    BY <1>2, <1>3, <1>4, <1>6, <2>1, MoveType DEF Entered
<1>7. ASSUME \/ OpenModal \/ CancelModal \/ SetName \/ NewProfile \/ ConfirmDelete
             \/ OpenUninstall \/ SaveCameras \/ DoctorKey
      PROVE  tick \/ ViewOK'
  <2>1. install' = install
    BY <1>7 DEF OpenModal, CancelModal, SetName, NewProfile, ConfirmDelete, Delete, OpenUninstall,
                SaveCameras, DoctorKey, inner, lists
  <2>2. screen' \in Screens
    BY <1>2, <1>7 DEF OpenModal, CancelModal, SetName, NewProfile, ConfirmDelete, Delete,
                      OpenUninstall, SaveCameras, DoctorKey, others1, Screens
  <2>3. report' \in {"none", "ok", "fail"}
    BY <1>1, <1>2, <1>7 DEF OpenModal, CancelModal, SetName, NewProfile, ConfirmDelete, Delete,
                      OpenUninstall, SaveCameras, DoctorKey, inner, lists, HostOK
  <2>4. cameras_saved' \in BOOLEAN
    BY <1>2, <1>7 DEF OpenModal, CancelModal, SetName, NewProfile, ConfirmDelete, Delete,
                      OpenUninstall, SaveCameras, DoctorKey, others1
  <2>5. modal' \in {"none", "name", "new", "delete"}
    BY <1>2, <1>7 DEF OpenModal, CancelModal, SetName, NewProfile, ConfirmDelete, Delete,
                      OpenUninstall, SaveCameras, DoctorKey, others1
  <2>6. QED
    BY <1>2, <1>3, <1>4, <2>1, <2>2, <2>3, <2>4, <2>5
<1>8. ASSUME Deploy \/ CopyModels \/ DoUninstall \/ SealPassword \/ PamKey PROVE tick \/ ViewOK'
  <2>1. UNCHANGED <<screen, report, cameras_saved, modal>>
    BY <1>8 DEF Deploy, CopyModels, DoUninstall, SealPassword, PamKey, others1
  <2>2. detect \in Installs
    BY <1>1, DetectType
  <2>3. install' \in Installs
    <3>1. CASE SealPassword \/ PamKey
      BY <1>2, <2>2, <3>1 DEF SealPassword, PamKey
    <3>2. CASE Deploy \/ CopyModels \/ DoUninstall
      <4>1. host'.models \in BOOLEAN
        <5>1. HostOK' \/ tick
          BY HostKey
        <5>2. ~tick
          BY <3>2 DEF Deploy, CopyModels, DoUninstall, tick, On, Act, AtKey
        <5>3. QED
          BY <5>1, <5>2 DEF HostOK
      <4>2. CASE install' = install
        BY <1>2, <4>2
      <4>3. CASE \E up \in BOOLEAN :
                   install' = [detect EXCEPT !.installed = TRUE, !.daemon = up,
                                             !.models = host'.models]
        BY <2>2, <4>1, <4>3 DEF Installs
      <4>4. CASE install' = [detect EXCEPT !.models = TRUE]
        BY <2>2, <4>4 DEF Installs
      <4>5. CASE install' = [installed |-> FALSE, daemon |-> FALSE, models |-> host'.models,
                             enrolled |-> {}]
        BY <4>1, <4>5 DEF Installs
      <4>6. QED
        BY <3>2, <4>2, <4>3, <4>4, <4>5 DEF Deploy, CopyModels, DoUninstall
    <3>3. QED
      BY <1>8, <3>1, <3>2
  <2>4. QED
    BY <1>2, <1>3, <1>4, <2>1, <2>3
<1>9. QED
  BY <1>5, <1>6, <1>7, <1>8 DEF Next

Cals == [st : {"idle", "sampling", "review", "notEnough", "saved"},
         scores : 0 .. CalTarget - 1, attempts : 0 .. CalMaxAttempts - 1]

LEMMA StepsKey == ASSUME TypeInv, [Next]_vars PROVE tick \/ StepsOK'
<1>1. /\ cal \in Cals /\ identify \in {"idle", "running", "done", "failed"}
      /\ password \in {"entry", "typed", "confirm", "sealed", "failed"}
      /\ uninstall \in {"idle", "confirm", "done", "failed"}
      /\ install_step \in {"idle", "path", "done", "failed"}
      /\ pending \subseteq {"platform", "fingerprint", "recovery"}
      /\ keys \in 0 .. MaxKeys /\ others \in 0 .. MaxOthers
  BY DEF TypeInv, TypeOK, StepsOK, Cals
<1>2. tick \/ (keys' \in 0 .. MaxKeys /\ others' \in 0 .. MaxOthers)
  <2>1. \/ tick \/ UNCHANGED <<keys, others>>
        \/ keys < MaxKeys /\ keys' = keys + 1 /\ others' = others
        \/ others < MaxOthers /\ others' = others + 1 /\ keys' = keys
    BY DEF Next, vars, NoKey, next, prev, Quit, Deploy, InstallKey, CopyModels, OpenUninstall,
           ArmUninstall, DoUninstall, LeaveUninstall, DoctorKey, SaveCameras, MoveCursor,
           SetActive, OpenModal, CancelModal, SetName, NewProfile, ConfirmDelete, Delete,
           StartEnroll, CalibrateKey, IdentifyKey, TypePassword, EnterPassword, SealPassword, RetypePassword,
           PamKey, SuspendKey, Others, Over, On, Act
  <2>2. QED
    BY <1>1, <2>1, Targets
<1>3. tick \/ cal' \in Cals
  <2>1. tick \/ cal' = cal \/ cal' = Sampling(0, 0) \/ cal' = CalIs("saved")
    BY DEF Next, vars, NoKey, next, prev, Quit, Deploy, InstallKey, CopyModels, OpenUninstall,
           ArmUninstall, DoUninstall, LeaveUninstall, DoctorKey, SaveCameras, MoveCursor,
           SetActive, OpenModal, CancelModal, SetName, NewProfile, ConfirmDelete, Delete,
           StartEnroll, CalibrateKey, IdentifyKey, TypePassword, EnterPassword, SealPassword, RetypePassword,
           PamKey, SuspendKey, Others, Over, steps
  <2>2. Sampling(0, 0) \in Cals /\ CalIs("saved") \in Cals
    BY Targets DEF Sampling, CalIs, Cals
  <2>3. QED
    BY <1>1, <2>1, <2>2
<1>4. tick \/ /\ identify' \in {"idle", "running", "done", "failed"}
              /\ uninstall' \in {"idle", "confirm", "done", "failed"}
              /\ install_step' \in {"idle", "path", "done", "failed"}
  <2>1. /\ tick \/ identify' = identify \/ identify' = "running"
        /\ tick \/ uninstall' = uninstall \/ uninstall' \in {"idle", "confirm", "done", "failed"}
        /\ tick \/ install_step' = install_step \/ install_step' \in {"idle", "path", "done", "failed"}
    BY DEF Next, vars, NoKey, next, prev, Quit, Deploy, InstallKey, CopyModels, OpenUninstall,
           ArmUninstall, DoUninstall, LeaveUninstall, DoctorKey, SaveCameras, MoveCursor,
           SetActive, OpenModal, CancelModal, SetName, NewProfile, ConfirmDelete, Delete,
           StartEnroll, CalibrateKey, IdentifyKey, TypePassword, EnterPassword, SealPassword, RetypePassword,
           PamKey, SuspendKey, Others, Over, steps
  <2>2. QED
    BY <1>1, <2>1
<1>5. tick \/ pending' \subseteq {"platform", "fingerprint", "recovery"}
  <2>1. \/ tick \/ pending' = pending
        \/ \E p \in {"platform", "fingerprint", "recovery"} : pending' = pending \cup {p}
    BY DEF Next, vars, NoKey, next, prev, Quit, Deploy, InstallKey, CopyModels, OpenUninstall,
           ArmUninstall, DoUninstall, LeaveUninstall, DoctorKey, SaveCameras, MoveCursor,
           SetActive, OpenModal, CancelModal, SetName, NewProfile, ConfirmDelete, Delete,
           StartEnroll, CalibrateKey, IdentifyKey, TypePassword, EnterPassword, SealPassword, RetypePassword,
           PamKey, SuspendKey, Others, Over, others1
  <2>2. QED
    BY <1>1, <2>1
<1>6. tick \/ password' \in {"entry", "typed", "confirm", "sealed", "failed"}
  <2>1. \/ tick \/ next \/ prev \/ LeaveUninstall \/ password' = password
        \/ password' \in {"entry", "typed", "confirm", "sealed", "failed"}
    BY DEF Next, vars, NoKey, Quit, Deploy, InstallKey, CopyModels, OpenUninstall,
           ArmUninstall, DoUninstall, DoctorKey, SaveCameras, MoveCursor,
           SetActive, OpenModal, CancelModal, SetName, NewProfile, ConfirmDelete, Delete,
           StartEnroll, CalibrateKey, IdentifyKey, TypePassword, EnterPassword, SealPassword, RetypePassword,
           PamKey, SuspendKey, Others, Over, steps
  <2>2. QED
    BY <1>1, <2>1, MoveType DEF Entered
<1>7. QED
  BY <1>2, <1>3, <1>4, <1>5, <1>6 DEF StepsOK, Cals

LEMMA TypeNext == TypeInv /\ [Next]_vars => TypeInv'
<1> SUFFICES ASSUME TypeInv, [Next]_vars PROVE TypeInv'
  OBVIOUS
<1>1. CASE tick
  BY <1>1, TypeTick
<1>2. CASE ~tick
  BY <1>2, HostKey, ViewKey, ListKey, WhoKey, EnrollKey, StepsKey DEF TypeInv, TypeOK
<1>3. QED
  BY <1>1, <1>2

\* Every variable of the wizard keeps its type, on every machine, for every set
\* of profiles and every number of samples: whatever other sessions do to the
\* list, the cursor stays on a row of it, so an edit, a deletion and `set
\* active` always find the profile they act on (profiles_key, refresh_profiles);
\* the active profile, the one a question names and every row listed are
\* profiles; next and prev reach a screen of the order; and no counter of an
\* enrollment or a calibration passes its target (tick_enroll, tick_calibrate).
THEOREM TypeCorrect == Spec => []TypeOK
<1>1. TypeInv => TypeOK
  BY DEF TypeInv
<1>2. QED
  BY TypeInit, TypeNext, <1>1, PTL DEF Spec

-----------------------------------------------------------------------------
(* Why sampling ends.                                                       *)

\* While calibration samples, no step but a tick on its screen changes it, and
\* such a tick counts an attempt or ends it; one tick ends an identification.
SamplingStep ==
    /\ cal.st = "sampling" =>
         /\ cal' = cal \/ (tick /\ screen = "Calibrate")
         /\ tick /\ screen = "Calibrate" =>
              \/ cal'.st # "sampling"
              \/ cal'.attempts = cal.attempts + 1 /\ cal'.attempts < CalMaxAttempts
    /\ identify = "running" =>
         /\ identify' = identify \/ (tick /\ screen = "Identify")
         /\ tick /\ screen = "Identify" => identify' # "running"

LEMMA SamplingNext == TypeInv /\ Next => SamplingStep
<1> SUFFICES ASSUME TypeInv, Next PROVE SamplingStep
  OBVIOUS
<1>1. CASE ~tick
  <2>1. cal.st = "sampling" => cal' = cal
    BY <1>1 DEF Next, vars, NoKey, next, prev, Quit, Deploy, InstallKey, CopyModels,
       OpenUninstall, ArmUninstall, DoUninstall, LeaveUninstall, DoctorKey, SaveCameras,
       MoveCursor, SetActive, OpenModal, CancelModal, SetName, NewProfile, ConfirmDelete, Delete,
       StartEnroll, CalibrateKey, IdentifyKey, TypePassword, EnterPassword, SealPassword, RetypePassword,
       PamKey, SuspendKey, Others, Over, steps
  <2>2. identify = "running" => identify' = identify
    BY <1>1 DEF Next, vars, NoKey, next, prev, Quit, Deploy, InstallKey, CopyModels,
       OpenUninstall, ArmUninstall, DoUninstall, LeaveUninstall, DoctorKey, SaveCameras,
       MoveCursor, SetActive, OpenModal, CancelModal, SetName, NewProfile, ConfirmDelete, Delete,
       StartEnroll, CalibrateKey, IdentifyKey, TypePassword, EnterPassword, SealPassword, RetypePassword,
       PamKey, SuspendKey, Others, Over, steps
  <2>3. QED
    BY <1>1, <2>1, <2>2 DEF SamplingStep
<1>2. CASE tick
  <2>1. cal' = cal \/ screen = "Calibrate"
    BY <1>2 DEF tick
  <2>2. ASSUME screen = "Calibrate", cal.st = "sampling"
        PROVE  \/ cal'.st # "sampling"
               \/ cal'.attempts = cal.attempts + 1 /\ cal'.attempts < CalMaxAttempts
    <3>1. PICK hit \in BOOLEAN : cal' = CalStep(hit)
      BY <1>2, <2>2 DEF tick, tick_calibrate
    <3>2. QED
      BY <3>1, Targets DEF CalStep, Sampling, CalIs
  <2>3. identify' = identify \/ screen = "Identify"
    BY <1>2 DEF tick
  <2>4. screen = "Identify" /\ identify = "running" => identify' # "running"
    BY <1>2 DEF tick, tick_identify
  <2>5. QED
    BY <1>2, <2>1, <2>2, <2>3, <2>4 DEF SamplingStep
<1>3. QED
  BY <1>1, <1>2

\* The safety half of SamplingEnds, with the measure it descends by: on its
\* screen every tick brings calibration one attempt nearer to CalMaxAttempts,
\* with the daemon answering or not, and no key or other session takes an
\* attempt back; an identification takes one tick (tick_calibrate,
\* tick_identify, CAL_MAX_ATTEMPTS).
THEOREM SamplingAdvances == Spec => [][SamplingStep]_vars
<1>1. TypeInv /\ [Next]_vars => [SamplingStep]_vars
  BY SamplingNext
<1>2. QED
  BY <1>1, TypeInit, TypeNext, PTL DEF Spec
=============================================================================

-------------------------- MODULE InstallerProofs --------------------------
(***************************************************************************)
(* Proofs about Installer, for every set of versions and whatever number   *)
(* of commands, failures and steps of others.                              *)
(***************************************************************************)
EXTENDS Installer, FiniteSetTheorems, WellFoundedInduction, TLAPS

USE DEF Start, Goto, End, At, Abort, tree, system, stacks, files, ctl, bounds, rest, rest2,
        pamOnly, scrubOnly

-----------------------------------------------------------------------------
(* Only releases of the trusted key are built.                              *)

\* The tag that was verified stays the one that is checked out, and what is
\* checked out stays until it is built.
TrustInv ==
    /\ trustedOnly
    /\ pc \in {"compare", "checkout"} => tags[tag].by = "trusted"
    /\ pc = "build" => head.by = "trusted"

LEMMA TrustNext == TrustInv /\ [Next]_vars => TrustInv'
<1> SUFFICES ASSUME TrustInv, [Next]_vars PROVE TrustInv'
  OBVIOUS
<1> USE DEF TrustInv
<1>1. ASSUME update \/ Fetch \/ Latest \/ Verify \/ Compare \/ Checkout \/ Build PROVE TrustInv'
  BY <1>1 DEF update, Fetch, Latest, Verify, Compare, Checkout, Build
<1>2. ASSUME InstallPackage \/ Rewire \/ Repo \/ Repo2 \/ Dnf PROVE TrustInv'
  BY <1>2 DEF InstallPackage, Rewire, Repo, Repo2, Dnf
<1>3. ASSUME deploy \/ MakeInstall \/ InstallModule \/ EnableDaemon PROVE TrustInv'
  BY <1>3 DEF deploy, MakeInstall, InstallModule, EnableDaemon
<1>4. ASSUME \/ fetch_models \/ Download \/ copy_models_from \/ OpenModel \/ WriteModel
             \/ CopiedModels \/ fetch_onnx \/ Library
      PROVE  TrustInv'
  BY <1>4 DEF fetch_models, Download, copy_models_from, OpenModel, WriteModel, CopiedModels,
              fetch_onnx, Library
<1>5. ASSUME \/ uninstall \/ Unwire \/ UnwireFails \/ (\E s \in Stacks : Scrub(s)) \/ Fill
             \/ Scrubbed
      PROVE  TrustInv'
  BY <1>5 DEF uninstall, Unwire, UnwireFails, Scrub, Fill, Scrubbed
<1>6. ASSUME StopDaemon \/ RemovePackage \/ Sweep \/ RemoveData PROVE TrustInv'
  BY <1>6 DEF StopDaemon, RemovePackage, Sweep, RemoveData, Logged
<1>7. ASSUME Fails \/ News \/ UNCHANGED vars PROVE TrustInv'
  BY <1>7 DEF Fails, News, vars
<1>8. QED
  BY <1>1, <1>2, <1>3, <1>4, <1>5, <1>6, <1>7 DEF Next

\* update never builds a release whose tag the pinned key did not sign, for any
\* tags that appear or move between its steps and for any retries.
THEOREM Trusted == Spec => []BuildsTrustedOnly
<1>1. Init => TrustInv
  BY DEF Init, TrustInv
<1>2. TrustInv => BuildsTrustedOnly
  BY DEF TrustInv, BuildsTrustedOnly
<1>3. QED
  BY <1>1, <1>2, TrustNext, PTL DEF Spec

-----------------------------------------------------------------------------
(* No stack names a module that is gone.                                    *)

Removing == {"stop", "remove", "sweep", "data"}

\* Scrubbing has the stacks that still name the module in its list; whoever is
\* about to wire one has just installed the module.
ModuleInv ==
    /\ ModuleKept
    /\ pc \in {"scrub", "fill"} => wired \subseteq missed \cup work
    /\ pc \in Removing => wired \subseteq missed
    /\ pc \in {"enable", "rewire"} => so # {}

LEMMA ModuleNext == ModuleInv /\ [Next]_vars => ModuleInv'
<1> SUFFICES ASSUME ModuleInv, [Next]_vars PROVE ModuleInv'
  OBVIOUS
<1> USE DEF ModuleInv, ModuleKept, Removing
<1>1. ASSUME update \/ Fetch \/ Latest \/ Verify \/ Compare \/ Checkout \/ Build PROVE ModuleInv'
  BY <1>1 DEF update, Fetch, Latest, Verify, Compare, Checkout, Build
<1>2. ASSUME InstallPackage \/ Rewire \/ Repo \/ Repo2 \/ Dnf PROVE ModuleInv'
  BY <1>2 DEF InstallPackage, Rewire, Repo, Repo2, Dnf
<1>3. ASSUME deploy \/ MakeInstall \/ InstallModule \/ EnableDaemon PROVE ModuleInv'
  BY <1>3 DEF deploy, MakeInstall, InstallModule, EnableDaemon
<1>4. ASSUME \/ fetch_models \/ Download \/ copy_models_from \/ OpenModel \/ WriteModel
             \/ CopiedModels \/ fetch_onnx \/ Library
      PROVE  ModuleInv'
  BY <1>4 DEF fetch_models, Download, copy_models_from, OpenModel, WriteModel, CopiedModels,
              fetch_onnx, Library
<1>5. ASSUME \/ uninstall \/ Unwire \/ UnwireFails \/ (\E s \in Stacks : Scrub(s)) \/ Fill
             \/ Scrubbed
      PROVE  ModuleInv'
  BY <1>5 DEF uninstall, Unwire, UnwireFails, Scrub, Fill, Scrubbed
<1>6. ASSUME StopDaemon \/ RemovePackage \/ Sweep \/ RemoveData PROVE ModuleInv'
  BY <1>6 DEF StopDaemon, RemovePackage, Sweep, RemoveData, Logged
<1>7. ASSUME Fails \/ News \/ UNCHANGED vars PROVE ModuleInv'
  BY <1>7 DEF Fails, News, vars
<1>8. QED
  BY <1>1, <1>2, <1>3, <1>4, <1>5, <1>6, <1>7 DEF Next

\* However often an uninstall fails, is cut short and retried between updates,
\* no login stack is left naming a module that was removed, except one that
\* scrub_pam_references could not rewrite.
THEOREM ModuleOutlivesStacks == Spec => []ModuleKept
<1>1. Init => ModuleInv
  BY DEF Init, ModuleInv, ModuleKept, Removing
<1>2. ModuleInv => ModuleKept
  BY DEF ModuleInv
<1>3. QED
  BY <1>1, <1>2, ModuleNext, PTL DEF Spec

-----------------------------------------------------------------------------
(* An uninstall in which nothing failed erases.                             *)

\* What each step of an uninstall without a logged error has left behind; the
\* outcome is set only when no command runs.
Erased(p) ==
    /\ p \in {"scrub", "fill"} => wired \subseteq work
    /\ p \in Removing => wired = {}
    /\ p \in {"remove", "sweep", "data"} => daemon = None
    /\ p \in {"sweep", "data"} => db = None
    /\ p = "data" => local = None /\ usr = None /\ so \subseteq {"multiarch"}

EraseInv ==
    /\ so \subseteq {"security", "multiarch"}
    /\ cmd # "idle" => outcome = "none"
    /\ cmd = "idle" => pc = "idle"
    /\ ~erred => Erased(pc)
    /\ UninstallErases

LEMMA EraseNext == EraseInv /\ [Next]_vars => EraseInv'
<1> SUFFICES ASSUME EraseInv, [Next]_vars PROVE EraseInv'
  OBVIOUS
<1> USE DEF EraseInv, Erased, UninstallErases, Removing
<1>1. ASSUME update \/ Fetch \/ Latest \/ Verify \/ Compare \/ Checkout \/ Build PROVE EraseInv'
  BY <1>1 DEF update, Fetch, Latest, Verify, Compare, Checkout, Build
<1>2. ASSUME InstallPackage \/ Rewire \/ Repo \/ Repo2 \/ Dnf PROVE EraseInv'
  BY <1>2 DEF InstallPackage, Here, Rewire, Repo, Repo2, Dnf
<1>3. ASSUME deploy \/ MakeInstall \/ InstallModule \/ EnableDaemon PROVE EraseInv'
  BY <1>3 DEF deploy, MakeInstall, InstallModule, EnableDaemon, Here
<1>4. ASSUME \/ fetch_models \/ Download \/ copy_models_from \/ OpenModel \/ WriteModel
             \/ CopiedModels \/ fetch_onnx \/ Library
      PROVE  EraseInv'
  BY <1>4 DEF fetch_models, Download, copy_models_from, OpenModel, WriteModel, CopiedModels,
              fetch_onnx, Library
<1>5. ASSUME \/ uninstall \/ Unwire \/ UnwireFails \/ (\E s \in Stacks : Scrub(s)) \/ Fill
             \/ Scrubbed
      PROVE  EraseInv'
  BY <1>5 DEF uninstall, Unwire, UnwireFails, Scrub, Fill, Scrubbed
<1>6. ASSUME StopDaemon \/ RemovePackage \/ Sweep \/ RemoveData PROVE EraseInv'
  <2>1. CASE StopDaemon
    BY <2>1 DEF StopDaemon, Logged
  <2>2. CASE RemovePackage
    BY <2>2 DEF RemovePackage, Logged, Here
  <2>3. CASE Sweep
    BY <2>3 DEF Sweep, Logged
  <2>4. CASE RemoveData
    BY <2>4 DEF RemoveData
  <2>5. QED
    BY <1>6, <2>1, <2>2, <2>3, <2>4
<1>7. ASSUME Fails \/ News \/ UNCHANGED vars PROVE EraseInv'
  <2>1. CASE Fails
    BY <2>1 DEF Fails
  <2>2. CASE News
    <3>1. /\ UNCHANGED <<local, usr, db, so, wired, models, data, cmd, pc, outcome, work, keep,
                         erred>>
          /\ daemon = None => daemon' = None
      BY <2>2 DEF News
    <3>2. outcome = "uninstalled" /\ ~erred => daemon = None
      OBVIOUS
    <3>3. QED
      BY <3>1, <3>2
  <2>3. CASE UNCHANGED vars
    BY <2>3 DEF vars
  <2>4. QED
    BY <1>7, <2>1, <2>2, <2>3
<1>8. QED
  BY <1>1, <1>2, <1>3, <1>4, <1>5, <1>6, <1>7 DEF Next

\* An uninstall in which nothing failed has removed programs, package record,
\* wiring, faces and keys, whatever the commands before it had left half done.
THEOREM Erases == Spec => []UninstallErases
<1>1. Init => EraseInv
  BY DEF Init, EraseInv, Erased, UninstallErases, Removing, Here
<1>2. EraseInv => UninstallErases
  BY DEF EraseInv
<1>3. QED
  BY <1>1, <1>2, EraseNext, PTL DEF Spec

-----------------------------------------------------------------------------
(* An update that reports success installed what it verified.               *)

\* the steps of an update from a tag, and those after the tag was chosen
FromTag == {"fetch", "latest", "verify", "compare", "checkout", "build", "package", "rewire"}
Chosen  == {"verify", "compare", "checkout", "build", "package", "rewire", "make", "module",
            "enable"}
Tags    == [Versions -> Releases \cup {None}]

\* Which commands and ways to install reach which steps.
Route ==
    /\ cmd # "idle" => outcome = "none"
    /\ cmd = "idle" => pc = "idle"
    /\ pc \in {"repo", "repo2", "dnf"} => format = "copr"
    /\ pc \in FromTag => cmd = "update" /\ format # "copr"
    /\ cmd = "update" /\ pc \in {"make", "module", "enable"} => format = "source"
    /\ pc = "package" => format # "source"

\* There is a tag to choose, and the one chosen is a release.
Tagged ==
    /\ remote \in Tags /\ tags \in Tags
    /\ \E v \in Versions : remote[v] # None
    /\ pc = "latest" => \E v \in Versions : tags[v] # None
    /\ cmd = "update" /\ pc \in Chosen => tag \in Versions /\ tags[tag] \in Releases

\* What each step of an update has made of the tag.  A Debian build directory
\* may hold older packages too.
Carried ==
    /\ pc = "build" => head = tags[tag]
    /\ cmd = "update" /\ pc = "make" => target = tags[tag]
    /\ cmd = "update" /\ pc \in {"module", "enable"} => local = tags[tag]
    /\ pc \in {"package", "rewire"} /\ format # "source" =>
         IF format = "deb" THEN tags[tag] \in built ELSE built = {tags[tag]}
    /\ pc = "rewire" /\ format = "source" => local = tags[tag]
    /\ pc = "rewire" /\ format # "source" => usr = Last(built) /\ db = usr

UpdateInv == Route /\ Tagged /\ Carried /\ UpdatedIsTag

\* A finite set of naturals that is not empty has a greatest element, and Max
\* is that element.
LEMMA MaxIn ==
    ASSUME NEW T, T \subseteq Nat, IsFiniteSet(T), T # {}
    PROVE  Max(T) \in T /\ \A y \in T : Max(T) >= y
<1> DEFINE Above(t) == {y \in T : y > t}
           F == {Above(t) : t \in T}
<1>1. IsWellFoundedOn(StrictSubsetOrdering(T), SUBSET T)
  BY FS_StrictSubsetOrderingWellFounded, FS_FiniteSubsetsOfFinite
<1>2. F \subseteq SUBSET T /\ F # {}
  OBVIOUS
<1>3. PICK x \in F : \A y \in F : ~(<<y, x>> \in StrictSubsetOrdering(T))
  <2> DEFINE R == StrictSubsetOrdering(T)
             S == SUBSET T
  <2>1. IsWellFoundedOn(R, S) /\ F \subseteq S /\ F # {}
    BY <1>1, <1>2
  <2> HIDE DEF F, R, S
  <2>2. \E x \in F : \A y \in F : ~(<<y, x>> \in R)
    BY <2>1, WFMin, Zenon
  <2>3. QED
    BY <2>2 DEF R
<1>4. PICK m \in T : x = Above(m)
  BY <1>3
<1>5. ASSUME NEW y \in T, y > m PROVE FALSE
  <2>1. Above(y) \in F
    OBVIOUS
  <2>2. Above(y) \subseteq Above(m) /\ y \in Above(m) /\ y \notin Above(y)
    <3>1. y \in Nat /\ m \in Nat /\ ~(y > y)
      OBVIOUS
    <3>2. \A z \in T : z > y => z > m
      BY <1>5, <3>1
    <3>3. QED
      BY <1>5, <3>1, <3>2
  <2>3. <<Above(y), Above(m)>> \in StrictSubsetOrdering(T)
    BY <2>2 DEF StrictSubsetOrdering
  <2>4. QED
    BY <1>3, <1>4, <2>1, <2>3
<1>6. \A y \in T : m >= y
  BY <1>5
<1>7. QED
  BY <1>4, <1>6 DEF Max

\* The one package in an emptied build directory is the last one.
LEMMA LastOne ==
    ASSUME NEW r \in Releases
    PROVE  Last({r}) = r
<1>1. r.v \in Nat
  BY InstallerAssumption DEF Releases
<1>2. \E x \in {r} : \A q \in {r} :
        IF (q.v < 10) = (x.v < 10) THEN q.v <= x.v ELSE x.v < 10
  BY <1>1
<1>3. QED
  BY <1>2 DEF Last

\* An element of a set with one element is all of it.
LEMMA OnlyOne ==
    ASSUME NEW S, NEW x \in S, Cardinality(S) = 1, IsFiniteSet(S)
    PROVE  S = {x}
<1>1. IsFiniteSet(S \ {x}) /\ Cardinality(S \ {x}) = Cardinality(S) - 1
  BY FS_RemoveElement
<1>2. S \ {x} = {}
  BY <1>1, FS_EmptySet
<1>3. QED
  BY <1>2

LEMMA NoneIsNoRelease == None \notin Releases
BY DEF None, Releases, Signers

\* latest_release_tag finds a release where there is one.
LEMMA LatestIn ==
    ASSUME Tagged, pc = "latest"
    PROVE  latest_release_tag \in Versions /\ tags[latest_release_tag] \in Releases
<1> DEFINE T == {v \in Versions : tags[v] # None}
<1>1. T \subseteq Nat /\ T # {}
  BY InstallerAssumption DEF Tagged
<1>2. IsFiniteSet(T)
  BY InstallerAssumption, FS_Subset
<1>3. Max(T) \in T
  BY <1>1, <1>2, MaxIn
<1>4. Max(T) \in Versions /\ tags[Max(T)] \in Releases
  <2> HIDE DEF T
  <2>1. Max(T) \in Versions /\ tags[Max(T)] # None
    BY <1>3 DEF T
  <2>2. QED
    BY <2>1 DEF Tagged, Tags
<1>5. QED
  BY <1>4 DEF latest_release_tag

\* The remote repository always has a newest release.
LEMMA NewestRemote ==
    ASSUME Tagged
    PROVE  remote[Max({v \in Versions : remote[v] # None})] \in Releases
<1> DEFINE T == {v \in Versions : remote[v] # None}
<1>1. T \subseteq Nat /\ T # {}
  BY InstallerAssumption DEF Tagged
<1>2. IsFiniteSet(T)
  BY InstallerAssumption, FS_Subset
<1>3. Max(T) \in T
  BY <1>1, <1>2, MaxIn
<1> HIDE DEF T
<1>4. Max(T) \in Versions /\ remote[Max(T)] # None
  BY <1>3 DEF T
<1>5. remote[Max(T)] \in Releases
  BY <1>4 DEF Tagged, Tags
<1>6. QED
  BY <1>5 DEF T

LEMMA UpdateInit == Init => UpdateInv
<1> SUFFICES ASSUME Init PROVE UpdateInv
  OBVIOUS
<1>1. Route
  BY DEF Init, Route, FromTag
<1>2. PICK r \in Versions :
         remote = [v \in Versions |-> IF v = r THEN [v |-> r, by |-> "trusted"] ELSE None]
  BY DEF Init
<1>3. [v |-> r, by |-> "trusted"] \in Releases
  BY DEF Releases, Signers
<1>4. remote \in Tags /\ remote[r] # None
  BY <1>2, <1>3, NoneIsNoRelease DEF Tags
<1>5. Tagged
  BY <1>4 DEF Init, Tagged, Tags, Chosen
<1>6. QED
  BY <1>1, <1>5 DEF Init, UpdateInv, Carried, UpdatedIsTag

\* The build directory holds finitely many packages.
BuiltFinite == IsFiniteSet(built)

LEMMA BuiltNext == BuiltFinite /\ [Next]_vars => BuiltFinite'
<1> SUFFICES ASSUME BuiltFinite, [Next]_vars PROVE BuiltFinite'
  OBVIOUS
<1> USE DEF BuiltFinite
<1>1. IsFiniteSet({head}) /\ IsFiniteSet(built \cup {head})
  BY FS_Singleton, FS_AddElement
<1>2. built' \in {built, {head}, built \cup {head}}
  <2>1. CASE Build
    BY <2>1 DEF Build
  <2>2. CASE \/ update \/ Fetch \/ Latest \/ Verify \/ Compare \/ Checkout \/ InstallPackage
             \/ Rewire \/ Repo \/ Repo2 \/ Dnf \/ deploy \/ MakeInstall \/ InstallModule
             \/ EnableDaemon \/ fetch_models \/ Download \/ copy_models_from \/ OpenModel
             \/ WriteModel \/ CopiedModels \/ fetch_onnx \/ Library
    BY <2>2 DEF update, Fetch, Latest, Verify, Compare, Checkout, InstallPackage, Rewire, Repo,
                Repo2, Dnf, deploy, MakeInstall, InstallModule, EnableDaemon, fetch_models,
                Download, copy_models_from, OpenModel, WriteModel, CopiedModels, fetch_onnx,
                Library
  <2>3. CASE \/ uninstall \/ Unwire \/ UnwireFails \/ (\E s \in Stacks : Scrub(s)) \/ Fill
             \/ Scrubbed \/ StopDaemon \/ RemovePackage \/ Sweep \/ RemoveData
             \/ Fails \/ News \/ UNCHANGED vars
    BY <2>3 DEF uninstall, Unwire, UnwireFails, Scrub, Fill, Scrubbed, StopDaemon,
                RemovePackage, Sweep, RemoveData, Fails, News, vars
  <2>4. QED
    BY <2>1, <2>2, <2>3 DEF Next
<1>3. QED
  BY <1>1, <1>2

LEMMA UpdateNext == UpdateInv /\ BuiltFinite /\ [Next]_vars => UpdateInv'
<1> SUFFICES ASSUME UpdateInv, BuiltFinite, [Next]_vars PROVE UpdateInv'
  OBVIOUS
<1> USE DEF UpdateInv
<1>1. ASSUME update \/ Fetch \/ Latest \/ Verify \/ Compare \/ Checkout \/ Build PROVE UpdateInv'
  <2>1. CASE update \/ Fetch \/ Verify \/ Compare \/ Checkout \/ Build
    <3>1. Route'
      BY <2>1 DEF update, Fetch, Verify, Compare, Checkout, Build, Route, FromTag
    <3>2. Tagged'
      BY <2>1 DEF update, Fetch, Verify, Compare, Checkout, Build, Tagged, Chosen, Route, FromTag
    <3>3. Carried'
      BY <2>1 DEF update, Fetch, Verify, Compare, Checkout, Build, Carried, Route, FromTag
    <3>4. UpdatedIsTag'
      BY <2>1 DEF update, Fetch, Verify, Compare, Checkout, Build, UpdatedIsTag, Route
    <3>5. QED
      BY <3>1, <3>2, <3>3, <3>4
  <2>2. CASE Latest
    <3>1. tag' \in Versions /\ tags'[tag'] \in Releases
      BY <2>2, LatestIn DEF Latest
    <3>2. QED
      BY <2>2, <3>1 DEF Latest, Route, FromTag, Tagged, Chosen, Carried, UpdatedIsTag
  <2>3. QED
    BY <1>1, <2>1, <2>2
<1>2. ASSUME InstallPackage PROVE UpdateInv'
  <2>1. format # "source" /\ format # "copr" /\ cmd = "update"
    BY <1>2 DEF InstallPackage, Route, FromTag
  <2>2. Last(built)' = Last(built)
    BY <1>2 DEF InstallPackage
  <2>3. Carried'
    BY <1>2, <2>1, <2>2 DEF InstallPackage, Carried
  <2>4. Route' /\ Tagged' /\ UpdatedIsTag'
    BY <1>2, <2>1 DEF InstallPackage, Route, FromTag, Tagged, Chosen, UpdatedIsTag
  <2>5. QED
    BY <2>3, <2>4
<1>3. ASSUME Rewire PROVE UpdateInv'
  <2>1. format # "copr" /\ cmd = "update" /\ tags[tag] \in Releases /\ tags[tag] # None
    BY <1>3, NoneIsNoRelease DEF Rewire, Route, FromTag, Tagged, Chosen
  <2>2. UNCHANGED <<format, built, local, usr, db, tag, remote, tags, head, target>>
    BY <1>3 DEF Rewire
  <2>3. format = "source" => local = tags[tag]
    BY <1>3 DEF Rewire, Carried
  <2>4. ASSUME format # "source", format = "deb" => Cardinality(built) = 1
        PROVE  usr = tags[tag] /\ db = usr
    <3>1. built = {tags[tag]}
      <4>1. CASE format = "deb"
        BY <1>3, <2>4, <4>1, OnlyOne DEF Rewire, Carried, BuiltFinite
      <4>2. CASE format # "deb"
        BY <1>3, <2>4, <4>2 DEF Rewire, Carried
      <4>3. QED
        BY <4>1, <4>2
    <3>2. Last(built) = tags[tag]
      BY <2>1, <3>1, LastOne
    <3>3. QED
      BY <1>3, <2>4, <3>2 DEF Rewire, Carried
  <2>5. UpdatedIsTag'
    BY <2>1, <2>2, <2>3, <2>4 DEF UpdatedIsTag, Cli, First
  <2>6. Route' /\ Tagged' /\ Carried'
    BY <1>3, <2>2 DEF Rewire, Route, FromTag, Tagged, Chosen, Carried
  <2>7. QED
    BY <2>5, <2>6
<1>4. ASSUME Repo \/ Repo2 \/ Dnf PROVE UpdateInv'
  <2>1. Route' /\ Tagged' /\ Carried'
    BY <1>4 DEF Repo, Repo2, Dnf, Route, FromTag, Tagged, Chosen, Carried
  <2>2. UpdatedIsTag'
    BY <1>4 DEF Repo, Repo2, Dnf, Route, UpdatedIsTag
  <2>3. QED
    BY <2>1, <2>2
<1>5. ASSUME deploy \/ InstallModule \/ EnableDaemon PROVE UpdateInv'
  <2>1. Route' /\ Tagged'
    BY <1>5 DEF deploy, InstallModule, EnableDaemon, Route, FromTag, Tagged, Chosen
  <2>2. Carried'
    BY <1>5 DEF deploy, InstallModule, EnableDaemon, Route, Carried
  <2>3. UpdatedIsTag'
    BY <1>5 DEF deploy, InstallModule, EnableDaemon, Route, UpdatedIsTag
  <2>4. QED
    BY <2>1, <2>2, <2>3
<1>6. ASSUME MakeInstall PROVE UpdateInv'
  BY <1>6 DEF MakeInstall, Route, FromTag, Tagged, Chosen, Carried, UpdatedIsTag
<1>7. ASSUME \/ fetch_models \/ Download \/ copy_models_from \/ OpenModel \/ WriteModel
             \/ CopiedModels \/ fetch_onnx \/ Library
      PROVE  UpdateInv'
  <2>1. Route' /\ Tagged'
    BY <1>7 DEF fetch_models, Download, copy_models_from, OpenModel, WriteModel, CopiedModels,
                fetch_onnx, Library, Route, FromTag, Tagged, Chosen
  <2>2. Carried' /\ UpdatedIsTag'
    BY <1>7 DEF fetch_models, Download, copy_models_from, OpenModel, WriteModel, CopiedModels,
                fetch_onnx, Library, Route, Carried, UpdatedIsTag
  <2>3. QED
    BY <2>1, <2>2
<1>8. ASSUME \/ uninstall \/ Unwire \/ UnwireFails \/ (\E s \in Stacks : Scrub(s)) \/ Fill
             \/ Scrubbed
      PROVE  UpdateInv'
  <2>1. Route' /\ Tagged'
    BY <1>8 DEF uninstall, Unwire, UnwireFails, Scrub, Fill, Scrubbed, Route, FromTag, Tagged,
                Chosen
  <2>2. Carried' /\ UpdatedIsTag'
    BY <1>8 DEF uninstall, Unwire, UnwireFails, Scrub, Fill, Scrubbed, Route, Carried,
                UpdatedIsTag
  <2>3. QED
    BY <2>1, <2>2
<1>9. ASSUME StopDaemon \/ RemovePackage \/ Sweep \/ RemoveData PROVE UpdateInv'
  <2>1. Route'
    BY <1>9 DEF StopDaemon, RemovePackage, Sweep, RemoveData, Route, FromTag
  <2>2. Tagged'
    BY <1>9 DEF StopDaemon, RemovePackage, Sweep, RemoveData, Tagged, Chosen
  <2>3. Carried' /\ UpdatedIsTag'
    BY <1>9 DEF StopDaemon, RemovePackage, Sweep, RemoveData, Route, Carried, UpdatedIsTag
  <2>4. QED
    BY <2>1, <2>2, <2>3
<1>10. ASSUME Fails PROVE UpdateInv'
  BY <1>10 DEF Fails, Route, FromTag, Tagged, Chosen, Carried, UpdatedIsTag
<1>11. ASSUME News PROVE UpdateInv'
  <2>1. UNCHANGED <<format, tags, head, target, built, local, usr, db, cmd, pc, outcome, tag>>
    BY <1>11 DEF News
  <2>2. remote' \in Tags /\ \E v \in Versions : remote'[v] # None
    <3>1. CASE remote' = remote
      BY <3>1 DEF Tagged
    <3>2. ASSUME NEW r \in Releases, remote' = [remote EXCEPT ![r.v] = r]
          PROVE  remote' \in Tags /\ \E v \in Versions : remote'[v] # None
      <4>1. r.v \in Versions /\ r # None /\ remote \in Tags
        BY NoneIsNoRelease DEF Releases, Tagged
      <4>2. remote' \in Tags /\ remote'[r.v] = r
        BY <3>2, <4>1 DEF Tags
      <4>3. QED
        BY <4>1, <4>2
    <3>3. QED
      BY <1>11, <3>1, <3>2 DEF News
  <2>3. Last(built)' = Last(built) /\ Cli' = Cli
    BY <2>1 DEF Cli, First
  <2>4. Carried'
    BY <2>1, <2>3 DEF Carried
  <2>5. UpdatedIsTag'
    BY <2>1, <2>3 DEF UpdatedIsTag
  <2>6. Route' /\ Tagged'
    BY <2>1, <2>2 DEF Route, Tagged
  <2>7. QED
    BY <2>4, <2>5, <2>6
<1>12. ASSUME UNCHANGED vars PROVE UpdateInv'
  BY <1>12 DEF vars, Route, Tagged, Carried, UpdatedIsTag, Cli, First
<1>13. QED
  BY <1>1, <1>2, <1>3, <1>4, <1>5, <1>6, <1>7, <1>8, <1>9, <1>10, <1>11, <1>12 DEF Next

\* An update that reports success has put the release whose tag it verified in
\* /usr/local or in the package it records, whatever commands, failures and moved
\* tags came before it, and that is what runs unless a deployed copy shadows the
\* package; on Debian if no older package lay in the build directory (update,
\* build_native_package, newest_built).
THEOREM UpdateInstallsTag == Spec => []UpdatedIsTag
<1>1. UpdateInv => UpdatedIsTag
  BY DEF UpdateInv
<1>2. Init => BuiltFinite
  BY FS_EmptySet DEF Init, BuiltFinite
<1>3. QED
  BY <1>1, <1>2, UpdateInit, UpdateNext, BuiltNext, PTL DEF Spec

-----------------------------------------------------------------------------
(* Types.                                                                   *)

Progs == Releases \cup {None, Branch}

\* newest_built finds a package wherever one was built.
LEMMA LastIn ==
    ASSUME NEW P, P \subseteq Progs, IsFiniteSet(P), P # {}
    PROVE  Last(P) \in P
<1>1. \A q \in P : q.v \in Nat
  <2>1. \A q \in Releases : q.v \in Nat
    BY InstallerAssumption DEF Releases
  <2>2. None.v \in Nat /\ Branch.v \in Nat
    BY DEF None, Branch
  <2>3. QED
    BY <2>1, <2>2 DEF Progs
<1> DEFINE Small == {q \in P : q.v < 10}
           Q     == IF Small = {} THEN P ELSE Small
<1>2. /\ Q \in SUBSET P /\ Q # {}
      /\ \/ \A q \in P : q \in Q <=> q.v < 10
         \/ Q = P /\ \A q \in P : ~(q.v < 10)
  <2>1. CASE Small = {}
    <3>1. Q = P /\ \A q \in P : ~(q.v < 10)
      BY <2>1
    <3>2. QED
      BY <3>1
  <2>2. CASE Small # {}
    <3>1. Q = Small /\ \A q \in P : q \in Small <=> q.v < 10
      BY <2>2
    <3>2. Small \subseteq P
      OBVIOUS
    <3> HIDE DEF Small, Q
    <3>3. Q \in SUBSET P /\ Q # {}
      BY <2>2, <3>1, <3>2
    <3>4. \A q \in P : q \in Q <=> q.v < 10
      BY <3>1
    <3>5. QED
      BY <3>3, <3>4
  <2>3. QED
    BY <2>1, <2>2
<1> HIDE DEF Q
<1> DEFINE V == {q.v : q \in Q}
<1>3. V \subseteq Nat /\ V # {}
  BY <1>1, <1>2
<1>4. IsFiniteSet(V)
  <2>1. IsFiniteSet(Q)
    BY <1>2, FS_Subset
  <2> DEFINE f == [q \in Q |-> q.v]
  <2>2. f \in Surjection(Q, V)
    BY DEF Surjection
  <2>3. QED
    <3> HIDE DEF f, V
    <3>1. QED
      BY <2>1, <2>2, FS_Surjection, Zenon
<1>5. PICK m \in V : \A y \in V : m >= y
  <2> HIDE DEF V
  <2>1. QED
    BY <1>3, <1>4, MaxIn, Zenon
<1>6. PICK r \in Q : m = r.v
  BY <1>5
<1>7. ASSUME NEW q \in P
      PROVE  IF (q.v < 10) = (r.v < 10) THEN q.v <= r.v ELSE r.v < 10
  <2>1. r \in P /\ q.v \in Nat /\ r.v \in Nat
    BY <1>1, <1>2, <1>6
  <2>2. q \in Q => q.v <= r.v
    <3>1. q \in Q => q.v \in V
      OBVIOUS
    <3>2. QED
      BY <1>5, <1>6, <2>1, <3>1
  <2>3. QED
    BY <1>2, <2>1, <2>2
<1>8. \E p \in P : \A q \in P : IF (q.v < 10) = (p.v < 10) THEN q.v <= p.v ELSE p.v < 10
  BY <1>2, <1>6, <1>7
<1>9. QED
  BY <1>8 DEF Last

\* The programs, with what a build leaves: some package, where one is needed.
ProgramsOK ==
    /\ {head, target, local, usr, db, daemon} \cup built \subseteq Progs
    /\ tag \in Versions \cup {0}
    /\ pc = "package" => built # {}

FilesOK ==
    /\ format \in Formats /\ repo \in States /\ models \in [Models -> States] /\ onnx \in States
    /\ so \subseteq {"security", "multiarch"}
    /\ {data, keep, erred, trustedOnly} \subseteq BOOLEAN

WorkOK ==
    /\ wired \subseteq Stacks /\ torn \subseteq Stacks /\ missed \subseteq Stacks
    /\ work \subseteq Stacks \cup Models /\ bad \subseteq Models
    /\ pc \in Removing => work = {}

TypeInv == ProgramsOK /\ FilesOK /\ WorkOK

LEMMA Typed == UpdateInv /\ TypeInv => TypeOK
BY DEF UpdateInv, Tagged, Tags, TypeInv, ProgramsOK, FilesOK, WorkOK, TypeOK, Progs, Removing

LEMMA TypeInit == Init => TypeInv
<1> SUFFICES ASSUME Init PROVE TypeInv
  OBVIOUS
<1>1. ProgramsOK
  <2>1. PICK r \in Versions : \E i \in {None, [v |-> r, by |-> "trusted"]} :
          /\ local = (IF format = "source" THEN i ELSE None)
          /\ usr = (IF format # "source" THEN i ELSE None)
          /\ daemon \in {None, i}
    BY DEF Init
  <2>2. [v |-> r, by |-> "trusted"] \in Progs /\ None \in Progs /\ Branch \in Progs
    BY DEF Progs, Releases, Signers
  <2>3. {head, target, local, usr, db, daemon} \cup built \subseteq Progs
    BY <2>1, <2>2 DEF Init
  <2>4. QED
    BY <2>3 DEF Init, ProgramsOK
<1>2. FilesOK
  BY DEF Init, FilesOK, Here, States
<1>3. WorkOK
  BY DEF Init, WorkOK, Removing
<1>4. QED
  BY <1>1, <1>2, <1>3 DEF TypeInv

LEMMA ProgramsNext ==
    ASSUME UpdateInv, BuiltFinite, TypeInv, [Next]_vars PROVE ProgramsOK'
<1>1. /\ head \in Progs /\ target \in Progs /\ local \in Progs /\ usr \in Progs /\ db \in Progs
      /\ daemon \in Progs /\ tag \in Versions \cup {0} /\ built \subseteq Progs
      /\ IsFiniteSet(built) /\ (pc = "package" => built # {})
  BY DEF TypeInv, ProgramsOK, BuiltFinite
<1>2. None \in Progs /\ Branch \in Progs /\ Releases \subseteq Progs /\ Cli \in Progs
  BY <1>1 DEF Progs, Cli, First
<1>3. built # {} => Last(built) \in Progs
  BY <1>1, LastIn
<1>4. ASSUME UNCHANGED built, {head', target', local', usr', db', daemon'} \subseteq Progs,
             tag' \in Versions \cup {0}, pc' = "package" => built # {}
      PROVE  ProgramsOK'
  BY <1>1, <1>4 DEF ProgramsOK
<1>5. ASSUME update \/ Fetch \/ Verify \/ Compare PROVE ProgramsOK'
  BY <1>1, <1>2, <1>4, <1>5 DEF update, Fetch, Verify, Compare
<1>6. ASSUME Latest \/ Checkout PROVE ProgramsOK'
  <2>1. CASE Latest
    <3>1. tag' \in Versions
      BY <2>1, LatestIn DEF Latest, UpdateInv
    <3>2. QED
      BY <1>1, <1>2, <1>4, <2>1, <3>1 DEF Latest
  <2>2. CASE Checkout
    <3>1. tags[tag] \in Releases
      BY <2>2 DEF Checkout, UpdateInv, Route, FromTag, Tagged, Chosen
    <3>2. QED
      BY <1>1, <1>2, <1>4, <2>2, <3>1 DEF Checkout
  <2>3. QED
    BY <1>6, <2>1, <2>2
<1>7. ASSUME Build PROVE ProgramsOK'
  <2>1. built' \in {built, {head}, built \cup {head}} /\ target' \in {target, head}
    BY <1>7 DEF Build
  <2>2. UNCHANGED <<head, local, usr, db, daemon, tag>>
    BY <1>7 DEF Build
  <2>3. pc' = "package" => built' # {}
    BY <1>7 DEF Build
  <2>4. built' \subseteq Progs
    BY <1>1, <2>1
  <2>5. QED
    BY <1>1, <2>1, <2>2, <2>3, <2>4 DEF ProgramsOK
<1>8. ASSUME InstallPackage \/ MakeInstall PROVE ProgramsOK'
  <2>1. CASE InstallPackage
    <3>1. usr' \in Progs /\ db' = usr' /\ daemon' \in {None, local, usr'}
      BY <1>1, <1>3, <2>1 DEF InstallPackage, First
    <3>2. QED
      BY <1>1, <1>2, <1>4, <2>1, <3>1 DEF InstallPackage
  <2>2. CASE MakeInstall
    BY <1>1, <1>2, <1>4, <2>2 DEF MakeInstall
  <2>3. QED
    BY <1>8, <2>1, <2>2
<1>9. ASSUME Repo \/ Repo2 \/ Rewire PROVE ProgramsOK'
  BY <1>1, <1>2, <1>4, <1>9 DEF Repo, Repo2, Rewire
<1>10. ASSUME Dnf PROVE ProgramsOK'
  <2>1. remote[Max({v \in Versions : remote[v] # None})] \in Releases
    BY NewestRemote DEF UpdateInv
  <2>2. QED
    BY <1>1, <1>2, <1>4, <1>10, <2>1 DEF Dnf, First
<1>11. ASSUME deploy \/ InstallModule \/ EnableDaemon PROVE ProgramsOK'
  BY <1>1, <1>2, <1>4, <1>11 DEF deploy, InstallModule, EnableDaemon
<1>12. ASSUME \/ fetch_models \/ Download \/ copy_models_from \/ OpenModel \/ WriteModel
              \/ CopiedModels \/ fetch_onnx \/ Library
       PROVE  ProgramsOK'
  BY <1>1, <1>2, <1>4, <1>12 DEF fetch_models, Download, copy_models_from, OpenModel, WriteModel,
     CopiedModels, fetch_onnx, Library
<1>13. ASSUME \/ uninstall \/ Unwire \/ UnwireFails \/ (\E s \in Stacks : Scrub(s)) \/ Fill
              \/ Scrubbed \/ StopDaemon \/ RemoveData
       PROVE  ProgramsOK'
  BY <1>1, <1>2, <1>4, <1>13 DEF uninstall, Unwire, UnwireFails, Scrub, Fill, Scrubbed,
     StopDaemon, RemoveData
<1>14. ASSUME RemovePackage \/ Sweep PROVE ProgramsOK'
  BY <1>1, <1>2, <1>4, <1>14 DEF RemovePackage, Sweep
<1>15. ASSUME Fails \/ News \/ UNCHANGED vars PROVE ProgramsOK'
  BY <1>1, <1>2, <1>4, <1>15 DEF Fails, News, vars
<1>16. QED
  BY <1>5, <1>6, <1>7, <1>8, <1>9, <1>10, <1>11, <1>12, <1>13, <1>14, <1>15 DEF Next

LEMMA FilesNext == ASSUME TypeInv, [Next]_vars PROVE FilesOK'
<1>1. FilesOK
  BY DEF TypeInv
<1> USE <1>1 DEF FilesOK, States
<1>2. ASSUME update \/ Fetch \/ Latest \/ Verify \/ Compare \/ Checkout \/ Build PROVE FilesOK'
  BY <1>2 DEF update, Fetch, Latest, Verify, Compare, Checkout, Build
<1>3. ASSUME InstallPackage \/ Rewire \/ Repo \/ Repo2 \/ Dnf PROVE FilesOK'
  BY <1>3 DEF InstallPackage, Rewire, Repo, Repo2, Dnf, Here
<1>4. ASSUME deploy \/ MakeInstall \/ InstallModule \/ EnableDaemon PROVE FilesOK'
  BY <1>4 DEF deploy, MakeInstall, InstallModule, EnableDaemon, Here
<1>5. ASSUME \/ fetch_models \/ Download \/ copy_models_from \/ OpenModel \/ WriteModel
             \/ CopiedModels \/ fetch_onnx \/ Library
      PROVE  FilesOK'
  BY <1>5 DEF fetch_models, Download, copy_models_from, OpenModel, WriteModel, CopiedModels,
              fetch_onnx, Library
<1>6. ASSUME \/ uninstall \/ Unwire \/ UnwireFails \/ (\E s \in Stacks : Scrub(s)) \/ Fill
             \/ Scrubbed
      PROVE  FilesOK'
  BY <1>6 DEF uninstall, Unwire, UnwireFails, Scrub, Fill, Scrubbed
<1>7. ASSUME StopDaemon \/ RemovePackage \/ Sweep \/ RemoveData PROVE FilesOK'
  BY <1>7 DEF StopDaemon, RemovePackage, Sweep, RemoveData, Logged
<1>8. ASSUME Fails \/ News \/ UNCHANGED vars PROVE FilesOK'
  BY <1>8 DEF Fails, News, vars
<1>9. QED
  BY <1>2, <1>3, <1>4, <1>5, <1>6, <1>7, <1>8 DEF Next

LEMMA WorkNext == ASSUME TypeInv, [Next]_vars PROVE WorkOK'
<1>1. WorkOK
  BY DEF TypeInv
<1> USE <1>1 DEF WorkOK, Removing
<1>2. ASSUME update \/ Fetch \/ Latest \/ Verify \/ Compare \/ Checkout \/ Build PROVE WorkOK'
  BY <1>2 DEF update, Fetch, Latest, Verify, Compare, Checkout, Build
<1>3. ASSUME InstallPackage \/ Rewire \/ Repo \/ Repo2 \/ Dnf PROVE WorkOK'
  BY <1>3 DEF InstallPackage, Rewire, Repo, Repo2, Dnf, Stacks, Managed
<1>4. ASSUME deploy \/ MakeInstall \/ InstallModule \/ EnableDaemon PROVE WorkOK'
  BY <1>4 DEF deploy, MakeInstall, InstallModule, EnableDaemon
<1>5. ASSUME \/ fetch_models \/ Download \/ copy_models_from \/ OpenModel \/ WriteModel
             \/ CopiedModels \/ fetch_onnx \/ Library
      PROVE  WorkOK'
  BY <1>5 DEF fetch_models, Download, copy_models_from, OpenModel, WriteModel, CopiedModels,
              fetch_onnx, Library
<1>6. ASSUME \/ uninstall \/ Unwire \/ UnwireFails \/ (\E s \in Stacks : Scrub(s)) \/ Fill
             \/ Scrubbed
      PROVE  WorkOK'
  BY <1>6 DEF uninstall, Unwire, UnwireFails, Scrub, Fill, Scrubbed
<1>7. ASSUME StopDaemon \/ RemovePackage \/ Sweep \/ RemoveData PROVE WorkOK'
  BY <1>7 DEF StopDaemon, RemovePackage, Sweep, RemoveData
<1>8. ASSUME Fails \/ News \/ UNCHANGED vars PROVE WorkOK'
  BY <1>8 DEF Fails, News, vars
<1>9. QED
  BY <1>2, <1>3, <1>4, <1>5, <1>6, <1>7, <1>8 DEF Next

\* Every variable of the installer keeps its type, for every set of versions and
\* whatever fails or is retried: a build always leaves a package for
\* newest_built to pick, there is always a tag or a Copr build to install, every
\* program on the machine is a release, the tip of the branch or none at all,
\* and uninstall removes nothing before it has gone through every stack that
\* names the module (newest_built, latest_release_tag, uninstall).
THEOREM TypeCorrect == Spec => []TypeOK
<1>1. UpdateInv /\ BuiltFinite /\ TypeInv /\ [Next]_vars => TypeInv'
  BY ProgramsNext, FilesNext, WorkNext DEF TypeInv
<1>2. Init => BuiltFinite
  BY FS_EmptySet DEF Init, BuiltFinite
<1>3. QED
  BY <1>1, <1>2, BuiltNext, Typed, TypeInit, UpdateInit, UpdateNext, PTL DEF Spec
=============================================================================

--------------------------- MODULE PamWireProofs ---------------------------
(***************************************************************************)
(* Proofs about PamWire, for any greeters and any original stacks.         *)
(***************************************************************************)
EXTENDS PamWire, FiniteSetTheorems, WellFoundedInduction, TLAPS

-----------------------------------------------------------------------------
(* What dropping lines computes.  The induction over the lines takes the    *)
(* first place where the claim would fail.                                  *)

\* k is the function of which Without takes the last value.
IsKept(k, c, S, n) ==
    k = [i \in 0 .. n |->
           IF i = 0 THEN << >>
           ELSE IF c[i] \in S THEN k[i - 1] ELSE Append(k[i - 1], c[i])]

LEMMA Least == ASSUME NEW T, T \subseteq Nat, T # {} PROVE \E n \in T : \A m \in T : n <= m
<1> DEFINE R == OpToRel(<, Nat)
<1>1. IsWellFoundedOn(R, Nat)
  BY NatLessThanWellFounded
<1>2. \A x, y \in Nat : y < x => <<y, x>> \in R
  BY DEF OpToRel
<1> HIDE DEF R
<1>4. PICK x \in T : \A y \in T : ~(<<y, x>> \in R)
  BY <1>1, WFMin, Zenon
<1>5. ASSUME NEW y \in T PROVE x <= y
  <2>1. x \in Nat /\ y \in Nat /\ ~(<<y, x>> \in R)
    BY <1>4
  <2>2. ~(y < x)
    BY <1>2, <2>1, Zenon
  <2>3. QED
    BY <2>1, <2>2
<1>6. QED BY <1>5

LEMMA KeptExists == ASSUME NEW c, NEW S, NEW n \in Nat PROVE \E k : IsKept(k, c, S, n)
<1> DEFINE T == {m \in Nat : ~\E k : IsKept(k, c, S, m)}
<1>1. SUFFICES T = {}
  OBVIOUS
<1>2. SUFFICES ASSUME T # {} PROVE FALSE
  OBVIOUS
<1>3. PICK m \in T : \A j \in T : m <= j
  BY <1>2, Least
<1>4. CASE m = 0
  <2>1. IsKept([i \in 0 .. 0 |-> << >>], c, S, 0)
    BY DEF IsKept
  <2>2. QED BY <1>4, <2>1, <1>3
<1>5. CASE m # 0
  <2>1. m \in Nat /\ m - 1 \in Nat /\ m - 1 \notin T
    BY <1>3, <1>5
  <2>2. PICK k : IsKept(k, c, S, m - 1)
    BY <2>1
  <2> DEFINE g == [i \in 0 .. m |-> IF i < m THEN k[i] ELSE IF c[i] \in S THEN k[i - 1] ELSE Append(k[i - 1], c[i])]
  <2>3. \A i \in 0 .. m - 1 : g[i] = k[i]
    BY <2>1
  <2>4. \A i \in 0 .. m - 1 : k[i] = IF i = 0 THEN << >>
          ELSE IF c[i] \in S THEN k[i - 1] ELSE Append(k[i - 1], c[i])
    BY <2>2 DEF IsKept
  <2>5. \A i \in 0 .. m : g[i] = IF i = 0 THEN << >>
          ELSE IF c[i] \in S THEN g[i - 1] ELSE Append(g[i - 1], c[i])
    <3> TAKE i \in 0 .. m
    <3>1. CASE i = m
      <4>1. i # 0 /\ i - 1 \in 0 .. m - 1
        BY <2>1, <3>1, <1>5
      <4>2. g[i] = IF c[i] \in S THEN k[i - 1] ELSE Append(k[i - 1], c[i])
        BY <2>1, <3>1
      <4> HIDE DEF g
      <4>3. QED BY <4>1, <4>2, <2>3
    <3>2. CASE i # m
      <4>1. i \in 0 .. m - 1 /\ (i # 0 => i - 1 \in 0 .. m - 1)
        BY <2>1, <3>2
      <4>2. g[i] = k[i] /\ (i # 0 => g[i - 1] = k[i - 1])
        BY <4>1, <2>3
      <4> HIDE DEF g
      <4>3. QED BY <4>1, <4>2, <2>4
    <3>3. QED BY <3>1, <3>2
  <2>6. g = [i \in 0 .. m |-> g[i]]
    OBVIOUS
  <2> HIDE DEF g
  <2>7. IsKept(g, c, S, m)
    BY <2>5, <2>6 DEF IsKept
  <2>8. QED BY <2>7, <1>3
<1>6. QED BY <1>4, <1>5

LEMMA WithoutIs == ASSUME NEW c, NEW S, Len(c) \in Nat PROVE \E k : IsKept(k, c, S, Len(c)) /\ Without(c, S) = k[Len(c)]
<1> DEFINE K == CHOOSE k : IsKept(k, c, S, Len(c))
<1>1. IsKept(K, c, S, Len(c))
  BY KeptExists
<1>2. Without(c, S) = K[Len(c)]
  BY DEF Without, IsKept
<1>3. QED BY <1>1, <1>2

LEMMA Longer ==
    ASSUME NEW L, NEW o \in Seq(L), NEW n \in Nat, n + 1 \in 1 .. Len(o)
    PROVE  SubSeq(o, 1, n + 1) = Append(SubSeq(o, 1, n), o[n + 1])
OBVIOUS

\* h says how many lines of d up to the i-th are kept: they are o's, in order.
Follows(d, o, S, h) ==
    /\ h \in [0 .. Len(d) -> 0 .. Len(o)]
    /\ h[0] = 0 /\ h[Len(d)] = Len(o)
    /\ \A i \in 1 .. Len(d) :
         \/ d[i] \in S /\ h[i] = h[i - 1]
         \/ d[i] \notin S /\ h[i] = h[i - 1] + 1 /\ o[h[i]] = d[i]

LEMMA Matches ==
    ASSUME NEW d, Len(d) \in Nat, NEW L, NEW o \in Seq(L), NEW S, NEW h, Follows(d, o, S, h)
    PROVE  Without(d, S) = o
<1>1. PICK k : IsKept(k, d, S, Len(d)) /\ Without(d, S) = k[Len(d)]
  BY WithoutIs
<1>2. \A i \in 0 .. Len(d) :
        k[i] = IF i = 0 THEN << >> ELSE IF d[i] \in S THEN k[i - 1] ELSE Append(k[i - 1], d[i])
  BY <1>1 DEF IsKept
<1> DEFINE T == {i \in 0 .. Len(d) : k[i] # SubSeq(o, 1, h[i])}
<1>3. ASSUME T # {} PROVE FALSE
  <2>1. T \subseteq Nat
    OBVIOUS
  <2>2. PICK m \in T : \A j \in T : m <= j
    BY <1>3, <2>1, Least
  <2>3. m # 0
    <3>1. k[0] = << >>
      BY <1>2
    <3>2. h[0] = 0
      BY DEF Follows
    <3>3. SubSeq(o, 1, 0) = << >>
      OBVIOUS
    <3>4. QED
      BY <2>2, <3>1, <3>2, <3>3
  <2>4. m \in 1 .. Len(d) /\ m - 1 \in 0 .. Len(d) /\ m - 1 \notin T
    BY <2>2, <2>3
  <2>5. k[m - 1] = SubSeq(o, 1, h[m - 1])
    BY <2>4
  <2>6. k[m] # SubSeq(o, 1, h[m])
    BY <2>2
  <2>7. k[m] = IF d[m] \in S THEN k[m - 1] ELSE Append(k[m - 1], d[m])
    BY <1>2, <2>4
  <2>8. CASE d[m] \in S
    <3>1. h[m] = h[m - 1]
      BY <2>4, <2>8 DEF Follows
    <3>2. QED
      BY <2>5, <2>6, <2>7, <2>8, <3>1
  <2>9. CASE d[m] \notin S
    <3>1. h[m] = h[m - 1] + 1 /\ o[h[m]] = d[m] /\ h[m - 1] \in Nat /\ h[m] \in 1 .. Len(o)
      BY <2>4, <2>9 DEF Follows
    <3>2. SubSeq(o, 1, h[m - 1] + 1) = Append(SubSeq(o, 1, h[m - 1]), o[h[m - 1] + 1])
      BY <3>1, Longer
    <3>3. QED
      BY <2>5, <2>6, <2>7, <2>9, <3>1, <3>2
  <2>10. QED
    BY <2>8, <2>9
<1>4. k[Len(d)] = SubSeq(o, 1, Len(o))
  BY <1>3 DEF Follows
<1>5. SubSeq(o, 1, Len(o)) = o
  OBVIOUS
<1>6. QED
  BY <1>1, <1>4, <1>5

-----------------------------------------------------------------------------
(* The inductive invariant.                                                 *)

\* the kinds of line others write, and the content of a file that is not there
Plain == Seq({"auth", "rest", "comment", "absent"})

\* a stanza of linhello's comes before every auth line
Wired(c) == \E k \in DOMAIN c : c[k] \in Stanzas /\ \A i \in 1 .. k : c[i] # "auth"

\* What file f may hold where others last put o: that, that with the face line,
\* or an override of a vendor's file.
Shape(f, c, o) ==
    \/ c = o
    \/ o # Absent /\ \E s \in Stanzas : c = insert_first_auth(o, s)
    \/ /\ f \in Vendored /\ o = Absent
       /\ \E v \in Originals, s \in Stanzas : c = build_override(v, s)

Whole(c) == \E p \in Stock : \/ c = StockTemplate(p)
                             \/ c = insert_first_auth(StockTemplate(p), "sufficient")

\* a template of custom/linhello: whole, or cut short and then perhaps edited
Template(c) == Whole(c) \/ c = Torn \/ c = insert_first_auth(Torn, "sufficient")

Dos == {"edit", "remove", "openProfile", "writeProfile", "removeProfile", "authUpdate",
        "current", "create", "inject", "openBase", "writeBase", "select",
        "revert", "removeDir", "removeBase"}
OnEnable  == {"edit", "openProfile", "writeProfile", "authUpdate", "current", "create",
              "inject", "openBase", "writeBase", "select"}
OnDisable == {"remove", "removeProfile", "authUpdate", "revert", "removeDir", "removeBase"}
OnFedora  == {"current", "create", "inject", "openBase", "writeBase", "select",
              "revert", "removeDir", "removeBase"}
\* files only the Arch branch edits
ArchOnly == Greeters \cup {"sudo", "plasmalogin"}

\* What a piece of work of command c is about, on this machine.
ItemOK(c, x) ==
    /\ c = "enable" => x.do \in OnEnable
    /\ c = "disable" => x.do \in OnDisable
    /\ x.do \in {"edit", "remove"} => x.f \in Files \ Shared
    /\ x.do \in {"edit", "remove"} /\ x.f \in ArchOnly => family \notin {"Debian", "Fedora"}
    /\ x.do = "edit" => Exists(x.f) \/ (x.f \in Vendored /\ vendor[x.f] # Absent)
    /\ x.do = "inject" => x.f \in Templates
    /\ x.do = "authUpdate" => family = "Debian"
    /\ x.do \in OnFedora => family = "Fedora"

Before(i, d) == \E j \in 1 .. i - 1 : todo[j].do = d

\* The work left is well formed, and a template is only written once created.
TodoInv ==
    /\ cmd \in {"idle", "enable", "disable"}
    /\ todo \in Seq([do : Dos, f : Files \cup {"-"}])
    /\ cmd = "idle" <=> todo = << >>
    /\ \A i \in DOMAIN todo : ItemOK(cmd, todo[i])
    /\ \A i \in DOMAIN todo : todo[i].do = "inject" => HasDir \/ Before(i, "create")

\* Where the command is in a piece of work, and what it holds to write.
AtInv ==
    /\ at \in {"begin", "copy", "open", "write", "rename", "fill"}
    /\ cmd = "idle" => at = "begin"
    /\ at \in {"copy", "open", "write", "rename"} =>
         /\ Head(todo).do \in {"edit", "remove"}
         /\ Head(todo).do = "remove" => ~is_created_override(etc[File])
    /\ at = "rename" => tmp = Edited(File)
    /\ at = "fill" => /\ Head(todo).do = "inject"
                      /\ Template(tmp) /\ Wired(tmp) /\ (broken \/ Whole(tmp))

\* What each stack holds.
EtcInv ==
    /\ family \in Families /\ broken \in BOOLEAN /\ rebased \in BOOLEAN
    /\ DOMAIN etc = Files /\ etc = [f \in Files |-> etc[f]]
    /\ orig \in [Files -> Plain]
    /\ vendor \in [Vendored -> Originals \cup {Absent}]
    /\ \A f \in Files \ Templates : Shape(f, etc[f], orig[f])
    /\ family = "Debian" => orig["common-auth"] # Absent
    /\ \A f \in Templates :
         \/ active # Custom /\ (etc[f] = orig[f] \/ \E p \in Stock : etc[f] = StockTemplate(p))
         \/ active = Custom /\ Template(etc[f]) /\ (broken \/ Whole(etc[f]))

\* What the templates of custom/linhello hold.
DirInv ==
    /\ dir = [t \in Templates |-> dir[t]]
    /\ \/ \A t \in Templates : dir[t] = Absent
       \/ \A t \in Templates :
            /\ Template(dir[t])
            /\ broken \/ Whole(dir[t]) \/ (at = "fill" /\ t = File /\ dir[t] = Torn)

WireInv == TodoInv /\ AtInv /\ EtcInv /\ DirInv

\* What linhello leaves alone on this family.
FamilyInv ==
    /\ family \in {"Debian", "Fedora"} => \A f \in ArchOnly : etc[f] = orig[f]
    /\ family # "Debian" => etc["common-auth"] = orig["common-auth"]
    /\ family # "Fedora" => active # Custom

\* What a disable has still to undo.
UndoInv ==
    /\ cmd = "disable" =>
         /\ \A f \in Files \ Templates :
              \/ etc[f] = orig[f]
              \/ \E i \in DOMAIN todo : todo[i].do = "remove" /\ todo[i].f = f
              \/ f = "common-auth" /\ \E i \in DOMAIN todo : todo[i].do = "authUpdate"
         /\ \A i \in DOMAIN todo : todo[i].do = "authUpdate" =>
              (i = 1 /\ profile = Absent) \/ (i = 2 /\ todo[1].do = "removeProfile")
         /\ active = Custom => rebased \/ \E i \in DOMAIN todo : todo[i].do = "revert"
    /\ last = "disabled" => /\ cmd = "idle"
                            /\ \A f \in Files \ Templates : etc[f] = orig[f]
                            /\ active = Custom => rebased

\* The base profile remembered is linhello's own only after a second enable.
BaseInv ==
    /\ active = Custom /\ base = Custom => rebased
    /\ cmd = "enable" /\ family = "Fedora" =>
         Head(todo).do = "current" \/ (found = Custom => rebased)
    /\ cmd = "enable" => \A i \in DOMAIN todo : todo[i].do = "select" =>
         (base = Custom => rebased) \/ Before(i, "openBase")

\* What an enable has still to wire.
ReachInv ==
    /\ cmd = "enable" =>
         /\ \A f \in Reached :
              \/ Wired(etc[f])
              \/ \E i \in DOMAIN todo : todo[i].do = "edit" /\ todo[i].f = f
              \/ f = "common-auth" /\ \E i \in DOMAIN todo : todo[i].do = "authUpdate"
              \/ f \in Templates /\ \E i \in DOMAIN todo : todo[i].do = "select"
         /\ \A i \in DOMAIN todo : todo[i].do = "authUpdate" =>
              \/ i = 1 /\ profile = <<"profile">>
              \/ i = 2 /\ todo[1].do = "writeProfile"
              \/ i = 3 /\ todo[1].do = "openProfile" /\ todo[2].do = "writeProfile"
         /\ \A i \in DOMAIN todo : todo[i].do = "select" =>
              \A t \in Templates :
                \/ Wired(dir[t])
                \/ \E j \in 1 .. i - 1 : todo[j].do = "inject" /\ todo[j].f = t
    /\ last = "enabled" => cmd = "idle" /\ \A f \in Reached : Wired(etc[f])

-----------------------------------------------------------------------------
(* The pure helpers on what others write.                                   *)

Lines == {"auth", "rest", "comment", "absent"}
Ours  == Stanzas \cup {Mark}

\* d is c with s before line k
Inserted(d, c, k, s) ==
    /\ d \in Seq(Lines \cup {s}) /\ Len(d) = Len(c) + 1
    /\ k \in 1 .. Len(c) + 1
    /\ \A i \in 1 .. k - 1 : d[i] = c[i]
    /\ d[k] = s
    /\ \A i \in k + 1 .. Len(c) + 1 : d[i] = c[i - 1]

LEMMA InsertAtIs ==
    ASSUME NEW c \in Plain, NEW k \in 1 .. Len(c) + 1, NEW s
    PROVE  Inserted(InsertAt(c, k, s), c, k, s)
<1> DEFINE a == SubSeq(c, 1, k - 1)
           b == SubSeq(c, k, Len(c))
           L == Lines \cup {s}
<1>1. c \in Seq(L) /\ Len(c) \in Nat /\ k \in Nat
  BY DEF Plain, Lines
<1>2. a \in Seq(L) /\ Len(a) = k - 1 /\ \A i \in 1 .. k - 1 : a[i] = c[i]
  BY <1>1
<1>3. b \in Seq(L) /\ Len(b) = Len(c) + 1 - k /\ \A i \in 1 .. Len(c) + 1 - k : b[i] = c[k + i - 1]
  BY <1>1
<1> HIDE DEF a, b, L
<1> DEFINE e == a \o <<s>>
<1>4. <<s>> \in Seq(L)
  BY DEF L
<1>5. e \in Seq(L) /\ Len(e) = k /\ (\A i \in 1 .. k - 1 : e[i] = a[i]) /\ e[k] = s
  BY <1>1, <1>2, <1>4
<1> HIDE DEF e
<1> DEFINE d == e \o b
<1>6. d \in Seq(L) /\ Len(d) = Len(c) + 1
  <2>0. e \in Seq(L) /\ b \in Seq(L)
    BY <1>3, <1>5
  <2>1. d \in Seq(L) /\ Len(d) = Len(e) + Len(b)
    BY ONLY <2>0
  <2>2. QED
    BY <2>1, <1>1, <1>3, <1>5
<1>7. \A i \in 1 .. k : d[i] = e[i]
  BY <1>1, <1>3, <1>5
<1>8. \A i \in k + 1 .. Len(c) + 1 : d[i] = b[i - k]
  BY <1>1, <1>3, <1>5
<1>9. \A i \in k + 1 .. Len(c) + 1 : b[i - k] = c[i - 1]
  <2> TAKE i \in k + 1 .. Len(c) + 1
  <2>1. i - k \in 1 .. Len(c) + 1 - k /\ k + (i - k) - 1 = i - 1
    BY <1>1
  <2>2. QED
    BY <1>3, <2>1
<1>10. d = InsertAt(c, k, s)
  BY DEF InsertAt, a, b, e
<1> HIDE DEF d
<1>11. Inserted(d, c, k, s)
  <2>1. \A i \in 1 .. k - 1 : d[i] = c[i]
    BY <1>1, <1>2, <1>5, <1>7
  <2>2. d[k] = s
    BY <1>1, <1>5, <1>7
  <2>3. \A i \in k + 1 .. Len(c) + 1 : d[i] = c[i - 1]
    BY <1>8, <1>9
  <2>4. QED
    BY <1>6, <2>1, <2>2, <2>3 DEF Inserted, L
<1>12. QED
  BY <1>10, <1>11

LEMMA PlainFacts ==
    ASSUME NEW c \in Plain
    PROVE  /\ ~content_has_module(c) /\ ~is_created_override(c)
           /\ remove_module(c) = c /\ Foreign(c) = c
<1>1. \A i \in DOMAIN c : c[i] \notin Ours
  BY DEF Plain, Ours, Stanzas, Mark
<1>2. ~content_has_module(c) /\ ~is_created_override(c)
  BY <1>1 DEF content_has_module, is_created_override, Torn, Ours, Plain
<1>3. ASSUME NEW S \in {Stanzas, Ours} PROVE Without(c, S) = c
  <2> DEFINE h == [i \in 0 .. Len(c) |-> i]
  <2>1. Follows(c, c, S, h)
    BY <1>1, <1>3 DEF Follows, Ours, Plain
  <2> HIDE DEF h
  <2>2. Len(c) \in Nat /\ c \in Seq(Lines)
    BY DEF Plain, Lines
  <2>3. QED
    BY <2>1, <2>2, Matches
<1>4. QED
  BY <1>2, <1>3 DEF remove_module, Foreign, Ours

\* where insert_first_auth puts the stanza in a stack of others
LEMMA InsertIs ==
    ASSUME NEW c \in Plain, NEW s \in Stanzas
    PROVE  \E k \in 1 .. Len(c) + 1 :
             /\ Inserted(insert_first_auth(c, s), c, k, s)
             /\ \A i \in 1 .. k - 1 : c[i] # "auth"
<1> DEFINE auths == {i \in DOMAIN c : c[i] = "auth"}
           k == IF auths = {} THEN Len(c) + 1
                ELSE CHOOSE i \in auths : \A j \in auths : i <= j
<1>1. Len(c) \in Nat /\ DOMAIN c = 1 .. Len(c)
  BY DEF Plain
<1>2. insert_first_auth(c, s) = InsertAt(c, k, s)
  BY PlainFacts DEF insert_first_auth
<1>3. k \in 1 .. Len(c) + 1 /\ \A i \in 1 .. k - 1 : c[i] # "auth"
  <2>1. CASE auths = {}
    BY <1>1, <2>1
  <2>2. CASE auths # {}
    <3>1. auths \subseteq Nat
      BY <1>1
    <3>2. k \in auths /\ \A j \in auths : k <= j
      BY <2>2, <3>1, Least
    <3> HIDE DEF k
    <3>3. k \in 1 .. Len(c)
      BY <1>1, <3>2
    <3>4. ASSUME NEW i \in 1 .. k - 1, c[i] = "auth" PROVE FALSE
      <4>1. i \in auths /\ i \in Nat /\ i < k
        BY <1>1, <3>3, <3>4
      <4>2. QED
        BY <3>2, <3>3, <4>1
    <3>5. QED
      BY <1>1, <3>3, <3>4
  <2>3. QED
    BY <2>1, <2>2
<1> HIDE DEF k
<1>4. Inserted(InsertAt(c, k, s), c, k, s)
  BY <1>3, InsertAtIs
<1>5. QED
  BY <1>2, <1>3, <1>4

\* The face line leaves the lines of others as they were, comes before the
\* password, and is taken out again without a trace.
LEMMA InsertFacts ==
    ASSUME NEW c \in Plain, NEW s \in Stanzas
    PROVE  LET d == insert_first_auth(c, s) IN
           /\ Wired(d) /\ content_has_module(d) /\ ~is_created_override(d)
           /\ remove_module(d) = c /\ Foreign(d) = c
           /\ d # Absent
<1> DEFINE d == insert_first_auth(c, s)
<1>1. PICK k \in 1 .. Len(c) + 1 : Inserted(d, c, k, s) /\ \A i \in 1 .. k - 1 : c[i] # "auth"
  BY InsertIs
<1>2. Len(c) \in Nat /\ c \in Seq(Lines) /\ DOMAIN c = 1 .. Len(c)
  BY DEF Plain, Lines
<1> HIDE DEF d
<1>3. Len(d) = Len(c) + 1 /\ DOMAIN d = 1 .. Len(c) + 1 /\ d[k] = s /\ k \in Nat
  BY <1>1, <1>2 DEF Inserted
<1>4. \A i \in 1 .. Len(c) + 1 : d[i] = IF i < k THEN c[i] ELSE IF i = k THEN s ELSE c[i - 1]
  BY <1>1, <1>2 DEF Inserted
<1>5. \A i \in 1 .. Len(c) : c[i] \in Lines
  BY <1>2
<1>6. Lines \cap Ours = {} /\ s \in Ours /\ s # "auth" /\ s # Mark /\ s # "absent"
  BY DEF Lines, Ours, Stanzas, Mark
<1>7. Wired(d) /\ content_has_module(d)
  <2>1. \A i \in 1 .. k : d[i] # "auth"
    BY <1>1, <1>2, <1>3, <1>4, <1>6
  <2>2. QED
    BY <1>3, <2>1 DEF Wired, content_has_module
<1>8. ~is_created_override(d)
  <2>1. d[1] # Mark
    BY <1>2, <1>3, <1>4, <1>5, <1>6 DEF Ours
  <2>2. QED
    BY <2>1, <1>1 DEF is_created_override, Inserted, Torn
<1>9. ASSUME NEW S \in {Stanzas, Ours} PROVE Without(d, S) = c
  <2> DEFINE h == [i \in 0 .. Len(d) |-> IF i < k THEN i ELSE i - 1]
  <2>0. \A i \in 0 .. Len(d) : h[i] = IF i < k THEN i ELSE i - 1
    OBVIOUS
  <2>1. h \in [0 .. Len(d) -> 0 .. Len(c)] /\ h[0] = 0 /\ h[Len(d)] = Len(c)
    <3>1. \A i \in 0 .. Len(d) : (IF i < k THEN i ELSE i - 1) \in 0 .. Len(c)
      BY <1>2, <1>3
    <3>2. h \in [0 .. Len(d) -> 0 .. Len(c)]
      BY <3>1
    <3> HIDE DEF h
    <3>3. h[0] = 0 /\ h[Len(d)] = Len(c)
      BY <2>0, <1>2, <1>3
    <3>4. QED
      BY <3>2, <3>3
  <2> HIDE DEF h
  <2>2. ASSUME NEW i \in 1 .. Len(d)
        PROVE  \/ d[i] \in S /\ h[i] = h[i - 1]
               \/ d[i] \notin S /\ h[i] = h[i - 1] + 1 /\ c[h[i]] = d[i]
    <3>1. CASE i < k
      <4>1. h[i] = i /\ h[i - 1] = i - 1 /\ i \in 1 .. Len(c) /\ d[i] = c[i]
        BY <2>0, <1>2, <1>3, <1>4, <3>1
      <4>2. QED
        BY <4>1, <1>5, <1>6, <1>9 DEF Ours
    <3>2. CASE i = k
      BY <2>0, <1>2, <1>3, <3>2, <1>9, <1>6 DEF Ours
    <3>3. CASE i > k
      <4>1. h[i] = i - 1 /\ h[i - 1] = i - 2 /\ i - 1 \in 1 .. Len(c) /\ d[i] = c[i - 1]
        BY <2>0, <1>2, <1>3, <1>4, <3>3
      <4>2. QED
        BY <4>1, <1>5, <1>6, <1>9 DEF Ours
    <3>4. QED
      BY <1>3, <3>1, <3>2, <3>3
  <2>3. Follows(d, c, S, h)
    BY <2>1, <2>2 DEF Follows
  <2>4. QED
    BY <2>3, <1>2, <1>3, Matches
<1>10. d # Absent
  BY <1>3, <1>6 DEF Absent
<1>11. QED
  BY <1>7, <1>8, <1>9, <1>10 DEF remove_module, Foreign, Ours, d

\* An override is recognised as linhello's, and is the vendor's stack with the
\* face line before the password.
LEMMA OverrideFacts ==
    ASSUME NEW c \in Plain, NEW s \in Stanzas
    PROVE  LET b == build_override(c, s) IN
           /\ Wired(b) /\ content_has_module(b) /\ is_created_override(b)
           /\ Foreign(b) = c
           /\ b # Absent
<1> DEFINE d == insert_first_auth(c, s)
           b == build_override(c, s)
<1>1. PICK k \in 1 .. Len(c) + 1 : Inserted(d, c, k, s) /\ \A i \in 1 .. k - 1 : c[i] # "auth"
  BY InsertIs
<1>2. Len(c) \in Nat /\ c \in Seq(Lines) /\ DOMAIN c = 1 .. Len(c)
  BY DEF Plain, Lines
<1> HIDE DEF d
<1>3. d \in Seq(Lines \cup {s}) /\ Len(d) = Len(c) + 1
  BY <1>1 DEF Inserted
<1>4. /\ b \in Seq(Lines \cup {s, Mark}) /\ Len(b) = Len(c) + 2 /\ DOMAIN b = 1 .. Len(c) + 2
      /\ b[1] = Mark /\ \A i \in 2 .. Len(c) + 2 : b[i] = d[i - 1]
  BY <1>2, <1>3 DEF build_override, d
<1> HIDE DEF b
<1>5. \A i \in 1 .. Len(c) + 1 : d[i] = IF i < k THEN c[i] ELSE IF i = k THEN s ELSE c[i - 1]
  BY <1>1, <1>2 DEF Inserted
<1>6. \A i \in 1 .. Len(c) : c[i] \in Lines
  BY <1>2
<1>7. /\ Lines \cap Ours = {} /\ s \in Ours /\ Mark \in Ours
      /\ s # "auth" /\ Mark # "auth" /\ Mark # "absent"
  BY DEF Lines, Ours, Stanzas, Mark
<1>8. Wired(b) /\ content_has_module(b)
  <2>1. b[k + 1] = s /\ k + 1 \in DOMAIN b
    BY <1>2, <1>4, <1>5
  <2>2. \A i \in 1 .. k + 1 : b[i] # "auth"
    <3> TAKE i \in 1 .. k + 1
    <3>1. CASE i = 1
      BY <3>1, <1>4, <1>7
    <3>2. CASE i # 1
      <4>1. b[i] = d[i - 1] /\ i - 1 \in 1 .. k /\ i - 1 \in 1 .. Len(c) + 1
        BY <1>2, <1>4, <3>2
      <4>2. QED
        BY <4>1, <1>1, <1>2, <1>5, <1>7
    <3>3. QED
      BY <3>1, <3>2
  <2>3. QED
    BY <2>1, <2>2 DEF Wired, content_has_module
<1>9. is_created_override(b) /\ b # Absent
  BY <1>2, <1>4, <1>7 DEF is_created_override, Torn, Absent
<1>10. Without(b, Ours) = c
  <2> DEFINE h == [i \in 0 .. Len(b) |-> IF i = 0 THEN 0 ELSE IF i <= k THEN i - 1 ELSE i - 2]
  <2>0. \A i \in 0 .. Len(b) : h[i] = IF i = 0 THEN 0 ELSE IF i <= k THEN i - 1 ELSE i - 2
    OBVIOUS
  <2>1. h \in [0 .. Len(b) -> 0 .. Len(c)] /\ h[0] = 0 /\ h[Len(b)] = Len(c)
    <3>1. \A i \in 0 .. Len(b) :
            (IF i = 0 THEN 0 ELSE IF i <= k THEN i - 1 ELSE i - 2) \in 0 .. Len(c)
      BY <1>2, <1>4
    <3>2. h \in [0 .. Len(b) -> 0 .. Len(c)]
      BY <3>1
    <3> HIDE DEF h
    <3>3. h[0] = 0 /\ h[Len(b)] = Len(c)
      BY <2>0, <1>2, <1>4
    <3>4. QED
      BY <3>2, <3>3
  <2> HIDE DEF h
  <2>2. ASSUME NEW i \in 1 .. Len(b)
        PROVE  \/ b[i] \in Ours /\ h[i] = h[i - 1]
               \/ b[i] \notin Ours /\ h[i] = h[i - 1] + 1 /\ c[h[i]] = b[i]
    <3>1. CASE i = 1
      BY <2>0, <1>2, <1>4, <3>1, <1>7
    <3>2. CASE i > 1 /\ i <= k
      <4>1. h[i] = i - 1 /\ h[i - 1] = i - 2 /\ i - 1 \in 1 .. Len(c) /\ b[i] = c[i - 1]
        BY <2>0, <1>2, <1>4, <1>5, <3>2, SMTT(30)
      <4>2. QED
        BY <4>1, <1>6, <1>7
    <3>3. CASE i = k + 1
      <4>1. h[i] = k - 1 /\ h[i - 1] = k - 1 /\ b[i] = s
        BY <2>0, <1>2, <1>4, <1>5, <3>3
      <4>2. QED
        BY <4>1, <1>7
    <3>4. CASE i > k + 1
      <4>1. h[i] = i - 2 /\ h[i - 1] = i - 3 /\ i - 2 \in 1 .. Len(c) /\ b[i] = c[i - 2]
        <5>1. k \in 1 .. Len(c) + 1 /\ i \in 1 .. Len(c) + 2 /\ i > k + 1
          BY <1>4, <3>4
        <5>2. i \in 2 .. Len(c) + 2 /\ i - 1 \in 1 .. Len(c) + 1 /\ i - 1 > k /\ i - 2 \in 1 .. Len(c)
          BY <1>2, <5>1
        <5>3. b[i] = d[i - 1] /\ d[i - 1] = c[(i - 1) - 1]
          BY <1>4, <1>5, <5>1, <5>2
        <5>4. h[i] = i - 2 /\ h[i - 1] = (i - 1) - 2
          BY <2>0, <1>2, <1>4, <5>1, SMTT(30)
        <5>5. QED
          BY <1>2, <5>1, <5>2, <5>3, <5>4
      <4>2. QED
        BY <4>1, <1>6, <1>7
    <3>5. QED
      BY <1>2, <1>4, <3>1, <3>2, <3>3, <3>4
  <2>3. Follows(b, c, Ours, h)
    BY <2>1, <2>2 DEF Follows
  <2>4. QED
    BY <2>3, <1>2, <1>4, Matches
<1>11. QED
  BY <1>8, <1>9, <1>10 DEF Foreign, Ours, b

-----------------------------------------------------------------------------
(* What the shapes of a stack allow.                                        *)

LEMMA Given ==
    /\ Originals \subseteq Plain /\ Absent \in Plain /\ Torn \in Plain
    /\ \A p : StockTemplate(p) \in Plain /\ StockTemplate(p) # Absent
    /\ \A p : \E q \in Stock : StockTemplate(p) = StockTemplate(q)
    /\ Absent \notin Originals /\ Torn # Absent /\ <<"profile">> # Absent
<1>1. Originals \subseteq Plain
  BY WireAssumption DEF Plain
<1>2. Absent \in Plain /\ Torn \in Plain /\ Torn # Absent
  BY DEF Absent, Torn, Plain
<1>3. <<"auth", "rest">> \in Plain /\ <<"rest", "auth">> \in Plain
  BY DEF Plain
<1>4. <<"auth", "rest">> # Absent /\ <<"rest", "auth">> # Absent /\ <<"profile">> # Absent
  BY DEF Absent
<1>5. \A p : StockTemplate(p) \in Plain /\ StockTemplate(p) # Absent
  BY <1>3, <1>4 DEF StockTemplate
<1>6. \A p : \E q \in Stock : StockTemplate(p) = StockTemplate(q)
  BY DEF StockTemplate, Stock
<1>7. Absent \notin Originals
  <2>1. Absent \notin Seq({"auth", "rest", "comment"})
    BY DEF Absent
  <2>2. QED
    BY <2>1, WireAssumption
<1>8. QED
  BY <1>1, <1>2, <1>4, <1>5, <1>6, <1>7

LEMMA Once ==
    ASSUME NEW c, NEW s, content_has_module(c)
    PROVE  insert_first_auth(c, s) = c
BY DEF insert_first_auth

LEMMA ShapeFacts ==
    ASSUME NEW f, NEW o \in Plain, NEW c, Shape(f, c, o)
    PROVE  /\ c = Absent => o = Absent
           /\ c # o => c # Absent
           /\ is_created_override(c) => f \in Vendored /\ o = Absent
           /\ ~is_created_override(c) => remove_module(c) = o
           /\ c # Absent /\ ~is_created_override(c) => o # Absent /\ Foreign(c) = o
           /\ is_created_override(c) => Foreign(c) \in Originals
           /\ content_has_module(c) => Wired(c)
           /\ content_has_module(c) \/ c = o
<1>1. CASE c = o
  BY <1>1, PlainFacts
<1>2. CASE o # Absent /\ \E s \in Stanzas : c = insert_first_auth(o, s)
  <2>1. PICK s \in Stanzas : c = insert_first_auth(o, s)
    BY <1>2
  <2>2. /\ Wired(c) /\ content_has_module(c) /\ ~is_created_override(c)
        /\ remove_module(c) = o /\ Foreign(c) = o /\ c # Absent
    BY <2>1, InsertFacts
  <2>3. QED
    BY <1>2, <2>2
<1>3. CASE /\ f \in Vendored /\ o = Absent
           /\ \E v \in Originals, s \in Stanzas : c = build_override(v, s)
  <2>1. PICK v \in Originals, s \in Stanzas : c = build_override(v, s)
    BY <1>3
  <2>2. v \in Plain
    BY Given
  <2>3. /\ Wired(c) /\ content_has_module(c) /\ is_created_override(c)
        /\ Foreign(c) = v /\ c # Absent
    BY <2>1, <2>2, OverrideFacts
  <2>4. QED
    BY <1>3, <2>3
<1>4. QED
  BY <1>1, <1>2, <1>3 DEF Shape

LEMMA InsertShape ==
    ASSUME NEW f, NEW o \in Plain, NEW c, Shape(f, c, o), c # Absent, NEW s \in Stanzas
    PROVE  LET d == insert_first_auth(c, s) IN
           Shape(f, d, o) /\ Wired(d) /\ content_has_module(d) /\ d # Absent
<1>1. CASE content_has_module(c)
  BY <1>1, Once, ShapeFacts
<1>2. CASE ~content_has_module(c)
  <2>1. c = o
    BY <1>2, ShapeFacts
  <2>2. Shape(f, insert_first_auth(o, s), o)
    BY <2>1 DEF Shape
  <2>3. QED
    BY <2>1, <2>2, InsertFacts
<1>3. QED
  BY <1>1, <1>2

LEMMA RemoveShape ==
    ASSUME NEW f, NEW o \in Plain, NEW c, Shape(f, c, o), ~is_created_override(c)
    PROVE  remove_module(c) = o /\ Shape(f, remove_module(c), o)
BY ShapeFacts DEF Shape

LEMMA OverrideShape ==
    ASSUME NEW f \in Vendored, NEW v \in Originals, NEW s \in Stanzas
    PROVE  LET d == build_override(v, s) IN
           Shape(f, d, Absent) /\ Wired(d) /\ d # Absent
<1>1. v \in Plain
  BY Given
<1>2. QED
  BY <1>1, OverrideFacts DEF Shape

LEMMA WholeFacts ==
    ASSUME NEW c, Whole(c)
    PROVE  /\ \E p \in Stock : Foreign(c) = StockTemplate(p)
           /\ c # Absent
<1>1. PICK p \in Stock : \/ c = StockTemplate(p)
                         \/ c = insert_first_auth(StockTemplate(p), "sufficient")
  BY DEF Whole
<1>2. StockTemplate(p) \in Plain /\ StockTemplate(p) # Absent
  BY Given
<1>3. PICK s \in Stanzas : s = "sufficient"
  BY DEF Stanzas
<1>4. QED
  BY <1>1, <1>2, <1>3, PlainFacts, InsertFacts

\* Injecting the face line into a template of the profile.
LEMMA TemplateFacts ==
    ASSUME NEW c, Template(c)
    PROVE  LET d == insert_first_auth(c, "sufficient") IN
           /\ c # Absent
           /\ Template(d) /\ Wired(d)
           /\ Whole(c) => Whole(d)
<1>1. PICK s \in Stanzas : s = "sufficient"
  BY DEF Stanzas
<1>2. ASSUME NEW o \in Plain, o = Torn \/ \E p \in Stock : o = StockTemplate(p)
      PROVE  LET d == insert_first_auth(o, s) IN
             d # Absent /\ Wired(d) /\ content_has_module(d) /\ Template(d) /\ insert_first_auth(d, s) = d
  <2> DEFINE d == insert_first_auth(o, s)
  <2>1. d # Absent /\ Wired(d) /\ content_has_module(d)
    BY InsertFacts
  <2>2. Template(d)
    BY <1>1, <1>2 DEF Template, Whole
  <2>3. QED
    BY <2>1, <2>2, Once
<1>3. PICK o \in Plain : (o = Torn \/ \E p \in Stock : o = StockTemplate(p))
                         /\ (c = o \/ c = insert_first_auth(o, s))
  BY <1>1, Given DEF Template, Whole
<1>4. o # Absent
  BY <1>3, Given
<1> DEFINE d == insert_first_auth(c, s)
<1>5. c # Absent /\ Template(d) /\ Wired(d)
  BY <1>2, <1>3, <1>4
<1>6. ASSUME Whole(c) PROVE Whole(d)
  <2>1. PICK p \in Stock : c = StockTemplate(p) \/ c = insert_first_auth(StockTemplate(p), s)
    BY <1>1, <1>6 DEF Whole
  <2>2. StockTemplate(p) \in Plain
    BY Given
  <2>3. insert_first_auth(insert_first_auth(StockTemplate(p), s), s)
          = insert_first_auth(StockTemplate(p), s)
    BY <1>2, <2>2
  <2>4. d = insert_first_auth(StockTemplate(p), s)
    BY <2>1, <2>3
  <2>5. QED
    BY <1>1, <2>4 DEF Whole
<1>7. QED
  BY <1>1, <1>5, <1>6

-----------------------------------------------------------------------------
(* The lists of work.                                                       *)

Item == [do : Dos, f : Files \cup {"-"}]

\* w does d to each file of S, in some order
IsWork(w, d, S) ==
    /\ w \in Seq(Item)
    /\ \A i \in 1 .. Len(w) : w[i].do = d /\ w[i].f \in S
    /\ \A x \in S : \E i \in 1 .. Len(w) : w[i].do = d /\ w[i].f = x

LEMMA Listed ==
    ASSUME NEW S, IsFiniteSet(S)
    PROVE  LET s == SetToSeq(S) IN
           /\ s \in Seq(S) /\ Len(s) = Cardinality(S)
           /\ \A x \in S : \E i \in 1 .. Len(s) : s[i] = x
<1> DEFINE n == Cardinality(S)
           s == SetToSeq(S)
<1>1. n \in Nat /\ ExistsBijection(1 .. n, S)
  BY FS_CardinalityType
<1>2. \E f \in [1 .. n -> S] : IsInjective(f)
  BY <1>1 DEF ExistsBijection, Bijection, Injection
<1>3. s \in [1 .. n -> S] /\ IsInjective(s)
  BY <1>2 DEF SetToSeq
<1>4. s \in Seq(S) /\ Len(s) = n
  BY <1>1, <1>3
<1>5. Cardinality(1 .. n) = n /\ IsFiniteSet(1 .. n)
  <2>1. ExistsBijection(1 .. n, 1 .. n)
    <3>1. [i \in 1 .. n |-> i] \in Bijection(1 .. n, 1 .. n)
      BY DEF Bijection, Injection, Surjection, IsInjective
    <3>2. QED
      BY <3>1 DEF ExistsBijection
  <2>2. QED
    BY <1>1, <2>1, FS_CountingElements, FS_NatBijection
<1> HIDE DEF s
<1>6. s \in Injection(1 .. n, S)
  BY <1>3 DEF Injection
<1>7. s \in Surjection(1 .. n, S)
  BY <1>5, <1>6, FS_Injection
<1>8. \A x \in S : \E i \in 1 .. n : s[i] = x
  BY <1>7 DEF Surjection
<1>9. QED
  BY <1>4, <1>8 DEF s

LEMMA WorkIs ==
    ASSUME NEW d \in Dos, NEW S, IsFiniteSet(S), S \subseteq Files
    PROVE  IsWork(Work(d, S), d, S) /\ Len(Work(d, S)) = Cardinality(S)
<1> DEFINE s == SetToSeq(S)
           w == Work(d, S)
<1>1. /\ s \in Seq(S) /\ Len(s) = Cardinality(S)
      /\ \A x \in S : \E i \in 1 .. Len(s) : s[i] = x
  BY Listed
<1> HIDE DEF s
<1>2. w = [i \in 1 .. Len(s) |-> [do |-> d, f |-> s[i]]]
  BY DEF Work, s
<1> HIDE DEF w
<1>3. Len(s) \in Nat /\ \A i \in 1 .. Len(s) : s[i] \in S
  BY <1>1
<1>4. \A i \in 1 .. Len(s) : w[i] = [do |-> d, f |-> s[i]]
  BY <1>2
<1>5. w \in [1 .. Len(s) -> Item]
  BY <1>2, <1>3 DEF Item
<1>6. w \in Seq(Item) /\ Len(w) = Len(s)
  BY <1>3, <1>5
<1>7. \A i \in 1 .. Len(w) : w[i].do = d /\ w[i].f \in S
  <2> TAKE i \in 1 .. Len(w)
  <2>1. w[i] = [do |-> d, f |-> s[i]] /\ s[i] \in S
    BY <1>3, <1>4, <1>6
  <2>2. QED
    BY <2>1
<1>8. ASSUME NEW x \in S PROVE \E i \in 1 .. Len(w) : w[i].do = d /\ w[i].f = x
  <2>1. PICK i \in 1 .. Len(s) : s[i] = x
    BY <1>1
  <2>2. w[i].do = d /\ w[i].f = x
    <3>1. w[i] = [do |-> d, f |-> x]
      BY <1>4, <2>1
    <3>2. QED
      BY <3>1
  <2>3. QED
    BY <1>6, <2>2
<1>9. QED
  BY <1>1, <1>6, <1>7, <1>8 DEF IsWork, w

LEMMA SmallSets ==
    /\ \A S \in SUBSET Greeters : IsFiniteSet(S)
    /\ \A x : IsFiniteSet({x}) /\ Cardinality({x}) = 1
    /\ IsFiniteSet({})
<1>1. \A S \in SUBSET Greeters : IsFiniteSet(S)
  BY WireAssumption, FS_Subset
<1>2. QED
  BY <1>1, FS_EmptySet, FS_Singleton

LEMMA Joined ==
    ASSUME NEW L, NEW a \in Seq(L), NEW b \in Seq(L)
    PROVE  /\ a \o b \in Seq(L) /\ Len(a \o b) = Len(a) + Len(b)
           /\ \A i \in 1 .. Len(a) : (a \o b)[i] = a[i]
           /\ \A i \in Len(a) + 1 .. Len(a) + Len(b) : (a \o b)[i] = b[i - Len(a)]
           /\ \A j \in 1 .. Len(b) : Len(a) + j \in 1 .. Len(a \o b) /\ (a \o b)[Len(a) + j] = b[j]
OBVIOUS

\* The same for a list of which only the files matter.
LEMMA WorkJoined ==
    ASSUME NEW d, NEW S, NEW T, NEW a, NEW b, IsWork(a, d, S), IsWork(b, d, T)
    PROVE  IsWork(a \o b, d, S \cup T)
<1>0. a \in Seq(Item) /\ b \in Seq(Item)
  BY DEF IsWork
<1>1. Len(a) \in Nat /\ Len(b) \in Nat
  BY <1>0
<1>2. /\ a \o b \in Seq(Item) /\ Len(a \o b) = Len(a) + Len(b)
      /\ \A i \in 1 .. Len(a) : (a \o b)[i] = a[i]
      /\ \A i \in Len(a) + 1 .. Len(a) + Len(b) : (a \o b)[i] = b[i - Len(a)]
      /\ \A j \in 1 .. Len(b) : Len(a) + j \in 1 .. Len(a \o b) /\ (a \o b)[Len(a) + j] = b[j]
  <2> HIDE DEF Item
  <2>1. QED
    BY <1>0, Joined
<1> DEFINE c == a \o b
<1> HIDE DEF c
<1>3. ASSUME NEW i \in 1 .. Len(c) PROVE c[i].do = d /\ c[i].f \in S \cup T
  <2>1. CASE i \in 1 .. Len(a)
    BY <1>2, <2>1 DEF c, IsWork
  <2>2. CASE i \notin 1 .. Len(a)
    <3>1. i \in Len(a) + 1 .. Len(a) + Len(b) /\ i - Len(a) \in 1 .. Len(b)
      BY <1>1, <1>2, <2>2 DEF c
    <3>2. QED
      BY <1>2, <3>1 DEF c, IsWork
  <2>3. QED
    BY <2>1, <2>2
<1>4. ASSUME NEW x \in S \cup T PROVE \E i \in 1 .. Len(c) : c[i].do = d /\ c[i].f = x
  <2>1. CASE x \in S
    <3>1. PICK i \in 1 .. Len(a) : a[i].do = d /\ a[i].f = x
      BY <2>1 DEF IsWork
    <3>2. i \in 1 .. Len(c) /\ c[i] = a[i]
      BY <1>1, <1>2 DEF c
    <3>3. QED
      BY <3>1, <3>2
  <2>2. CASE x \in T
    <3>1. PICK j \in 1 .. Len(b) : b[j].do = d /\ b[j].f = x
      BY <2>2 DEF IsWork
    <3>2. Len(a) + j \in 1 .. Len(c) /\ c[Len(a) + j] = b[j]
      BY <1>2 DEF c
    <3>3. QED
      BY <3>1, <3>2
  <2>3. QED
    BY <2>1, <2>2
<1>5. QED
  BY <1>2, <1>3, <1>4 DEF c, IsWork

LEMMA SingleWork ==
    ASSUME NEW d \in Dos, NEW x \in Files
    PROVE  LET w == Work(d, {x}) IN
           w \in Seq(Item) /\ Len(w) = 1 /\ w[1].do = d /\ w[1].f = x
<1> DEFINE w == Work(d, {x})
<1>1. IsWork(w, d, {x}) /\ Len(w) = 1
  <2>1. IsFiniteSet({x}) /\ Cardinality({x}) = 1 /\ {x} \subseteq Files
    BY SmallSets
  <2>2. QED
    BY <2>1, WorkIs
<1> HIDE DEF w
<1>2. w \in Seq(Item) /\ w[1].do = d /\ w[1].f = x
  BY <1>1 DEF IsWork
<1>3. QED
  BY <1>1, <1>2 DEF w

LEMMA Assoc ==
    ASSUME NEW L, NEW a \in Seq(L), NEW b \in Seq(L), NEW c \in Seq(L)
    PROVE  (a \o b) \o c = a \o (b \o c)
<1>1. /\ (a \o b) \o c \in Seq(L) /\ a \o (b \o c) \in Seq(L)
      /\ Len((a \o b) \o c) = Len(a \o (b \o c))
  OBVIOUS
<1>2. \A i \in 1 .. Len((a \o b) \o c) : ((a \o b) \o c)[i] = (a \o (b \o c))[i]
  OBVIOUS
<1>3. QED
  BY <1>1, <1>2, SMTT(30)

\* The list t starts with the calls of P and then does d to the files of S.
Headed(t, P, d, S) ==
    /\ t \in Seq(Item) /\ Len(t) >= Len(P)
    /\ \A i \in 1 .. Len(P) : t[i] = P[i]
    /\ \A i \in 1 .. Len(t) : i > Len(P) => t[i].do = d /\ t[i].f \in S
    /\ \A x \in S : \E i \in 1 .. Len(t) : t[i].do = d /\ t[i].f = x

LEMMA HeadedIs ==
    ASSUME NEW P \in Seq(Item), NEW w, NEW d, NEW S, IsWork(w, d, S)
    PROVE  Headed(P \o w, P, d, S)
<1> DEFINE t == P \o w
<1>0. w \in Seq(Item)
  BY DEF IsWork
<1>1. Len(P) \in Nat /\ Len(w) \in Nat
  BY <1>0
<1>2. /\ t \in Seq(Item) /\ Len(t) = Len(P) + Len(w)
      /\ \A i \in 1 .. Len(P) : t[i] = P[i]
      /\ \A i \in Len(P) + 1 .. Len(P) + Len(w) : t[i] = w[i - Len(P)]
      /\ \A j \in 1 .. Len(w) : Len(P) + j \in 1 .. Len(t) /\ t[Len(P) + j] = w[j]
  BY <1>0, Joined
<1> HIDE DEF t
<1>3. ASSUME NEW i \in 1 .. Len(t), i > Len(P) PROVE t[i].do = d /\ t[i].f \in S
  <2>1. i - Len(P) \in 1 .. Len(w) /\ t[i] = w[i - Len(P)]
    BY <1>1, <1>2, <1>3
  <2>2. QED
    BY <2>1 DEF IsWork
<1>4. ASSUME NEW x \in S PROVE \E i \in 1 .. Len(t) : t[i].do = d /\ t[i].f = x
  <2>1. PICK j \in 1 .. Len(w) : w[j].do = d /\ w[j].f = x
    BY DEF IsWork
  <2>2. QED
    BY <1>2, <2>1
<1>5. Len(t) >= Len(P)
  BY <1>1, <1>2
<1>6. QED
  BY <1>2, <1>3, <1>4, <1>5 DEF Headed, t

\* the calls an enable, and a disable, starts with
OnCalls(P) ==
    /\ P \in Seq(Item)
    /\ family = "Debian" =>
         /\ Len(P) = 3 /\ P[1].do = "openProfile" /\ P[2].do = "writeProfile"
         /\ P[3].do = "authUpdate"
    /\ family = "Fedora" =>
         /\ Len(P) = 7 /\ P[1].do = "current" /\ P[2].do = "create"
         /\ P[3].do = "inject" /\ P[3].f = "system-auth"
         /\ P[4].do = "inject" /\ P[4].f = "password-auth"
         /\ P[5].do = "openBase" /\ P[6].do = "writeBase" /\ P[7].do = "select"
    /\ family \notin {"Debian", "Fedora"} => Len(P) = 0

OffCalls(P) ==
    /\ P \in Seq(Item)
    /\ family = "Debian" => Len(P) = 2 /\ P[1].do = "removeProfile" /\ P[2].do = "authUpdate"
    /\ family = "Fedora" =>
         Len(P) = 3 /\ P[1].do = "revert" /\ P[2].do = "removeDir" /\ P[3].do = "removeBase"
    /\ family \notin {"Debian", "Fedora"} => Len(P) = 0

\* the files an enable, and a disable, go through one by one
Wire(b) == lockscreen_plan \cup
    IF family \in {"Debian", "Fedora"} THEN {}
    ELSE existing_targets \cup plasmalogin_greeter_plan
           \cup (IF b /\ Exists("sudo") THEN {"sudo"} ELSE {})
Unwire == {f \in {"kde-fingerprint", "kde"} : Exists(f)} \cup
    IF family \in {"Debian", "Fedora"} THEN {} ELSE {f \in ArchOnly : Exists(f)}

LEMMA CallIs ==
    ASSUME NEW d \in Dos
    PROVE  LET w == Call(d) IN w \in Seq(Item) /\ Len(w) = 1 /\ w[1].do = d
<1>1. [do |-> d, f |-> "-"] \in Item
  BY DEF Item
<1>2. [do |-> d, f |-> "-"].do = d
  OBVIOUS
<1>3. QED
  BY <1>1, <1>2 DEF Call

\* one call more
LEMMA Then ==
    ASSUME NEW a \in Seq(Item), NEW b \in Seq(Item), Len(b) = 1
    PROVE  /\ a \o b \in Seq(Item) /\ Len(a \o b) = Len(a) + 1
           /\ \A i \in 1 .. Len(a) : (a \o b)[i] = a[i]
           /\ (a \o b)[Len(a) + 1] = b[1]
<1> HIDE DEF Item
<1>1. QED
  BY Joined

LEMMA NoCalls ==
    ASSUME NEW w, NEW d, NEW S, IsWork(w, d, S), family \notin {"Debian", "Fedora"}
    PROVE  \E P : OnCalls(P) /\ OffCalls(P) /\ Headed(w, P, d, S)
<1>1. << >> \in Seq(Item) /\ Len(<< >>) = 0
  OBVIOUS
<1>2. PICK P : P = << >>
  OBVIOUS
<1>3. P \in Seq(Item) /\ Len(P) = 0
  BY <1>1, <1>2
<1>4. Headed(w, P, d, S)
  <2>1. w \in Seq(Item) /\ Len(w) \in Nat
    BY DEF IsWork
  <2>2. QED
    BY <1>3, <2>1 DEF Headed, IsWork
<1>5. QED
  BY <1>3, <1>4 DEF OnCalls, OffCalls

LEMMA EnableList ==
    ASSUME NEW b \in BOOLEAN
    PROVE  \E P : OnCalls(P) /\ Headed(EnableWork(b), P, "edit", Wire(b))
<1> DEFINE w == Work("edit", lockscreen_plan)
<1>0. {"edit", "openProfile", "writeProfile", "authUpdate", "current", "create", "inject",
       "openBase", "writeBase", "select"} \subseteq Dos
  BY DEF Dos
<1>1. IsWork(w, "edit", lockscreen_plan)
  <2>1. lockscreen_plan \subseteq Files /\ IsFiniteSet(lockscreen_plan)
    BY SmallSets DEF lockscreen_plan, Files, Vendored
  <2>2. PICK e \in Dos : e = "edit"
    BY <1>0
  <2>3. QED
    BY <2>1, <2>2, WorkIs
<1> HIDE DEF w
<1>2. EnableWork(b) = SharedEnable(b) \o w
  BY DEF EnableWork, w
<1>3. CASE family = "Debian"
  <2> DEFINE c1 == Call("openProfile")
             c2 == Call("writeProfile")
             c3 == Call("authUpdate")
  <2>1. SharedEnable(b) = (c1 \o c2) \o c3
    BY <1>3 DEF SharedEnable
  <2>2. /\ c1 \in Seq(Item) /\ Len(c1) = 1 /\ c1[1].do = "openProfile"
        /\ c2 \in Seq(Item) /\ Len(c2) = 1 /\ c2[1].do = "writeProfile"
        /\ c3 \in Seq(Item) /\ Len(c3) = 1 /\ c3[1].do = "authUpdate"
    BY <1>0, CallIs, Zenon
  <2> HIDE DEF c1, c2, c3
  <2> DEFINE p2 == c1 \o c2
             p3 == p2 \o c3
  <2>3. /\ p2 \in Seq(Item) /\ Len(p2) = 2
        /\ p2[1].do = "openProfile" /\ p2[2].do = "writeProfile"
    <3>1. /\ p2 \in Seq(Item) /\ Len(p2) = Len(c1) + 1
          /\ \A i \in 1 .. Len(c1) : p2[i] = c1[i]
          /\ p2[Len(c1) + 1] = c2[1]
      BY <2>2, Then
    <3> HIDE DEF p2
    <3>2. QED
      BY <2>2, <3>1
  <2> HIDE DEF p2
  <2>4. /\ p3 \in Seq(Item) /\ Len(p3) = 3
        /\ p3[1].do = "openProfile" /\ p3[2].do = "writeProfile" /\ p3[3].do = "authUpdate"
    <3>1. /\ p3 \in Seq(Item) /\ Len(p3) = Len(p2) + 1
          /\ \A i \in 1 .. Len(p2) : p3[i] = p2[i]
          /\ p3[Len(p2) + 1] = c3[1]
      BY <2>2, <2>3, Then
    <3> HIDE DEF p3
    <3>2. QED
      BY <2>2, <2>3, <3>1
  <2>5. SharedEnable(b) = p3
    BY <2>1 DEF p2
  <2> HIDE DEF p3
  <2>6. OnCalls(p3) /\ Wire(b) = lockscreen_plan
    BY <1>3, <2>4 DEF OnCalls, Wire
  <2>7. Headed(p3 \o w, p3, "edit", Wire(b))
    BY <1>1, <2>4, <2>6, HeadedIs
  <2>8. QED
    BY <1>2, <2>5, <2>6, <2>7
<1>4. CASE family = "Fedora"
  <2> DEFINE c1 == Call("current")
             c2 == Call("create")
             c3 == Work("inject", {"system-auth"})
             c4 == Work("inject", {"password-auth"})
             c5 == Call("openBase")
             c6 == Call("writeBase")
             c7 == Call("select")
  <2>1. SharedEnable(b) = (((((c1 \o c2) \o c3) \o c4) \o c5) \o c6) \o c7
    BY <1>4 DEF SharedEnable
  <2>2. /\ c1 \in Seq(Item) /\ Len(c1) = 1 /\ c1[1].do = "current"
        /\ c2 \in Seq(Item) /\ Len(c2) = 1 /\ c2[1].do = "create"
        /\ c5 \in Seq(Item) /\ Len(c5) = 1 /\ c5[1].do = "openBase"
        /\ c6 \in Seq(Item) /\ Len(c6) = 1 /\ c6[1].do = "writeBase"
        /\ c7 \in Seq(Item) /\ Len(c7) = 1 /\ c7[1].do = "select"
    BY <1>0, CallIs, Zenon
  <2>3. /\ c3 \in Seq(Item) /\ Len(c3) = 1 /\ c3[1].do = "inject" /\ c3[1].f = "system-auth"
        /\ c4 \in Seq(Item) /\ Len(c4) = 1 /\ c4[1].do = "inject" /\ c4[1].f = "password-auth"
    <3>1. "inject" \in Dos /\ "system-auth" \in Files /\ "password-auth" \in Files
      BY <1>0 DEF Files, Shared, Templates
    <3>2. QED
      BY <3>1, SingleWork, Zenon
  <2> HIDE DEF c1, c2, c3, c4, c5, c6, c7
  <2> DEFINE p2 == c1 \o c2
             p3 == p2 \o c3
             p4 == p3 \o c4
             p5 == p4 \o c5
             p6 == p5 \o c6
             p7 == p6 \o c7
  <2>4. p2 \in Seq(Item) /\ Len(p2) = 2 /\ p2[1] = c1[1] /\ p2[2] = c2[1]
    <3>1. /\ p2 \in Seq(Item) /\ Len(p2) = Len(c1) + 1
          /\ \A i \in 1 .. Len(c1) : p2[i] = c1[i]
          /\ p2[Len(c1) + 1] = c2[1]
      BY <2>2, Then
    <3> HIDE DEF p2
    <3>2. QED
      BY <2>2, <3>1
  <2> HIDE DEF p2
  <2>5. p3 \in Seq(Item) /\ Len(p3) = 3 /\ p3[1] = c1[1] /\ p3[2] = c2[1] /\ p3[3] = c3[1]
    <3>1. /\ p3 \in Seq(Item) /\ Len(p3) = Len(p2) + 1
          /\ \A i \in 1 .. Len(p2) : p3[i] = p2[i]
          /\ p3[Len(p2) + 1] = c3[1]
      BY <2>3, <2>4, Then
    <3> HIDE DEF p3
    <3>2. QED
      BY <2>3, <2>4, <3>1
  <2> HIDE DEF p3
  <2>6. /\ p4 \in Seq(Item) /\ Len(p4) = 4
        /\ p4[1] = c1[1] /\ p4[2] = c2[1] /\ p4[3] = c3[1] /\ p4[4] = c4[1]
    <3>1. /\ p4 \in Seq(Item) /\ Len(p4) = Len(p3) + 1
          /\ \A i \in 1 .. Len(p3) : p4[i] = p3[i]
          /\ p4[Len(p3) + 1] = c4[1]
      BY <2>3, <2>5, Then
    <3> HIDE DEF p4
    <3>2. QED
      BY <2>3, <2>5, <3>1
  <2> HIDE DEF p4
  <2>7. /\ p5 \in Seq(Item) /\ Len(p5) = 5
        /\ p5[1] = c1[1] /\ p5[2] = c2[1] /\ p5[3] = c3[1] /\ p5[4] = c4[1] /\ p5[5] = c5[1]
    <3>1. /\ p5 \in Seq(Item) /\ Len(p5) = Len(p4) + 1
          /\ \A i \in 1 .. Len(p4) : p5[i] = p4[i]
          /\ p5[Len(p4) + 1] = c5[1]
      BY <2>2, <2>6, Then
    <3> HIDE DEF p5
    <3>2. QED
      BY <2>2, <2>6, <3>1
  <2> HIDE DEF p5
  <2>8. /\ p6 \in Seq(Item) /\ Len(p6) = 6
        /\ p6[1] = c1[1] /\ p6[2] = c2[1] /\ p6[3] = c3[1] /\ p6[4] = c4[1] /\ p6[5] = c5[1]
        /\ p6[6] = c6[1]
    <3>1. /\ p6 \in Seq(Item) /\ Len(p6) = Len(p5) + 1
          /\ \A i \in 1 .. Len(p5) : p6[i] = p5[i]
          /\ p6[Len(p5) + 1] = c6[1]
      BY <2>2, <2>7, Then
    <3> HIDE DEF p6
    <3>2. QED
      BY <2>2, <2>7, <3>1
  <2> HIDE DEF p6
  <2>9. /\ p7 \in Seq(Item) /\ Len(p7) = 7
        /\ p7[1] = c1[1] /\ p7[2] = c2[1] /\ p7[3] = c3[1] /\ p7[4] = c4[1] /\ p7[5] = c5[1]
        /\ p7[6] = c6[1] /\ p7[7] = c7[1]
    <3>1. /\ p7 \in Seq(Item) /\ Len(p7) = Len(p6) + 1
          /\ \A i \in 1 .. Len(p6) : p7[i] = p6[i]
          /\ p7[Len(p6) + 1] = c7[1]
      BY <2>2, <2>8, Then
    <3> HIDE DEF p7
    <3>2. QED
      BY <2>2, <2>8, <3>1
  <2>10. SharedEnable(b) = p7
    BY <2>1 DEF p2, p3, p4, p5, p6
  <2> HIDE DEF p7
  <2>11. OnCalls(p7) /\ Wire(b) = lockscreen_plan
    BY <1>4, <2>2, <2>3, <2>9 DEF OnCalls, Wire
  <2>12. Headed(p7 \o w, p7, "edit", Wire(b))
    BY <1>1, <2>9, <2>11, HeadedIs
  <2>13. QED
    BY <1>2, <2>10, <2>11, <2>12
<1>5. CASE family \notin {"Debian", "Fedora"}
  <2> DEFINE S == existing_targets
             T == plasmalogin_greeter_plan
             U == IF b /\ Exists("sudo") THEN {"sudo"} ELSE {}
  <2>1. /\ S \subseteq Files /\ IsFiniteSet(S)
        /\ T \subseteq Files /\ IsFiniteSet(T)
        /\ U \subseteq Files /\ IsFiniteSet(U)
    BY SmallSets DEF existing_targets, plasmalogin_greeter_plan, Files, Vendored
  <2>2. SharedEnable(b) = Work("edit", S) \o Work("edit", T) \o Work("edit", U)
    BY <1>5 DEF SharedEnable
  <2>3. PICK e \in Dos : e = "edit"
    BY <1>0
  <2> HIDE DEF S, T, U
  <2>4. IsWork(Work(e, S), e, S) /\ IsWork(Work(e, T), e, T) /\ IsWork(Work(e, U), e, U)
    BY <2>1, WorkIs
  <2>5. IsWork(Work(e, S) \o Work(e, T), e, S \cup T)
    BY <2>4, WorkJoined
  <2>6. IsWork(Work(e, S) \o Work(e, T) \o Work(e, U), e, (S \cup T) \cup U)
    BY <2>4, <2>5, WorkJoined
  <2>7. IsWork(SharedEnable(b) \o w, "edit", ((S \cup T) \cup U) \cup lockscreen_plan)
    BY <1>1, <2>2, <2>3, <2>6, WorkJoined
  <2>8. Wire(b) = ((S \cup T) \cup U) \cup lockscreen_plan
    BY <1>5 DEF Wire, S, T, U
  <2>9. IsWork(EnableWork(b), "edit", Wire(b))
    BY <1>2, <2>7, <2>8
  <2>10. QED
    BY <1>5, <2>9, NoCalls
<1>6. QED
  BY <1>3, <1>4, <1>5

LEMMA DisableList == \E P : OffCalls(P) /\ Headed(DisableWork, P, "remove", Unwire)
<1> DEFINE S == {f \in {"kde-fingerprint"} : Exists(f)}
           T == {f \in {"kde"} : Exists(f)}
<1>0. {"remove", "removeProfile", "authUpdate", "revert", "removeDir", "removeBase"} \subseteq Dos
  BY DEF Dos
<1>1. PICK e \in Dos : e = "remove"
  BY <1>0
<1>2. /\ S \subseteq Files /\ IsFiniteSet(S)
      /\ T \subseteq Files /\ IsFiniteSet(T)
  BY SmallSets DEF Files, Vendored
<1>3. DisableWork = (SharedDisable \o Work(e, S)) \o Work(e, T)
  BY <1>1 DEF DisableWork
<1> HIDE DEF S, T
<1>4. IsWork(Work(e, S), e, S) /\ IsWork(Work(e, T), e, T)
  BY <1>2, WorkIs
<1> DEFINE w == Work(e, S) \o Work(e, T)
<1>5. IsWork(w, e, S \cup T)
  BY <1>4, WorkJoined
<1>6. ASSUME SharedDisable \in Seq(Item) PROVE DisableWork = SharedDisable \o w
  BY <1>3, <1>4, <1>6, Assoc DEF IsWork
<1> HIDE DEF w
<1>7. CASE family = "Debian"
  <2> DEFINE c1 == Call("removeProfile")
             c2 == Call("authUpdate")
             p2 == c1 \o c2
  <2>1. SharedDisable = p2
    BY <1>7 DEF SharedDisable
  <2>2. /\ c1 \in Seq(Item) /\ Len(c1) = 1 /\ c1[1].do = "removeProfile"
        /\ c2 \in Seq(Item) /\ Len(c2) = 1 /\ c2[1].do = "authUpdate"
    BY <1>0, CallIs, Zenon
  <2> HIDE DEF c1, c2
  <2>3. /\ p2 \in Seq(Item) /\ Len(p2) = 2
        /\ p2[1].do = "removeProfile" /\ p2[2].do = "authUpdate"
    <3>1. /\ p2 \in Seq(Item) /\ Len(p2) = Len(c1) + 1
          /\ \A i \in 1 .. Len(c1) : p2[i] = c1[i]
          /\ p2[Len(c1) + 1] = c2[1]
      BY <2>2, Then
    <3> HIDE DEF p2
    <3>2. QED
      BY <2>2, <3>1
  <2> HIDE DEF p2
  <2>4. OffCalls(p2) /\ Unwire = S \cup T
    BY <1>7, <2>3 DEF OffCalls, Unwire, S, T
  <2>5. Headed(p2 \o w, p2, "remove", Unwire)
    BY <1>1, <1>5, <2>3, <2>4, HeadedIs
  <2>6. QED
    BY <1>6, <2>1, <2>3, <2>4, <2>5
<1>8. CASE family = "Fedora"
  <2> DEFINE c1 == Call("revert")
             c2 == Call("removeDir")
             c3 == Call("removeBase")
             p2 == c1 \o c2
             p3 == p2 \o c3
  <2>1. SharedDisable = p3
    BY <1>8 DEF SharedDisable
  <2>2. /\ c1 \in Seq(Item) /\ Len(c1) = 1 /\ c1[1].do = "revert"
        /\ c2 \in Seq(Item) /\ Len(c2) = 1 /\ c2[1].do = "removeDir"
        /\ c3 \in Seq(Item) /\ Len(c3) = 1 /\ c3[1].do = "removeBase"
    BY <1>0, CallIs, Zenon
  <2> HIDE DEF c1, c2, c3
  <2>3. p2 \in Seq(Item) /\ Len(p2) = 2 /\ p2[1].do = "revert" /\ p2[2].do = "removeDir"
    <3>1. /\ p2 \in Seq(Item) /\ Len(p2) = Len(c1) + 1
          /\ \A i \in 1 .. Len(c1) : p2[i] = c1[i]
          /\ p2[Len(c1) + 1] = c2[1]
      BY <2>2, Then
    <3> HIDE DEF p2
    <3>2. QED
      BY <2>2, <3>1
  <2> HIDE DEF p2
  <2>4. /\ p3 \in Seq(Item) /\ Len(p3) = 3
        /\ p3[1].do = "revert" /\ p3[2].do = "removeDir" /\ p3[3].do = "removeBase"
    <3>1. /\ p3 \in Seq(Item) /\ Len(p3) = Len(p2) + 1
          /\ \A i \in 1 .. Len(p2) : p3[i] = p2[i]
          /\ p3[Len(p2) + 1] = c3[1]
      BY <2>2, <2>3, Then
    <3> HIDE DEF p3
    <3>2. QED
      BY <2>2, <2>3, <3>1
  <2> HIDE DEF p3
  <2>5. OffCalls(p3) /\ Unwire = S \cup T
    BY <1>8, <2>4 DEF OffCalls, Unwire, S, T
  <2>6. Headed(p3 \o w, p3, "remove", Unwire)
    BY <1>1, <1>5, <2>4, <2>5, HeadedIs
  <2>7. QED
    BY <1>6, <2>1, <2>4, <2>5, <2>6
<1>9. CASE family \notin {"Debian", "Fedora"}
  <2> DEFINE A == existing_targets
             B == {f \in {"sudo"} : Exists(f)}
             C == {f \in {"plasmalogin"} : Exists(f)}
  <2>1. /\ A \subseteq Files /\ IsFiniteSet(A)
        /\ B \subseteq Files /\ IsFiniteSet(B)
        /\ C \subseteq Files /\ IsFiniteSet(C)
    BY SmallSets DEF existing_targets, Files, Vendored
  <2>2. SharedDisable = Work(e, A) \o Work(e, B) \o Work(e, C)
    BY <1>9, <1>1 DEF SharedDisable
  <2>3. Unwire = ((A \cup B) \cup C) \cup (S \cup T)
    BY <1>9 DEF Unwire, S, T, existing_targets, ArchOnly
  <2> HIDE DEF A, B, C
  <2>4. IsWork(Work(e, A), e, A) /\ IsWork(Work(e, B), e, B) /\ IsWork(Work(e, C), e, C)
    BY <2>1, WorkIs
  <2>5. IsWork(Work(e, A) \o Work(e, B), e, A \cup B)
    BY <2>4, WorkJoined
  <2>6. IsWork(SharedDisable, e, (A \cup B) \cup C)
    BY <2>2, <2>4, <2>5, WorkJoined
  <2>7. IsWork(SharedDisable \o w, e, Unwire)
    BY <2>3, <2>6, <1>5, WorkJoined
  <2>8. DisableWork = SharedDisable \o w
    BY <1>6, <2>6 DEF IsWork
  <2>9. QED
    BY <1>1, <1>9, <2>7, <2>8, NoCalls
<1>10. QED
  BY <1>7, <1>8, <1>9

-----------------------------------------------------------------------------
(* The invariant is kept.                                                   *)

USE DEF disk, hist, counts, rest, fedora

LEMMA FirstItem ==
    ASSUME TodoInv, cmd # "idle"
    PROVE  /\ todo \in Seq(Item) /\ Len(todo) \in Nat /\ Len(todo) >= 1
           /\ DOMAIN todo = 1 .. Len(todo) /\ 1 \in DOMAIN todo
           /\ Head(todo) = todo[1] /\ Head(todo) \in Item /\ ItemOK(cmd, Head(todo))
           /\ Head(todo).do = "inject" => HasDir
<1>1. todo \in Seq(Item) /\ todo # << >>
  BY DEF TodoInv, Item
<1>2. Len(todo) \in Nat /\ Len(todo) >= 1 /\ DOMAIN todo = 1 .. Len(todo)
  BY <1>1
<1>3. 1 \in DOMAIN todo /\ Head(todo) = todo[1] /\ todo[1] \in Item
  BY <1>1, <1>2
<1>4. Before(1, "create") = FALSE
  BY DEF Before
<1>5. QED
  BY <1>1, <1>2, <1>3, <1>4 DEF TodoInv

LEMMA Advance ==
    ASSUME TodoInv, cmd # "idle", NextItem
    PROVE  /\ todo' \in Seq(Item) /\ Len(todo') \in Nat /\ Len(todo) = Len(todo') + 1
           /\ DOMAIN todo' = 1 .. Len(todo')
           /\ \A i \in DOMAIN todo' : i + 1 \in DOMAIN todo /\ todo'[i] = todo[i + 1]
           /\ \A i \in DOMAIN todo : i # 1 => i - 1 \in DOMAIN todo' /\ todo'[i - 1] = todo[i]
           /\ cmd' \in {cmd, "idle"} /\ (cmd' = "idle" <=> todo' = << >>)
           /\ cmd' = cmd => last' = last
           /\ cmd' # cmd => /\ DOMAIN todo = {1}
                            /\ last' = IF cmd = "enable" THEN "enabled" ELSE "disabled"
           /\ at' = "begin"
<1>1. todo \in Seq(Item) /\ todo # << >> /\ Len(todo) \in Nat /\ Len(todo) >= 1
      /\ DOMAIN todo = 1 .. Len(todo)
  BY FirstItem
<1>2. todo' = Tail(todo) /\ at' = "begin"
  BY DEF NextItem
<1>3. todo' \in Seq(Item) /\ Len(todo') = Len(todo) - 1
  BY <1>1, <1>2
<1>4. \A i \in 1 .. Len(todo') : todo'[i] = todo[i + 1]
  BY <1>1, <1>2
<1>5. Len(todo') \in Nat /\ DOMAIN todo' = 1 .. Len(todo')
  BY <1>1, <1>3
<1>6. \A i \in DOMAIN todo' : i + 1 \in DOMAIN todo /\ todo'[i] = todo[i + 1]
  BY <1>1, <1>3, <1>4, <1>5
<1>7. \A i \in DOMAIN todo : i # 1 => i - 1 \in DOMAIN todo' /\ todo'[i - 1] = todo[i]
  <2> TAKE i \in DOMAIN todo
  <2> HAVE i # 1
  <2>1. i - 1 \in DOMAIN todo' /\ (i - 1) + 1 = i
    BY <1>1, <1>3, <1>5
  <2>2. QED
    BY <1>6, <2>1
<1>11. Len(todo) = Len(todo') + 1
  BY <1>1, <1>3
<1>8. CASE Len(todo) > 1
  <2>1. cmd' = cmd /\ last' = last
    BY <1>8 DEF NextItem
  <2>2. todo' # << >>
    BY <1>1, <1>3, <1>8
  <2>3. QED
    BY <1>2, <1>3, <1>5, <1>6, <1>7, <1>11, <2>1, <2>2
<1>9. CASE ~(Len(todo) > 1)
  <2>1. cmd' = "idle" /\ last' = IF cmd = "enable" THEN "enabled" ELSE "disabled"
    BY <1>9 DEF NextItem
  <2>2. Len(todo) = 1
    BY <1>1, <1>9
  <2>3. todo' = << >> /\ DOMAIN todo = {1}
    BY <1>1, <1>3, <2>2
  <2>4. QED
    BY <1>2, <1>3, <1>5, <1>6, <1>7, <1>11, <2>1, <2>3, Zenon
<1>10. QED
  BY <1>8, <1>9

LEMMA BeforeShifts ==
    ASSUME TodoInv, cmd # "idle", NextItem, NEW d, NEW i \in DOMAIN todo', Before(i + 1, d)
    PROVE  Head(todo).do = d \/ Before(i, d)'
<1>1. PICK j \in 1 .. (i + 1) - 1 : todo[j].do = d
  BY DEF Before
<1>2. i \in Nat /\ j \in DOMAIN todo /\ j \in 1 .. i /\ Head(todo) = todo[1]
  BY <1>1, FirstItem, Advance
<1>3. CASE j = 1
  BY <1>1, <1>2, <1>3
<1>4. CASE j # 1
  <2>1. j - 1 \in 1 .. i - 1 /\ todo'[j - 1] = todo[j]
    BY <1>2, <1>4, Advance
  <2>2. QED
    BY <1>1, <2>1 DEF Before
<1>5. QED
  BY <1>3, <1>4

\* What the steps of a command may not undo while it is enabling.
Onward ==
    /\ UNCHANGED <<family, vendor>>
    /\ cmd = "enable" =>
         /\ \A f \in Files : Exists(f) => Exists(f)'
         /\ HasDir \/ Doing("create") => HasDir'

LEMMA TodoGoes ==
    ASSUME TodoInv, cmd # "idle", Onward, NextItem \/ (todo' = todo /\ cmd' = cmd)
    PROVE  TodoInv'
<1>1. ASSUME NEW x \in Item, NEW c \in {"enable", "disable"}, c = cmd, ItemOK(c, x)
      PROVE  ItemOK(c, x)'
  <2>1. family' = family /\ vendor' = vendor
    BY DEF Onward
  <2>2. x.do = "edit" => x.f \in Files /\ cmd = "enable"
    BY <1>1 DEF ItemOK, OnDisable
  <2>3. x.do = "edit" /\ Exists(x.f) => Exists(x.f)'
    BY <2>2 DEF Onward
  <2>4. QED
    BY <1>1, <2>1, <2>3 DEF ItemOK
<1>2. cmd \in {"enable", "disable"} /\ todo \in Seq(Item)
  BY FirstItem DEF TodoInv
<1>3. \A i \in DOMAIN todo : todo[i] \in Item
  BY <1>2
<1>4. \A i \in DOMAIN todo : todo[i].do = "inject" => cmd = "enable"
  BY <1>2 DEF TodoInv, ItemOK, OnDisable
<1>5. CASE todo' = todo /\ cmd' = cmd
  <2>1. \A i \in DOMAIN todo : ItemOK(cmd, todo[i])'
    BY <1>1, <1>2, <1>3, <1>5 DEF TodoInv
  <2>2. \A i \in DOMAIN todo : todo[i].do = "inject" => HasDir' \/ Before(i, "create")'
    BY <1>4, <1>5 DEF TodoInv, Onward, Before
  <2>3. QED
    BY <1>5, <2>1, <2>2 DEF TodoInv
<1>6. CASE NextItem
  <2>1. /\ todo' \in Seq(Item) /\ DOMAIN todo' = 1 .. Len(todo')
        /\ \A i \in DOMAIN todo' : i + 1 \in DOMAIN todo /\ todo'[i] = todo[i + 1]
        /\ cmd' \in {cmd, "idle"} /\ (cmd' = "idle" <=> todo' = << >>)
    BY <1>6, Advance
  <2>2. ASSUME NEW i \in DOMAIN todo' PROVE ItemOK(cmd, todo[i])'
    <3>1. cmd' = cmd
      BY <2>1, <2>2
    <3>2. ItemOK(cmd, todo[i + 1]) /\ todo[i + 1] \in Item /\ todo'[i] = todo[i + 1]
      BY <1>3, <2>1 DEF TodoInv
    <3>3. QED
      BY <1>1, <1>2, <3>1, <3>2
  <2>3. ASSUME NEW i \in DOMAIN todo', todo'[i].do = "inject" PROVE HasDir' \/ Before(i, "create")'
    <3>1. todo[i + 1].do = "inject" /\ i + 1 \in DOMAIN todo
      BY <2>1, <2>3
    <3>2. cmd = "enable" /\ (HasDir \/ Before(i + 1, "create"))
      BY <1>4, <3>1 DEF TodoInv
    <3>3. HasDir \/ Head(todo).do = "create" => HasDir'
      BY <3>2 DEF Onward, Doing
    <3>4. QED
      BY <1>6, <3>2, <3>3, BeforeShifts
  <2>4. QED
    BY <2>1, <2>2, <2>3 DEF TodoInv, Item
<1>7. QED
  BY <1>5, <1>6

LEMMA StanzaOf == \A f : Stanza(f) \in Stanzas
BY DEF Stanza, Stanzas

\* What an edit writes.
LEMMA EditedFacts ==
    ASSUME TodoInv, EtcInv, cmd # "idle", Head(todo).do \in {"edit", "remove"},
           Head(todo).do = "remove" => ~is_created_override(etc[File])
    PROVE  /\ File \in Files \ Shared /\ File \in Files \ Templates
           /\ Shape(File, Edited(File), orig[File])
           /\ Head(todo).do = "edit" => Wired(Edited(File)) /\ Edited(File) # Absent
           /\ Head(todo).do = "remove" => Edited(File) = orig[File]
<1>1. ItemOK(cmd, Head(todo))
  BY FirstItem
<1>2. File \in Files \ Shared /\ File \in Files \ Templates
  BY <1>1 DEF ItemOK, File, Shared
<1>3. orig[File] \in Plain /\ Shape(File, etc[File], orig[File])
  BY <1>2 DEF EtcInv
<1>4. CASE Head(todo).do = "remove"
  <2>1. Edited(File) = remove_module(etc[File])
    BY <1>4 DEF Edited
  <2>2. QED
    BY <1>2, <1>3, <1>4, <2>1, RemoveShape
<1>5. CASE Head(todo).do = "edit" /\ Exists(File)
  <2>1. Edited(File) = insert_first_auth(etc[File], Stanza(File))
    BY <1>5 DEF Edited
  <2>2. QED
    BY <1>2, <1>3, <1>5, <2>1, InsertShape, StanzaOf DEF Exists
<1>6. CASE Head(todo).do = "edit" /\ ~Exists(File)
  <2>1. Edited(File) = build_override(vendor[File], Stanza(File))
    BY <1>6 DEF Edited
  <2>2. File \in Vendored /\ vendor[File] # Absent
    BY <1>1, <1>6 DEF ItemOK, File
  <2>3. vendor[File] \in Originals
    BY <2>2 DEF EtcInv
  <2>4. orig[File] = Absent
    BY <1>3, <1>6, ShapeFacts DEF Exists
  <2>5. QED
    BY <1>2, <1>6, <2>1, <2>2, <2>3, <2>4, OverrideShape, StanzaOf
<1>7. QED
  BY <1>4, <1>5, <1>6

LEMMA AtBegins ==
    ASSUME at' = "begin"
    PROVE  AtInv'
BY DEF AtInv

LEMMA EtcKept ==
    ASSUME EtcInv, UNCHANGED <<family, etc, orig, vendor, active>>,
           broken' \in BOOLEAN, rebased' \in BOOLEAN, active = Custom /\ broken => broken'
    PROVE  EtcInv'
BY DEF EtcInv

LEMMA EtcOne ==
    ASSUME EtcInv, NEW f \in Files \ Templates, NEW c, Shape(f, c, orig[f]),
           etc' = [etc EXCEPT ![f] = c],
           UNCHANGED <<family, orig, vendor, active, broken, rebased>>
    PROVE  EtcInv'
<1>1. \A g \in Files : etc'[g] = IF g = f THEN c ELSE etc[g]
  BY DEF EtcInv
<1>2. DOMAIN etc' = Files /\ etc' = [g \in Files |-> etc'[g]]
  BY DEF EtcInv
<1>3. \A g \in Files \ Templates : Shape(g, etc'[g], orig'[g])
  BY <1>1 DEF EtcInv
<1>4. \A g \in Templates : g \in Files /\ g # f
  BY DEF Files, Shared
<1>5. \A g \in Templates : etc'[g] = etc[g]
  BY <1>1, <1>4
<1>6. QED
  BY <1>2, <1>3, <1>5, SMTT(30) DEF EtcInv

LEMMA DirKept ==
    ASSUME DirInv, dir' = dir, at # "fill", broken => broken'
    PROVE  DirInv'
BY DEF DirInv

\* Rendering the shared stacks from a profile.
LEMMA EtcSelect ==
    ASSUME EtcInv, DirInv, at # "fill", NEW p, Select(p),
           UNCHANGED <<family, orig, vendor, broken, rebased>>
    PROVE  EtcInv'
<1>1. \A f \in Files : etc'[f] = IF f \in Templates THEN TemplatesOf(p)[f] ELSE etc[f]
  BY DEF Select
<1>2. DOMAIN etc' = Files /\ etc' = [g \in Files |-> etc'[g]]
  BY DEF Select
<1>3. \A f \in Files \ Templates : Shape(f, etc'[f], orig'[f])
  BY <1>1 DEF EtcInv
<1>4. active' = p
  BY DEF Select
<1>5. ASSUME NEW f \in Templates
      PROVE  \/ p # Custom /\ \E q \in Stock : etc'[f] = StockTemplate(q)
             \/ p = Custom /\ Template(etc'[f]) /\ (broken \/ Whole(etc'[f]))
  <2>1. f \in Files /\ etc'[f] = TemplatesOf(p)[f]
    BY <1>1 DEF Files, Shared
  <2>2. CASE p = Custom
    <3>1. etc'[f] = dir[f] /\ HasDir
      BY <2>1, <2>2 DEF TemplatesOf, Select
    <3>2. QED
      BY <2>2, <3>1 DEF DirInv, HasDir
  <2>3. CASE p # Custom
    BY <2>1, <2>3, Given DEF TemplatesOf
  <2>4. QED
    BY <2>2, <2>3
<1>6. QED
  BY <1>2, <1>3, <1>4, <1>5 DEF EtcInv

LEMMA WireStart == Init => WireInv
<1> SUFFICES ASSUME Init PROVE WireInv
  OBVIOUS
<1>1. cmd = "idle" /\ todo = << >> /\ at = "begin" /\ broken = FALSE /\ rebased = FALSE /\ orig = etc
  BY DEF Init
<1>2. TodoInv /\ AtInv
  BY <1>1 DEF TodoInv, AtInv
<1>3. dir = [t \in Templates |-> Absent]
  BY DEF Init
<1>4. DirInv
  BY <1>3 DEF DirInv
<1>5. PICK o \in Originals : etc \in [Files -> {o, Absent}] /\ vendor \in [Vendored -> {o, Absent}]
  BY DEF Init
<1>6. o \in Plain /\ Absent \in Plain
  BY Given
<1>7. etc \in [Files -> Plain] /\ vendor \in [Vendored -> Originals \cup {Absent}]
  BY <1>5, <1>6
<1>8. family \in Families /\ active # Custom
  BY DEF Init, Stock, Custom
<1>9. family = "Debian" => orig["common-auth"] # Absent
  <2>1. "common-auth" \in Shared
    BY DEF Shared
  <2>2. QED
    BY <1>1, <2>1 DEF Init, Exists
<1>10. EtcInv
  BY <1>1, <1>7, <1>8, <1>9 DEF EtcInv, Shape
<1>11. QED
  BY <1>2, <1>4, <1>10 DEF WireInv

\* The steps of a command that leave the stacks and the templates alone.
LEMMA QuietStep ==
    ASSUME WireInv, cmd # "idle", at # "fill", Head(todo).do # "create", NextItem,
           UNCHANGED <<family, vendor, etc, orig, active, dir, broken>>, rebased' \in BOOLEAN
    PROVE  WireInv'
<1>1. TodoInv /\ AtInv /\ EtcInv /\ DirInv
  BY DEF WireInv
<1>2. EtcInv'
  BY <1>1, EtcKept DEF EtcInv
<1>3. DirInv'
  BY <1>1, DirKept
<1>4. AtInv'
  BY AtBegins DEF NextItem
<1>5. Onward
  BY DEF Onward, HasDir, Exists, Doing
<1>6. QED
  BY <1>1, <1>2, <1>3, <1>4, <1>5, TodoGoes DEF WireInv

\* One stack, not a template, is given another shape.
LEMMA StackStep ==
    ASSUME WireInv, cmd # "idle", at # "fill", Head(todo).do # "create", NextItem,
           NEW f \in Files \ Templates, NEW c, Shape(f, c, orig[f]),
           cmd = "enable" => c # Absent,
           etc' = [etc EXCEPT ![f] = c],
           UNCHANGED <<family, vendor, orig, active, dir, broken, rebased>>
    PROVE  WireInv'
<1>1. TodoInv /\ AtInv /\ EtcInv /\ DirInv
  BY DEF WireInv
<1>2. EtcInv'
  BY <1>1, EtcOne
<1>3. DirInv'
  BY <1>1, DirKept
<1>4. AtInv'
  BY AtBegins DEF NextItem
<1>5. Onward
  <2>1. \A g \in Files : etc'[g] = IF g = f THEN c ELSE etc[g]
    BY <1>1 DEF EtcInv
  <2>2. QED
    BY <2>1 DEF Onward, HasDir, Exists, Doing
<1>6. QED
  BY <1>1, <1>2, <1>3, <1>4, <1>5, TodoGoes DEF WireInv

\* The command goes on with the same piece of work.
LEMMA SameItem ==
    ASSUME WireInv, cmd # "idle", at # "fill", UNCHANGED <<cmd, todo>>,
           UNCHANGED <<family, vendor, etc, orig, active, dir, broken, rebased>>, AtInv'
    PROVE  WireInv'
<1>1. TodoInv /\ EtcInv /\ DirInv
  BY DEF WireInv
<1>2. EtcInv' /\ DirInv'
  BY <1>1, EtcKept, DirKept DEF EtcInv
<1>3. TodoInv'
  BY <1>1 DEF TodoInv, ItemOK, Exists, HasDir, Before
<1>4. QED
  BY <1>2, <1>3 DEF WireInv

LEMMA WireBegin == WireInv /\ Begin => WireInv'
<1> SUFFICES ASSUME WireInv, Begin PROVE WireInv'
  OBVIOUS
<1>1. TodoInv /\ AtInv /\ EtcInv /\ DirInv
  BY DEF WireInv
<1>2. cmd # "idle" /\ Head(todo).do \in {"edit", "remove"} /\ at = "begin"
  BY DEF Begin, Doing
<1>3. UNCHANGED <<family, vendor, orig, active, dir, broken, rebased>>
  BY DEF Begin
<1> DEFINE f == File
<1>4. f \in Files \ Templates /\ orig[f] \in Plain /\ Shape(f, etc[f], orig[f])
  <2>1. ItemOK(cmd, Head(todo))
    BY <1>1, <1>2, FirstItem
  <2>2. f \in Files \ Templates
    BY <1>2, <2>1 DEF ItemOK, File, Shared
  <2>3. QED
    BY <1>1, <2>2 DEF EtcInv
<1>5. CASE Head(todo).do = "remove" /\ is_created_override(etc[f])
  <2>1. etc' = [etc EXCEPT ![f] = Absent] /\ NextItem
    BY <1>5 DEF Begin
  <2>2. Shape(f, Absent, orig[f])
    BY <1>4, <1>5, ShapeFacts DEF Shape
  <2>3. cmd # "enable"
    BY <1>1, <1>2, <1>5, FirstItem DEF ItemOK, OnEnable
  <2>4. QED
    BY <1>2, <1>3, <1>4, <2>1, <2>2, <2>3, StackStep
<1>6. CASE ~(Head(todo).do = "remove" /\ is_created_override(etc[f]))
  <2>1. CASE Edited(f) = etc[f]
    <3>1. NextItem /\ etc' = etc
      BY <1>6, <2>1 DEF Begin
    <3>2. rebased' \in BOOLEAN
      BY <1>1, <1>3 DEF EtcInv
    <3>3. QED
      BY <1>2, <1>3, <3>1, <3>2, QuietStep
  <2>2. CASE Edited(f) # etc[f]
    <3>1. etc' = etc /\ at' \in {"copy", "open"} /\ UNCHANGED <<cmd, todo>>
      BY <1>6, <2>2 DEF Begin, Goto
    <3>2. AtInv'
      BY <1>2, <1>6, <3>1 DEF AtInv, File
    <3>3. QED
      BY <1>2, <1>3, <3>1, <3>2, SameItem
  <2>3. QED
    BY <2>1, <2>2
<1>7. QED
  BY <1>5, <1>6

LEMMA WireCopy == WireInv /\ (Copy \/ OpenTmp \/ WriteTmp) => WireInv'
<1> SUFFICES ASSUME WireInv, Copy \/ OpenTmp \/ WriteTmp PROVE WireInv'
  OBVIOUS
<1>1. cmd # "idle" /\ at \in {"copy", "open", "write"} /\ UNCHANGED <<cmd, todo>>
  BY DEF Copy, OpenTmp, WriteTmp, Goto
<1>2. UNCHANGED <<family, vendor, etc, orig, active, dir, broken, rebased>>
  BY DEF Copy, OpenTmp, WriteTmp
<1>3. at' \in {"open", "write"} \/ (at' = "rename" /\ tmp' = Edited(File))
  BY DEF Copy, OpenTmp, WriteTmp, Goto
<1>4. Edited(File)' = Edited(File) /\ File' = File
  BY <1>1, <1>2 DEF Edited, File, Exists
<1>5. AtInv'
  BY <1>1, <1>2, <1>3, <1>4 DEF AtInv, WireInv
<1>6. QED
  BY <1>1, <1>2, <1>5, SameItem

LEMMA WireRename == WireInv /\ Rename => WireInv'
<1> SUFFICES ASSUME WireInv, Rename PROVE WireInv'
  OBVIOUS
<1>1. TodoInv /\ AtInv /\ EtcInv
  BY DEF WireInv
<1>2. cmd # "idle" /\ at = "rename" /\ NextItem /\ etc' = [etc EXCEPT ![File] = tmp]
  BY DEF Rename
<1>3. UNCHANGED <<family, vendor, orig, active, dir, broken, rebased>>
  BY DEF Rename
<1>4. /\ Head(todo).do \in {"edit", "remove"} /\ tmp = Edited(File)
      /\ Head(todo).do = "remove" => ~is_created_override(etc[File])
  BY <1>1, <1>2 DEF AtInv
<1>5. /\ File \in Files \ Templates /\ Shape(File, tmp, orig[File])
      /\ Head(todo).do = "edit" => tmp # Absent
  BY <1>1, <1>2, <1>4, EditedFacts
<1>6. cmd = "enable" => Head(todo).do = "edit"
  BY <1>1, <1>2, <1>4, FirstItem DEF ItemOK, OnEnable
<1>7. QED
  BY <1>2, <1>3, <1>4, <1>5, <1>6, StackStep

LEMMA WireProfile == WireInv /\ (OpenProfile \/ WriteProfile \/ RemoveProfile) => WireInv'
<1> SUFFICES ASSUME WireInv, OpenProfile \/ WriteProfile \/ RemoveProfile PROVE WireInv'
  OBVIOUS
<1>1. /\ cmd # "idle" /\ NextItem
      /\ Head(todo).do \in {"openProfile", "writeProfile", "removeProfile"}
  BY DEF OpenProfile, WriteProfile, RemoveProfile, Doing
<1>2. UNCHANGED <<family, vendor, etc, orig, active, dir, broken, rebased>>
  BY DEF OpenProfile, WriteProfile, RemoveProfile
<1>3. at # "fill" /\ rebased' \in BOOLEAN
  BY <1>1, <1>2 DEF WireInv, AtInv, EtcInv
<1>4. QED
  BY <1>1, <1>2, <1>3, QuietStep

\* What pam-auth-update makes of common-auth.
LEMMA RenderedFacts ==
    ASSUME EtcInv, family = "Debian"
    PROVE  LET c == Rendered(etc["common-auth"], profile) IN
           /\ "common-auth" \in Files \ Templates
           /\ Shape("common-auth", c, orig["common-auth"]) /\ c # Absent
           /\ profile = <<"profile">> => Wired(c)
           /\ profile # <<"profile">> => c = orig["common-auth"]
<1> DEFINE o == orig["common-auth"]
           e == etc["common-auth"]
<1>1. "common-auth" \in Files \ Templates /\ "common-auth" \notin Vendored
  BY DEF Files, Shared, Templates, Vendored
<1>2. PICK f \in Files \ Templates : f = "common-auth"
  BY <1>1
<1>3. o \in Plain /\ Shape(f, e, o) /\ o # Absent
  BY <1>1, <1>2 DEF EtcInv
<1> HIDE DEF o, e
<1>4. e # Absent /\ ~is_created_override(e)
  BY <1>1, <1>2, <1>3, ShapeFacts
<1>5. CASE profile = <<"profile">>
  <2>1. PICK s \in Stanzas : s = "sufficient"
    BY DEF Stanzas
  <2>2. Rendered(e, profile) = insert_first_auth(e, s)
    BY <1>5, <2>1 DEF Rendered
  <2>3. QED
    BY <1>1, <1>2, <1>3, <1>4, <1>5, <2>2, InsertShape DEF o, e
<1>6. CASE profile # <<"profile">>
  <2>1. Rendered(e, profile) = remove_module(e)
    BY <1>6 DEF Rendered
  <2>2. remove_module(e) = o /\ Shape(f, remove_module(e), o)
    BY <1>3, <1>4, RemoveShape
  <2>3. QED
    BY <1>1, <1>2, <1>3, <1>6, <2>1, <2>2 DEF o, e
<1>7. QED
  BY <1>5, <1>6

LEMMA WireAuthUpdate == WireInv /\ AuthUpdate => WireInv'
<1> SUFFICES ASSUME WireInv, AuthUpdate PROVE WireInv'
  OBVIOUS
<1>1. cmd # "idle" /\ NextItem /\ Head(todo).do = "authUpdate"
  BY DEF AuthUpdate, Doing
<1>2. UNCHANGED <<family, vendor, orig, active, dir, broken, rebased>>
  BY DEF AuthUpdate
<1>3. TodoInv /\ EtcInv /\ at # "fill"
  BY <1>1 DEF WireInv, AtInv
<1>4. family = "Debian"
  BY <1>1, <1>3, FirstItem DEF ItemOK
<1> DEFINE c == Rendered(etc["common-auth"], profile)
<1>5. etc' = [etc EXCEPT !["common-auth"] = c]
  BY DEF AuthUpdate, Render
<1>6. /\ "common-auth" \in Files \ Templates
      /\ Shape("common-auth", c, orig["common-auth"]) /\ c # Absent
  BY <1>3, <1>4, RenderedFacts
<1> HIDE DEF c
<1>7. PICK f \in Files \ Templates : f = "common-auth"
  BY <1>6
<1>8. QED
  BY <1>1, <1>2, <1>3, <1>5, <1>6, <1>7, StackStep

LEMMA WireCurrent == WireInv /\ (Current \/ StoreBase \/ RemoveBase) => WireInv'
<1> SUFFICES ASSUME WireInv, Current \/ StoreBase \/ RemoveBase PROVE WireInv'
  OBVIOUS
<1>1. /\ cmd # "idle" /\ NextItem
      /\ Head(todo).do \in {"current", "openBase", "writeBase", "removeBase"}
  BY DEF Current, StoreBase, RemoveBase, Doing
<1>2. UNCHANGED <<family, vendor, etc, orig, active, dir, broken>>
  BY DEF Current, StoreBase, RemoveBase
<1>3. rebased' \in BOOLEAN
  BY DEF Current, StoreBase, RemoveBase, WireInv, EtcInv
<1>4. at # "fill"
  BY <1>1 DEF WireInv, AtInv
<1>5. QED
  BY <1>1, <1>2, <1>3, <1>4, QuietStep

LEMMA WireCreate == WireInv /\ Create => WireInv'
<1> SUFFICES ASSUME WireInv, Create PROVE WireInv'
  OBVIOUS
<1>1. cmd # "idle" /\ NextItem /\ Head(todo).do = "create"
  BY DEF Create, Doing
<1>2. UNCHANGED <<family, vendor, etc, orig, active, broken, rebased>>
  BY DEF Create
<1>3. TodoInv /\ EtcInv /\ DirInv /\ at # "fill" /\ at' = "begin"
  BY <1>1 DEF WireInv, AtInv, NextItem
<1>4. EtcInv' /\ AtInv'
  BY <1>2, <1>3, EtcKept, AtBegins DEF EtcInv
<1>5. DirInv' /\ HasDir'
  <2>1. CASE HasDir
    <3>1. dir' = dir
      BY <2>1 DEF Create
    <3>2. QED
      BY <1>2, <1>3, <2>1, <3>1, DirKept DEF HasDir
  <2>2. CASE ~HasDir
    <3>1. dir' = [t \in Templates |-> StockTemplate(found)]
      BY <2>2 DEF Create, TemplatesOf
    <3>2. Whole(StockTemplate(found)) /\ StockTemplate(found) # Absent
      BY Given DEF Whole
    <3>3. \A t \in Templates : dir'[t] = StockTemplate(found)
      BY <3>1
    <3>4. DirInv'
      BY <3>1, <3>2, <3>3 DEF DirInv, Template
    <3>5. "system-auth" \in Templates
      BY DEF Templates
    <3>6. HasDir'
      BY <3>2, <3>3, <3>5 DEF HasDir
    <3>7. QED
      BY <3>4, <3>6
  <2>3. QED
    BY <2>1, <2>2
<1>6. Onward
  BY <1>2, <1>5 DEF Onward, Exists
<1>7. QED
  BY <1>1, <1>3, <1>4, <1>5, <1>6, TodoGoes DEF WireInv

LEMMA WireInject == WireInv /\ Inject => WireInv'
<1> SUFFICES ASSUME WireInv, Inject PROVE WireInv'
  OBVIOUS
<1>1. cmd # "idle" /\ Head(todo).do = "inject" /\ at = "begin"
  BY DEF Inject, Doing
<1>2. UNCHANGED <<family, vendor, etc, orig, active, broken, rebased>>
  BY DEF Inject
<1>3. TodoInv /\ EtcInv /\ DirInv
  BY DEF WireInv
<1>4. File \in Templates /\ HasDir
  BY <1>1, <1>3, FirstItem DEF ItemOK, File
<1>5. Template(dir[File]) /\ (broken \/ Whole(dir[File]))
  BY <1>1, <1>3, <1>4 DEF DirInv, HasDir
<1> DEFINE new == insert_first_auth(dir[File], "sufficient")
<1>6. Template(new) /\ Wired(new) /\ (broken \/ Whole(new))
  BY <1>5, TemplateFacts
<1>7. CASE new = dir[File]
  <2>1. NextItem /\ dir' = dir
    BY <1>7 DEF Inject
  <2>2. rebased' \in BOOLEAN
    BY <1>2, <1>3 DEF EtcInv
  <2>3. QED
    BY <1>1, <1>2, <2>1, <2>2, QuietStep
<1>8. CASE new # dir[File]
  <2>1. /\ dir' = [dir EXCEPT ![File] = Torn] /\ tmp' = new
        /\ at' = "fill" /\ UNCHANGED <<cmd, todo>>
    BY <1>8 DEF Inject, Goto
  <2> HIDE DEF new
  <2>2. EtcInv'
    BY <1>2, <1>3, EtcKept DEF EtcInv
  <2>3. AtInv'
    BY <1>1, <1>2, <1>6, <2>1 DEF AtInv
  <2>4. \A t \in Templates : dir'[t] = IF t = File THEN Torn ELSE dir[t]
    BY <1>3, <2>1 DEF DirInv
  <2>5. \A t \in Templates : Template(dir[t]) /\ (broken \/ Whole(dir[t]))
    BY <1>1, <1>3, <1>4 DEF DirInv, HasDir
  <2>6. dir' = [t \in Templates |-> dir'[t]] /\ File' = File
    BY <1>3, <2>1 DEF DirInv, File
  <2>7. DirInv'
    BY <1>2, <2>1, <2>4, <2>5, <2>6 DEF DirInv, Template
  <2>8. HasDir'
    BY <1>4, <2>4, Given DEF HasDir
  <2>9. TodoInv'
    <3>1. Onward
      BY <1>2, <2>8 DEF Onward, Exists
    <3>2. QED
      BY <1>1, <1>3, <2>1, <3>1, TodoGoes
  <2>10. QED
    BY <2>2, <2>3, <2>7, <2>9 DEF WireInv
<1>9. QED
  BY <1>7, <1>8

LEMMA WireFill == WireInv /\ Fill => WireInv'
<1> SUFFICES ASSUME WireInv, Fill PROVE WireInv'
  OBVIOUS
<1>1. /\ cmd # "idle" /\ at = "fill" /\ NextItem /\ at' = "begin"
      /\ dir' = [dir EXCEPT ![File] = tmp]
  BY DEF Fill, NextItem
<1>2. UNCHANGED <<family, vendor, etc, orig, active, broken, rebased>>
  BY DEF Fill
<1>3. TodoInv /\ AtInv /\ EtcInv /\ DirInv
  BY DEF WireInv
<1>4. Head(todo).do = "inject" /\ Template(tmp) /\ (broken \/ Whole(tmp))
  BY <1>1, <1>3 DEF AtInv
<1>5. File \in Templates /\ HasDir
  BY <1>1, <1>3, <1>4, FirstItem DEF ItemOK, File
<1>6. EtcInv' /\ AtInv'
  BY <1>1, <1>2, <1>3, EtcKept, AtBegins DEF EtcInv
<1>7. \A t \in Templates : dir'[t] = IF t = File THEN tmp ELSE dir[t]
  BY <1>1, <1>3 DEF DirInv
<1>8. \A t \in Templates :
        /\ Template(dir[t])
        /\ broken \/ Whole(dir[t]) \/ t = File
  BY <1>3, <1>5 DEF DirInv, HasDir
<1>9. dir' = [t \in Templates |-> dir'[t]]
  BY <1>1, <1>3 DEF DirInv
<1>10. DirInv'
  BY <1>2, <1>4, <1>7, <1>8, <1>9 DEF DirInv
<1>11. HasDir'
  <2>1. tmp # Absent
    BY <1>4, TemplateFacts
  <2>2. QED
    BY <1>5, <1>7, <2>1 DEF HasDir
<1>12. Onward
  BY <1>2, <1>11 DEF Onward, Exists
<1>13. QED
  BY <1>1, <1>3, <1>6, <1>10, <1>12, TodoGoes DEF WireInv

\* authselect renders the shared stacks, on enable and on disable.
LEMMA WireSelect == WireInv /\ (SelectCustom \/ Revert) => WireInv'
<1> SUFFICES ASSUME WireInv, SelectCustom \/ Revert PROVE WireInv'
  OBVIOUS
<1>1. cmd # "idle" /\ NextItem /\ at' = "begin" /\ Head(todo).do \in {"select", "revert"}
  BY DEF SelectCustom, Revert, Doing, NextItem
<1>2. UNCHANGED <<family, vendor, orig, dir, broken, rebased>>
  BY DEF SelectCustom, Revert
<1>3. TodoInv /\ EtcInv /\ DirInv /\ at # "fill" /\ rebased' \in BOOLEAN
  BY <1>1, <1>2 DEF WireInv, AtInv, EtcInv
<1>4. \/ \E p : Select(p) /\ (p = Custom \/ cmd # "enable")
      \/ UNCHANGED <<active, etc>>
  <2>1. CASE SelectCustom
    BY <2>1 DEF SelectCustom
  <2>2. CASE Revert
    <3>1. cmd # "enable"
      BY <1>1, <1>3, <2>2, FirstItem DEF Revert, Doing, ItemOK, OnEnable
    <3>2. QED
      BY <2>2, <3>1 DEF Revert
  <2>3. QED
    BY <2>1, <2>2
<1>5. CASE UNCHANGED <<active, etc>>
  BY <1>1, <1>2, <1>3, <1>5, QuietStep
<1>6. CASE \E p : Select(p) /\ (p = Custom \/ cmd # "enable")
  <2>1. PICK p : Select(p) /\ (p = Custom \/ cmd # "enable")
    BY <1>6
  <2>2. EtcInv' /\ AtInv' /\ DirInv'
    BY <1>1, <1>2, <1>3, <2>1, EtcSelect, AtBegins, DirKept
  <2>3. ASSUME cmd = "enable", NEW f \in Files, Exists(f) PROVE Exists(f)'
    <3>1. p = Custom /\ HasDir
      BY <2>1, <2>3 DEF Select
    <3>2. etc'[f] = IF f \in Templates THEN dir[f] ELSE etc[f]
      BY <2>1, <3>1 DEF Select, TemplatesOf
    <3>3. \A t \in Templates : dir[t] # Absent
      BY <1>3, <3>1, TemplateFacts DEF DirInv, HasDir
    <3>4. QED
      BY <2>3, <3>2, <3>3 DEF Exists
  <2>4. Onward
    BY <1>1, <1>2, <2>3 DEF Onward, HasDir, Doing
  <2>5. QED
    BY <1>1, <1>3, <2>2, <2>4, TodoGoes DEF WireInv
<1>7. QED
  BY <1>4, <1>5, <1>6

LEMMA WireRemoveDir == WireInv /\ RemoveDir => WireInv'
<1> SUFFICES ASSUME WireInv, RemoveDir PROVE WireInv'
  OBVIOUS
<1>1. cmd # "idle" /\ NextItem /\ at' = "begin" /\ Head(todo).do = "removeDir"
  BY DEF RemoveDir, Doing, NextItem
<1>2. UNCHANGED <<family, vendor, etc, orig, active>> /\ dir' = [t \in Templates |-> Absent]
  BY DEF RemoveDir
<1>3. TodoInv /\ EtcInv /\ DirInv
  BY DEF WireInv
<1>4. broken' = (broken /\ active = Custom) /\ rebased' = (rebased /\ active = Custom)
  BY DEF RemoveDir
<1>5. EtcInv' /\ AtInv' /\ DirInv'
  BY <1>1, <1>2, <1>3, <1>4, EtcKept, AtBegins DEF EtcInv, DirInv
<1>6. cmd # "enable"
  BY <1>1, <1>3, FirstItem DEF ItemOK, OnEnable
<1>7. Onward
  BY <1>2, <1>6 DEF Onward
<1>8. QED
  BY <1>1, <1>3, <1>5, <1>7, TodoGoes DEF WireInv

LEMMA WireCut == WireInv /\ CutShort => WireInv'
<1> SUFFICES ASSUME WireInv, CutShort PROVE WireInv'
  OBVIOUS
<1>1. /\ cmd' = "idle" /\ todo' = << >> /\ at' = "begin"
      /\ broken' = (broken \/ at = "fill")
  BY DEF CutShort
<1>2. UNCHANGED <<family, vendor, etc, orig, active, dir, rebased>>
  BY DEF CutShort
<1>3. TodoInv'
  BY <1>1 DEF TodoInv
<1>4. EtcInv' /\ AtInv'
  BY <1>1, <1>2, EtcKept, AtBegins DEF WireInv, EtcInv
<1>5. DirInv'
  BY <1>1, <1>2 DEF WireInv, DirInv
<1>6. QED
  BY <1>3, <1>4, <1>5 DEF WireInv

LEMMA WireCommand ==
    ASSUME WireInv, enable \/ disable
    PROVE  WireInv'
<1>1. cmd = "idle" /\ at' = "begin"
  BY DEF enable, disable, Command
<1>2. UNCHANGED <<family, vendor, etc, orig, active, dir, broken, rebased>>
  BY DEF enable, disable, Command
<1>3. TodoInv /\ EtcInv /\ DirInv /\ at = "begin"
  BY <1>1 DEF WireInv, AtInv
<1>4. EtcInv' /\ AtInv' /\ DirInv'
  BY <1>1, <1>2, <1>3, EtcKept, AtBegins, DirKept DEF EtcInv
<1>5. TodoInv'
  <2>1. CASE enable
    <3>1. PICK b \in BOOLEAN : Command("enable", EnableWork(b))
      BY <2>1 DEF enable
    <3>2. todo' = EnableWork(b) /\ cmd' = IF todo' # << >> THEN "enable" ELSE "idle"
      BY <3>1 DEF Command
    <3>3. PICK P : OnCalls(P) /\ Headed(todo', P, "edit", Wire(b))
      BY <3>2, EnableList
    <3>4. /\ todo' \in Seq(Item) /\ DOMAIN todo' = 1 .. Len(todo') /\ Len(todo') \in Nat
          /\ Len(P) \in Nat /\ Len(todo') >= Len(P)
          /\ \A i \in 1 .. Len(P) : i \in DOMAIN todo' /\ todo'[i] = P[i]
      BY <3>3 DEF Headed, OnCalls
    <3>5. ASSUME NEW i \in DOMAIN todo'
          PROVE  /\ ItemOK("enable", todo'[i])
                 /\ todo'[i].do = "inject" => Before(i, "create")'
      <4>1. CASE i > Len(P)
        <5>1. todo'[i].do = "edit" /\ todo'[i].f \in Wire(b)
          BY <3>3, <3>4, <4>1 DEF Headed
        <5>2. ASSUME NEW f \in Wire(b)
              PROVE  /\ f \in Files \ Shared
                     /\ f \in ArchOnly => family \notin {"Debian", "Fedora"}
                     /\ Exists(f) \/ (f \in Vendored /\ vendor[f] # Absent)
          <6>1. f \in lockscreen_plan => f \in {"kde-fingerprint", "kde"} /\ Managed(f)
            BY DEF lockscreen_plan
          <6>2. f \notin lockscreen_plan =>
                  /\ family \notin {"Debian", "Fedora"} /\ f \in ArchOnly
                  /\ Exists(f) \/ (f = "plasmalogin" /\ vendor[f] # Absent)
            BY <5>2 DEF Wire, existing_targets, plasmalogin_greeter_plan, ArchOnly, Managed
          <6>3. {"kde-fingerprint", "kde"} \cap ArchOnly = {} /\ ArchOnly \subseteq Files \ Shared
            BY WireAssumption DEF ArchOnly, Files, Shared, Vendored, Templates
          <6>4. {"kde-fingerprint", "kde", "plasmalogin"} \subseteq Vendored
            BY DEF Vendored
          <6>5. {"kde-fingerprint", "kde"} \subseteq Files \ Shared
            BY DEF Files, Vendored, Shared, Templates
          <6>6. QED
            BY <6>1, <6>2, <6>3, <6>4, <6>5 DEF Managed
        <5>3. QED
          BY <5>1, <5>2 DEF ItemOK, OnEnable, OnFedora
      <4>2. CASE i <= Len(P)
        <5>1. i \in 1 .. Len(P) /\ todo'[i] = P[i]
          BY <3>4, <4>2
        <5>2. CASE family = "Debian"
          <6>1. P[i].do \in {"openProfile", "writeProfile", "authUpdate"}
            <7>1. /\ Len(P) = 3 /\ P[1].do = "openProfile" /\ P[2].do = "writeProfile"
                  /\ P[3].do = "authUpdate"
              BY <3>3, <5>2 DEF OnCalls
            <7>2. i \in {1, 2, 3}
              BY <5>1, <7>1
            <7>3. QED
              BY <7>1, <7>2
          <6>2. QED
            BY <5>1, <5>2, <6>1 DEF ItemOK, OnEnable, OnFedora
        <5>3. CASE family = "Fedora"
          <6>1. /\ P[i].do \in {"current", "create", "inject", "openBase", "writeBase", "select"}
                /\ P[i].do = "inject" => P[i].f \in Templates /\ i \in {3, 4}
            <7>1. /\ Len(P) = 7 /\ P[1].do = "current" /\ P[2].do = "create"
                  /\ P[3].do = "inject" /\ P[3].f = "system-auth"
                  /\ P[4].do = "inject" /\ P[4].f = "password-auth"
                  /\ P[5].do = "openBase" /\ P[6].do = "writeBase" /\ P[7].do = "select"
              BY <3>3, <5>3 DEF OnCalls
            <7>2. i \in {1, 2, 3, 4, 5, 6, 7}
              BY <5>1, <7>1
            <7>3. QED
              BY <7>1, <7>2 DEF Templates
          <6>2. ItemOK("enable", P[i])
            BY <5>3, <6>1 DEF ItemOK, OnEnable, OnFedora
          <6>3. todo'[2].do = "create"
            <7>1. Len(P) = 7 /\ P[2].do = "create"
              BY <3>3, <5>3 DEF OnCalls
            <7>2. 2 \in 1 .. Len(P)
              BY <7>1
            <7>3. QED
              BY <3>4, <7>1, <7>2
          <6>4. P[i].do = "inject" => Before(i, "create")'
            BY <6>1, <6>3 DEF Before
          <6>5. QED
            BY <5>1, <6>2, <6>4
        <5>4. CASE family \notin {"Debian", "Fedora"}
          BY <3>3, <5>1, <5>4 DEF OnCalls
        <5>5. QED
          BY <5>2, <5>3, <5>4
      <4>3. QED
        BY <3>4, <4>1, <4>2
    <3>6. ASSUME NEW i \in DOMAIN todo' PROVE ItemOK(cmd, todo[i])'
      <4>1. cmd' = "enable"
        BY <3>2, <3>4
      <4>2. QED
        BY <1>2, <3>5, <4>1 DEF ItemOK, Exists
    <3>7. QED
      BY <3>2, <3>4, <3>5, <3>6 DEF TodoInv, Item
  <2>2. CASE disable
    <3>1. Command("disable", DisableWork)
      BY <2>2 DEF disable
    <3>2. todo' = DisableWork /\ cmd' = IF todo' # << >> THEN "disable" ELSE "idle"
      BY <3>1 DEF Command
    <3>3. PICK P : OffCalls(P) /\ Headed(todo', P, "remove", Unwire)
      BY <3>2, DisableList
    <3>4. /\ todo' \in Seq(Item) /\ DOMAIN todo' = 1 .. Len(todo') /\ Len(todo') \in Nat
          /\ Len(P) \in Nat /\ Len(todo') >= Len(P)
          /\ \A i \in 1 .. Len(P) : i \in DOMAIN todo' /\ todo'[i] = P[i]
      BY <3>3 DEF Headed, OffCalls
    <3>5. ASSUME NEW i \in DOMAIN todo'
          PROVE  ItemOK("disable", todo'[i]) /\ todo'[i].do # "inject"
      <4>1. CASE i > Len(P)
        <5>1. todo'[i].do = "remove" /\ todo'[i].f \in Unwire
          BY <3>3, <3>4, <4>1 DEF Headed
        <5>2. ASSUME NEW f \in Unwire
              PROVE  /\ f \in Files \ Shared
                     /\ f \in ArchOnly => family \notin {"Debian", "Fedora"}
          <6>1. f \in {"kde-fingerprint", "kde"} \/ (f \in ArchOnly /\ family \notin {"Debian", "Fedora"})
            BY <5>2 DEF Unwire
          <6>2. {"kde-fingerprint", "kde"} \cap ArchOnly = {} /\ ArchOnly \subseteq Files \ Shared
            BY WireAssumption DEF ArchOnly, Files, Shared, Vendored, Templates
          <6>3. {"kde-fingerprint", "kde"} \subseteq Files \ Shared
            BY DEF Files, Vendored, Shared, Templates
          <6>4. QED
            BY <6>1, <6>2, <6>3
        <5>3. QED
          BY <5>1, <5>2 DEF ItemOK, OnDisable, OnFedora
      <4>2. CASE i <= Len(P)
        <5>1. i \in 1 .. Len(P) /\ todo'[i] = P[i]
          BY <3>4, <4>2
        <5>2. CASE family = "Debian"
          <6>1. P[i].do \in {"removeProfile", "authUpdate"}
            <7>1. Len(P) = 2 /\ P[1].do = "removeProfile" /\ P[2].do = "authUpdate"
              BY <3>3, <5>2 DEF OffCalls
            <7>2. i \in {1, 2}
              BY <5>1, <7>1
            <7>3. QED
              BY <7>1, <7>2
          <6>2. QED
            BY <5>1, <5>2, <6>1 DEF ItemOK, OnDisable, OnFedora
        <5>3. CASE family = "Fedora"
          <6>1. P[i].do \in {"revert", "removeDir", "removeBase"}
            <7>1. /\ Len(P) = 3 /\ P[1].do = "revert" /\ P[2].do = "removeDir"
                  /\ P[3].do = "removeBase"
              BY <3>3, <5>3 DEF OffCalls
            <7>2. i \in {1, 2, 3}
              BY <5>1, <7>1
            <7>3. QED
              BY <7>1, <7>2
          <6>2. QED
            BY <5>1, <5>3, <6>1 DEF ItemOK, OnDisable, OnFedora
        <5>4. CASE family \notin {"Debian", "Fedora"}
          BY <3>3, <5>1, <5>4 DEF OffCalls
        <5>5. QED
          BY <5>2, <5>3, <5>4
      <4>3. QED
        BY <3>4, <4>1, <4>2
    <3>6. ASSUME NEW i \in DOMAIN todo' PROVE ItemOK(cmd, todo[i])'
      <4>1. cmd' = "disable"
        BY <3>2, <3>4
      <4>2. QED
        BY <1>2, <3>5, <4>1 DEF ItemOK, Exists
    <3>7. QED
      BY <3>2, <3>4, <3>5, <3>6 DEF TodoInv, Item
  <2>3. QED
    BY <2>1, <2>2
<1>6. QED
  BY <1>4, <1>5 DEF WireInv

LEMMA WireOthers ==
    ASSUME WireInv, (\E f \in Files, o \in Originals : Replace(f, o)) \/ OtherUpdate
    PROVE  WireInv'
<1>1. cmd = "idle" /\ UNCHANGED <<cmd, todo, at, tmp, dir, family, broken, rebased>>
  BY DEF Replace, OtherUpdate, Others
<1>2. TodoInv /\ AtInv /\ EtcInv /\ DirInv
  BY DEF WireInv
<1>3. todo = << >> /\ at = "begin"
  BY <1>1, <1>2 DEF TodoInv, AtInv
<1>4. TodoInv' /\ AtInv' /\ DirInv'
  BY <1>1, <1>2, <1>3, AtBegins, DirKept DEF TodoInv
<1>5. EtcInv'
  <2>1. ASSUME NEW f \in Files, NEW o \in Originals, Replace(f, o) PROVE EtcInv'
    <3>1. CASE f \in Vendored /\ ~Exists(f)
      <4>1. vendor' = [vendor EXCEPT ![f] = o] /\ UNCHANGED <<etc, orig, active>>
        BY <2>1, <3>1 DEF Replace
      <4>2. vendor' \in [Vendored -> Originals \cup {Absent}]
        BY <1>2, <4>1 DEF EtcInv
      <4>3. QED
        BY <1>1, <1>2, <4>1, <4>2 DEF EtcInv
    <3>2. CASE ~(f \in Vendored /\ ~Exists(f))
      <4>1. /\ etc' = [etc EXCEPT ![f] = o] /\ orig' = [orig EXCEPT ![f] = o]
            /\ UNCHANGED <<vendor, active>> /\ f \notin Shared
        BY <2>1, <3>2 DEF Replace
      <4>2. o \in Plain /\ o # Absent
        BY Given
      <4>3. /\ \A g \in Files : etc'[g] = IF g = f THEN o ELSE etc[g]
            /\ \A g \in Files : orig'[g] = IF g = f THEN o ELSE orig[g]
            /\ DOMAIN etc' = Files /\ etc' = [g \in Files |-> etc'[g]]
            /\ orig' \in [Files -> Plain]
        BY <1>2, <4>1, <4>2 DEF EtcInv
      <4>4. \A g \in Files \ Templates : Shape(g, etc'[g], orig'[g])
        BY <1>2, <4>3 DEF EtcInv, Shape
      <4>5. \A g \in Templates \cup {"common-auth"} : g \in Files /\ g # f
        BY <4>1 DEF Files, Shared
      <4>6. \A g \in Templates \cup {"common-auth"} : etc'[g] = etc[g] /\ orig'[g] = orig[g]
        BY <4>3, <4>5
      <4>7. QED
        <5>1. \A g \in Templates :
                 \/ active' # Custom /\ (etc'[g] = orig'[g] \/ \E p \in Stock : etc'[g] = StockTemplate(p))
                 \/ active' = Custom /\ Template(etc'[g]) /\ (broken' \/ Whole(etc'[g]))
          BY <1>1, <1>2, <4>1, <4>6 DEF EtcInv
        <5>2. family' = "Debian" => orig'["common-auth"] # Absent
          BY <1>1, <1>2, <4>6 DEF EtcInv
        <5>3. /\ family' \in Families /\ broken' \in BOOLEAN /\ rebased' \in BOOLEAN
              /\ vendor' \in [Vendored -> Originals \cup {Absent}]
          BY <1>1, <1>2, <4>1 DEF EtcInv
        <5>4. QED
          BY <4>3, <4>4, <5>1, <5>2, <5>3 DEF EtcInv
    <3>3. QED
      BY <3>1, <3>2
  <2>2. CASE OtherUpdate
    <3>1. UNCHANGED <<orig, vendor>>
      BY <2>2 DEF OtherUpdate
    <3>2. CASE family = "Debian" /\ Render /\ UNCHANGED active
      <4> DEFINE c == Rendered(etc["common-auth"], profile)
      <4>1. etc' = [etc EXCEPT !["common-auth"] = c]
        BY <3>2 DEF Render
      <4>2. /\ "common-auth" \in Files \ Templates
            /\ Shape("common-auth", c, orig["common-auth"])
        BY <1>2, <3>2, RenderedFacts
      <4> HIDE DEF c
      <4>3. PICK f \in Files \ Templates : f = "common-auth"
        BY <4>2
      <4>4. QED
        BY <1>1, <1>2, <3>1, <3>2, <4>1, <4>2, <4>3, EtcOne
    <3>3. CASE \E p \in Stock : Select(p)
      BY <1>1, <1>2, <1>3, <3>1, <3>3, EtcSelect
    <3>4. QED
      BY <2>2, <3>2, <3>3 DEF OtherUpdate
  <2>3. QED
    BY <2>1, <2>2
<1>6. QED
  BY <1>4, <1>5 DEF WireInv

LEMMA WireStep == WireInv /\ [Next]_vars => WireInv'
<1> SUFFICES ASSUME WireInv, [Next]_vars PROVE WireInv'
  OBVIOUS
<1>1. CASE UNCHANGED vars
  BY <1>1, ZenonT(30)
  DEF vars, WireInv, TodoInv, AtInv, EtcInv, DirInv, ItemOK, Exists, HasDir, Before,
              File, Edited
<1>2. CASE Next
  BY <1>2, WireCommand, WireBegin, WireCopy, WireRename, WireProfile, WireAuthUpdate,
     WireCurrent, WireCreate, WireInject, WireFill, WireSelect, WireRemoveDir, WireCut,
     WireOthers DEF Next
<1>3. QED
  BY <1>1, <1>2

\* The invariant behind the three results: what the work left is about, where the
\* command is in it, and what every stack and template holds, at every file
\* access of enable and disable and after a command was cut short at any of them.
THEOREM WireSafe == Spec => []WireInv
<1>1. QED
  BY WireStart, WireStep, PTL DEF Spec

LEMMA WireKeepsPassword == WireInv => PasswordKept
<1> SUFFICES ASSUME WireInv, NEW f \in Files, Exists(f)
             PROVE  \/ Foreign(etc[f]) = orig[f]
                    \/ f \in Vendored /\ orig[f] = Absent /\ is_created_override(etc[f])
                         /\ Foreign(etc[f]) \in Originals
                    \/ f \in Templates /\ (broken \/ \E p \in Stock : Foreign(etc[f]) = StockTemplate(p))
  BY DEF PasswordKept
<1>1. EtcInv /\ orig[f] \in Plain
  BY DEF WireInv, EtcInv
<1>2. CASE f \notin Templates
  <2>1. Shape(f, etc[f], orig[f])
    BY <1>1, <1>2 DEF EtcInv
  <2>2. QED
    BY <1>1, <2>1, ShapeFacts DEF Exists
<1>3. CASE f \in Templates
  <2>1. \/ etc[f] = orig[f] \/ \E p \in Stock : etc[f] = StockTemplate(p)
        \/ broken \/ Whole(etc[f])
    BY <1>1, <1>3 DEF EtcInv
  <2>2. CASE etc[f] = orig[f]
    BY <1>1, <2>2, PlainFacts
  <2>3. CASE \E p \in Stock : etc[f] = StockTemplate(p)
    BY <1>3, <2>3, PlainFacts, Given
  <2>4. CASE broken \/ Whole(etc[f])
    BY <1>3, <2>4, WholeFacts
  <2>5. QED
    BY <2>1, <2>2, <2>3, <2>4
<1>4. QED
  BY <1>2, <1>3

\* Every stack PAM may read holds the lines others put there, all of them and in
\* order, whatever command ran or was cut short (write_atomic, remove_in and the
\* pure helpers of pamwire.rs).  The shared authselect stacks may hold a stock
\* profile's lines instead, and anything once a template write was cut short.
THEOREM PasswordStays == Spec => []PasswordKept
<1>1. QED
  BY WireSafe, WireKeepsPassword, PTL

-----------------------------------------------------------------------------
(* A disable undoes what was done.                                          *)

LEMMA Apart ==
    /\ ArchOnly \subseteq Files \ Shared /\ "common-auth" \in Files \ Templates
    /\ \A f \in Files \ Shared : f \in Files \ Templates
    /\ \A f \in Files \ Templates :
         f \in ArchOnly \/ f \in {"kde-fingerprint", "kde"} \/ f = "common-auth"
    /\ \A f \in Files \ Shared : f # "common-auth"
    /\ Templates \subseteq Files
    /\ "common-auth" \notin ArchOnly
<1>1. Greeters \cap ({"sudo"} \cup Vendored \cup Shared) = {}
  BY WireAssumption
<1>2. Templates \subseteq Shared /\ "common-auth" \in Shared /\ Shared \subseteq Files
  BY DEF Shared, Files
<1>3. "common-auth" \notin Templates
  BY DEF Templates
<1>4. "sudo" \notin Shared /\ "plasmalogin" \notin Shared
  BY DEF Shared, Templates
<1>5. ArchOnly \subseteq Files \ Shared
  BY <1>1, <1>4 DEF ArchOnly, Files, Vendored
<1>6. \A f \in Files \ Templates :
        f \in ArchOnly \/ f \in {"kde-fingerprint", "kde"} \/ f = "common-auth"
  BY DEF Files, ArchOnly, Vendored, Shared
<1>7. QED
  BY <1>2, <1>3, <1>5, <1>6

\* Which stacks the step of a command may change.
LEMMA EtcMoves ==
    ASSUME WireInv, Next, cmd # "idle"
    PROVE  /\ family' = family /\ orig' = orig /\ vendor' = vendor
           /\ \A f \in Files \ Templates :
                \/ etc'[f] = etc[f]
                \/ Head(todo).do \in {"edit", "remove"} /\ f = File /\ NextItem
                \/ Head(todo).do = "authUpdate" /\ f = "common-auth" /\ NextItem
           /\ \/ active' = active /\ \A f \in Templates : etc'[f] = etc[f]
              \/ Head(todo).do \in {"select", "revert"} /\ NextItem
<1>1. EtcInv /\ TodoInv /\ AtInv
  BY DEF WireInv
<1>2. \A f \in Templates : f \in Files
  BY Apart
<1>3. ~enable /\ ~disable /\ ~OtherUpdate /\ \A f, o : ~Replace(f, o)
  BY DEF enable, disable, Command, OtherUpdate, Replace, Others
<1>4. CASE Begin
  <2>1. Head(todo).do \in {"edit", "remove"} /\ File \in Files \ Templates
    BY <1>1, <1>4, FirstItem, Apart DEF Begin, Doing, ItemOK, File
  <2>2. etc' = etc \/ (etc' = [etc EXCEPT ![File] = Absent] /\ NextItem)
    BY <1>4 DEF Begin
  <2>3. \A f \in Files : etc'[f] = etc[f] \/ (f = File /\ NextItem)
    BY <1>1, <2>2 DEF EtcInv
  <2>4. QED
    BY <1>2, <1>4, <2>1, <2>3 DEF Begin
<1>5. CASE Rename
  <2>1. Head(todo).do \in {"edit", "remove"} /\ NextItem
    BY <1>1, <1>5 DEF AtInv, Rename
  <2>2. File \in Files \ Templates
    BY <1>1, <1>5, <2>1, FirstItem, Apart DEF ItemOK, File, Rename
  <2>3. \A f \in Files : etc'[f] = etc[f] \/ f = File
    BY <1>1, <1>5 DEF EtcInv, Rename
  <2>4. QED
    BY <1>2, <1>5, <2>1, <2>2, <2>3 DEF Rename
<1>6. CASE AuthUpdate
  <2>1. Head(todo).do = "authUpdate" /\ NextItem
    BY <1>6 DEF AuthUpdate, Doing
  <2>2. \A f \in Files : etc'[f] = etc[f] \/ f = "common-auth"
    BY <1>1, <1>6 DEF EtcInv, AuthUpdate, Render
  <2>3. QED
    BY <1>2, <1>6, <2>1, <2>2, Apart DEF AuthUpdate
<1>7. CASE SelectCustom \/ Revert
  <2>1. Head(todo).do \in {"select", "revert"} /\ NextItem
    BY <1>7 DEF SelectCustom, Revert, Doing
  <2>2. \A f \in Files \ Templates : etc'[f] = etc[f]
    BY <1>7 DEF SelectCustom, Revert, Select
  <2>3. QED
    BY <1>7, <2>1, <2>2 DEF SelectCustom, Revert
<1>8. CASE Copy \/ OpenTmp \/ WriteTmp
  BY <1>8 DEF Copy, OpenTmp, WriteTmp
<1>9. CASE OpenProfile \/ WriteProfile \/ RemoveProfile
  BY <1>9 DEF OpenProfile, WriteProfile, RemoveProfile
<1>10. CASE Current \/ Create \/ Inject \/ Fill \/ StoreBase \/ RemoveDir \/ RemoveBase \/ CutShort
  BY <1>10 DEF Current, Create, Inject, Fill, StoreBase, RemoveDir, RemoveBase, CutShort
<1>11. QED
  BY <1>3, <1>4, <1>5, <1>6, <1>7, <1>8, <1>9, <1>10 DEF Next

\* Which parts of the machine's state a step belongs to.
LEMMA Steps ==
    ASSUME WireInv, Next, cmd # "idle"
    PROVE  \/ NextItem
           \/ UNCHANGED <<cmd, todo, last, etc, active, base, found, rebased, profile>>
           \/ cmd' = "idle" /\ last' = "cut" /\ UNCHANGED <<active, base, rebased>>
<1>1. ~enable /\ ~disable /\ ~OtherUpdate /\ \A f, o : ~Replace(f, o)
  BY DEF enable, disable, Command, OtherUpdate, Replace, Others
<1>2. CASE Begin
  BY <1>2 DEF Begin, Goto
<1>3. CASE Inject
  BY <1>3 DEF Inject, Goto
<1>4. CASE Copy \/ OpenTmp \/ WriteTmp
  BY <1>4 DEF Copy, OpenTmp, WriteTmp, Goto
<1>5. CASE CutShort
  BY <1>5 DEF CutShort
<1>6. CASE \/ Rename \/ AuthUpdate \/ OpenProfile \/ WriteProfile \/ RemoveProfile
           \/ Current \/ Create \/ Fill \/ StoreBase \/ SelectCustom \/ Revert
           \/ RemoveDir \/ RemoveBase
  BY <1>6 DEF Rename, AuthUpdate, OpenProfile, WriteProfile, RemoveProfile, Current, Create,
              Fill, StoreBase, SelectCustom, Revert, RemoveDir, RemoveBase
<1>7. QED
  BY <1>1, <1>2, <1>3, <1>4, <1>5, <1>6 DEF Next

LEMMA IdleSteps ==
    ASSUME Next, cmd = "idle"
    PROVE  enable \/ disable \/ (\E f \in Files, o \in Originals : Replace(f, o)) \/ OtherUpdate
BY DEF Next, Begin, Copy, OpenTmp, WriteTmp, Rename, OpenProfile, WriteProfile,
       RemoveProfile, AuthUpdate, Current, Create, Inject, Fill, StoreBase,
       SelectCustom, Revert, RemoveDir, RemoveBase, CutShort, Doing

LEMMA FamilyStart == Init => FamilyInv
<1> SUFFICES ASSUME Init PROVE FamilyInv
  OBVIOUS
<1>1. orig = etc /\ active # Custom
  BY DEF Init, Stock, Custom
<1>2. QED
  BY <1>1 DEF FamilyInv

LEMMA FamilyStep == WireInv /\ FamilyInv /\ [Next]_vars => FamilyInv'
<1> SUFFICES ASSUME WireInv, FamilyInv, [Next]_vars PROVE FamilyInv'
  OBVIOUS
<1>1. CASE UNCHANGED vars
  BY <1>1 DEF vars, FamilyInv
<1>2. CASE Next /\ cmd # "idle"
  <2>1. /\ family' = family /\ orig' = orig
        /\ \A f \in Files \ Templates :
             \/ etc'[f] = etc[f]
             \/ Head(todo).do \in {"edit", "remove"} /\ f = File
             \/ Head(todo).do = "authUpdate" /\ f = "common-auth"
        /\ active' = active \/ Head(todo).do \in {"select", "revert"}
    BY <1>2, EtcMoves
  <2>2. ItemOK(cmd, Head(todo))
    BY <1>2, FirstItem DEF WireInv
  <2>3. active' # active => family = "Fedora"
    BY <2>1, <2>2 DEF ItemOK, OnFedora
  <2>4. ASSUME family # "Debian" PROVE etc'["common-auth"] = orig["common-auth"]
    <3>1. etc'["common-auth"] = etc["common-auth"]
      BY <2>1, <2>2, <2>4, Apart DEF ItemOK, File
    <3>2. QED
      BY <2>4, <3>1 DEF FamilyInv
  <2>5. ASSUME family \in {"Debian", "Fedora"}, NEW f \in ArchOnly PROVE etc'[f] = orig[f]
    <3>1. f \in Files \ Templates /\ f # "common-auth"
      BY Apart
    <3>2. ~(Head(todo).do \in {"edit", "remove"} /\ f = File)
      BY <2>2, <2>5 DEF ItemOK, File
    <3>3. QED
      BY <2>1, <2>5, <3>1, <3>2 DEF FamilyInv
  <2>6. QED
    BY <2>1, <2>3, <2>4, <2>5 DEF FamilyInv
<1>3. CASE enable \/ disable
  BY <1>3 DEF enable, disable, Command, FamilyInv
<1>4. ASSUME NEW f \in Files, NEW o \in Originals, Replace(f, o) PROVE FamilyInv'
  <2>1. /\ UNCHANGED <<family, active>>
        /\ \/ UNCHANGED <<etc, orig>>
           \/ etc' = [etc EXCEPT ![f] = o] /\ orig' = [orig EXCEPT ![f] = o]
    BY <1>4 DEF Replace
  <2>2. DOMAIN etc = Files /\ DOMAIN orig = Files
    BY DEF WireInv, EtcInv
  <2>3. \A g \in Files : etc[g] = orig[g] => etc'[g] = orig'[g]
    BY <2>1, <2>2
  <2>4. "common-auth" \in Files /\ ArchOnly \subseteq Files
    BY Apart
  <2>5. QED
    BY <2>1, <2>3, <2>4 DEF FamilyInv
<1>5. CASE OtherUpdate
  <2>1. UNCHANGED <<family, orig>>
    BY <1>5 DEF OtherUpdate
  <2>2. DOMAIN etc = Files
    BY DEF WireInv, EtcInv
  <2>3. CASE family = "Debian" /\ Render /\ UNCHANGED active
    <3>1. \A g \in Files : g # "common-auth" => etc'[g] = etc[g]
      BY <2>2, <2>3 DEF Render
    <3>2. QED
      BY <2>1, <2>3, <3>1, Apart DEF FamilyInv
  <2>4. CASE family = "Fedora" /\ \E p \in Stock : Select(p)
    <3>1. \A g \in Files \ Templates : etc'[g] = etc[g]
      BY <2>4 DEF Select
    <3>2. QED
      BY <2>1, <2>4, <3>1, Apart DEF FamilyInv
  <2>5. QED
    BY <1>5, <2>3, <2>4 DEF OtherUpdate
<1>6. CASE Next /\ cmd = "idle"
  BY <1>3, <1>4, <1>5, <1>6, IdleSteps
<1>7. QED
  BY <1>1, <1>2, <1>6

LEMMA BaseStart == Init => BaseInv
<1> SUFFICES ASSUME Init PROVE BaseInv
  OBVIOUS
<1>1. cmd = "idle" /\ active # Custom
  BY DEF Init, Stock, Custom
<1>2. QED
  BY <1>1 DEF BaseInv


\* The step that a piece of work allows.
LEMMA Acts ==
    ASSUME WireInv, Next, cmd # "idle"
    PROVE  \/ CutShort
           \/ /\ Head(todo).do \in {"edit", "remove"}
              /\ Begin \/ Copy \/ OpenTmp \/ WriteTmp \/ Rename
           \/ Head(todo).do = "inject" /\ (Inject \/ Fill)
           \/ /\ Head(todo).do \in {"openProfile", "writeProfile", "removeProfile"}
              /\ OpenProfile \/ WriteProfile \/ RemoveProfile
           \/ Head(todo).do = "authUpdate" /\ AuthUpdate
           \/ Head(todo).do = "current" /\ Current
           \/ Head(todo).do = "create" /\ Create
           \/ Head(todo).do \in {"openBase", "writeBase"} /\ StoreBase
           \/ Head(todo).do = "select" /\ SelectCustom
           \/ Head(todo).do = "revert" /\ Revert
           \/ Head(todo).do = "removeDir" /\ RemoveDir
           \/ Head(todo).do = "removeBase" /\ RemoveBase
<1>1. ~enable /\ ~disable /\ ~OtherUpdate /\ \A f, o : ~Replace(f, o)
  BY DEF enable, disable, Command, OtherUpdate, Replace, Others
<1>2. Begin => Head(todo).do \in {"edit", "remove"}
  BY DEF Begin, Doing
<1>3. Copy \/ OpenTmp \/ WriteTmp \/ Rename => Head(todo).do \in {"edit", "remove"}
  BY DEF Copy, OpenTmp, WriteTmp, Rename, WireInv, AtInv
<1>4. Inject \/ Fill => Head(todo).do = "inject"
  BY DEF Inject, Fill, Doing, WireInv, AtInv
<1>5. /\ OpenProfile \/ WriteProfile \/ RemoveProfile =>
           Head(todo).do \in {"openProfile", "writeProfile", "removeProfile"}
      /\ AuthUpdate => Head(todo).do = "authUpdate"
      /\ Current => Head(todo).do = "current"
      /\ Create => Head(todo).do = "create"
      /\ StoreBase => Head(todo).do \in {"openBase", "writeBase"}
      /\ SelectCustom => Head(todo).do = "select"
      /\ Revert => Head(todo).do = "revert"
      /\ RemoveDir => Head(todo).do = "removeDir"
      /\ RemoveBase => Head(todo).do = "removeBase"
  BY DEF OpenProfile, WriteProfile, RemoveProfile, AuthUpdate, Current, Create, StoreBase,
         SelectCustom, Revert, RemoveDir, RemoveBase, Doing
<1>6. QED
  BY <1>1, <1>2, <1>3, <1>4, <1>5 DEF Next

LEMMA BaseAdvance ==
    ASSUME WireInv, BaseInv, cmd # "idle", NextItem, family' = family,
           active' = Custom /\ base' = Custom => rebased',
           cmd = "enable" /\ family = "Fedora" => (found' = Custom => rebased'),
           cmd = "enable" /\ (Head(todo).do = "openBase" \/ (base = Custom => rebased))
             => (base' = Custom => rebased')
    PROVE  BaseInv'
<1>1. TodoInv
  BY DEF WireInv
<1>2. /\ \A i \in DOMAIN todo' : i + 1 \in DOMAIN todo /\ todo'[i] = todo[i + 1]
      /\ cmd' \in {cmd, "idle"}
  BY <1>1, Advance
<1>3. ASSUME cmd' = "enable", NEW i \in DOMAIN todo', todo'[i].do = "select"
      PROVE  (base' = Custom => rebased') \/ Before(i, "openBase")'
  <2>1. cmd = "enable" /\ i + 1 \in DOMAIN todo /\ todo[i + 1].do = "select"
    BY <1>2, <1>3
  <2>2. (base = Custom => rebased) \/ Before(i + 1, "openBase")
    BY <2>1 DEF BaseInv
  <2>3. Before(i + 1, "openBase") => Head(todo).do = "openBase" \/ Before(i, "openBase")'
    BY <1>1, <1>3, BeforeShifts
  <2>4. QED
    BY <2>1, <2>2, <2>3
<1>4. cmd' = "enable" => cmd = "enable"
  BY <1>2
<1>5. QED
  BY <1>3, <1>4 DEF BaseInv

LEMMA BaseStep == WireInv /\ BaseInv /\ [Next]_vars => BaseInv'
<1> SUFFICES ASSUME WireInv, BaseInv, [Next]_vars PROVE BaseInv'
  OBVIOUS
<1>1. CASE UNCHANGED vars
  BY <1>1 DEF vars, BaseInv, Before
<1>2. CASE Next /\ cmd # "idle"
  <2>0. family' = family /\ rebased \in BOOLEAN
    BY <1>2, EtcMoves DEF WireInv, EtcInv
  <2>1. CASE CutShort
    BY <2>1 DEF CutShort, BaseInv
  <2>2. ASSUME UNCHANGED <<active, base, found, rebased>>, NextItem,
               Head(todo).do \notin {"current", "openBase"}
        PROVE  BaseInv'
    BY <1>2, <2>0, <2>2, BaseAdvance DEF BaseInv
  <2>3. ASSUME UNCHANGED <<active, base, found, rebased, cmd, todo>> PROVE BaseInv'
    BY <2>0, <2>3 DEF BaseInv, Before
  <2>4. CASE Head(todo).do \in {"edit", "remove"} /\ (Begin \/ Copy \/ OpenTmp \/ WriteTmp \/ Rename)
    <3>1. UNCHANGED <<active, base, found, rebased>>
      BY <2>4 DEF Begin, Copy, OpenTmp, WriteTmp, Rename
    <3>2. NextItem \/ UNCHANGED <<cmd, todo>>
      BY <2>4 DEF Begin, Copy, OpenTmp, WriteTmp, Rename, Goto
    <3>3. QED
      BY <2>2, <2>3, <2>4, <3>1, <3>2
  <2>5. CASE Head(todo).do = "inject" /\ (Inject \/ Fill)
    <3>1. UNCHANGED <<active, base, found, rebased>>
      BY <2>5 DEF Inject, Fill
    <3>2. NextItem \/ UNCHANGED <<cmd, todo>>
      BY <2>5 DEF Inject, Fill, Goto
    <3>3. QED
      BY <2>2, <2>3, <2>5, <3>1, <3>2
  <2>6. CASE /\ Head(todo).do \in {"openProfile", "writeProfile", "removeProfile"}
             /\ OpenProfile \/ WriteProfile \/ RemoveProfile
    BY <2>2, <2>6 DEF OpenProfile, WriteProfile, RemoveProfile
  <2>7. CASE Head(todo).do = "authUpdate" /\ AuthUpdate
    BY <2>2, <2>7 DEF AuthUpdate
  <2>8. CASE Head(todo).do = "create" /\ Create
    BY <2>2, <2>8 DEF Create
  <2>9. CASE Head(todo).do = "current" /\ Current
    <3>1. /\ NextItem /\ UNCHANGED <<active, base>>
          /\ rebased' = (rebased \/ active = Custom)
          /\ found' = IF active = "none" THEN "sssd" ELSE active
      BY <2>9 DEF Current
    <3>2. "sssd" # Custom
      BY DEF Custom
    <3>3. (rebased => rebased') /\ (found' = Custom => rebased')
      BY <2>0, <3>1, <3>2
    <3>4. active' = Custom /\ base' = Custom => rebased'
      BY <3>1, <3>3 DEF BaseInv
    <3>5. Head(todo).do # "openBase"
      BY <2>9
    <3>6. (base = Custom => rebased) => (base' = Custom => rebased')
      BY <3>1, <3>3
    <3>7. QED
      BY <1>2, <2>0, <3>1, <3>3, <3>4, <3>5, <3>6, BaseAdvance
  <2>10. CASE Head(todo).do \in {"openBase", "writeBase"} /\ StoreBase
    <3>1. /\ NextItem /\ UNCHANGED <<active, found, rebased>>
          /\ \/ Head(todo).do = "openBase" /\ base' = ""
             \/ Head(todo).do = "writeBase" /\ base' = found
      BY <2>10 DEF StoreBase, Doing
    <3>2. "" # Custom
      BY DEF Custom
    <3>3. cmd = "enable" /\ family = "Fedora"
      BY <1>2, <2>10, FirstItem DEF WireInv, TodoInv, ItemOK, OnDisable, OnFedora
    <3>4. found = Custom => rebased
      BY <2>10, <3>3 DEF BaseInv
    <3>5. QED
      BY <1>2, <2>0, <3>1, <3>2, <3>4, BaseAdvance
  <2>11. CASE Head(todo).do = "select" /\ SelectCustom
    <3>1. NextItem /\ UNCHANGED <<base, found, rebased>>
      BY <2>11 DEF SelectCustom
    <3>2. cmd = "enable" /\ todo[1].do = "select" /\ 1 \in DOMAIN todo
      BY <1>2, <2>11, FirstItem DEF WireInv, TodoInv, ItemOK, OnDisable
    <3>3. ~Before(1, "openBase")
      BY DEF Before
    <3>4. base = Custom => rebased
      BY <3>2, <3>3 DEF BaseInv
    <3>5. cmd = "enable" /\ family = "Fedora" => (found = Custom => rebased)
      BY <2>11 DEF BaseInv
    <3>6. QED
      BY <1>2, <2>0, <3>1, <3>4, <3>5, BaseAdvance
  <2>12. CASE Head(todo).do = "revert" /\ Revert
    <3>1. NextItem /\ UNCHANGED <<base, found, rebased>>
      BY <2>12 DEF Revert
    <3>2. active' = active \/ (active = Custom /\ active' = load_authselect_base)
      BY <2>12 DEF Revert, Select
    <3>3. cmd # "enable"
      BY <1>2, <2>12, FirstItem DEF WireInv, ItemOK, OnEnable
    <3>4. QED
      BY <1>2, <2>0, <3>1, <3>2, <3>3, BaseAdvance DEF BaseInv
  <2>13. CASE Head(todo).do = "removeDir" /\ RemoveDir
    <3>1. NextItem /\ UNCHANGED <<active, base, found>> /\ rebased' = (rebased /\ active = Custom)
      BY <2>13 DEF RemoveDir
    <3>2. cmd # "enable"
      BY <1>2, <2>13, FirstItem DEF WireInv, ItemOK, OnEnable
    <3>3. QED
      BY <1>2, <2>0, <3>1, <3>2, BaseAdvance DEF BaseInv
  <2>14. CASE Head(todo).do = "removeBase" /\ RemoveBase
    <3>1. NextItem /\ UNCHANGED <<active, found, rebased>> /\ base' = "" /\ "" # Custom
      BY <2>14 DEF RemoveBase, Custom
    <3>2. cmd # "enable"
      BY <1>2, <2>14, FirstItem DEF WireInv, ItemOK, OnEnable
    <3>3. QED
      BY <1>2, <2>0, <3>1, <3>2, BaseAdvance
  <2>15. QED
    BY <1>2, <2>1, <2>4, <2>5, <2>6, <2>7, <2>8, <2>9, <2>10, <2>11, <2>12, <2>13, <2>14, Acts
<1>3. CASE Next /\ cmd = "idle"
  <2>1. CASE enable
    <3>1. PICK b \in BOOLEAN : Command("enable", EnableWork(b))
      BY <2>1 DEF enable
    <3>2. /\ todo' = EnableWork(b) /\ cmd' = IF todo' # << >> THEN "enable" ELSE "idle"
          /\ UNCHANGED <<active, base, rebased, family>>
      BY <3>1 DEF Command
    <3>3. PICK P : OnCalls(P) /\ Headed(todo', P, "edit", Wire(b))
      BY <3>2, EnableList
    <3>4. CASE family = "Fedora"
      <4>1. /\ Len(P) = 7 /\ P[1].do = "current" /\ P[5].do = "openBase" /\ P[7].do = "select"
            /\ P[2].do = "create" /\ P[3].do = "inject" /\ P[4].do = "inject"
        BY <3>3, <3>4 DEF OnCalls
      <4>2. /\ todo' \in Seq(Item) /\ Len(todo') >= 7 /\ Len(todo') \in Nat
            /\ DOMAIN todo' = 1 .. Len(todo')
        BY <3>3, <4>1 DEF Headed
      <4>3. todo'[1].do = "current" /\ Head(todo') = todo'[1]
        BY <3>3, <4>1, <4>2 DEF Headed
      <4>4. todo'[5].do = "openBase"
        BY <3>3, <4>1 DEF Headed
      <4>5. ASSUME NEW i \in DOMAIN todo', todo'[i].do = "select" PROVE Before(i, "openBase")'
        <5>1. i \notin {1, 2, 3, 4, 5}
          BY <3>3, <4>1, <4>5 DEF Headed
        <5>2. 5 \in 1 .. i - 1
          BY <4>2, <5>1
        <5>3. QED
          BY <4>4, <5>2 DEF Before
      <4>6. QED
        BY <3>2, <4>3, <4>5 DEF BaseInv
    <3>5. CASE family # "Fedora"
      <4>1. \A i \in DOMAIN todo' : cmd' = "enable" => ItemOK(cmd, todo[i])'
        BY <1>3, WireStep DEF TodoInv, WireInv
      <4>2. \A i \in DOMAIN todo' : cmd' = "enable" => todo'[i].do # "select"
        BY <3>2, <3>5, <4>1 DEF ItemOK, OnFedora
      <4>3. QED
        BY <3>2, <3>5, <4>2 DEF BaseInv
    <3>6. QED
      BY <3>4, <3>5
  <2>2. CASE disable
    <3>1. cmd' # "enable" /\ UNCHANGED <<active, base, rebased>>
      BY <2>2 DEF disable, Command
    <3>2. QED
      BY <3>1 DEF BaseInv
  <2>3. CASE \E f \in Files, o \in Originals : Replace(f, o)
    BY <1>3, <2>3 DEF Replace, Others, BaseInv
  <2>4. CASE OtherUpdate
    <3>1. cmd' = "idle" /\ UNCHANGED <<base, rebased>> /\ (active' = active \/ active' \in Stock)
      BY <1>3, <2>4 DEF OtherUpdate, Others, Select
    <3>2. Custom \notin Stock
      BY DEF Custom, Stock
    <3>3. QED
      BY <3>1, <3>2 DEF BaseInv
  <2>5. QED
    BY <1>3, <2>1, <2>2, <2>3, <2>4, IdleSteps
<1>4. QED
  BY <1>1, <1>2, <1>3

LEMMA UndoStart == Init => UndoInv
BY DEF Init, UndoInv

LEMMA UndoAdvance ==
    ASSUME WireInv, UndoInv, cmd # "idle", NextItem, orig' = orig,
           cmd = "disable" =>
             /\ \A f \in Files \ Templates :
                  \/ etc'[f] = orig[f]
                  \/ /\ etc'[f] = etc[f]
                     /\ ~(Head(todo).do = "remove" /\ Head(todo).f = f)
                     /\ ~(Head(todo).do = "authUpdate" /\ f = "common-auth")
             /\ Head(todo).do = "removeProfile" => profile' = Absent
             /\ active' = Custom => rebased' \/ (active = Custom /\ ~rebased /\ Head(todo).do # "revert")
    PROVE  UndoInv'
<1>1. TodoInv
  BY DEF WireInv
<1>2. /\ DOMAIN todo = 1 .. Len(todo) /\ Len(todo) \in Nat /\ Head(todo) = todo[1]
      /\ cmd \in {"enable", "disable"}
  BY <1>1, FirstItem DEF TodoInv
<1>3. /\ \A i \in DOMAIN todo' : i + 1 \in DOMAIN todo /\ todo'[i] = todo[i + 1]
      /\ \A i \in DOMAIN todo : i # 1 => i - 1 \in DOMAIN todo' /\ todo'[i - 1] = todo[i]
      /\ cmd' \in {cmd, "idle"} /\ DOMAIN todo' = 1 .. Len(todo') /\ Len(todo') \in Nat
      /\ cmd' = cmd => last' = last
      /\ cmd' # cmd => DOMAIN todo = {1} /\ (last' = "disabled" => cmd = "disable")
  BY <1>1, <1>2, Advance
<1>4. last # "disabled"
  BY DEF UndoInv
<1>5. CASE cmd = "disable"
  <2>1. ASSUME NEW f \in Files \ Templates, etc'[f] # orig[f]
        PROVE  \E i \in DOMAIN todo : /\ i # 1
                                      /\ \/ todo[i].do = "remove" /\ todo[i].f = f
                                         \/ f = "common-auth" /\ todo[i].do = "authUpdate"
    <3>1. /\ etc'[f] = etc[f] /\ etc[f] # orig[f]
          /\ ~(todo[1].do = "remove" /\ todo[1].f = f)
          /\ ~(todo[1].do = "authUpdate" /\ f = "common-auth")
      BY <1>2, <1>5, <2>1
    <3>2. QED
      BY <1>5, <3>1 DEF UndoInv
  <2>2. ASSUME active' = Custom, ~rebased'
        PROVE  \E i \in DOMAIN todo : i # 1 /\ todo[i].do = "revert"
    <3>1. active = Custom /\ ~rebased /\ todo[1].do # "revert"
      BY <1>2, <1>5, <2>2
    <3>2. QED
      BY <1>5, <3>1 DEF UndoInv
  <2>3. CASE cmd' = cmd
    <3>1. ASSUME NEW f \in Files \ Templates
          PROVE  \/ etc'[f] = orig'[f]
                 \/ \E i \in DOMAIN todo' : todo'[i].do = "remove" /\ todo'[i].f = f
                 \/ f = "common-auth" /\ \E i \in DOMAIN todo' : todo'[i].do = "authUpdate"
      <4>1. CASE etc'[f] = orig[f]
        BY <4>1
      <4>2. CASE etc'[f] # orig[f]
        <5>1. PICK i \in DOMAIN todo : /\ i # 1
                                       /\ \/ todo[i].do = "remove" /\ todo[i].f = f
                                          \/ f = "common-auth" /\ todo[i].do = "authUpdate"
          BY <2>1, <4>2
        <5>2. i - 1 \in DOMAIN todo' /\ todo'[i - 1] = todo[i]
          BY <1>3, <5>1
        <5>3. QED
          BY <5>1, <5>2
      <4>3. QED
        BY <4>1, <4>2
    <3>2. ASSUME NEW i \in DOMAIN todo', todo'[i].do = "authUpdate"
          PROVE  i = 1 /\ profile' = Absent
      <4>1. i + 1 \in DOMAIN todo /\ todo[i + 1].do = "authUpdate" /\ i \in Nat /\ i # 0
        BY <1>3, <3>2
      <4>2. i + 1 = 2 /\ todo[1].do = "removeProfile"
        BY <1>5, <4>1 DEF UndoInv
      <4>3. QED
        BY <1>2, <1>5, <4>1, <4>2
    <3>3. ASSUME active' = Custom
          PROVE  rebased' \/ \E i \in DOMAIN todo' : todo'[i].do = "revert"
      <4>1. CASE ~rebased'
        <5>1. PICK i \in DOMAIN todo : i # 1 /\ todo[i].do = "revert"
          BY <2>2, <3>3, <4>1
        <5>2. i - 1 \in DOMAIN todo' /\ todo'[i - 1] = todo[i]
          BY <1>3, <5>1
        <5>3. QED
          BY <5>1, <5>2
      <4>2. QED
        BY <4>1
    <3>4. last' # "disabled"
      BY <1>3, <1>4, <2>3
    <3>5. QED
      BY <3>1, <3>2, <3>3, <3>4 DEF UndoInv
  <2>4. CASE cmd' # cmd
    <3>1. DOMAIN todo = {1} /\ cmd' = "idle"
      BY <1>3, <2>4
    <3>2. \A f \in Files \ Templates : etc'[f] = orig'[f]
      BY <2>1, <3>1
    <3>3. active' = Custom => rebased'
      BY <2>2, <3>1
    <3>4. QED
      BY <3>1, <3>2, <3>3 DEF UndoInv
  <2>5. QED
    BY <2>3, <2>4
<1>6. CASE cmd = "enable"
  BY <1>3, <1>4, <1>6 DEF UndoInv
<1>7. QED
  BY <1>2, <1>5, <1>6

\* What the steps of a disable do to the stacks of others.
LEMMA UndoMoves ==
    ASSUME WireInv, UndoInv, Next, NextItem, ~CutShort, cmd = "disable"
    PROVE  \A f \in Files \ Templates :
             \/ etc'[f] = orig[f]
             \/ /\ etc'[f] = etc[f]
                /\ ~(Head(todo).do = "remove" /\ Head(todo).f = f)
                /\ ~(Head(todo).do = "authUpdate" /\ f = "common-auth")
<1>1. TodoInv /\ AtInv /\ EtcInv /\ cmd # "idle"
  BY DEF WireInv
<1>2. /\ ItemOK(cmd, Head(todo)) /\ Head(todo) = todo[1] /\ 1 \in DOMAIN todo
  BY <1>1, FirstItem
<1>3. Head(todo).do # "edit"
  BY <1>2 DEF ItemOK, OnDisable
<1>4. \A f \in Files \ Templates :
        \/ etc'[f] = etc[f]
        \/ Head(todo).do = "remove" /\ f = File
        \/ Head(todo).do = "authUpdate" /\ f = "common-auth"
  BY <1>1, <1>3, EtcMoves
<1>5. ASSUME Head(todo).do = "remove" PROVE etc'[File] = orig[File]
  <2>1. File \in Files \ Templates
    BY <1>2, <1>5, Apart DEF ItemOK, File
  <2>2. orig[File] \in Plain /\ Shape(File, etc[File], orig[File]) /\ File \in DOMAIN etc
    BY <1>1, <2>1 DEF EtcInv
  <2>3. Begin \/ Copy \/ OpenTmp \/ WriteTmp \/ Rename
    BY <1>1, <1>5, Acts
  <2>4. CASE Copy \/ OpenTmp \/ WriteTmp
    <3>1. at' \in {"open", "write", "rename"}
      BY <2>4 DEF Copy, OpenTmp, WriteTmp, Goto
    <3>2. QED
      BY <3>1 DEF NextItem
  <2>5. CASE Begin
    <3>1. CASE is_created_override(etc[File])
      <4>1. etc' = [etc EXCEPT ![File] = Absent]
        BY <1>5, <2>5, <3>1 DEF Begin
      <4>2. orig[File] = Absent
        BY <2>2, <3>1, ShapeFacts
      <4>3. QED
        BY <2>2, <4>1, <4>2
    <3>2. CASE ~is_created_override(etc[File])
      <4>1. Edited(File) = orig[File]
        BY <1>1, <1>5, <3>2, EditedFacts
      <4>2. CASE Edited(File) = etc[File]
        <5>1. etc' = etc
          BY <1>5, <2>5, <3>2, <4>2 DEF Begin
        <5>2. QED
          BY <4>1, <4>2, <5>1
      <4>3. CASE Edited(File) # etc[File]
        <5>1. at' \in {"copy", "open"}
          BY <1>5, <2>5, <3>2, <4>3 DEF Begin, Goto
        <5>2. QED
          BY <5>1 DEF NextItem
      <4>4. QED
        BY <4>2, <4>3
    <3>3. QED
      BY <3>1, <3>2
  <2>6. CASE Rename
    <3>1. at = "rename" /\ etc' = [etc EXCEPT ![File] = tmp]
      BY <2>6 DEF Rename
    <3>2. tmp = Edited(File) /\ ~is_created_override(etc[File])
      BY <1>1, <1>5, <3>1 DEF AtInv
    <3>3. Edited(File) = orig[File]
      BY <1>1, <1>5, <3>2, EditedFacts
    <3>4. QED
      BY <2>2, <3>1, <3>2, <3>3
  <2>7. QED
    BY <2>3, <2>4, <2>5, <2>6
<1>6. ASSUME Head(todo).do = "authUpdate" PROVE etc'["common-auth"] = orig["common-auth"]
  <2>1. AuthUpdate
    BY <1>1, <1>6, Acts
  <2>2. family = "Debian"
    BY <1>2, <1>6 DEF ItemOK
  <2>3. profile = Absent
    BY <1>2, <1>6 DEF UndoInv
  <2>4. etc' = [etc EXCEPT !["common-auth"] = Rendered(etc["common-auth"], profile)]
    BY <2>1 DEF AuthUpdate, Render
  <2>5. Rendered(etc["common-auth"], profile) = orig["common-auth"] /\ "common-auth" \in DOMAIN etc
    <3>1. profile # <<"profile">>
      BY <2>3, Given
    <3>2. QED
      BY <1>1, <2>2, <3>1, RenderedFacts DEF EtcInv
  <2>6. QED
    BY <2>4, <2>5
<1>7. QED
  BY <1>4, <1>5, <1>6, Apart DEF File

\* A step of a running command keeps what a disable has still to undo.
LEMMA UndoRuns ==
    ASSUME WireInv, BaseInv, UndoInv, Next, cmd # "idle"
    PROVE  UndoInv'
<1>1. orig' = orig /\ rebased \in BOOLEAN
  BY EtcMoves DEF WireInv, EtcInv
<1>2. CASE CutShort
  <2>1. cmd' = "idle" /\ last' = "cut"
    BY <1>2 DEF CutShort
  <2>2. QED
    BY <2>1 DEF UndoInv
<1>3. CASE ~CutShort /\ UNCHANGED <<cmd, todo, last, etc, active, base, found, rebased, profile>>
  BY <1>1, <1>3 DEF UndoInv
<1>4. CASE cmd' = "idle" /\ last' = "cut"
  BY <1>4 DEF UndoInv
<1>5. CASE ~CutShort /\ NextItem
  <2>1. ASSUME cmd = "disable", Head(todo).do = "removeProfile" PROVE profile' = Absent
    <3>1. OpenProfile \/ WriteProfile \/ RemoveProfile
      BY <1>5, <2>1, Acts
    <3>2. ~OpenProfile /\ ~WriteProfile
      BY <2>1 DEF OpenProfile, WriteProfile, Doing
    <3>3. QED
      BY <3>1, <3>2 DEF RemoveProfile
  <2>2. ASSUME cmd = "disable", active' = Custom, ~rebased'
        PROVE  active = Custom /\ ~rebased /\ Head(todo).do # "revert"
    <3>1. Head(todo).do \in OnDisable
      BY <2>2, FirstItem DEF WireInv, ItemOK
    <3>2. CASE Head(todo).do = "revert"
      <4>1. Revert
        BY <1>5, <3>2, Acts
      <4>2. /\ rebased' = rebased
            /\ active' = IF active = Custom THEN load_authselect_base ELSE active
        BY <4>1 DEF Revert, Select
      <4>3. active = Custom /\ load_authselect_base = Custom
        BY <2>2, <4>2
      <4>4. base = Custom
        BY <4>3 DEF load_authselect_base, Custom
      <4>5. QED
        BY <2>2, <4>2, <4>3, <4>4 DEF BaseInv
    <3>3. CASE Head(todo).do # "revert"
      <4>1. active' = active
        BY <3>1, <3>3, EtcMoves DEF OnDisable
      <4>2. CASE Head(todo).do = "removeDir"
        <5>1. RemoveDir
          BY <1>5, <4>2, Acts
        <5>2. rebased' = (rebased /\ active = Custom)
          BY <5>1 DEF RemoveDir
        <5>3. ~rebased
          BY <1>1, <2>2, <4>1, <5>2
        <5>4. QED
          BY <2>2, <3>3, <4>1, <5>3
      <4>3. CASE Head(todo).do # "removeDir"
        <5>1. \/ Begin \/ Copy \/ OpenTmp \/ WriteTmp \/ Rename
              \/ OpenProfile \/ WriteProfile \/ RemoveProfile
              \/ AuthUpdate \/ RemoveBase
          BY <1>5, <3>1, <3>3, <4>3, Acts DEF OnDisable
        <5>2. rebased' = rebased
          BY <5>1 DEF Begin, Copy, OpenTmp, WriteTmp, Rename, OpenProfile, WriteProfile,
             RemoveProfile, AuthUpdate, RemoveBase, rest, hist
        <5>3. QED
          BY <2>2, <3>3, <4>1, <5>2
      <4>4. QED
        BY <4>2, <4>3
    <3>4. QED
      BY <3>2, <3>3
  <2>3. cmd = "disable" => \A f \in Files \ Templates :
           \/ etc'[f] = orig[f]
           \/ /\ etc'[f] = etc[f]
              /\ ~(Head(todo).do = "remove" /\ Head(todo).f = f)
              /\ ~(Head(todo).do = "authUpdate" /\ f = "common-auth")
    BY <1>5, UndoMoves
  <2>4. QED
    BY <1>1, <1>5, <2>1, <2>2, <2>3, UndoAdvance
<1>6. QED
  BY <1>2, <1>3, <1>4, <1>5, Steps


\* A disable sets out to undo every stack that is not what others made of it.
LEMMA UndoBegins ==
    ASSUME WireInv, FamilyInv, disable
    PROVE  UndoInv'
<1>1. /\ todo' = DisableWork
      /\ cmd' = IF todo' # << >> THEN "disable" ELSE "idle"
      /\ last' = IF todo' # << >> THEN "none" ELSE "disabled"
      /\ UNCHANGED <<etc, orig, family, active, rebased, profile>>
  BY DEF disable, Command
<1>2. PICK P : OffCalls(P) /\ Headed(todo', P, "remove", Unwire)
  BY <1>1, DisableList
<1>3. /\ todo' \in Seq(Item) /\ DOMAIN todo' = 1 .. Len(todo') /\ Len(todo') \in Nat
      /\ Len(P) \in Nat /\ Len(todo') >= Len(P)
      /\ \A i \in 1 .. Len(P) : i \in DOMAIN todo' /\ todo'[i] = P[i]
  BY <1>2 DEF Headed, OffCalls
<1>4. \A x \in Unwire : \E i \in DOMAIN todo' : todo'[i].do = "remove" /\ todo'[i].f = x
  BY <1>2, <1>3 DEF Headed
<1>5. ASSUME family = "Debian"
      PROVE  /\ 1 \in DOMAIN todo' /\ todo'[1].do = "removeProfile"
             /\ 2 \in DOMAIN todo' /\ todo'[2].do = "authUpdate"
  <2>1. Len(P) = 2 /\ P[1].do = "removeProfile" /\ P[2].do = "authUpdate"
    BY <1>2, <1>5 DEF OffCalls
  <2>2. 1 \in 1 .. Len(P) /\ 2 \in 1 .. Len(P)
    BY <2>1
  <2>3. QED
    BY <1>3, <2>1, <2>2
<1>6. ASSUME family = "Fedora" PROVE 1 \in DOMAIN todo' /\ todo'[1].do = "revert"
  <2>1. Len(P) = 3 /\ P[1].do = "revert"
    BY <1>2, <1>6 DEF OffCalls
  <2>2. 1 \in 1 .. Len(P)
    BY <2>1
  <2>3. QED
    BY <1>3, <2>1, <2>2
<1>7. ASSUME NEW f \in Files \ Templates, etc[f] # orig[f]
      PROVE  \/ \E i \in DOMAIN todo' : todo'[i].do = "remove" /\ todo'[i].f = f
             \/ f = "common-auth" /\ \E i \in DOMAIN todo' : todo'[i].do = "authUpdate"
  <2>1. Exists(f)
    BY <1>7, ShapeFacts DEF WireInv, EtcInv, Exists
  <2>2. CASE f = "common-auth"
    <3>1. family = "Debian"
      BY <1>7, <2>2 DEF FamilyInv
    <3>2. QED
      BY <1>5, <2>2, <3>1
  <2>3. CASE f \in {"kde-fingerprint", "kde"}
    BY <1>4, <2>1, <2>3 DEF Unwire
  <2>4. CASE f \in ArchOnly
    <3>1. family \notin {"Debian", "Fedora"}
      BY <1>7, <2>4 DEF FamilyInv
    <3>2. QED
      BY <1>4, <2>1, <2>4, <3>1 DEF Unwire
  <2>5. QED
    BY <2>2, <2>3, <2>4, Apart
<1>8. ASSUME NEW i \in DOMAIN todo', todo'[i].do = "authUpdate"
      PROVE  i = 2 /\ todo'[1].do = "removeProfile"
  <2>1. i \in 1 .. Len(P) /\ todo'[i] = P[i]
    <3>1. i <= Len(P)
      BY <1>2, <1>3, <1>8 DEF Headed
    <3>2. QED
      BY <1>3, <3>1
  <2>2. family = "Debian"
    <3>1. CASE family = "Fedora"
      <4>1. /\ Len(P) = 3 /\ P[1].do = "revert" /\ P[2].do = "removeDir"
            /\ P[3].do = "removeBase"
        BY <1>2, <3>1 DEF OffCalls
      <4>2. i \in {1, 2, 3}
        BY <2>1, <4>1
      <4>3. QED
        BY <1>8, <2>1, <4>1, <4>2
    <3>2. CASE family \notin {"Debian", "Fedora"}
      BY <1>2, <2>1, <3>2 DEF OffCalls
    <3>3. QED
      BY <3>1, <3>2
  <2>3. Len(P) = 2
    BY <1>2, <2>2 DEF OffCalls
  <2>4. i \in {1, 2}
    BY <2>1, <2>3
  <2>5. QED
    BY <1>5, <1>8, <2>2, <2>4
<1>9. ASSUME active = Custom PROVE \E i \in DOMAIN todo' : todo'[i].do = "revert"
  BY <1>6, <1>9 DEF FamilyInv
<1>10. CASE todo' # << >>
  BY <1>1, <1>7, <1>8, <1>9, <1>10 DEF UndoInv
<1>11. CASE todo' = << >>
  <2>1. DOMAIN todo' = {}
    BY <1>3, <1>11
  <2>2. cmd' = "idle"
    BY <1>1, <1>11
  <2>3. (\A f \in Files \ Templates : etc'[f] = orig'[f]) /\ active' # Custom
    BY <1>1, <1>7, <1>9, <2>1
  <2>4. QED
    BY <2>2, <2>3 DEF UndoInv
<1>12. QED
  BY <1>10, <1>11

LEMMA UndoStep == WireInv /\ FamilyInv /\ BaseInv /\ UndoInv /\ [Next]_vars => UndoInv'
<1> SUFFICES ASSUME WireInv, FamilyInv, BaseInv, UndoInv, [Next]_vars PROVE UndoInv'
  OBVIOUS
<1>1. CASE UNCHANGED vars
  BY <1>1 DEF vars, disk, hist, UndoInv
<1>2. CASE Next /\ cmd # "idle"
  BY <1>2, UndoRuns
<1>3. CASE Next /\ cmd = "idle"
  <2>1. CASE enable
    <3>1. PICK b \in BOOLEAN : Command("enable", EnableWork(b))
      BY <2>1 DEF enable
    <3>2. cmd' \in {"enable", "idle"} /\ last' \in {"none", "enabled"}
      BY <3>1 DEF Command
    <3>3. QED
      BY <3>2 DEF UndoInv
  <2>2. CASE disable
    BY <2>2, UndoBegins
  <2>3. CASE (\E f \in Files, o \in Originals : Replace(f, o)) \/ OtherUpdate
    <3>1. cmd' = "idle" /\ last' = "none"
      BY <1>3, <2>3 DEF Replace, OtherUpdate, Others
    <3>2. QED
      BY <3>1 DEF UndoInv
  <2>4. QED
    BY <1>3, <2>1, <2>2, <2>3, IdleSteps
<1>4. QED
  BY <1>1, <1>2, <1>3

LEMMA UndoneIsUndone == WireInv /\ UndoInv => DisableUndoes
<1> SUFFICES ASSUME WireInv, UndoInv, last = "disabled", NEW f \in Files
             PROVE  /\ content_has_module(etc[f]) => f \in Templates /\ rebased
                    /\ f \notin Templates => etc[f] = orig[f]
  BY DEF DisableUndoes
<1>1. EtcInv /\ orig[f] \in Plain
  BY DEF WireInv, EtcInv
<1>2. CASE f \notin Templates
  <2>1. etc[f] = orig[f]
    BY <1>2 DEF UndoInv
  <2>2. QED
    BY <1>1, <1>2, <2>1, PlainFacts
<1>3. CASE f \in Templates
  <2>1. CASE active = Custom
    BY <1>3, <2>1 DEF UndoInv
  <2>2. CASE active # Custom
    <3>1. etc[f] = orig[f] \/ \E p \in Stock : etc[f] = StockTemplate(p)
      BY <1>1, <1>3, <2>2 DEF EtcInv
    <3>2. etc[f] \in Plain
      BY <1>1, <3>1, Given
    <3>3. QED
      BY <1>3, <3>2, PlainFacts
  <2>3. QED
    BY <2>1, <2>2
<1>4. QED
  BY <1>2, <1>3

\* After a disable that ran to its end every stack outside authselect is what
\* others made of it, whatever enables and disables ran or were cut short before
\* (remove_in, fedora_disable), and no stack names the module, the authselect ones
\* excepted once an enable ran with linhello's own profile active (rebased).
THEOREM DisableReverts == Spec => []DisableUndoes
<1> DEFINE Inv == WireInv /\ FamilyInv /\ BaseInv /\ UndoInv
<1>1. Init => Inv
  BY WireStart, FamilyStart, BaseStart, UndoStart
<1>2. Inv /\ [Next]_vars => Inv'
  BY WireStep, FamilyStep, BaseStep, UndoStep
<1>3. Inv => DisableUndoes
  BY UndoneIsUndone
<1> HIDE DEF Inv
<1>4. QED
  BY <1>1, <1>2, <1>3, PTL DEF Spec


-----------------------------------------------------------------------------
(* What an enable has wired.                                                *)

LEMMA ReachStart == Init => ReachInv
BY DEF Init, ReachInv

LEMMA NotWired == \A c \in Plain : ~Wired(c)
BY PlainFacts DEF Wired, content_has_module

\* What the steps of an enable do to the stacks outside authselect.
LEMMA WiresStacks ==
    ASSUME WireInv, ReachInv, Next, ~CutShort, cmd = "enable"
    PROVE  /\ \A f \in Files \ Templates :
                \/ etc'[f] = etc[f]
                \/ Head(todo).do = "edit" /\ f = File /\ Wired(etc'[f]) /\ etc'[f] # Absent
                \/ Head(todo).do = "authUpdate" /\ f = "common-auth" /\ Wired(etc'[f])
           /\ NextItem /\ Head(todo).do = "edit" => Wired(etc'[File])
           /\ NextItem /\ Head(todo).do = "authUpdate" => Wired(etc'["common-auth"])
<1>1. TodoInv /\ AtInv /\ EtcInv /\ cmd # "idle"
  BY DEF WireInv
<1>2. /\ ItemOK(cmd, Head(todo)) /\ Head(todo) = todo[1] /\ 1 \in DOMAIN todo
  BY <1>1, FirstItem
<1>3. Head(todo).do # "remove"
  BY <1>2 DEF ItemOK, OnEnable
<1>4. \A f \in Files \ Templates :
        \/ etc'[f] = etc[f]
        \/ Head(todo).do = "edit" /\ f = File /\ NextItem
        \/ Head(todo).do = "authUpdate" /\ f = "common-auth" /\ NextItem
  BY <1>1, <1>3, EtcMoves
<1>5. ASSUME Head(todo).do = "edit", NextItem PROVE Wired(etc'[File]) /\ etc'[File] # Absent
  <2>1. /\ File \in DOMAIN etc /\ Wired(Edited(File)) /\ Edited(File) # Absent
    BY <1>1, <1>5, EditedFacts DEF EtcInv
  <2>2. Begin \/ Copy \/ OpenTmp \/ WriteTmp \/ Rename
    BY <1>1, <1>5, Acts
  <2>3. CASE Copy \/ OpenTmp \/ WriteTmp
    <3>1. at' \in {"open", "write", "rename"}
      BY <2>3 DEF Copy, OpenTmp, WriteTmp, Goto
    <3>2. QED
      BY <1>5, <3>1 DEF NextItem
  <2>4. CASE Begin
    <3>1. CASE Edited(File) = etc[File]
      <4>1. etc' = etc
        BY <1>5, <2>4, <3>1 DEF Begin
      <4>2. QED
        BY <2>1, <3>1, <4>1
    <3>2. CASE Edited(File) # etc[File]
      <4>1. at' \in {"copy", "open"}
        BY <1>5, <2>4, <3>2 DEF Begin, Goto
      <4>2. QED
        BY <1>5, <4>1 DEF NextItem
    <3>3. QED
      BY <3>1, <3>2
  <2>5. CASE Rename
    <3>1. at = "rename" /\ etc' = [etc EXCEPT ![File] = tmp]
      BY <2>5 DEF Rename
    <3>2. tmp = Edited(File)
      BY <1>1, <3>1 DEF AtInv
    <3>3. QED
      BY <2>1, <3>1, <3>2
  <2>6. QED
    BY <2>2, <2>3, <2>4, <2>5
<1>6. ASSUME Head(todo).do = "authUpdate" PROVE Wired(etc'["common-auth"])
  <2>1. AuthUpdate
    BY <1>1, <1>6, Acts
  <2>2. family = "Debian"
    BY <1>2, <1>6 DEF ItemOK
  <2>3. profile = <<"profile">>
    BY <1>2, <1>6 DEF ReachInv
  <2>4. etc' = [etc EXCEPT !["common-auth"] = Rendered(etc["common-auth"], profile)]
    BY <2>1 DEF AuthUpdate, Render
  <2>5. Wired(Rendered(etc["common-auth"], profile)) /\ "common-auth" \in DOMAIN etc
    BY <1>1, <2>2, <2>3, RenderedFacts DEF EtcInv
  <2>6. QED
    BY <2>4, <2>5
<1>7. QED
  BY <1>4, <1>5, <1>6

\* What they do to the authselect profile and the stacks rendered from it.
LEMMA WiresTemplates ==
    ASSUME WireInv, ReachInv, Next, ~CutShort, cmd = "enable", NEW t \in Templates
    PROVE  /\ Wired(dir[t]) => Wired(dir'[t])
           /\ NextItem /\ Head(todo).do = "inject" /\ t = File => Wired(dir'[t])
           /\ etc'[t] = etc[t] \/ Wired(etc'[t])
           /\ Head(todo).do = "select" => Wired(etc'[t])
<1>1. TodoInv /\ AtInv /\ EtcInv /\ DirInv /\ cmd # "idle"
  BY DEF WireInv
<1>2. /\ ItemOK(cmd, Head(todo)) /\ Head(todo) = todo[1] /\ 1 \in DOMAIN todo
      /\ Head(todo).do = "inject" => HasDir
  BY <1>1, FirstItem
<1>3. Head(todo).do \in OnEnable
  BY <1>2 DEF ItemOK
<1>4. ASSUME Head(todo).do = "select" PROVE Wired(etc'[t])
  <2>1. SelectCustom
    BY <1>1, <1>4, Acts
  <2>2. etc'[t] = dir[t]
    BY <2>1, Apart DEF SelectCustom, Select, TemplatesOf
  <2>3. Wired(dir[t])
    BY <1>2, <1>4 DEF ReachInv
  <2>4. QED
    BY <2>2, <2>3
<1>5. etc'[t] = etc[t] \/ Head(todo).do = "select"
  BY <1>1, <1>3, EtcMoves DEF OnEnable
<1>6. /\ Wired(dir[t]) => Wired(dir'[t])
      /\ NextItem /\ Head(todo).do = "inject" /\ t = File => Wired(dir'[t])
  <2>1. CASE Head(todo).do = "inject" /\ Inject
    <3>0. File \in Templates /\ Template(dir[File]) /\ File \in DOMAIN dir
      <4>1. File \in Templates
        BY <1>2, <2>1 DEF ItemOK, File
      <4>2. Template(dir[File])
        BY <1>1, <1>2, <2>1, <4>1 DEF DirInv, HasDir
      <4>3. QED
        BY <1>1, <4>1, <4>2 DEF DirInv
    <3>1. CASE insert_first_auth(dir[File], "sufficient") = dir[File]
      <4>1. dir' = dir
        BY <2>1, <3>1 DEF Inject
      <4>2. Wired(dir[File])
        BY <3>0, <3>1, TemplateFacts
      <4>3. QED
        BY <4>1, <4>2
    <3>2. CASE insert_first_auth(dir[File], "sufficient") # dir[File]
      <4>1. dir' = [dir EXCEPT ![File] = Torn] /\ at' = "fill"
        BY <2>1, <3>2 DEF Inject, Goto
      <4>2. ~content_has_module(dir[File])
        BY <3>2, Once
      <4>3. ~Wired(dir[File])
        BY <4>2 DEF Wired, content_has_module
      <4>4. t # File => dir'[t] = dir[t]
        BY <1>1, <4>1 DEF DirInv
      <4>5. ~NextItem
        BY <4>1 DEF NextItem
      <4>6. QED
        BY <4>3, <4>4, <4>5
    <3>3. QED
      BY <3>1, <3>2
  <2>2. CASE Head(todo).do = "inject" /\ Fill
    <3>1. at = "fill" /\ dir' = [dir EXCEPT ![File] = tmp]
      BY <2>2 DEF Fill
    <3>2. Wired(tmp)
      BY <1>1, <3>1 DEF AtInv
    <3>3. t \in DOMAIN dir
      BY <1>1 DEF DirInv
    <3>4. dir'[t] = IF t = File THEN tmp ELSE dir[t]
      BY <3>1, <3>3
    <3>5. QED
      BY <3>2, <3>4
  <2>3. CASE Head(todo).do = "create" /\ Create
    <3>1. CASE HasDir
      BY <2>3, <3>1 DEF Create
    <3>2. CASE ~HasDir
      <4>1. dir[t] = Absent
        BY <3>2 DEF HasDir
      <4>2. QED
        BY <2>3, <4>1, NotWired, Given
    <3>3. QED
      BY <3>1, <3>2
  <2>4. CASE Head(todo).do \notin {"inject", "create"}
    <3>1. dir' = dir
      <4>1. \/ Begin \/ Copy \/ OpenTmp \/ WriteTmp \/ Rename
            \/ OpenProfile \/ WriteProfile \/ RemoveProfile
            \/ AuthUpdate \/ Current \/ StoreBase \/ SelectCustom
        BY <1>1, <1>3, <2>4, Acts DEF OnEnable
      <4>2. QED
        BY <4>1 DEF Begin, Copy, OpenTmp, WriteTmp, Rename, OpenProfile, WriteProfile,
           RemoveProfile, AuthUpdate, Current, StoreBase, SelectCustom, rest
    <3>2. QED
      BY <2>4, <3>1
  <2>5. QED
    BY <1>1, <2>1, <2>2, <2>3, <2>4, Acts
<1>7. QED
  BY <1>4, <1>5, <1>6


\* An enable does not change which stacks it reaches.
LEMMA ReachedSame ==
    ASSUME WireInv, ReachInv, Next, ~CutShort, cmd = "enable"
    PROVE  Reached' = Reached /\ family' = family
<1>1. TodoInv /\ EtcInv /\ cmd # "idle"
  BY DEF WireInv
<1>2. ItemOK(cmd, Head(todo))
  BY <1>1, FirstItem
<1>3. family' = family /\ vendor' = vendor
  BY <1>1, EtcMoves
<1>4. Greeters \cup Vendored \subseteq Files \ Shared
  BY WireAssumption DEF Files, Shared, Vendored, Templates
<1>5. ASSUME NEW f \in Greeters \cup Vendored
      PROVE  /\ Exists(f) => Exists(f)'
             /\ Exists(f)' => Exists(f) \/ (f \in Vendored /\ vendor[f] # Absent)
  <2>1. f \in Files \ Templates /\ f # "common-auth"
    BY <1>4, Apart
  <2>2. etc'[f] = etc[f] \/ (Head(todo).do = "edit" /\ f = File /\ etc'[f] # Absent)
    BY <2>1, WiresStacks
  <2>3. Head(todo).do = "edit" /\ f = File => Exists(f) \/ (f \in Vendored /\ vendor[f] # Absent)
    BY <1>2 DEF ItemOK, File
  <2>4. QED
    BY <2>2, <2>3 DEF Exists
<1>6. Greeters \cap Vendored = {}
  BY WireAssumption
<1>7. existing_targets' = existing_targets
  BY <1>5, <1>6 DEF existing_targets
<1>8. \A f \in Vendored : Managed(f)' <=> Managed(f)
  BY <1>3, <1>5 DEF Managed
<1>9. "plasmalogin" \in Vendored /\ "kde" \in Vendored /\ "kde-fingerprint" \in Vendored
  BY DEF Vendored
<1>10. (Managed("kde-fingerprint")' <=> Managed("kde-fingerprint"))
       /\ (Managed("kde")' <=> Managed("kde")) /\ (Managed("plasmalogin")' <=> Managed("plasmalogin"))
  BY <1>8, <1>9
<1>11. lockscreen_plan' = lockscreen_plan /\ plasmalogin_greeter_plan' = plasmalogin_greeter_plan
  BY <1>10 DEF lockscreen_plan, plasmalogin_greeter_plan
<1>12. QED
  BY <1>3, <1>7, <1>11 DEF Reached

\* Every stack reached is a file, and which piece of work wires it.
LEMMA ReachedFiles ==
    \A f \in Reached : f \in Templates \/ f \in Files \ Templates
<1> TAKE f \in Reached
<1>1. lockscreen_plan \subseteq Vendored /\ plasmalogin_greeter_plan \subseteq Vendored
  BY DEF lockscreen_plan, plasmalogin_greeter_plan, Vendored
<1>2. existing_targets \subseteq Greeters
  BY DEF existing_targets
<1>3. Reached \subseteq Greeters \cup Vendored \cup Shared
  BY <1>1, <1>2 DEF Reached, Shared
<1>4. Greeters \cup Vendored \cup Shared \subseteq Files
  BY DEF Files
<1>5. QED
  BY <1>3, <1>4

LEMMA ReachAdvance ==
    ASSUME WireInv, ReachInv, Next, ~CutShort, cmd = "enable", NextItem
    PROVE  ReachInv'
<1>1. TodoInv /\ cmd # "idle"
  BY DEF WireInv
<1>2. DOMAIN todo = 1 .. Len(todo) /\ Len(todo) \in Nat /\ Head(todo) = todo[1]
  BY <1>1, FirstItem
<1>3. /\ \A i \in DOMAIN todo' : i + 1 \in DOMAIN todo /\ todo'[i] = todo[i + 1]
      /\ \A i \in DOMAIN todo : i # 1 => i - 1 \in DOMAIN todo' /\ todo'[i - 1] = todo[i]
      /\ cmd' \in {cmd, "idle"} /\ DOMAIN todo' = 1 .. Len(todo') /\ Len(todo') \in Nat
      /\ cmd' = cmd => last' = last
      /\ cmd' # cmd => DOMAIN todo = {1}
  BY <1>1, Advance
<1>4. last # "enabled"
  BY <1>1 DEF ReachInv
<1>5. Reached' = Reached
  BY ReachedSame
<1>6. ASSUME NEW f \in Reached, ~Wired(etc'[f])
      PROVE  \E i \in DOMAIN todo :
               /\ i # 1
               /\ \/ todo[i].do = "edit" /\ todo[i].f = f
                  \/ f = "common-auth" /\ todo[i].do = "authUpdate"
                  \/ f \in Templates /\ todo[i].do = "select"
  <2>1. CASE f \in Files \ Templates
    <3>1. /\ etc'[f] = etc[f] /\ ~(todo[1].do = "edit" /\ todo[1].f = f)
          /\ ~(todo[1].do = "authUpdate" /\ f = "common-auth")
      BY <1>2, <1>6, <2>1, WiresStacks DEF File
    <3>2. ~Wired(etc[f])
      BY <1>6, <3>1
    <3>3. QED
      BY <1>6, <2>1, <3>1, <3>2 DEF ReachInv
  <2>2. CASE f \in Templates
    <3>1. etc'[f] = etc[f] /\ todo[1].do # "select"
      BY <1>2, <1>6, <2>2, WiresTemplates
    <3>2. ~Wired(etc[f])
      BY <1>6, <3>1
    <3>3. \/ \E i \in DOMAIN todo : todo[i].do = "edit" /\ todo[i].f = f
          \/ f = "common-auth" /\ \E i \in DOMAIN todo : todo[i].do = "authUpdate"
          \/ f \in Templates /\ \E i \in DOMAIN todo : todo[i].do = "select"
      BY <1>6, <3>2 DEF ReachInv
    <3>4. \A i \in DOMAIN todo : todo[i].do = "edit" => todo[i].f \notin Templates
      BY <1>1, Apart DEF TodoInv, ItemOK
    <3>5. f # "common-auth"
      BY <2>2 DEF Templates
    <3>6. QED
      BY <2>2, <3>1, <3>3, <3>4, <3>5
  <2>3. QED
    BY <1>6, <2>1, <2>2, ReachedFiles
<1>7. CASE cmd' = cmd
  <2>1. ASSUME NEW f \in Reached
        PROVE  \/ Wired(etc'[f])
               \/ \E i \in DOMAIN todo' : todo'[i].do = "edit" /\ todo'[i].f = f
               \/ f = "common-auth" /\ \E i \in DOMAIN todo' : todo'[i].do = "authUpdate"
               \/ f \in Templates /\ \E i \in DOMAIN todo' : todo'[i].do = "select"
    <3>1. CASE ~Wired(etc'[f])
      <4>1. PICK i \in DOMAIN todo :
               /\ i # 1
               /\ \/ todo[i].do = "edit" /\ todo[i].f = f
                  \/ f = "common-auth" /\ todo[i].do = "authUpdate"
                  \/ f \in Templates /\ todo[i].do = "select"
        BY <1>6, <3>1
      <4>2. i - 1 \in DOMAIN todo' /\ todo'[i - 1] = todo[i]
        BY <1>3, <4>1
      <4>3. QED
        BY <4>1, <4>2
    <3>2. QED
      BY <3>1
  <2>2. ASSUME NEW i \in DOMAIN todo', todo'[i].do = "authUpdate"
        PROVE  \/ i = 1 /\ profile' = <<"profile">>
               \/ i = 2 /\ todo'[1].do = "writeProfile"
               \/ i = 3 /\ todo'[1].do = "openProfile" /\ todo'[2].do = "writeProfile"
    <3>1. i \in Nat /\ i >= 1 /\ i + 1 \in DOMAIN todo /\ todo[i + 1].do = "authUpdate"
      BY <1>3, <2>2
    <3>2. \/ i + 1 = 2 /\ todo[1].do = "writeProfile"
          \/ i + 1 = 3 /\ todo[2].do = "writeProfile"
      BY <3>1 DEF ReachInv
    <3>3. CASE i + 1 = 2 /\ todo[1].do = "writeProfile"
      <4>1. Head(todo).do = "writeProfile"
        BY <1>2, <3>3
      <4>2. OpenProfile \/ WriteProfile \/ RemoveProfile
        BY <1>1, <4>1, Acts
      <4>3. ~OpenProfile /\ ~RemoveProfile
        BY <4>1 DEF OpenProfile, RemoveProfile, Doing
      <4>4. profile' = <<"profile">>
        BY <4>2, <4>3 DEF WriteProfile
      <4>5. QED
        BY <3>1, <3>3, <4>4
    <3>4. CASE i + 1 = 3 /\ todo[2].do = "writeProfile"
      <4>1. i = 2 /\ 2 \in DOMAIN todo
        BY <1>2, <3>1, <3>4
      <4>2. 2 - 1 \in DOMAIN todo' /\ todo'[2 - 1] = todo[2]
        BY <1>3, <4>1
      <4>3. QED
        BY <3>4, <4>1, <4>2
    <3>5. QED
      BY <3>2, <3>3, <3>4
  <2>3. ASSUME NEW i \in DOMAIN todo', todo'[i].do = "select", NEW t \in Templates, ~Wired(dir'[t])
        PROVE  \E j \in 1 .. i - 1 : todo'[j].do = "inject" /\ todo'[j].f = t
    <3>1. i \in Nat /\ i >= 1 /\ i + 1 \in DOMAIN todo /\ todo[i + 1].do = "select"
      BY <1>3, <2>3
    <3>2. ~Wired(dir[t]) /\ ~(todo[1].do = "inject" /\ todo[1].f = t)
      BY <1>2, <2>3, WiresTemplates DEF File
    <3>3. PICK j \in 1 .. (i + 1) - 1 : todo[j].do = "inject" /\ todo[j].f = t
      BY <3>1, <3>2 DEF ReachInv
    <3>4. j # 1 /\ j \in DOMAIN todo /\ j - 1 \in 1 .. i - 1
      <4>1. j # 1
        BY <3>2, <3>3
      <4>2. QED
        BY <1>2, <3>1, <3>3, <4>1
    <3>5. todo'[j - 1] = todo[j]
      BY <1>3, <3>4
    <3>6. QED
      BY <3>3, <3>4, <3>5
  <2>4. last' # "enabled"
    BY <1>3, <1>4, <1>7
  <2>5. QED
    BY <1>5, <2>1, <2>2, <2>3, <2>4 DEF ReachInv
<1>8. CASE cmd' # cmd
  <2>1. DOMAIN todo = {1} /\ cmd' = "idle"
    BY <1>3, <1>8
  <2>2. \A f \in Reached : Wired(etc'[f])
    BY <1>6, <2>1
  <2>3. QED
    BY <1>5, <2>1, <2>2 DEF ReachInv
<1>9. QED
  BY <1>7, <1>8

LEMMA ReachRuns ==
    ASSUME WireInv, ReachInv, Next, cmd # "idle"
    PROVE  ReachInv'
<1>1. TodoInv
  BY DEF WireInv
<1>2. CASE CutShort
  <2>1. cmd' = "idle" /\ last' = "cut"
    BY <1>2 DEF CutShort
  <2>2. QED
    BY <2>1 DEF ReachInv
<1>3. CASE cmd' = "idle" /\ last' = "cut"
  BY <1>3 DEF ReachInv
<1>4. CASE cmd = "disable" /\ ~CutShort
  <2>1. last # "enabled"
    BY DEF ReachInv
  <2>2. CASE NextItem
    <3>1. cmd' \in {cmd, "idle"} /\ (last' = last \/ last' = "disabled")
      BY <1>1, <1>4, <2>2, Advance
    <3>2. QED
      BY <1>4, <2>1, <3>1 DEF ReachInv
  <2>3. CASE UNCHANGED <<cmd, todo, last, etc, active, base, found, rebased, profile>>
    BY <1>4, <2>1, <2>3 DEF ReachInv
  <2>4. QED
    BY <1>3, <2>2, <2>3, Steps
<1>5. CASE cmd = "enable" /\ ~CutShort
  <2>1. CASE NextItem
    BY <1>5, <2>1, ReachAdvance
  <2>2. CASE UNCHANGED <<cmd, todo, last, etc, active, base, found, rebased, profile>>
    <3>1. Reached' = Reached
      BY <1>5, ReachedSame
    <3>2. \A t \in Templates : Wired(dir[t]) => Wired(dir'[t])
      BY <1>5, WiresTemplates
    <3>3. last # "enabled"
      BY DEF ReachInv
    <3>4. \A i \in DOMAIN todo : todo[i].do = "select" =>
              \A t \in Templates :
                \/ Wired(dir'[t])
                \/ \E j \in 1 .. i - 1 : todo[j].do = "inject" /\ todo[j].f = t
      BY <1>5, <3>2 DEF ReachInv
    <3>5. QED
      BY <1>5, <2>2, <3>1, <3>3, <3>4 DEF ReachInv
  <2>3. QED
    BY <1>3, <2>1, <2>2, Steps
<1>6. QED
  BY <1>1, <1>2, <1>4, <1>5 DEF TodoInv


\* An enable sets out to wire every stack it reaches.
LEMMA ReachBegins ==
    ASSUME WireInv, enable
    PROVE  ReachInv'
<1>1. PICK b \in BOOLEAN : Command("enable", EnableWork(b))
  BY DEF enable
<1>2. /\ todo' = EnableWork(b)
      /\ cmd' = IF todo' # << >> THEN "enable" ELSE "idle"
      /\ last' = IF todo' # << >> THEN "none" ELSE "enabled"
      /\ UNCHANGED <<etc, vendor, family, dir>>
  BY <1>1 DEF Command
<1>3. PICK P : OnCalls(P) /\ Headed(todo', P, "edit", Wire(b))
  BY <1>2, EnableList
<1>4. /\ todo' \in Seq(Item) /\ DOMAIN todo' = 1 .. Len(todo') /\ Len(todo') \in Nat
      /\ Len(P) \in Nat /\ Len(todo') >= Len(P)
      /\ \A i \in 1 .. Len(P) : i \in DOMAIN todo' /\ todo'[i] = P[i]
      /\ \A i \in DOMAIN todo' : todo'[i].do # "edit" => i \in 1 .. Len(P)
  BY <1>3 DEF Headed, OnCalls
<1>5. \A x \in Wire(b) : \E i \in DOMAIN todo' : todo'[i].do = "edit" /\ todo'[i].f = x
  BY <1>3, <1>4 DEF Headed
<1>6. Reached' = Reached
  BY <1>2 DEF Reached, lockscreen_plan, plasmalogin_greeter_plan, existing_targets, Managed, Exists
<1>7. ASSUME family = "Debian"
      PROVE  /\ Len(P) = 3 /\ 3 \in DOMAIN todo'
             /\ todo'[1].do = "openProfile" /\ todo'[2].do = "writeProfile"
             /\ todo'[3].do = "authUpdate"
  <2>1. /\ Len(P) = 3 /\ P[1].do = "openProfile" /\ P[2].do = "writeProfile"
        /\ P[3].do = "authUpdate"
    BY <1>3, <1>7 DEF OnCalls
  <2>2. 1 \in 1 .. Len(P) /\ 2 \in 1 .. Len(P) /\ 3 \in 1 .. Len(P)
    BY <2>1
  <2>3. QED
    BY <1>4, <2>1, <2>2
<1>8. ASSUME family = "Fedora"
      PROVE  /\ 7 \in DOMAIN todo' /\ todo'[7].do = "select"
             /\ todo'[3].do = "inject" /\ todo'[3].f = "system-auth"
             /\ todo'[4].do = "inject" /\ todo'[4].f = "password-auth"
             /\ \A i \in DOMAIN todo' : /\ todo'[i].do # "authUpdate"
                                        /\ todo'[i].do = "select" => i = 7
  <2>1. /\ Len(P) = 7 /\ P[1].do = "current" /\ P[2].do = "create"
        /\ P[3].do = "inject" /\ P[3].f = "system-auth"
        /\ P[4].do = "inject" /\ P[4].f = "password-auth"
        /\ P[5].do = "openBase" /\ P[6].do = "writeBase" /\ P[7].do = "select"
    BY <1>3, <1>8 DEF OnCalls
  <2>2. 3 \in 1 .. Len(P) /\ 4 \in 1 .. Len(P) /\ 7 \in 1 .. Len(P)
    BY <2>1
  <2>3. ASSUME NEW i \in DOMAIN todo', todo'[i].do \in {"authUpdate", "select"} PROVE i = 7
    <3>1. i \in 1 .. Len(P)
      BY <1>4, <2>3
    <3>2. todo'[i] = P[i] /\ i \in {1, 2, 3, 4, 5, 6, 7}
      BY <1>4, <2>1, <3>1
    <3>3. QED
      BY <2>1, <2>3, <3>2
  <2>4. /\ todo'[3] = P[3] /\ todo'[4] = P[4] /\ todo'[7] = P[7] /\ 7 \in DOMAIN todo'
    BY <1>4, <2>2
  <2>5. QED
    BY <2>1, <2>3, <2>4
<1>9. ASSUME NEW f \in Reached
      PROVE  \/ \E i \in DOMAIN todo' : todo'[i].do = "edit" /\ todo'[i].f = f
             \/ f = "common-auth" /\ \E i \in DOMAIN todo' : todo'[i].do = "authUpdate"
             \/ f \in Templates /\ \E i \in DOMAIN todo' : todo'[i].do = "select"
  <2>1. CASE f \in Wire(b)
    BY <1>5, <2>1
  <2>2. CASE f \notin Wire(b)
    <3>1. \/ family = "Debian" /\ f = "common-auth"
          \/ family = "Fedora" /\ f \in Templates
      BY <1>9, <2>2 DEF Reached, Wire
    <3>2. QED
      BY <1>7, <1>8, <3>1
  <2>3. QED
    BY <2>1, <2>2
<1>10. ASSUME NEW i \in DOMAIN todo', todo'[i].do \in {"authUpdate", "select"}
       PROVE  \/ /\ i = 3 /\ todo'[i].do = "authUpdate"
                 /\ todo'[1].do = "openProfile" /\ todo'[2].do = "writeProfile"
              \/ family = "Fedora" /\ todo'[i].do = "select" /\ i = 7
  <2>1. i \in 1 .. Len(P)
    BY <1>4, <1>10
  <2>2. CASE family = "Debian"
    <3>0. Len(P) = 3
      BY <1>7, <2>2
    <3>1. i \in {1, 2, 3}
      BY <2>1, <3>0
    <3>2. QED
      BY <1>7, <1>10, <2>2, <3>1
  <2>3. CASE family = "Fedora"
    BY <1>8, <1>10, <2>3
  <2>4. CASE family \notin {"Debian", "Fedora"}
    BY <1>3, <2>1, <2>4 DEF OnCalls
  <2>5. QED
    BY <2>2, <2>3, <2>4
<1>11. ASSUME NEW i \in DOMAIN todo', todo'[i].do = "select", NEW t \in Templates
       PROVE  \E j \in 1 .. i - 1 : todo'[j].do = "inject" /\ todo'[j].f = t
  <2>1. family = "Fedora" /\ i = 7
    BY <1>10, <1>11
  <2>2. t = "system-auth" \/ t = "password-auth"
    BY DEF Templates
  <2>3. 3 \in 1 .. i - 1 /\ 4 \in 1 .. i - 1
    BY <2>1
  <2>4. QED
    BY <1>8, <2>1, <2>2, <2>3
<1>12. CASE todo' # << >>
  <2>1. last' # "enabled"
    BY <1>2, <1>12
  <2>2. \A i \in DOMAIN todo' : todo'[i].do = "authUpdate" =>
          i = 3 /\ todo'[1].do = "openProfile" /\ todo'[2].do = "writeProfile"
    BY <1>10
  <2>3. QED
    BY <1>6, <1>9, <1>11, <2>1, <2>2 DEF ReachInv
<1>13. CASE todo' = << >>
  <2>1. DOMAIN todo' = {} /\ cmd' = "idle"
    BY <1>2, <1>4, <1>13
  <2>2. Reached = {}
    BY <1>9, <2>1
  <2>3. QED
    BY <1>6, <2>1, <2>2 DEF ReachInv
<1>14. QED
  BY <1>12, <1>13

LEMMA ReachStep == WireInv /\ ReachInv /\ [Next]_vars => ReachInv'
<1> SUFFICES ASSUME WireInv, ReachInv, [Next]_vars PROVE ReachInv'
  OBVIOUS
<1>1. CASE UNCHANGED vars
  <2>1. UNCHANGED <<etc, vendor, family, profile, dir, cmd, todo, last>>
    BY <1>1 DEF vars, disk, hist
  <2>2. Reached' = Reached
    BY <2>1 DEF Reached, lockscreen_plan, plasmalogin_greeter_plan, existing_targets, Managed, Exists
  <2>3. QED
    BY <2>1, <2>2 DEF ReachInv
<1>2. CASE Next /\ cmd # "idle"
  BY <1>2, ReachRuns
<1>3. CASE Next /\ cmd = "idle"
  <2>1. CASE enable
    BY <2>1, ReachBegins
  <2>2. CASE disable
    <3>1. cmd' \in {"disable", "idle"} /\ last' \in {"none", "disabled"}
      BY <2>2 DEF disable, Command
    <3>2. QED
      BY <3>1 DEF ReachInv
  <2>3. CASE (\E f \in Files, o \in Originals : Replace(f, o)) \/ OtherUpdate
    <3>1. cmd' = "idle" /\ last' = "none"
      BY <1>3, <2>3 DEF Replace, OtherUpdate, Others
    <3>2. QED
      BY <3>1 DEF ReachInv
  <2>4. QED
    BY <1>3, <2>1, <2>2, <2>3, IdleSteps
<1>4. QED
  BY <1>1, <1>2, <1>3

\* After an enable that ran to its end every stack it reaches asks for the face
\* before the password, also when an earlier enable was cut short half way
\* through a file, the pam-auth-update profile or an authselect template.
THEOREM EnableReaches == Spec => []EnableWires
<1> DEFINE Inv == WireInv /\ ReachInv
<1>1. Init => Inv
  BY WireStart, ReachStart
<1>2. Inv /\ [Next]_vars => Inv'
  BY WireStep, ReachStep
<1>3. Inv => EnableWires
  BY DEF ReachInv, EnableWires, Wired
<1> HIDE DEF Inv
<1>4. QED
  BY <1>1, <1>2, <1>3, PTL DEF Spec


-----------------------------------------------------------------------------
(* Types.                                                                   *)

AllLines == {"auth", "rest", "comment", "absent", "profile", Mark} \cup Stanzas

\* A file never holds anything but lines: those of others, with linhello's.
LEMMA ContentsFacts ==
    /\ Contents = Seq(AllLines) /\ Plain \subseteq Contents
    /\ \A c \in Plain, s \in Stanzas :
         insert_first_auth(c, s) \in Contents /\ build_override(c, s) \in Contents
<1>1. Contents = Seq(AllLines)
  BY DEF Contents, AllLines
<1>2. ASSUME NEW c \in Plain PROVE c \in Contents
  <2>1. c \in Seq(Lines) /\ Lines \subseteq AllLines
    BY DEF Plain, Lines, AllLines
  <2>2. QED
    BY <1>1, <2>1
<1>3. ASSUME NEW c \in Plain, NEW s \in Stanzas PROVE insert_first_auth(c, s) \in Contents
  <2> DEFINE d == insert_first_auth(c, s)
  <2>1. d \in Seq(Lines \cup {s})
    BY InsertIs DEF Inserted
  <2>2. Lines \cup {s} \subseteq AllLines
    BY DEF Lines, AllLines
  <2> HIDE DEF d
  <2>3. QED
    BY <1>1, <2>1, <2>2 DEF d
<1>4. ASSUME NEW c \in Plain, NEW s \in Stanzas PROVE build_override(c, s) \in Contents
  <2> DEFINE d == insert_first_auth(c, s)
  <2>1. d \in Seq(AllLines) /\ <<Mark>> \in Seq(AllLines)
    BY <1>1, <1>3 DEF AllLines
  <2> HIDE DEF d
  <2>2. <<Mark>> \o d \in Seq(AllLines)
    BY <2>1
  <2>3. QED
    BY <1>1, <2>2 DEF build_override, d
<1>5. QED
  BY <1>1, <1>2, <1>3, <1>4

LEMMA ShapeContents == ASSUME NEW f, NEW o \in Plain, NEW c, Shape(f, c, o) PROVE c \in Contents
<1>1. Originals \subseteq Plain
  BY Given
<1>2. QED
  BY <1>1, ContentsFacts DEF Shape

LEMMA TemplateContents == ASSUME NEW c, Template(c) PROVE c \in Contents
<1>1. "sufficient" \in Stanzas
  BY DEF Stanzas
<1>2. Torn \in Plain /\ \A p : StockTemplate(p) \in Plain
  BY Given
<1>3. QED
  BY <1>1, <1>2, ContentsFacts DEF Template, Whole

\* What the stacks and templates hold is made of lines.
LEMMA WireContents ==
    ASSUME WireInv
    PROVE  /\ etc \in [Files -> Contents] /\ dir \in [Templates -> Contents]
           /\ vendor \in [Vendored -> Contents]
<1>1. ASSUME NEW f \in Files PROVE etc[f] \in Contents
  <2>1. orig[f] \in Plain
    BY DEF WireInv, EtcInv
  <2>2. CASE f \notin Templates
    <3>1. Shape(f, etc[f], orig[f])
      BY <2>2 DEF WireInv, EtcInv
    <3>2. QED
      BY <2>1, <3>1, ShapeContents
  <2>3. CASE f \in Templates
    <3>1. \/ etc[f] = orig[f] \/ (\E p \in Stock : etc[f] = StockTemplate(p))
          \/ Template(etc[f])
      BY <2>3 DEF WireInv, EtcInv
    <3>2. \A p : StockTemplate(p) \in Plain
      BY Given
    <3>3. QED
      BY <2>1, <3>1, <3>2, ContentsFacts, TemplateContents
  <2>4. QED
    BY <2>2, <2>3
<1>2. etc \in [Files -> Contents]
  BY <1>1 DEF WireInv, EtcInv
<1>3. \A t \in Templates : dir[t] \in Contents
  <2>1. \A t \in Templates : dir[t] = Absent \/ Template(dir[t])
    BY DEF WireInv, DirInv
  <2>2. Absent \in Contents
    BY Given, ContentsFacts
  <2>3. QED
    BY <2>1, <2>2, TemplateContents
<1>4. dir \in [Templates -> Contents]
  BY <1>3 DEF WireInv, DirInv
<1>5. vendor \in [Vendored -> Contents]
  <2>1. Originals \cup {Absent} \subseteq Contents
    BY Given, ContentsFacts
  <2>2. QED
    BY <2>1 DEF WireInv, EtcInv
<1>6. QED
  BY <1>2, <1>4, <1>5

\* What WireInv does not speak of.
SpareOK ==
    /\ bak \in [Files -> Contents] /\ tmp \in Contents /\ profile \in Contents
    /\ base \in Stock \cup {Custom, ""} /\ active \in Stock \cup {Custom, "none"}
    /\ found \in Stock \cup {Custom, ""} /\ last \in {"none", "enabled", "disabled", "cut"}

LEMMA SpareStart == Init => SpareOK
<1> SUFFICES ASSUME Init PROVE SpareOK
  OBVIOUS
<1>1. Absent \in Contents
  BY Given, ContentsFacts
<1>2. bak \in [Files -> Contents] /\ tmp \in Contents /\ profile \in Contents
  BY <1>1 DEF Init
<1>3. active \in Stock \cup {Custom, "none"}
  BY DEF Init
<1>4. QED
  BY <1>2, <1>3 DEF Init, SpareOK

LEMMA SpareStep == WireInv /\ SpareOK /\ [Next]_vars => SpareOK'
<1> SUFFICES ASSUME WireInv, SpareOK, [Next]_vars PROVE SpareOK'
  OBVIOUS
<1>1. Absent \in Contents /\ Torn \in Contents /\ <<"profile">> \in Contents
  <2>1. <<"profile">> \in Seq(AllLines)
    BY DEF AllLines
  <2>2. QED
    BY <2>1, Given, ContentsFacts
<1>2. /\ bak \in [Files -> Contents] /\ tmp \in Contents /\ profile \in Contents
      /\ base \in Stock \cup {Custom, ""} /\ active \in Stock \cup {Custom, "none"}
      /\ found \in Stock \cup {Custom, ""} /\ last \in {"none", "enabled", "disabled", "cut"}
      /\ etc \in [Files -> Contents]
  BY WireContents DEF SpareOK
<1>3. last' \in {"none", "enabled", "disabled", "cut"}
  BY <1>2 DEF Next, vars, enable, disable, Command, Begin, Copy, OpenTmp, WriteTmp, Rename,
     OpenProfile, WriteProfile, RemoveProfile, AuthUpdate, Current, Create, Inject, Fill,
     StoreBase, SelectCustom, Revert, RemoveDir, RemoveBase, CutShort, Replace, OtherUpdate,
     Others, NextItem, Goto
<1>4. bak' \in [Files -> Contents]
  <2>1. \/ bak' = bak \/ (\E f : bak' = [bak EXCEPT ![f] = Torn])
        \/ Copy /\ bak' = [bak EXCEPT ![File] = etc[File]]
    BY DEF Next, vars, disk, enable, disable, Command, Begin, Copy, OpenTmp, WriteTmp, Rename,
       rest, fedora, OpenProfile, WriteProfile, RemoveProfile, AuthUpdate, Current, Create,
       Inject, Fill, StoreBase, SelectCustom, Revert, RemoveDir, RemoveBase, CutShort, Replace,
       OtherUpdate
  <2>2. \A f \in Files : etc[f] \in Contents
    BY <1>2
  <2>3. ASSUME NEW f, NEW c, f \in Files => c \in Contents
        PROVE  [bak EXCEPT ![f] = c] \in [Files -> Contents]
    BY <1>2, <2>3
  <2>4. QED
    BY <1>1, <1>2, <2>1, <2>2, <2>3
<1>5. tmp' \in Contents
  <2>1. CASE WriteTmp
    <3>1. /\ cmd # "idle" /\ at = "write" /\ tmp' = Edited(File)
      BY <2>1 DEF WriteTmp
    <3>2. Shape(File, Edited(File), orig[File]) /\ File \in Files
      BY <3>1, EditedFacts DEF WireInv, AtInv
    <3>3. orig[File] \in Plain
      BY <3>2 DEF WireInv, EtcInv
    <3>4. QED
      BY <3>1, <3>2, <3>3, ShapeContents
  <2>2. CASE Inject
    <3>1. tmp' = tmp \/ at' = "fill"
      BY <2>2 DEF Inject, Goto
    <3>2. at' = "fill" => Template(tmp')
      BY <2>2, WireInject DEF WireInv, AtInv
    <3>3. QED
      BY <1>2, <3>1, <3>2, TemplateContents
  <2>3. CASE ~WriteTmp /\ ~Inject
    <3>1. tmp' = tmp \/ tmp' = Torn \/ tmp' = Absent
      BY <2>3 DEF Next, vars, disk, enable, disable, Command, Begin, Copy, OpenTmp, Rename,
         rest, fedora, OpenProfile, WriteProfile, RemoveProfile, AuthUpdate, Current, Create,
         Fill, StoreBase, SelectCustom, Revert, RemoveDir, RemoveBase, CutShort, Replace,
         OtherUpdate
    <3>2. QED
      BY <1>1, <1>2, <3>1
  <2>4. QED
    BY <2>1, <2>2, <2>3
<1>6. profile' \in Contents
  <2>1. profile' \in {profile, Torn, <<"profile">>, Absent}
    BY DEF Next, vars, disk, enable, disable, Command, Begin, Copy, OpenTmp, WriteTmp, Rename,
       rest, fedora, OpenProfile, WriteProfile, RemoveProfile, AuthUpdate, Current, Create,
       Inject, Fill, StoreBase, SelectCustom, Revert, RemoveDir, RemoveBase, CutShort, Replace,
       OtherUpdate
  <2>2. QED
    BY <1>1, <1>2, <2>1
<1>7. found' \in Stock \cup {Custom, ""} /\ base' \in Stock \cup {Custom, ""}
  <2>1. /\ found' \in {found, active, "sssd"} /\ (found' = active => active # "none" \/ found' = found)
        /\ base' \in {base, found, ""}
    BY DEF Next, vars, disk, enable, disable, Command, Begin, Copy, OpenTmp, WriteTmp, Rename,
       rest, fedora, OpenProfile, WriteProfile, RemoveProfile, AuthUpdate, Current, Create,
       Inject, Fill, StoreBase, SelectCustom, Revert, RemoveDir, RemoveBase, CutShort, Replace,
       OtherUpdate
  <2>2. QED
    BY <1>2, <2>1 DEF Stock
<1>8. active' \in Stock \cup {Custom, "none"}
  <2>1. active' \in {active, Custom, load_authselect_base} \cup Stock
    BY DEF Next, vars, disk, enable, disable, Command, Begin, Copy, OpenTmp, WriteTmp, Rename,
       rest, fedora, OpenProfile, WriteProfile, RemoveProfile, AuthUpdate, Current, Create,
       Inject, Fill, StoreBase, SelectCustom, Revert, RemoveDir, RemoveBase, CutShort, Replace,
       OtherUpdate, Select
  <2>2. load_authselect_base \in Stock \cup {Custom}
    BY <1>2 DEF load_authselect_base, Stock
  <2>3. QED
    BY <1>2, <2>1, <2>2
<1>9. QED
  BY <1>3, <1>4, <1>5, <1>6, <1>7, <1>8 DEF SpareOK

\* Every variable keeps its type, for any greeters and any original stacks and
\* however often a command is cut short: a file, a backup and a template hold
\* lines of others and linhello's own and nothing else, and the base profile
\* remembered for disable is one authselect knows, or empty
\* (store_authselect_base, load_authselect_base, write_atomic).
THEOREM TypeCorrect == Spec => []TypeOK
<1>1. WireInv /\ SpareOK => TypeOK
  <2> SUFFICES ASSUME WireInv, SpareOK PROVE TypeOK
    OBVIOUS
  <2>1. \A i \in DOMAIN todo : todo[i].f \in Files \cup {"-"}
    <3>1. todo \in Seq(Item)
      BY DEF WireInv, TodoInv, Item
    <3>2. \A i \in DOMAIN todo : todo[i] \in Item
      BY <3>1
    <3>3. QED
      BY <3>2 DEF Item
  <2>2. family \in Families /\ cmd \in {"idle", "enable", "disable"}
        /\ at \in {"begin", "copy", "open", "write", "rename", "fill"}
    BY DEF WireInv, TodoInv, AtInv, EtcInv
  <2>3. QED
    BY <2>1, <2>2, WireContents DEF SpareOK, TypeOK
<1>2. QED
  BY <1>1, WireStart, WireStep, SpareStart, SpareStep, PTL DEF Spec
=============================================================================

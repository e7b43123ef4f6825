---------------------------- MODULE SetupProofs ----------------------------
(***************************************************************************)
(* Proofs about Setup, for any cameras, fingers and number of captures.    *)
(***************************************************************************)
EXTENDS Setup, WellFoundedInduction, TLAPS

USE DEF Then, Next1, End, Offer, At, Well, Fault, machine, selinux, config, daemon, face,
        finger, run, bounds, host, parts, rest

-----------------------------------------------------------------------------
(* enroll --reset keeps what it was told is stored.                         *)

\* While a command runs every stored sample was acknowledged; enroll --reset
\* either has stored none or has replaced the old ones.
SamplesInv ==
    /\ old \in Nat /\ new \in Nat /\ acks \in Nat /\ reset \in BOOLEAN
    /\ cmd = "idle" => todo = <<>>
    /\ new \in {acks, acks + 1} /\ (cmd # "idle" => new = acks)
    /\ cmd # "idle" /\ reset => cmd = "replace" /\ new = 0
    /\ cmd = "replace" /\ ~reset => old = 0

\* The steps that leave the samples alone go on with the command or end it.
Untouched ==
    /\ UNCHANGED <<old, new, acks, reset>>
    /\ \/ UNCHANGED <<cmd, todo>>
       \/ todo # <<>> /\ UNCHANGED cmd
       \/ cmd' = "idle" /\ todo' = <<>>

LEMMA UntouchedKeeps == SamplesInv /\ Untouched => SamplesInv'
BY DEF SamplesInv, Untouched

LEMMA PartsUntouched == PartStep => Untouched
<1>1. SelinuxStep \/ PolicyCmd \/ Compile \/ LoadModule \/ Unload => Untouched
  BY DEF SelinuxStep, PolicyCmd, Compile, LoadModule, Unload, Bail, Untouched
<1>2. Restart \/ HookStep \/ OpenHook \/ FillHook \/ ChmodHook => Untouched
  BY DEF Restart, HookStep, OpenHook, FillHook, ChmodHook, Untouched
<1>3. RemoveHook \/ Group => Untouched
  BY DEF RemoveHook, Group, Untouched
<1>4. QED
  BY <1>1, <1>2, <1>3 DEF PartStep

LEMMA SetupUntouched == SetupStep => Untouched
BY DEF SetupStep, Probe, Choose, WriteRgb, WriteIr, Calibrate, Bail, Untouched

LEMMA FingerUntouched == FingerStep => Untouched
<1>1. AskFinger \/ FirstFinger \/ PickSlot \/ Scan \/ Name => Untouched
  BY DEF AskFinger, FirstFinger, PickSlot, Scan, Name, Bail, Untouched
<1>2. Wire \/ Unwire \/ SetMethod \/ ClearMethod => Untouched
  BY DEF Wire, Unwire, Wires, SetMethod, ClearMethod, Bail, Untouched
<1>3. QED
  BY <1>1, <1>2 DEF FingerStep

LEMMA OthersUntouched ==
    Finish \/ Stop \/ LookUpCameras \/ Reboot \/ DeleteFinger => Untouched
BY DEF Finish, Stop, LookUpCameras, Reboot, DeleteFinger, Bail, Untouched

LEMMA FaceKeeps == SamplesInv /\ FaceStep => SamplesInv'
<1> SUFFICES ASSUME SamplesInv, FaceStep PROVE SamplesInv'
  OBVIOUS
<1>1. AskEnroll \/ Captured \/ AskRecovery \/ Recovery => Untouched
  BY DEF AskEnroll, Captured, AskRecovery, Recovery, Bail, Untouched
<1>2. CASE Sample
  <2>1. todo # <<>> /\ Head(todo) = "sample" /\ cmd # "idle" /\ new = acks
    BY <1>2 DEF Sample, SamplesInv
  <2>2. CASE up /\ Store /\ acks' = acks + 1 /\ reset' = FALSE /\ Next1
    <3>1. cmd' = cmd /\ reset' = FALSE /\ acks' = acks + 1
      BY <2>2
    <3>2. new' = acks + 1 /\ old' \in Nat
      BY <2>1, <2>2 DEF SamplesInv, Store
    <3>3. cmd = "replace" => old' = 0
      BY <2>1, <2>2 DEF SamplesInv, Store
    <3>4. new' \in Nat /\ acks' \in Nat /\ new' = acks' /\ new' \in {acks', acks' + 1}
      BY <3>1, <3>2 DEF SamplesInv
    <3>5. cmd' # "idle" /\ reset' \in BOOLEAN /\ ~reset'
      BY <2>1, <3>1
    <3>6. QED
      BY <3>1, <3>2, <3>3, <3>4, <3>5 DEF SamplesInv
  <2>3. CASE up /\ Next1 /\ UNCHANGED <<old, new, cams, acks, reset>>
    BY <2>1, <2>3 DEF SamplesInv
  <2>4. CASE /\ Bail /\ UNCHANGED <<acks, reset>>
             /\ (up /\ Store) \/ UNCHANGED <<old, new, cams>>
    <3>1. cmd' = "idle" /\ todo' = <<>>
      BY <2>1, <2>4 DEF Bail, FingerSteps
    <3>2. new' \in {acks, acks + 1} /\ new' \in Nat /\ old' \in Nat
      BY <2>1, <2>4 DEF SamplesInv, Store
    <3>3. QED
      BY <2>4, <3>1, <3>2 DEF SamplesInv
  <2>5. QED
    BY <1>2, <2>2, <2>3, <2>4 DEF Sample
<1>3. QED
  BY <1>1, <1>2, UntouchedKeeps DEF FaceStep

LEMMA BeginKeeps == ASSUME SamplesInv, NEW c, Begin(c), c # "idle" PROVE SamplesInv'
<1>1. /\ cmd' = c /\ new' = 0 /\ acks' = 0 /\ old' \in Nat
      /\ reset' \in BOOLEAN
  BY DEF SamplesInv, Begin
<1>2. reset' = (c = "replace")
  BY Zenon DEF Begin
<1>3. reset' <=> c = "replace"
  BY <1>2
<1>4. QED
  BY <1>1, <1>3 DEF SamplesInv

LEMMA SamplesNext == SamplesInv /\ [Next]_vars => SamplesInv'
<1> SUFFICES ASSUME SamplesInv, [Next]_vars PROVE SamplesInv'
  OBVIOUS
<1>1. ASSUME NEW c \in DOMAIN Steps, Begin(c) PROVE SamplesInv'
  <2>1. c # "idle"
    BY DEF Steps
  <2>2. QED
    BY <1>1, <2>1, BeginKeeps
<1>2. CASE UNCHANGED vars
  BY <1>2 DEF vars, SamplesInv
<1>3. QED
  BY <1>1, <1>2, PartsUntouched, SetupUntouched, FingerUntouched, OthersUntouched, FaceKeeps,
     UntouchedKeeps DEF Next

LEMMA SamplesInit == Init => SamplesInv
<1> SUFFICES ASSUME Init PROVE SamplesInv
  OBVIOUS
<1>1. /\ old \in Nat /\ new = 0 /\ acks = 0 /\ reset = FALSE
      /\ cmd = "idle" /\ todo = <<>>
  BY DEF Init
<1>2. QED
  BY <1>1 DEF SamplesInv

\* For any number of captures, refused samples and lost answers: the old samples
\* go with the first new one that is stored, and at most the sample whose answer
\* was lost is stored beyond those acknowledged.
THEOREM ResetSafe == Spec => []ResetKeepsSamples
<1>1. SamplesInv => ResetKeepsSamples
  BY DEF SamplesInv, ResetKeepsSamples
<1>2. QED
  BY <1>1, SamplesInit, SamplesNext, PTL DEF Spec

-----------------------------------------------------------------------------
(* The steps a command has left.                                            *)

\* the steps up to the calibration in setup, and those from it on
Early == {"probe", "selinux?", "policy?", "unload", "compile", "load", "relabel", "hook?",
          "open hook", "fill hook", "chmod hook", "group", "cameras", "rgb", "ir",
          "restart", "calibrate?"}
Late  == {"calibrate?", "enroll?", "sample", "captured?", "recovery?", "recovery", "finger?",
          "first finger", "finger", "scan", "name", "wire", "method"}

\* every step there is
Kinds == Early \cup Late \cup {"rm hook", "unwire", "method auto"}

\* Which step may stand behind which, "end" for none: some are only ever the next
\* one to take, some are never the last.
Follows(a, b) ==
    /\ b \notin {"open hook", "rm hook", "unwire", "first finger", "finger", "scan", "name",
                 "compile"}
    /\ b = "load" => a = "compile"
    /\ b = "fill hook" => a = "open hook"
    /\ b = "chmod hook" => a = "fill hook"
    /\ b = "wire" => a \in {"first finger", "finger", "scan", "name"}
    /\ b = "method" => a = "wire"
    /\ b = "ir" => a = "rgb"
    /\ b = "restart" => a = "ir"
    /\ b \in Late => a \in Late \cup {"restart"}
    /\ b \in Early => a \in Early
    /\ a = "open hook" => b = "fill hook"
    /\ a = "fill hook" => b = "chmod hook"
    /\ a = "unwire" => b = "method auto"

LastOf(t) == t[Len(t)]

Chain(t) ==
    /\ t \in Seq(Kinds)
    /\ \A i \in 1 .. Len(t) - 1 : Follows(t[i], t[i + 1])
    /\ t # << >> => Follows(LastOf(t), "end")

\* the next step to take
Now(t) == IF t = << >> THEN "end" ELSE Head(t)

\* What a step that is asked about, or that goes on, is replaced by.
Replaces(h, s) ==
    \/ h \in {"selinux?", "policy?"} /\ s = Policy
    \/ h = "unload" /\ s = <<"relabel">>
    \/ h = "hook?" /\ s = WriteHook
    \/ h = "calibrate?" /\ s = <<"restart">>
    \/ h = "enroll?" /\ s = Samples \o <<"recovery?">>
    \/ h = "recovery?" /\ s = <<"recovery">>
    \/ h = "finger?" /\ s = Enable
    \/ h = "first finger" /\ s = <<"finger">>
    \/ h = "finger" /\ s = <<"scan">>
    \/ h = "scan" /\ s = <<"name">>

LEMMA TailChain ==
    ASSUME NEW t, Chain(t), t # << >>
    PROVE  /\ Chain(Tail(t)) /\ << >> \o Tail(t) = Tail(t)
           /\ Follows(Head(t), Now(Tail(t)))
           /\ Tail(t) # << >> => LastOf(Tail(t)) = LastOf(t)
           /\ Tail(t) = << >> => LastOf(t) = Head(t)
<1>1. t \in Seq(Kinds) /\ Len(t) \in Nat /\ Len(t) >= 1
  BY DEF Chain
<1>2. /\ Tail(t) \in Seq(Kinds) /\ Len(Tail(t)) = Len(t) - 1
      /\ \A i \in 1 .. Len(t) - 1 : Tail(t)[i] = t[i + 1]
      /\ Head(t) = t[1]
  BY <1>1
<1>3. \A i \in 1 .. Len(Tail(t)) - 1 : Follows(Tail(t)[i], Tail(t)[i + 1])
  <2> SUFFICES ASSUME NEW i \in 1 .. Len(Tail(t)) - 1
               PROVE  Follows(Tail(t)[i], Tail(t)[i + 1])
    OBVIOUS
  <2>1. i + 1 \in 1 .. Len(t) - 1 /\ i \in 1 .. Len(t) - 1
    BY <1>1, <1>2
  <2>2. Follows(t[i + 1], t[(i + 1) + 1])
    BY <2>1 DEF Chain
  <2>3. Tail(t)[i] = t[i + 1] /\ Tail(t)[i + 1] = t[(i + 1) + 1]
    BY <1>2, <2>1
  <2>4. QED
    BY <2>2, <2>3
<1>4. << >> \o Tail(t) = Tail(t)
  BY <1>2
<1>5. ASSUME Tail(t) # << >>
      PROVE  Follows(Head(t), Head(Tail(t))) /\ LastOf(Tail(t)) = LastOf(t)
  <2>1. Len(Tail(t)) >= 1
    BY <1>2, <1>5
  <2>2. 1 \in 1 .. Len(t) - 1 /\ Len(t) - 1 \in 1 .. Len(t) - 1
    BY <1>1, <1>2, <2>1
  <2>3. Follows(t[1], t[1 + 1]) /\ 1 + 1 = 2
    BY <2>2 DEF Chain
  <2>4. Head(Tail(t)) = Tail(t)[1] /\ Tail(t)[1] = t[1 + 1]
    BY <1>2, <1>5, <2>2
  <2>5. Follows(Head(t), Head(Tail(t)))
    BY <1>2, <2>3, <2>4
  <2>6. Tail(t)[Len(t) - 1] = t[Len(t) - 1 + 1] /\ Len(t) - 1 + 1 = Len(t)
    BY <1>1, <1>2, <2>2
  <2>7. LastOf(Tail(t)) = LastOf(t)
    BY <1>2, <2>6 DEF LastOf
  <2>8. QED
    BY <2>5, <2>7
<1>6. ASSUME Tail(t) = << >> PROVE LastOf(t) = Head(t)
  <2>0. Len(<< >>) = 0
    OBVIOUS
  <2>1. Len(Tail(t)) = 0
    BY <1>6, <2>0, Zenon
  <2>2. Len(t) - 1 = 0
    BY <1>2, <2>1, Zenon
  <2>3. Len(t) = 1
    BY <1>1, <2>2
  <2>4. QED
    BY <1>2, <2>3 DEF LastOf
<1>7. Follows(LastOf(t), "end")
  BY DEF Chain
<1>8. Follows(Head(t), Now(Tail(t)))
  BY <1>5, <1>6, <1>7 DEF Now
<1>9. Chain(Tail(t))
  BY <1>2, <1>3, <1>5, <1>7 DEF Chain
<1>10. QED
  BY <1>4, <1>5, <1>6, <1>8, <1>9

LEMMA JoinChain ==
    ASSUME NEW r, NEW t, Chain(r), Chain(t), r # << >>,
           t # << >> => Follows(LastOf(r), Head(t))
    PROVE  /\ Chain(r \o t) /\ r \o t # << >> /\ Head(r \o t) = Head(r)
           /\ LastOf(r \o t) = IF t = << >> THEN LastOf(r) ELSE LastOf(t)
<1>1. /\ r \in Seq(Kinds) /\ t \in Seq(Kinds)
      /\ Len(r) \in Nat /\ Len(r) >= 1 /\ Len(t) \in Nat
      /\ Head(r) = r[1]
  BY DEF Chain
<1>2. /\ r \o t \in Seq(Kinds) /\ Len(r \o t) = Len(r) + Len(t)
      /\ \A i \in 1 .. Len(r) + Len(t) :
            (r \o t)[i] = IF i <= Len(r) THEN r[i] ELSE t[i - Len(r)]
  BY <1>1
<1>3. \A i \in 1 .. Len(r \o t) - 1 : Follows((r \o t)[i], (r \o t)[i + 1])
  <2> SUFFICES ASSUME NEW i \in 1 .. Len(r \o t) - 1
               PROVE  Follows((r \o t)[i], (r \o t)[i + 1])
    OBVIOUS
  <2>0. i \in 1 .. Len(r) + Len(t) - 1
    BY <1>2
  <2>1. CASE i + 1 <= Len(r)
    <3>1. (r \o t)[i] = r[i] /\ (r \o t)[i + 1] = r[i + 1] /\ i \in 1 .. Len(r) - 1
      BY <1>1, <1>2, <2>0, <2>1
    <3>2. QED
      BY <3>1 DEF Chain
  <2>2. CASE i = Len(r)
    <3>1. (r \o t)[i] = r[Len(r)] /\ (r \o t)[i + 1] = t[1] /\ t # << >>
      BY <1>1, <1>2, <2>0, <2>2
    <3>2. Head(t) = t[1]
      BY <1>1, <3>1
    <3>3. QED
      BY <3>1, <3>2 DEF LastOf
  <2>3. CASE i > Len(r)
    <3>1. /\ (r \o t)[i] = t[i - Len(r)] /\ (r \o t)[i + 1] = t[i - Len(r) + 1]
          /\ i - Len(r) \in 1 .. Len(t) - 1
      BY <1>1, <1>2, <2>0, <2>3
    <3>2. QED
      BY <3>1 DEF Chain
  <2>4. QED
    BY <1>1, <2>0, <2>1, <2>2, <2>3
<1>4. r \o t # << >> /\ Head(r \o t) = r[1]
  BY <1>1, <1>2
<1>5. LastOf(r \o t) = IF t = << >> THEN LastOf(r) ELSE LastOf(t)
  <2>1. CASE t = << >>
    BY <1>1, <1>2, <2>1 DEF LastOf
  <2>2. CASE t # << >>
    <3>1. Len(t) >= 1
      BY <1>1, <2>2
    <3>2. (r \o t)[Len(r) + Len(t)] = t[Len(t)]
      BY <1>1, <1>2, <3>1
    <3>3. QED
      BY <1>2, <2>2, <3>2 DEF LastOf
  <2>3. QED
    BY <2>1, <2>2
<1>6. Follows(LastOf(r \o t), "end")
  BY <1>5 DEF Chain
<1>7. QED
  BY <1>1, <1>2, <1>3, <1>4, <1>5, <1>6 DEF Chain

\* Chains of up to three steps.
LEMMA One ==
    ASSUME NEW a \in Kinds, Follows(a, "end")
    PROVE  Chain(<<a>>) /\ LastOf(<<a>>) = a /\ Head(<<a>>) = a /\ <<a>> # << >>
<1> DEFINE t == <<a>>
<1>1. t \in Seq(Kinds) /\ Len(t) = 1 /\ t[1] = a /\ Head(t) = t[1] /\ t # << >>
  OBVIOUS
<1> HIDE DEF t
<1>2. QED
  <2>1. Chain(t) /\ LastOf(t) = a
    BY <1>1 DEF Chain, LastOf
  <2>2. QED
    BY <1>1, <2>1 DEF t

LEMMA Two ==
    ASSUME NEW a \in Kinds, NEW b \in Kinds, Follows(a, b), Follows(b, "end")
    PROVE  Chain(<<a, b>>)
<1> DEFINE t == <<a, b>>
<1>1. t \in Seq(Kinds) /\ Len(t) = 2 /\ t[1] = a /\ t[2] = b
  OBVIOUS
<1> HIDE DEF t
<1>2. \A i \in 1 .. Len(t) - 1 : Follows(t[i], t[i + 1])
  BY <1>1
<1>3. Chain(t)
  BY <1>1, <1>2 DEF Chain, LastOf
<1>4. QED
  BY <1>3 DEF t

LEMMA Three ==
    ASSUME NEW a \in Kinds, NEW b \in Kinds, NEW c \in Kinds, Follows(a, b), Follows(b, c),
           Follows(c, "end")
    PROVE  Chain(<<a, b, c>>) /\ LastOf(<<a, b, c>>) = c /\ <<a, b, c>> # << >>
<1> DEFINE t == <<a, b, c>>
<1>1. t \in Seq(Kinds) /\ Len(t) = 3 /\ t[1] = a /\ t[2] = b /\ t[3] = c /\ t # << >>
  OBVIOUS
<1> HIDE DEF t
<1>2. \A i \in 1 .. Len(t) - 1 : i = 1 \/ i = 2
  BY <1>1
<1>3. \A i \in 1 .. Len(t) - 1 : Follows(t[i], t[i + 1])
  BY <1>1, <1>2
<1>4. Chain(t) /\ LastOf(t) = c
  BY <1>1, <1>3 DEF Chain, LastOf
<1>5. QED
  BY <1>1, <1>4 DEF t

\* The captures of an enrollment.
LEMMA SamplesChain ==
    /\ Chain(Samples) /\ Samples # << >>
    /\ Chain(Samples \o <<"recovery?">>) /\ Samples \o <<"recovery?">> # << >>
    /\ Head(Samples \o <<"recovery?">>) \in {"sample", "captured?"}
    /\ LastOf(Samples \o <<"recovery?">>) = "recovery?"
<1> DEFINE S == [i \in 1 .. Captures |-> "sample"]
           E == {"sample", "captured?"}
<1>1. Captures \in Nat
  BY SetupAssumption
<1>2. S \in Seq({"sample"}) /\ Len(S) = Captures /\ \A i \in 1 .. Captures : S[i] = "sample"
  BY <1>1
<1>3. <<"captured?">> \in Seq({"captured?"}) /\ Len(<<"captured?">>) = 1
  OBVIOUS
<1>4. Samples = S \o <<"captured?">>
  BY DEF Samples
<1> HIDE DEF S
<1>5. /\ Samples \in Seq(Kinds) /\ Len(Samples) = Captures + 1
      /\ \A i \in 1 .. Captures + 1 : Samples[i] \in E
  <2>1. S \in Seq(Kinds) /\ <<"captured?">> \in Seq(Kinds)
    <3>1. {"sample", "captured?"} \subseteq Kinds
      BY DEF Kinds, Late
    <3>2. QED
      BY <1>1, <3>1 DEF S
  <2>2. \A i \in 1 .. Captures + 1 :
           Samples[i] = IF i <= Captures THEN S[i] ELSE <<"captured?">>[i - Captures]
    BY <1>1, <1>2, <1>3, <1>4, <2>1
  <2>3. \A i \in 1 .. Captures + 1 : ~(i <= Captures) => i - Captures = 1
    BY <1>1
  <2>4. QED
    BY <1>1, <1>2, <1>3, <1>4, <2>1, <2>2, <2>3
<1>6. Chain(Samples) /\ Samples # << >> /\ Head(Samples) \in E /\ LastOf(Samples) \in E
  <2>0. \A a \in E : Follows(a, "end")
    BY DEF Follows, Late, Early
  <2>1. \A a, b \in E : Follows(a, b)
    BY ZenonT(30) DEF Follows, Late, Early
  <2>2. Samples # << >> /\ Head(Samples) = Samples[1]
    BY <1>1, <1>5
  <2>3. QED
    BY <1>1, <1>5, <2>0, <2>1, <2>2 DEF Chain, LastOf
<1>7. PICK r \in Kinds : r = "recovery?"
  BY DEF Kinds, Early, Late
<1>8. Follows(r, "end") /\ \A a \in E : Follows(a, r)
  BY <1>7 DEF Follows, Late, Early
<1>9. Chain(<<r>>) /\ LastOf(<<r>>) = r /\ Head(<<r>>) = r /\ <<r>> # << >>
  BY <1>8, One
<1>10. QED
  BY <1>6, <1>7, <1>8, <1>9, JoinChain

\* What a step is replaced by is a chain that fits in its place.
LEMMA ReplacesChain ==
    ASSUME NEW h, NEW r, Replaces(h, r)
    PROVE  /\ Chain(r) /\ r # << >>
           /\ \A b : Follows(h, b) => Follows(LastOf(r), b)
<1>1. CASE h \in {"selinux?", "policy?"} /\ r = Policy
  <2>1. Chain(r) /\ r # << >> /\ LastOf(r) = "relabel"
    <3>1. Follows("compile", "load") /\ Follows("load", "relabel") /\ Follows("relabel", "end")
      BY DEF Follows, Early, Late
    <3>2. PICK a \in Kinds, b \in Kinds, d \in Kinds :
             a = "compile" /\ b = "load" /\ d = "relabel"
      BY DEF Kinds, Early, Late
    <3>3. r = <<a, b, d>>
      BY <1>1, <3>2 DEF Policy
    <3>4. QED
      BY <3>1, <3>2, <3>3, Three
  <2>2. QED
    BY <1>1, <2>1 DEF Follows, Early, Late
<1>2. CASE h = "unload" /\ r = <<"relabel">>
  <2>1. Chain(r) /\ r # << >> /\ LastOf(r) = "relabel"
    <3>1. PICK q \in Kinds : q = "relabel" /\ Follows(q, "end")
      BY DEF Kinds, Early, Late, Follows
    <3>2. QED
      BY <1>2, <3>1, One
  <2>2. QED
    BY <1>2, <2>1 DEF Follows, Early, Late
<1>3. CASE h = "hook?" /\ r = WriteHook
  <2>1. Chain(r) /\ r # << >> /\ LastOf(r) = "chmod hook"
    <3>1. /\ Follows("open hook", "fill hook") /\ Follows("fill hook", "chmod hook")
          /\ Follows("chmod hook", "end")
      BY DEF Follows, Early, Late
    <3>2. PICK a \in Kinds, b \in Kinds, d \in Kinds :
             a = "open hook" /\ b = "fill hook" /\ d = "chmod hook"
      BY DEF Kinds, Early, Late
    <3>3. r = <<a, b, d>>
      BY <1>3, <3>2 DEF WriteHook
    <3>4. QED
      BY <3>1, <3>2, <3>3, Three, ZenonT(30)
  <2>2. QED
    BY <1>3, <2>1 DEF Follows, Early, Late
<1>4. CASE h = "calibrate?" /\ r = <<"restart">>
  <2>1. Chain(r) /\ r # << >> /\ LastOf(r) = "restart"
    <3>1. PICK q \in Kinds : q = "restart" /\ Follows(q, "end")
      BY DEF Kinds, Early, Late, Follows
    <3>2. QED
      BY <1>4, <3>1, One
  <2>2. QED
    BY <1>4, <2>1 DEF Follows, Early, Late
<1>5. CASE h = "enroll?" /\ r = Samples \o <<"recovery?">>
  <2>1. Chain(r) /\ r # << >> /\ LastOf(r) = "recovery?"
    BY <1>5, SamplesChain
  <2>2. QED
    BY <1>5, <2>1 DEF Follows, Early, Late
<1>6. CASE h = "recovery?" /\ r = <<"recovery">>
  <2>1. Chain(r) /\ r # << >> /\ LastOf(r) = "recovery"
    <3>1. PICK q \in Kinds : q = "recovery" /\ Follows(q, "end")
      BY DEF Kinds, Early, Late, Follows
    <3>2. QED
      BY <1>6, <3>1, One
  <2>2. QED
    BY <1>6, <2>1 DEF Follows, Early, Late
<1>7. CASE h = "finger?" /\ r = Enable
  <2>1. Chain(r) /\ r # << >> /\ LastOf(r) = "method"
    <3>1. Follows("first finger", "wire") /\ Follows("wire", "method") /\ Follows("method", "end")
      BY DEF Follows, Early, Late
    <3>2. PICK a \in Kinds, b \in Kinds, d \in Kinds :
             a = "first finger" /\ b = "wire" /\ d = "method"
      BY DEF Kinds, Early, Late
    <3>3. r = <<a, b, d>>
      BY <1>7, <3>2 DEF Enable
    <3>4. QED
      BY <3>1, <3>2, <3>3, Three, ZenonT(30)
  <2>2. QED
    BY <1>7, <2>1 DEF Follows, Early, Late
<1>8. CASE \/ h = "first finger" /\ r = <<"finger">>
           \/ h = "finger" /\ r = <<"scan">>
           \/ h = "scan" /\ r = <<"name">>
  <2>1. PICK q \in {"finger", "scan", "name"} : r = <<q>> /\ q \in Kinds
    BY <1>8 DEF Kinds, Late, Early
  <2>2. Chain(r) /\ r # << >> /\ LastOf(r) = q
    <3>1. Follows(q, "end")
      BY DEF Follows, Early, Late
    <3>2. QED
      BY <2>1, <3>1, One
  <2>3. h \in {"first finger", "finger", "scan"}
    BY <1>8
  <2>4. QED
    BY <2>2, <2>3, ZenonT(30) DEF Follows, Early, Late
<1>9. QED
  BY <1>1, <1>2, <1>3, <1>4, <1>5, <1>6, <1>7, <1>8 DEF Replaces

\* Every command begins with a chain.
LEMMA StepsChain ==
    ASSUME NEW c \in DOMAIN Steps
    PROVE  Chain(Steps[c])
<1>1. c \in {"setup", "enroll", "replace", "recover", "enable", "disable", "add", "policy",
             "unload", "hookOn", "hookOff"}
  BY DEF Steps
<1>2. CASE c = "setup"
  <2> DEFINE t == Steps[c]
  <2>1. /\ t \in Seq(Kinds) /\ Len(t) = 11
        /\ t[1] = "probe" /\ t[2] = "selinux?" /\ t[3] = "hook?"
        /\ t[4] = "group" /\ t[5] = "cameras" /\ t[6] = "rgb"
        /\ t[7] = "ir" /\ t[8] = "restart" /\ t[9] = "calibrate?"
        /\ t[10] = "enroll?" /\ t[11] = "finger?"
    <3>1. {"probe", "selinux?", "hook?", "group", "cameras", "rgb", "ir", "restart",
           "calibrate?", "enroll?", "finger?"} \subseteq Kinds
      BY DEF Kinds, Early, Late
    <3>2. QED
      BY <1>2, <3>1 DEF Steps
  <2> HIDE DEF t
  <2>2. \A i \in 1 .. Len(t) - 1 : i \in 1 .. 5 \/ i \in 6 .. 10
    BY <2>1
  <2>3. \A i \in 1 .. 5 : Follows(t[i], t[i + 1])
    <3>1. \A i \in 1 .. 5 : i = 1 \/ i = 2 \/ i = 3 \/ i = 4 \/ i = 5
      OBVIOUS
    <3>2. /\ Follows("probe", "selinux?") /\ Follows("selinux?", "hook?")
          /\ Follows("hook?", "group") /\ Follows("group", "cameras") /\ Follows("cameras", "rgb")
      BY DEF Follows, Early, Late
    <3>3. QED
      BY <2>1, <3>1, <3>2
  <2>4. \A i \in 6 .. 10 : Follows(t[i], t[i + 1])
    <3>1. \A i \in 6 .. 10 : i = 6 \/ i = 7 \/ i = 8 \/ i = 9 \/ i = 10
      OBVIOUS
    <3>2. /\ Follows("rgb", "ir") /\ Follows("ir", "restart")
          /\ Follows("restart", "calibrate?") /\ Follows("calibrate?", "enroll?")
          /\ Follows("enroll?", "finger?")
      BY DEF Follows, Early, Late
    <3>3. QED
      BY <2>1, <3>1, <3>2
  <2>5. Chain(t)
    <3>1. Follows("finger?", "end")
      BY DEF Follows, Early, Late
    <3>2. Follows(LastOf(t), "end")
      BY <2>1, <3>1 DEF LastOf
    <3>3. QED
      BY <2>1, <2>2, <2>3, <2>4, <3>2 DEF Chain
  <2>6. QED
    BY <2>5 DEF t
<1>3. CASE c \in {"enroll", "replace"}
  <2>1. c = "enroll" => Steps[c] = Samples
    BY DEF Steps
  <2>2. c = "replace" => Steps[c] = Samples
    BY DEF Steps
  <2>3. QED
    BY <1>3, <2>1, <2>2, SamplesChain
<1>4. CASE c \in {"recover", "add", "policy", "unload", "hookOff"}
  <2>1. c = "recover" => Steps[c] = <<"recovery">>
    BY DEF Steps
  <2>2. c = "add" => Steps[c] = <<"finger">>
    BY DEF Steps
  <2>3. c = "policy" => Steps[c] = <<"policy?">>
    BY DEF Steps
  <2>4. c = "unload" => Steps[c] = <<"unload">>
    BY DEF Steps
  <2>5. Steps["hookOff"] = <<"rm hook">>
    BY DEF Steps
  <2>6. {"recovery", "finger", "policy?", "unload", "rm hook"} \subseteq Kinds
    BY DEF Kinds, Late, Early
  <2>7. \A q \in {"recovery", "finger", "policy?", "unload", "rm hook"} : Chain(<<q>>)
    <3>1. \A q \in {"recovery", "finger", "policy?", "unload", "rm hook"} : Follows(q, "end")
      BY DEF Follows, Early, Late
    <3>2. QED
      BY <2>6, <3>1, One
  <2>8. /\ Chain(<<"recovery">>) /\ Chain(<<"finger">>) /\ Chain(<<"policy?">>)
        /\ Chain(<<"unload">>) /\ Chain(<<"rm hook">>)
    BY <2>7, Zenon
  <2>9. QED
    BY <1>4, <2>1, <2>2, <2>3, <2>4, <2>5, <2>8, Zenon
<1>5. CASE c = "enable"
  <2>1. Steps[c] = Enable
    BY <1>5 DEF Steps
  <2>2. PICK h \in {"finger?"} : Replaces(h, Enable)
    BY DEF Replaces
  <2>3. QED
    BY <2>1, <2>2, ReplacesChain
<1>6. CASE c = "disable"
  <2>1. PICK a \in Kinds, b \in Kinds : a = "unwire" /\ b = "method auto"
    BY DEF Kinds, Early, Late
  <2>2. Follows(a, b) /\ Follows(b, "end")
    BY <2>1 DEF Follows, Early, Late
  <2>3. Steps[c] = <<a, b>>
    BY <1>6, <2>1 DEF Steps
  <2>4. QED
    BY <2>2, <2>3, Two
<1>7. CASE c = "hookOn"
  <2>1. Steps[c] = WriteHook
    BY <1>7 DEF Steps
  <2>2. PICK h \in {"hook?"} : Replaces(h, WriteHook)
    BY DEF Replaces
  <2>3. QED
    BY <2>1, <2>2, ReplacesChain
<1>8. QED
  BY <1>1, <1>2, <1>3, <1>4, <1>5, <1>6, <1>7

\* The first step of what replaces a step.
Leads(a, b) ==
    \/ a \in {"selinux?", "policy?"} /\ b = "compile"
    \/ a = "unload" /\ b = "relabel"
    \/ a = "hook?" /\ b = "open hook"
    \/ a = "calibrate?" /\ b = "restart"
    \/ a = "enroll?" /\ b \in {"sample", "captured?"}
    \/ a = "recovery?" /\ b = "recovery"
    \/ a = "finger?" /\ b = "first finger"
    \/ a = "first finger" /\ b = "finger"
    \/ a = "finger" /\ b = "scan"
    \/ a = "scan" /\ b = "name"

LEMMA ReplacesLeads ==
    ASSUME NEW h, NEW r, Replaces(h, r)
    PROVE  Leads(h, Head(r)) /\ (h \in {"finger?", "method"} => LastOf(r) = "method")
<1>1. /\ Head(Policy) = "compile" /\ Head(WriteHook) = "open hook"
      /\ Head(Enable) = "first finger" /\ Enable[3] = "method" /\ Len(Enable) = 3
  BY DEF Policy, WriteHook, Enable
<1>2. /\ Head(<<"relabel">>) = "relabel" /\ Head(<<"restart">>) = "restart"
      /\ Head(<<"recovery">>) = "recovery" /\ Head(<<"finger">>) = "finger"
      /\ Head(<<"scan">>) = "scan" /\ Head(<<"name">>) = "name"
  OBVIOUS
<1>3. Leads(h, Head(r))
  BY <1>1, <1>2, SamplesChain, ZenonT(30) DEF Replaces, Leads
<1>4. h \in {"finger?", "method"} => LastOf(r) = "method"
  BY <1>1 DEF Replaces, LastOf
<1>5. QED
  BY <1>3, <1>4

\* The first steps of the commands.
Firsts == {"probe", "sample", "captured?", "recovery", "first finger", "unwire", "finger",
           "policy?", "unload", "open hook", "rm hook"}

LEMMA StepsFirst ==
    ASSUME NEW c \in DOMAIN Steps
    PROVE  /\ Steps[c] # << >> /\ Head(Steps[c]) \in Firsts
           /\ c = "setup" => Head(Steps[c]) = "probe" /\ LastOf(Steps[c]) = "finger?"
<1>1. c \in {"setup", "enroll", "replace", "recover", "enable", "disable", "add", "policy",
             "unload", "hookOn", "hookOff"}
  BY DEF Steps
<1>2. /\ Steps["setup"] # << >> /\ Head(Steps["setup"]) = "probe"
      /\ Len(Steps["setup"]) = 11 /\ Steps["setup"][11] = "finger?"
  BY DEF Steps
<1>3. LastOf(Steps["setup"]) = "finger?"
  BY <1>2 DEF LastOf
<1>4. Samples # << >> /\ Head(Samples) \in {"sample", "captured?"}
  BY SamplesChain
<1>5. Steps["enroll"] = Samples /\ Steps["replace"] = Samples
  BY DEF Steps
<1>6. Steps["recover"] # << >> /\ Head(Steps["recover"]) = "recovery"
  BY DEF Steps
<1>7. Steps["enable"] # << >> /\ Head(Steps["enable"]) = "first finger"
  BY DEF Steps, Enable
<1>8. Steps["disable"] # << >> /\ Head(Steps["disable"]) = "unwire"
  BY DEF Steps
<1>9. Steps["add"] # << >> /\ Head(Steps["add"]) = "finger"
  BY DEF Steps
<1>10. Steps["policy"] # << >> /\ Head(Steps["policy"]) = "policy?"
  BY DEF Steps
<1>11. Steps["unload"] # << >> /\ Head(Steps["unload"]) = "unload"
  BY DEF Steps
<1>12. Steps["hookOn"] # << >> /\ Head(Steps["hookOn"]) = "open hook"
  BY DEF Steps, WriteHook
<1>13. Steps["hookOff"] # << >> /\ Head(Steps["hookOff"]) = "rm hook"
  BY DEF Steps
<1>14. Steps[c] # << >> /\ Head(Steps[c]) \in Firsts
  BY <1>1, <1>2, <1>4, <1>5, <1>6, <1>7, <1>8, <1>9, <1>10, <1>11, <1>12, <1>13, Zenon DEF Firsts
<1>15. QED
  BY <1>2, <1>3, <1>14, Zenon

-----------------------------------------------------------------------------
(* How a command proceeds.                                                  *)

\* The remaining steps are a chain; those of setup end with the fingerprint.
TodoInv ==
    /\ Chain(todo) /\ (cmd = "idle" => todo = << >>)
    /\ cmd = "setup" /\ todo # << >> => LastOf(todo) \in {"finger?", "method"}

\* A step of a command ends it, passes on, or puts others in its place; setup
\* comes to its end only from the steps after the restart.
Turn ==
    /\ todo # << >> /\ cmd' \in {cmd, "idle"}
    /\ UNCHANGED outcome \/ (cmd' = "idle" /\ outcome' = "failed")
    /\ \/ Now(todo') = "end"
       \/ Follows(Head(todo), Now(todo'))
       \/ Leads(Head(todo), Now(todo'))
    /\ Now(todo') = "end" /\ cmd' = "setup" => Head(todo) \in Late

LEMMA NextTurn ==
    ASSUME TodoInv, todo # << >>, Next1
    PROVE  TodoInv' /\ Turn /\ Follows(Head(todo), Now(todo')) /\ cmd' = cmd
<1>1. Chain(todo) /\ cmd # "idle"
  BY DEF TodoInv
<1>2. /\ Chain(Tail(todo)) /\ << >> \o Tail(todo) = Tail(todo)
      /\ Follows(Head(todo), Now(Tail(todo)))
      /\ Tail(todo) # << >> => LastOf(Tail(todo)) = LastOf(todo)
      /\ Tail(todo) = << >> => LastOf(todo) = Head(todo)
  BY <1>1, TailChain
<1>3. todo' = Tail(todo) /\ cmd' = cmd /\ UNCHANGED outcome
  BY <1>2
<1>4. TodoInv'
  BY <1>1, <1>2, <1>3 DEF TodoInv
<1>5. ASSUME Now(todo') = "end", cmd' = "setup" PROVE Head(todo) \in Late
  <2>1. CASE todo' = << >>
    BY <1>2, <1>3, <1>5, <2>1 DEF TodoInv, Late
  <2>2. CASE todo' # << >>
    <3>1. todo' \in Seq(Kinds) /\ Head(todo') = "end"
      BY <1>2, <1>3, <1>5, <2>2 DEF Chain, Now
    <3>2. Head(todo') \in Kinds
      BY <2>2, <3>1
    <3>3. QED
      BY <3>1, <3>2 DEF Kinds, Early, Late
  <2>3. QED
    BY <2>1, <2>2
<1>6. QED
  BY <1>2, <1>3, <1>4, <1>5 DEF Turn

LEMMA ThenTurn ==
    ASSUME TodoInv, todo # << >>, NEW r, Replaces(Head(todo), r), Then(r)
    PROVE  TodoInv' /\ Turn /\ Leads(Head(todo), Now(todo')) /\ cmd' = cmd
<1>1. Chain(todo) /\ cmd # "idle"
  BY DEF TodoInv
<1>2. /\ Chain(Tail(todo))
      /\ Follows(Head(todo), Now(Tail(todo)))
      /\ Tail(todo) # << >> => LastOf(Tail(todo)) = LastOf(todo)
      /\ Tail(todo) = << >> => LastOf(todo) = Head(todo)
  BY <1>1, TailChain
<1>3. /\ Chain(r) /\ r # << >> /\ \A b : Follows(Head(todo), b) => Follows(LastOf(r), b)
  BY ReplacesChain
<1>4. /\ Leads(Head(todo), Head(r))
      /\ Head(todo) \in {"finger?", "method"} => LastOf(r) = "method"
  BY ReplacesLeads
<1>5. Tail(todo) # << >> => Follows(LastOf(r), Head(Tail(todo)))
  BY <1>2, <1>3 DEF Now
<1>6. /\ Chain(r \o Tail(todo)) /\ r \o Tail(todo) # << >>
      /\ Head(r \o Tail(todo)) = Head(r)
      /\ LastOf(r \o Tail(todo)) = IF Tail(todo) = << >> THEN LastOf(r) ELSE LastOf(Tail(todo))
  BY <1>2, <1>3, <1>5, JoinChain
<1>7. todo' = r \o Tail(todo) /\ cmd' = cmd /\ UNCHANGED outcome
  OBVIOUS
<1>8. cmd = "setup" => LastOf(todo') \in {"finger?", "method"}
  BY <1>2, <1>4, <1>6, <1>7 DEF TodoInv
<1>9. TodoInv'
  BY <1>1, <1>6, <1>7, <1>8 DEF TodoInv
<1>10. Now(todo') = Head(r)
  BY <1>6, <1>7 DEF Now
<1>11. Head(r) # "end"
  BY <1>4 DEF Leads
<1>12. QED
  BY <1>4, <1>7, <1>9, <1>10, <1>11 DEF Turn

LEMMA BailTurn ==
    ASSUME TodoInv, todo # << >>, Bail \/ End("failed")
    PROVE  TodoInv' /\ Turn /\ todo' = << >>
<1>1. /\ todo' = << >>
      /\ \/ cmd' = "idle" /\ outcome' = "failed"
         \/ cmd' = cmd /\ UNCHANGED outcome /\ Head(todo) \in FingerSteps
  BY DEF Bail
<1>2. << >> \in Seq(Kinds) /\ Len(<< >>) = 0
  OBVIOUS
<1>3. Chain(<< >>)
  BY <1>2 DEF Chain
<1>4. Now(todo') = "end"
  BY <1>1 DEF Now
<1>5. QED
  BY <1>1, <1>3, <1>4 DEF TodoInv, Turn, FingerSteps, Late

\* Every action of a command is such a step.
LEMMA PartTurns == ASSUME TodoInv, PartStep PROVE TodoInv' /\ Turn
<1>1. /\ Replaces("selinux?", Policy) /\ Replaces("policy?", Policy)
      /\ Replaces("unload", <<"relabel">>) /\ Replaces("hook?", WriteHook)
  BY DEF Replaces
<1>2. CASE SelinuxStep
  <2>1. todo # << >> /\ Head(todo) = "selinux?" /\ (Next1 \/ Then(Policy))
    BY <1>2 DEF SelinuxStep
  <2>2. QED
    BY <1>1, <2>1, NextTurn, ThenTurn
<1>3. CASE PolicyCmd
  <2>1. todo # << >> /\ Head(todo) = "policy?" /\ (Next1 \/ Bail \/ Then(Policy))
    BY <1>3 DEF PolicyCmd
  <2>2. QED
    BY <1>1, <2>1, NextTurn, ThenTurn, BailTurn
<1>4. CASE Unload
  <2>1. todo # << >> /\ Head(todo) = "unload" /\ (Next1 \/ Bail \/ Then(<<"relabel">>))
    BY <1>4 DEF Unload
  <2>2. QED
    BY <1>1, <2>1, NextTurn, ThenTurn, BailTurn
<1>5. CASE HookStep
  <2>1. todo # << >> /\ Head(todo) = "hook?" /\ (Next1 \/ Then(WriteHook))
    BY <1>5 DEF HookStep
  <2>2. QED
    BY <1>1, <2>1, NextTurn, ThenTurn
<1>6. CASE \/ Compile \/ LoadModule \/ Restart \/ OpenHook \/ FillHook \/ ChmodHook
           \/ RemoveHook \/ Group
  <2>1. todo # << >> /\ Next1
    BY <1>6 DEF Compile, LoadModule, Restart, OpenHook, FillHook, ChmodHook,
                RemoveHook, Group
  <2>2. QED
    BY <2>1, NextTurn
<1>7. QED
  BY <1>2, <1>3, <1>4, <1>5, <1>6 DEF PartStep

LEMMA SetupTurns == ASSUME TodoInv, SetupStep PROVE TodoInv' /\ Turn
<1>1. Replaces("calibrate?", <<"restart">>)
  BY DEF Replaces
<1>2. CASE Calibrate
  <2>1. todo # << >> /\ Head(todo) = "calibrate?" /\ (Next1 \/ Then(<<"restart">>))
    BY <1>2 DEF Calibrate
  <2>2. QED
    BY <1>1, <2>1, NextTurn, ThenTurn
<1>3. CASE Probe \/ Choose \/ WriteRgb \/ WriteIr
  <2>1. todo # << >> /\ (Next1 \/ Bail)
    BY <1>3 DEF Probe, Choose, WriteRgb, WriteIr
  <2>2. QED
    BY <2>1, NextTurn, BailTurn
<1>4. QED
  BY <1>2, <1>3 DEF SetupStep

LEMMA FaceTurns == ASSUME TodoInv, FaceStep PROVE TodoInv' /\ Turn
<1>1. /\ Replaces("enroll?", Samples \o <<"recovery?">>)
      /\ Replaces("recovery?", <<"recovery">>)
  BY DEF Replaces
<1>2. CASE AskEnroll
  <2>1. todo # << >> /\ Head(todo) = "enroll?" /\ (Next1 \/ Then(Samples \o <<"recovery?">>))
    BY <1>2 DEF AskEnroll
  <2>2. QED
    BY <1>1, <2>1, NextTurn, ThenTurn
<1>3. CASE AskRecovery
  <2>1. todo # << >> /\ Head(todo) = "recovery?" /\ (Next1 \/ Then(<<"recovery">>))
    BY <1>3 DEF AskRecovery
  <2>2. QED
    BY <1>1, <2>1, NextTurn, ThenTurn
<1>4. CASE Sample \/ Captured \/ Recovery
  <2>1. todo # << >> /\ (Next1 \/ Bail)
    BY <1>4 DEF Sample, Captured, Recovery
  <2>2. QED
    BY <2>1, NextTurn, BailTurn
<1>5. QED
  BY <1>2, <1>3, <1>4 DEF FaceStep

LEMMA FingerTurns == ASSUME TodoInv, FingerStep PROVE TodoInv' /\ Turn
<1>1. /\ Replaces("finger?", Enable) /\ Replaces("first finger", <<"finger">>)
      /\ Replaces("finger", <<"scan">>) /\ Replaces("scan", <<"name">>)
  BY DEF Replaces
<1>2. CASE AskFinger
  <2>1. todo # << >> /\ Head(todo) = "finger?" /\ (Next1 \/ Then(Enable))
    BY <1>2 DEF AskFinger
  <2>2. QED
    BY <1>1, <2>1, NextTurn, ThenTurn
<1>3. CASE FirstFinger
  <2>1. todo # << >> /\ Head(todo) = "first finger" /\ (Next1 \/ Bail \/ Then(<<"finger">>))
    BY <1>3 DEF FirstFinger
  <2>2. QED
    BY <1>1, <2>1, NextTurn, ThenTurn, BailTurn
<1>4. CASE PickSlot
  <2>1. todo # << >> /\ Head(todo) = "finger" /\ (Bail \/ Then(<<"scan">>))
    BY <1>4 DEF PickSlot
  <2>2. QED
    BY <1>1, <2>1, ThenTurn, BailTurn
<1>5. CASE Scan
  <2>1. todo # << >> /\ Head(todo) = "scan" /\ (Next1 \/ Bail \/ Then(<<"name">>))
    BY <1>5 DEF Scan
  <2>2. QED
    BY <1>1, <2>1, NextTurn, ThenTurn, BailTurn
<1>6. CASE Name \/ Wire \/ Unwire \/ SetMethod \/ ClearMethod
  <2>1. todo # << >> /\ (Next1 \/ Bail)
    BY <1>6 DEF Name, Wire, Unwire, Wires, SetMethod, ClearMethod
  <2>2. QED
    BY <2>1, NextTurn, BailTurn
<1>7. QED
  BY <1>2, <1>3, <1>4, <1>5, <1>6 DEF FingerStep

LEMMA StopTurns == ASSUME TodoInv, Stop PROVE TodoInv' /\ Turn /\ todo' = << >>
<1>1. todo # << >> /\ (Bail \/ End("failed"))
  BY DEF Stop
<1>2. QED
  BY <1>1, BailTurn

\* The other actions do not touch the steps, or begin a command.
Still == UNCHANGED todo /\ (UNCHANGED cmd \/ (todo = << >> /\ cmd' = "idle"))

LEMMA OthersStill == ASSUME TodoInv, Finish \/ LookUpCameras \/ Reboot \/ DeleteFinger
                     PROVE  TodoInv' /\ Still
<1>1. Still
  BY DEF Finish, LookUpCameras, Reboot, DeleteFinger, Still
<1>2. QED
  BY <1>1 DEF TodoInv, Still

LEMMA BeginFirst ==
    ASSUME NEW c \in DOMAIN Steps, Begin(c)
    PROVE  /\ TodoInv' /\ todo' # << >> /\ Head(todo') \in Firsts
           /\ cmd = "idle" /\ (cmd' = "setup" => Head(todo') = "probe")
<1>1. todo' = Steps[c] /\ cmd' = c /\ cmd = "idle"
  BY DEF Begin
<1>2. c # "idle"
  BY DEF Steps
<1>3. QED
  BY <1>1, <1>2, StepsChain, StepsFirst DEF TodoInv

LEMMA TodoNext == TodoInv /\ [Next]_vars => TodoInv'
<1> SUFFICES ASSUME TodoInv, [Next]_vars PROVE TodoInv'
  OBVIOUS
<1>1. CASE UNCHANGED vars
  BY <1>1 DEF vars, TodoInv
<1>2. QED
  BY <1>1, PartTurns, SetupTurns, FaceTurns, FingerTurns, StopTurns, OthersStill, BeginFirst
     DEF Next

LEMMA TodoInit == Init => TodoInv
<1> SUFFICES ASSUME Init PROVE TodoInv
  OBVIOUS
<1>1. todo = << >> /\ cmd = "idle"
  BY DEF Init
<1>2. << >> \in Seq(Kinds) /\ Len(<< >>) = 0
  OBVIOUS
<1>3. QED
  BY <1>1, <1>2 DEF TodoInv, Chain

-----------------------------------------------------------------------------
(* Fingerprint.                                                             *)

\* Enable reaches its wiring, and the method after it, with a finger enrolled.
FingerInv ==
    /\ prints \in [Slots -> Fingers \cup {None}]
    /\ Now(todo) = "scan" => slot \in Slots
    /\ Now(todo) \in {"name", "wire", "method"} => Taken # {}

\* The first slot that is not taken.
LEMMA FreeSlot ==
    ASSUME NEW taken \in SUBSET Slots, taken # Slots
    PROVE  first_free(taken) \in Slots
<1> DEFINE R == OpToRel(<, Nat)
           T == Slots \ taken
<1>1. IsWellFoundedOn(R, Nat)
  BY NatLessThanWellFounded
<1>2. \A x, y \in Nat : y < x => <<y, x>> \in R
  BY DEF OpToRel
<1>3. T \subseteq Nat /\ T # {}
  BY SetupAssumption
<1> HIDE DEF R, T
<1>4. PICK x \in T : \A y \in T : ~(<<y, x>> \in R)
  BY <1>1, <1>3, WFMin, Zenon
<1>5. ASSUME NEW y \in T PROVE x <= y
  <2>1. x \in Nat /\ y \in Nat /\ ~(<<y, x>> \in R)
    BY <1>3, <1>4
  <2>2. ~(y < x)
    BY <1>2, <2>1, Zenon
  <2>3. QED
    BY <2>1, <2>2
<1>6. \E s \in T : \A t \in T : s <= t
  BY <1>5
<1>7. QED
  BY <1>6 DEF first_free, T

\* Steps that have nothing to do with the fingerprint.
LEMMA FingerQuiet ==
    ASSUME FingerInv, Turn, UNCHANGED prints,
           Head(todo) \notin {"first finger", "finger", "scan", "name", "wire"}
    PROVE  FingerInv'
<1>1. Taken' = Taken
  BY DEF Taken
<1>2. Now(todo') \notin {"scan", "name", "wire", "method"}
  BY DEF Turn, Follows, Leads
<1>3. QED
  BY <1>1, <1>2 DEF FingerInv

LEMMA StepsFinger ==
    ASSUME TodoInv, FingerInv, PartStep \/ SetupStep \/ FaceStep PROVE FingerInv'
<1>1. Turn
  BY PartTurns, SetupTurns, FaceTurns
<1>2. UNCHANGED <<prints, wired, method>>
  BY DEF PartStep, SetupStep, FaceStep, SelinuxStep, PolicyCmd, Compile, LoadModule, Unload,
         Restart, HookStep, OpenHook, FillHook, ChmodHook, RemoveHook, Group, Probe, Choose,
         WriteRgb, WriteIr, Calibrate, AskEnroll, Sample, Captured, AskRecovery, Recovery
<1>3. Head(todo) \in Early \cup {"rm hook", "enroll?", "sample", "captured?", "recovery?",
                                 "recovery"}
  BY DEF PartStep, SetupStep, FaceStep, SelinuxStep, PolicyCmd, Compile, LoadModule, Unload,
         Restart, HookStep, OpenHook, FillHook, ChmodHook, RemoveHook, Group, Probe, Choose,
         WriteRgb, WriteIr, Calibrate, AskEnroll, Sample, Captured, AskRecovery, Recovery,
         Early
<1>4. QED
  BY <1>1, <1>2, <1>3, FingerQuiet DEF Early

\* The steps up to an enrolled finger.
LEMMA EnrollFinger ==
    ASSUME TodoInv, FingerInv, AskFinger \/ FirstFinger \/ PickSlot \/ Scan \/ Name
    PROVE  FingerInv'
<1>1. UNCHANGED <<wired, method, family>>
  BY DEF AskFinger, FirstFinger, PickSlot, Scan, Name
<1>2. Turn
  BY FingerTurns DEF FingerStep
<1>3. CASE AskFinger
  <2>1. Head(todo) = "finger?" /\ UNCHANGED prints
    BY <1>3 DEF AskFinger
  <2>2. QED
    BY <1>1, <1>2, <2>1, FingerQuiet
<1>4. CASE FirstFinger
  <2>1. /\ todo # << >> /\ Head(todo) = "first finger" /\ UNCHANGED prints
        /\ (Taken # {} /\ Next1) \/ Then(<<"finger">>) \/ Bail
    BY <1>4 DEF FirstFinger, List
  <2>2. Now(todo) = "first finger" /\ Taken' = Taken
    BY <2>1 DEF Now, Taken
  <2>3. Replaces("first finger", <<"finger">>)
    BY DEF Replaces
  <2>4. CASE Taken # {} /\ Next1
    <3>1. Follows("first finger", Now(todo'))
      BY <2>1, <2>4, NextTurn
    <3>2. Now(todo') \notin {"scan", "name", "method"}
      BY <3>1 DEF Follows
    <3>3. QED
      BY <1>1, <2>1, <2>2, <2>4, <3>2 DEF FingerInv
  <2>5. CASE Then(<<"finger">>)
    <3>1. Leads("first finger", Now(todo'))
      BY <2>1, <2>3, <2>5, ThenTurn
    <3>2. Now(todo') = "finger"
      BY <3>1 DEF Leads
    <3>3. QED
      BY <1>1, <2>1, <2>2, <3>2 DEF FingerInv
  <2>6. CASE Bail
    <3>1. Now(todo') = "end"
      BY <2>1, <2>6, BailTurn DEF Now
    <3>2. QED
      BY <1>1, <2>1, <2>2, <3>1 DEF FingerInv
  <2>7. QED
    BY <2>1, <2>4, <2>5, <2>6
<1>5. CASE PickSlot
  <2>1. PICK taken \in SUBSET Slots :
           /\ todo # << >> /\ Head(todo) = "finger" /\ UNCHANGED prints
           /\ IF taken = Slots THEN Bail /\ UNCHANGED slot
                               ELSE slot' = first_free(taken) /\ Then(<<"scan">>)
    BY <1>5 DEF PickSlot
  <2>2. Now(todo) = "finger" /\ Taken' = Taken
    BY <2>1 DEF Now, Taken
  <2>3. Replaces("finger", <<"scan">>)
    BY DEF Replaces
  <2>4. CASE taken = Slots
    <3>1. Now(todo') = "end"
      BY <2>1, <2>4, BailTurn DEF Now
    <3>2. QED
      BY <1>1, <2>1, <2>2, <3>1 DEF FingerInv
  <2>5. CASE taken # Slots
    <3>1. slot' \in Slots
      BY <2>1, <2>5, FreeSlot
    <3>2. Leads("finger", Now(todo'))
      BY <2>1, <2>3, <2>5, ThenTurn
    <3>3. Now(todo') = "scan"
      BY <3>2 DEF Leads
    <3>4. QED
      BY <1>1, <2>1, <2>2, <3>1, <3>3 DEF FingerInv
  <2>6. QED
    BY <2>4, <2>5
<1>6. CASE Scan
  <2>1. todo # << >> /\ Head(todo) = "scan"
    BY <1>6 DEF Scan
  <2>2. Now(todo) = "scan" /\ slot \in Slots
    BY <2>1 DEF Now, FingerInv
  <2>3. Replaces("scan", <<"name">>)
    BY DEF Replaces
  <2>4. ASSUME NEW f \in Fingers, prints' = [prints EXCEPT ![slot] = f], Then(<<"name">>)
        PROVE  FingerInv'
    <3>1. Leads("scan", Now(todo'))
      BY <2>1, <2>3, <2>4, ThenTurn
    <3>2. Now(todo') = "name"
      BY <3>1 DEF Leads
    <3>3. prints' \in [Slots -> Fingers \cup {None}] /\ prints'[slot] = f /\ f # None
      BY <2>2, <2>4, SetupAssumption DEF FingerInv, None
    <3>4. Taken' # {}
      BY <2>2, <3>3 DEF Taken
    <3>5. QED
      BY <1>1, <2>2, <3>2, <3>3, <3>4 DEF FingerInv
  <2>5. CASE UNCHANGED prints /\ Bail
    <3>1. Now(todo') = "end" /\ Taken' = Taken
      BY <2>1, <2>5, BailTurn DEF Now, Taken
    <3>2. QED
      BY <1>1, <2>2, <2>5, <3>1 DEF FingerInv
  <2>6. CASE Taken # {} /\ UNCHANGED prints /\ Next1
    <3>1. Follows("scan", Now(todo')) /\ Taken' = Taken
      BY <2>1, <2>6, NextTurn DEF Taken
    <3>2. Now(todo') \notin {"scan", "name", "method"}
      BY <3>1 DEF Follows
    <3>3. QED
      BY <1>1, <2>2, <2>6, <3>1, <3>2 DEF FingerInv
  <2>7. QED
    BY <1>6, <2>4, <2>5, <2>6 DEF Scan
<1>7. CASE Name
  <2>1. todo # << >> /\ Head(todo) = "name" /\ Next1 /\ UNCHANGED prints
    BY <1>7 DEF Name
  <2>2. Now(todo) = "name" /\ Taken' = Taken /\ Follows("name", Now(todo'))
    BY <2>1, NextTurn DEF Now, Taken
  <2>3. Now(todo') \notin {"scan", "name", "method"}
    BY <2>2 DEF Follows
  <2>4. QED
    BY <1>1, <2>1, <2>2, <2>3 DEF FingerInv
<1>8. QED
  BY <1>3, <1>4, <1>5, <1>6, <1>7

\* The steps that wire the fingerprint, set the method and take them back.
LEMMA WireFinger ==
    ASSUME TodoInv, FingerInv, Wire \/ Unwire \/ SetMethod \/ ClearMethod
    PROVE  FingerInv'
<1>1. todo # << >> /\ UNCHANGED prints /\ Now(todo) = Head(todo) /\ Taken' = Taken
  BY DEF Wire, Unwire, SetMethod, ClearMethod, Now, Taken
<1>2. CASE Wire
  <2>1. Head(todo) = "wire" /\ (Next1 \/ Bail)
    BY <1>2 DEF Wire, Wires
  <2>2. Now(todo') = "end" \/ Follows("wire", Now(todo'))
    <3>1. CASE Next1
      BY <1>1, <2>1, <3>1, NextTurn
    <3>2. CASE Bail
      BY <1>1, <3>2, BailTurn DEF Now
    <3>3. QED
      BY <2>1, <3>1, <3>2
  <2>3. Now(todo') # "scan"
    BY <2>2 DEF Follows
  <2>4. Taken # {}
    BY <1>1, <2>1 DEF FingerInv
  <2>5. QED
    BY <1>1, <2>3, <2>4 DEF FingerInv
<1>3. CASE Unwire \/ SetMethod \/ ClearMethod
  <2>1. Head(todo) \in {"unwire", "method", "method auto"} /\ Turn
    BY <1>3, FingerTurns DEF Unwire, SetMethod, ClearMethod, FingerStep
  <2>2. QED
    BY <1>1, <2>1, FingerQuiet
<1>4. QED
  BY <1>2, <1>3

LEMMA FingerNext == TodoInv /\ FingerInv /\ [Next]_vars => FingerInv'
<1> SUFFICES ASSUME TodoInv, FingerInv, [Next]_vars PROVE FingerInv'
  OBVIOUS
<1>1. CASE UNCHANGED vars
  BY <1>1 DEF vars, FingerInv, Taken
<1>2. ASSUME NEW c \in DOMAIN Steps, Begin(c) PROVE FingerInv'
  <2>1. UNCHANGED prints
    BY <1>2 DEF Begin
  <2>2. todo' # << >> /\ Head(todo') \in Firsts
    BY <1>2, BeginFirst DEF TodoInv
  <2>3. Now(todo') \notin {"scan", "name", "wire", "method"}
    BY <2>2 DEF Now, Firsts
  <2>4. QED
    BY <2>1, <2>3 DEF FingerInv
<1>3. CASE Stop
  <2>1. Now(todo') = "end" /\ UNCHANGED prints
    BY <1>3, StopTurns DEF Now, Stop
  <2>2. QED
    BY <2>1 DEF FingerInv
<1>4. CASE Finish \/ LookUpCameras \/ Reboot
  <2>1. Now(todo') = Now(todo)
    BY <1>4, OthersStill DEF Still
  <2>2. UNCHANGED <<prints, slot>> /\ Taken' = Taken
    BY <1>4 DEF Finish, LookUpCameras, Reboot, Taken
  <2>3. QED
    BY <2>1, <2>2 DEF FingerInv
<1>5. CASE DeleteFinger
  <2>1. Now(todo') = "end"
    BY <1>5, OthersStill DEF Still, DeleteFinger, TodoInv, Now
  <2>2. prints' \in [Slots -> Fingers \cup {None}]
    BY <1>5 DEF DeleteFinger, FingerInv
  <2>3. QED
    BY <2>1, <2>2 DEF FingerInv
<1>6. QED
  BY <1>1, <1>2, <1>3, <1>4, <1>5, StepsFinger, EnrollFinger, WireFinger DEF Next, FingerStep

LEMMA FingerInit == Init => FingerInv
<1> SUFFICES ASSUME Init PROVE FingerInv
  OBVIOUS
<1>1. prints = [s \in Slots |-> None] /\ todo = << >>
  BY DEF Init
<1>2. Now(todo) = "end"
  BY <1>1 DEF Now
<1>3. QED
  BY <1>1, <1>2 DEF FingerInv

\* For any fingers and slots, after any commands, failures, interruptions and
\* deleted fingers: pam_fprintd is wired and method=fingerprint set only while a
\* finger is enrolled (fingerprint_enable, enroll_named_finger).
THEOREM FingerFirst == Spec => WiredWithFinger
<1> DEFINE A == (wired' /\ ~wired) \/ (method' = "fingerprint" /\ method = "auto") => Taken # {}
<1>1. TodoInv /\ FingerInv /\ [Next]_vars => [A]_vars
  <2> SUFFICES ASSUME TodoInv, FingerInv, Next PROVE A
    OBVIOUS
  <2>1. ASSUME UNCHANGED <<wired, method>> PROVE A
    BY <2>1
  <2>2. CASE Wire \/ SetMethod
    <3>1. Now(todo) \in {"wire", "method"}
      BY <2>2 DEF Wire, SetMethod, Now
    <3>2. QED
      BY <3>1 DEF FingerInv
  <2>3. CASE Unwire \/ ClearMethod
    <3>1. (wired' = wired \/ wired' = FALSE) /\ (method' = method \/ method' = "auto")
      BY <2>3 DEF Unwire, Wires, ClearMethod
    <3>2. QED
      BY <3>1
  <2>4. CASE Stop
    <3>1. wired' = wired /\ (method' = method \/ method' = "auto")
      BY <2>4 DEF Stop
    <3>2. QED
      BY <3>1
  <2>5. CASE PartStep \/ SetupStep \/ FaceStep
    <3>1. UNCHANGED <<wired, method>>
      BY <2>5 DEF PartStep, SetupStep, FaceStep, SelinuxStep, PolicyCmd, Compile, LoadModule, Unload,
               Restart, HookStep, OpenHook, FillHook, ChmodHook, RemoveHook, Group, Probe, Choose,
               WriteRgb, WriteIr, Calibrate, AskEnroll, Sample, Captured, AskRecovery, Recovery
    <3>2. QED
      BY <2>1, <3>1
  <2>6. CASE \/ (\E c \in DOMAIN Steps : Begin(c)) \/ AskFinger \/ FirstFinger \/ PickSlot
             \/ Scan \/ Name \/ Finish \/ LookUpCameras \/ Reboot \/ DeleteFinger
    <3>1. UNCHANGED <<wired, method>>
      BY <2>6 DEF Begin, AskFinger, FirstFinger, PickSlot, Scan, Name, Finish, LookUpCameras,
                  Reboot, DeleteFinger
    <3>2. QED
      BY <2>1, <3>1
  <2>7. QED
    BY <2>2, <2>3, <2>4, <2>5, <2>6 DEF Next, FingerStep
<1>2. QED
  BY <1>1, FingerInit, TodoInit, TodoNext, FingerNext, PTL DEF Spec, WiredWithFinger

-----------------------------------------------------------------------------
(* Setup.                                                                   *)

PinSet  == [rgb : Cameras \cup {Unknown}, ir : IrCameras \cup {Unknown}]
LoadSet == [pins : PinSet, tuned : BOOLEAN, label : BOOLEAN]

\* Up to the calibration no sample is taken; from the restart on the daemon has
\* read what was written, and after a new threshold only behind another restart.
ForceInv ==
    /\ pins \in PinSet /\ chosen \in PinSet /\ loaded \in LoadSet /\ tuned \in BOOLEAN
    /\ cmd # "idle" => outcome = "none"
    /\ Now(todo) \in Early => cams = {}
    /\ cmd = "setup" => cams \subseteq {chosen.rgb}
    /\ cmd = "setup" /\ Now(todo) \in Late \cup {"ir", "restart", "end"} => pins.rgb = chosen.rgb
    /\ cmd = "setup" /\ Now(todo) \in Late \cup {"end"} => InForce /\ loaded.pins.rgb = chosen.rgb

LEMMA LoadsTyped ==
    ASSUME pins \in PinSet, tuned \in BOOLEAN
    PROVE  /\ Loads \in LoadSet /\ Loads.pins = pins /\ Loads.tuned = tuned
           /\ Loads.label <=> modules # {}
BY DEF Loads, LoadSet

\* Steps that change neither configuration, daemon nor cameras.
LEMMA ForceQuiet ==
    ASSUME ForceInv, Turn, UNCHANGED <<pins, tuned, up, loaded, modules, cams, chosen>>,
           TodoInv, Head(todo) \notin {"rgb", "restart"}
    PROVE  ForceInv'
<1>1. Now(todo) = Head(todo) /\ (InForce' <=> InForce) /\ cmd # "idle"
  BY DEF Turn, Now, InForce, TodoInv
<1>2. Now(todo') \in Early => Head(todo) \in Early
  BY DEF Turn, Follows, Leads, Early
<1>3. cmd' = "setup" /\ Now(todo') \in Late \cup {"end"} => cmd = "setup" /\ Head(todo) \in Late
  BY DEF Turn, Follows, Leads, Late
<1>4. cmd' = "setup" /\ Now(todo') \in {"ir", "restart"} =>
        cmd = "setup" /\ Head(todo) \in Late \cup {"ir"}
  BY DEF Turn, Follows, Leads, Late
<1>5. (cmd' # "idle" => outcome' = "none") /\ (cmd' = "setup" => cmd = "setup")
  BY <1>1 DEF Turn, ForceInv
<1>6. QED
  BY <1>1, <1>2, <1>3, <1>4, <1>5 DEF ForceInv

\* Steps of setup that something still has to follow.
LEMMA ForceEarly ==
    ASSUME ForceInv, Turn, TodoInv, Head(todo) \in Early \ {"rgb", "ir", "restart", "calibrate?"},
           pins' \in PinSet, chosen' \in PinSet, loaded' \in LoadSet, tuned' \in BOOLEAN,
           UNCHANGED cams
    PROVE  ForceInv'
<1>1. Now(todo) = Head(todo) /\ cmd # "idle" /\ cams = {}
  BY DEF Turn, Now, TodoInv, ForceInv
<1>2. cmd' = "setup" => Now(todo') \notin Late \cup {"ir", "restart", "end"}
  BY DEF Turn, Follows, Leads, Late, Early
<1>3. cmd' # "idle" => outcome' = "none"
  BY <1>1 DEF Turn, ForceInv
<1>4. QED
  BY <1>1, <1>2, <1>3 DEF ForceInv

LEMMA PartForce == ASSUME TodoInv, ForceInv, PartStep PROVE ForceInv'
<1>1. Turn
  BY PartTurns
<1>2. pins \in PinSet /\ chosen \in PinSet /\ loaded \in LoadSet /\ tuned \in BOOLEAN
  BY DEF ForceInv
<1>3. CASE LoadModule \/ Unload
  <2>1. UNCHANGED <<pins, chosen, tuned, loaded, cams>> /\ Head(todo) \in {"load", "unload"}
    BY <1>3 DEF LoadModule, Unload
  <2>2. QED
    BY <1>1, <1>2, <2>1, ForceEarly DEF Early
<1>4. CASE Restart
  <2>1. /\ todo # << >> /\ Head(todo) \in {"restart", "relabel"} /\ Next1 /\ up' = TRUE
        /\ loaded' = Loads /\ UNCHANGED <<pins, tuned, modules, cams, chosen>>
    BY <1>4 DEF Restart
  <2>2. /\ loaded' \in LoadSet /\ loaded'.pins = pins /\ loaded'.tuned = tuned
        /\ loaded'.label <=> modules # {}
    BY <1>2, <2>1, LoadsTyped
  <2>3. CASE Head(todo) = "relabel"
    BY <1>1, <1>2, <2>1, <2>2, <2>3, ForceEarly DEF Early
  <2>4. CASE Head(todo) = "restart"
    <3>1. InForce'
      BY <2>1, <2>2 DEF InForce
    <3>2. Now(todo) = "restart" /\ cmd' = cmd /\ cmd # "idle" /\ outcome' = outcome
      BY <2>1, <2>4 DEF Now, TodoInv
    <3>3. cams = {} /\ outcome = "none" /\ (cmd = "setup" => pins.rgb = chosen.rgb)
      BY <3>2 DEF ForceInv, Early
    <3>4. QED
      BY <1>2, <2>1, <2>2, <3>1, <3>2, <3>3 DEF ForceInv
  <2>5. QED
    BY <2>1, <2>3, <2>4
<1>5. CASE \/ SelinuxStep \/ PolicyCmd \/ Compile \/ HookStep \/ OpenHook \/ FillHook
           \/ ChmodHook \/ RemoveHook \/ Group
  <2>1. /\ UNCHANGED <<pins, tuned, up, loaded, modules, cams, chosen>>
        /\ Head(todo) \notin {"rgb", "restart"}
    BY <1>5 DEF SelinuxStep, PolicyCmd, Compile, HookStep, OpenHook, FillHook, ChmodHook,
                RemoveHook, Group
  <2>2. QED
    BY <1>1, <2>1, ForceQuiet
<1>6. QED
  BY <1>3, <1>4, <1>5 DEF PartStep

LEMMA SetupForce == ASSUME TodoInv, ForceInv, SetupStep PROVE ForceInv'
<1>1. Turn
  BY SetupTurns
<1>2. pins \in PinSet /\ chosen \in PinSet /\ loaded \in LoadSet /\ tuned \in BOOLEAN
  BY DEF ForceInv
<1>3. CASE Probe
  <2>1. /\ UNCHANGED <<pins, tuned, up, loaded, modules, cams, chosen>>
        /\ Head(todo) = "probe"
    BY <1>3 DEF Probe
  <2>2. QED
    BY <1>1, <2>1, ForceQuiet
<1>4. CASE Choose
  <2>1. UNCHANGED <<pins, tuned, loaded, cams>> /\ Head(todo) = "cameras"
    BY <1>4 DEF Choose
  <2>2. chosen' \in PinSet
    BY <1>2, <1>4 DEF Choose, PinSet
  <2>3. QED
    BY <1>1, <1>2, <2>1, <2>2, ForceEarly DEF Early
<1>5. CASE WriteRgb
  <2>1. /\ todo # << >> /\ Head(todo) = "rgb" /\ Next1 /\ UNCHANGED <<tuned, loaded, cams, chosen>>
        /\ pins' = [pins EXCEPT !.rgb = chosen.rgb]
    BY <1>5 DEF WriteRgb
  <2>2. pins' \in PinSet /\ pins'.rgb = chosen.rgb
    BY <1>2, <2>1 DEF PinSet
  <2>3. Now(todo) = "rgb" /\ cmd' = cmd /\ outcome' = outcome /\ cmd # "idle"
    BY <2>1 DEF Now, TodoInv
  <2>4. Now(todo') \notin Late /\ (cmd' = "setup" => Now(todo') # "end")
    BY <1>1, <2>1 DEF Turn, Follows, Leads, Late
  <2>5. cams = {} /\ outcome = "none"
    BY <2>3 DEF ForceInv, Early
  <2>6. QED
    BY <1>2, <2>1, <2>2, <2>3, <2>4, <2>5 DEF ForceInv
<1>6. CASE WriteIr
  <2>1. /\ todo # << >> /\ Head(todo) = "ir" /\ Next1 /\ UNCHANGED <<tuned, loaded, cams, chosen>>
        /\ pins' = IF chosen.ir = Unknown THEN pins ELSE [pins EXCEPT !.ir = chosen.ir]
    BY <1>6 DEF WriteIr
  <2>2. pins' \in PinSet /\ pins'.rgb = pins.rgb
    BY <1>2, <2>1 DEF PinSet
  <2>3. Now(todo) = "ir" /\ cmd' = cmd /\ outcome' = outcome /\ cmd # "idle"
    BY <2>1 DEF Now, TodoInv
  <2>4. Now(todo') \notin Late /\ (cmd' = "setup" => Now(todo') # "end")
    BY <1>1, <2>1 DEF Turn, Follows, Leads, Late
  <2>5. cams = {} /\ outcome = "none" /\ (cmd = "setup" => pins.rgb = chosen.rgb)
    BY <2>3 DEF ForceInv, Early
  <2>6. QED
    BY <1>2, <2>1, <2>2, <2>3, <2>4, <2>5 DEF ForceInv
<1>7. CASE Calibrate
  <2>1. /\ todo # << >> /\ Head(todo) = "calibrate?"
        /\ UNCHANGED <<pins, up, loaded, modules, cams, chosen>>
        /\ (Next1 /\ UNCHANGED tuned) \/ (Then(<<"restart">>) /\ tuned' \in {tuned, TRUE})
    BY <1>7 DEF Calibrate
  <2>2. CASE Next1 /\ UNCHANGED tuned
    BY <1>1, <2>1, <2>2, ForceQuiet
  <2>3. CASE Then(<<"restart">>) /\ tuned' \in {tuned, TRUE}
    <3>1. Replaces("calibrate?", <<"restart">>)
      BY DEF Replaces
    <3>2. Leads("calibrate?", Now(todo')) /\ cmd' = cmd /\ outcome' = outcome
      BY <2>1, <2>3, <3>1, ThenTurn
    <3>3. Now(todo') = "restart" /\ "restart" \notin Late
      BY <3>2 DEF Leads, Late
    <3>4. Now(todo) = "calibrate?" /\ cmd # "idle" /\ tuned' \in BOOLEAN
      BY <1>2, <2>1, <2>3 DEF Now, TodoInv
    <3>5. cams = {} /\ outcome = "none" /\ (cmd = "setup" => pins.rgb = chosen.rgb)
      BY <3>4 DEF ForceInv, Early, Late
    <3>6. QED
      BY <1>2, <2>1, <3>2, <3>3, <3>4, <3>5 DEF ForceInv
  <2>4. QED
    BY <2>1, <2>2, <2>3
<1>8. QED
  BY <1>3, <1>4, <1>5, <1>6, <1>7 DEF SetupStep

LEMMA FaceForce == ASSUME TodoInv, ForceInv, FaceStep \/ FingerStep PROVE ForceInv'
<1>1. Turn
  BY FaceTurns, FingerTurns
<1>2. CASE FingerStep
  <2>1. UNCHANGED <<pins, tuned, up, loaded, modules, cams, chosen>>
    BY <1>2 DEF FingerStep, AskFinger, FirstFinger, PickSlot, Scan, Name, Wire, Unwire, SetMethod,
                ClearMethod
  <2>2. Head(todo) \in Late \cup {"unwire", "method auto"}
    BY <1>2 DEF FingerStep, AskFinger, FirstFinger, PickSlot, Scan, Name, Wire, Unwire, SetMethod,
                ClearMethod, Late
  <2>3. Head(todo) \notin {"rgb", "restart"}
    BY <2>2 DEF Late
  <2>4. QED
    BY <1>1, <2>1, <2>3, ForceQuiet
<1>3. CASE AskEnroll \/ Captured \/ AskRecovery \/ Recovery
  <2>1. /\ UNCHANGED <<pins, tuned, up, loaded, modules, cams, chosen>>
        /\ Head(todo) \notin {"rgb", "restart"}
    BY <1>3 DEF AskEnroll, Captured, AskRecovery, Recovery
  <2>2. QED
    BY <1>1, <2>1, ForceQuiet
<1>4. CASE Sample
  <2>1. /\ todo # << >> /\ Head(todo) = "sample"
        /\ UNCHANGED <<pins, tuned, up, loaded, modules, chosen>>
        /\ UNCHANGED cams \/ cams' = cams \cup {loaded.pins.rgb}
    BY <1>4 DEF Sample, Store
  <2>2. Now(todo) = "sample" /\ cmd # "idle" /\ (InForce' <=> InForce)
    BY <2>1 DEF Now, TodoInv, InForce
  <2>3. Now(todo') \notin Early \cup {"ir", "restart"}
    BY <1>1, <2>1 DEF Turn, Follows, Leads, Early
  <2>4. cmd = "setup" => pins.rgb = chosen.rgb /\ InForce /\ loaded.pins.rgb = chosen.rgb
    BY <2>2 DEF ForceInv, Late
  <2>5. (cmd' # "idle" => outcome' = "none") /\ (cmd' = "setup" => cmd = "setup")
    BY <1>1, <2>2 DEF Turn, ForceInv
  <2>6. cmd = "setup" => cams' \subseteq {chosen'.rgb}
    BY <2>1, <2>4 DEF ForceInv
  <2>7. QED
    BY <2>1, <2>2, <2>3, <2>4, <2>5, <2>6 DEF ForceInv
<1>5. QED
  BY <1>2, <1>3, <1>4 DEF FaceStep

LEMMA ForceNext == TodoInv /\ ForceInv /\ [Next]_vars => ForceInv'
<1> SUFFICES ASSUME TodoInv, ForceInv, [Next]_vars PROVE ForceInv'
  OBVIOUS
<1>0. pins \in PinSet /\ chosen \in PinSet /\ loaded \in LoadSet /\ tuned \in BOOLEAN
  BY DEF ForceInv
<1>1. CASE UNCHANGED vars
  BY <1>1 DEF vars, ForceInv, InForce
<1>2. ASSUME NEW c \in DOMAIN Steps, Begin(c) PROVE ForceInv'
  <2>1. /\ UNCHANGED <<pins, tuned, loaded>> /\ cams' = {} /\ chosen' = NoPins
        /\ outcome' = "none"
    BY <1>2 DEF Begin
  <2>2. todo' # << >> /\ (cmd' = "setup" => Head(todo') = "probe")
    BY <1>2, BeginFirst
  <2>3. cmd' = "setup" => Now(todo') \notin Late \cup {"ir", "restart", "end"}
    BY <2>2 DEF Now, Late
  <2>4. chosen' \in PinSet
    BY <2>1 DEF NoPins, PinSet
  <2>5. QED
    BY <1>0, <2>1, <2>3, <2>4 DEF ForceInv
<1>3. CASE Stop
  <2>1. /\ todo # << >> /\ todo' = << >> /\ Now(todo) = Head(todo) /\ Now(todo') = "end" /\ Turn
        /\ cmd # "idle"
    BY <1>3, StopTurns DEF Now, Turn, TodoInv
  <2>2. /\ UNCHANGED <<tuned, loaded, modules, cams, chosen>> /\ pins' \in {pins, NoPins}
        /\ Head(todo) \in Late => UNCHANGED <<pins, up>>
    BY <1>3 DEF Stop, Late
  <2>3. pins' \in PinSet
    BY <1>0, <2>2 DEF NoPins, PinSet
  <2>4. (cmd' # "idle" => outcome' = "none") /\ (cmd' = "setup" => cmd = "setup")
    BY <2>1 DEF Turn, ForceInv
  <2>5. ASSUME cmd' = "setup"
        PROVE  /\ pins'.rgb = chosen'.rgb /\ InForce' /\ loaded'.pins.rgb = chosen'.rgb
               /\ cams' \subseteq {chosen'.rgb}
    <3>1. cmd = "setup" /\ Now(todo) \in Late
      BY <2>1, <2>4, <2>5 DEF Turn
    <3>2. InForce' <=> InForce
      BY <2>1, <2>2, <3>1 DEF InForce
    <3>3. QED
      BY <2>1, <2>2, <3>1, <3>2 DEF ForceInv
  <2>6. "end" \notin Early
    BY DEF Early
  <2>7. QED
    BY <1>0, <2>1, <2>2, <2>3, <2>4, <2>5, <2>6 DEF ForceInv
<1>4. CASE Finish \/ DeleteFinger
  <2>1. UNCHANGED <<pins, tuned, loaded, cams, chosen, todo>> /\ cmd' = "idle"
    BY <1>4, OthersStill DEF Finish, DeleteFinger, Still
  <2>2. QED
    BY <1>0, <2>1 DEF ForceInv
<1>5. CASE Reboot
  <2>1. /\ UNCHANGED <<pins, tuned, cams, chosen, todo>> /\ cmd' = "idle"
        /\ loaded' = Loads
    BY <1>5 DEF Reboot
  <2>2. loaded' \in LoadSet
    BY <1>0, <2>1, LoadsTyped
  <2>3. QED
    BY <1>0, <2>1, <2>2 DEF ForceInv
<1>6. CASE LookUpCameras
  <2>1. /\ UNCHANGED <<pins, tuned, up, modules, cams, chosen, todo, cmd, outcome>>
        /\ loaded' = [loaded EXCEPT !.pins = pins]
    BY <1>6 DEF LookUpCameras
  <2>2. /\ loaded' \in LoadSet /\ loaded'.pins = pins /\ loaded'.tuned = loaded.tuned
        /\ loaded'.label = loaded.label
    BY <1>0, <2>1 DEF LoadSet
  <2>3. InForce' <=> InForce
    BY <2>1, <2>2 DEF InForce
  <2>4. QED
    BY <1>0, <2>1, <2>2, <2>3 DEF ForceInv
<1>7. QED
  BY <1>1, <1>2, <1>3, <1>4, <1>5, <1>6, PartForce, SetupForce, FaceForce DEF Next

LEMMA ForceInit == Init => ForceInv
<1> SUFFICES ASSUME Init PROVE ForceInv
  OBVIOUS
<1>1. /\ pins = NoPins /\ chosen = NoPins /\ tuned = FALSE /\ loaded = Loads
      /\ cams = {} /\ cmd = "idle"
  BY DEF Init
<1>2. pins \in PinSet /\ chosen \in PinSet /\ tuned \in BOOLEAN
  BY <1>1 DEF NoPins, PinSet
<1>3. loaded \in LoadSet
  BY <1>1, <1>2, LoadsTyped
<1>4. QED
  BY <1>1, <1>2, <1>3 DEF ForceInv

\* Setup says it is complete only over a daemon started after everything it
\* changed, and takes its samples only with the camera chosen in it; also when
\* an earlier setup was cut short anywhere, and for any cameras and captures.
THEOREM SetupSafe == Spec => SetupInForce
<1>1. ASSUME TodoInv, ForceInv, ForceInv', [Next]_vars
      PROVE  [/\ cmd = "setup" /\ outcome' = "done" => InForce
              /\ cmd' = "setup" => cams' \subseteq {chosen'.rgb}]_vars
  <2>1. cmd' = "setup" => cams' \subseteq {chosen'.rgb}
    BY <1>1 DEF ForceInv
  <2>2. ASSUME cmd = "setup", outcome' = "done", Next PROVE InForce
    <3>1. outcome = "none"
      BY <1>1, <2>2 DEF ForceInv
    <3>2. ~Turn
      BY <2>2, <3>1 DEF Turn
    <3>3. ~Reboot /\ ~DeleteFinger /\ ~LookUpCameras /\ \A c \in DOMAIN Steps : ~Begin(c)
      BY <2>2, <3>1 DEF Reboot, DeleteFinger, LookUpCameras, Begin
    <3>4. Finish
      BY <1>1, <2>2, <3>2, <3>3, PartTurns, SetupTurns, FaceTurns, FingerTurns, StopTurns DEF Next
    <3>5. Now(todo) = "end"
      BY <3>4 DEF Finish, Now
    <3>6. QED
      BY <1>1, <2>2, <3>5 DEF ForceInv
  <2>3. QED
    BY <1>1, <2>1, <2>2
<1>2. QED
  BY <1>1, ForceInit, TodoInit, TodoNext, ForceNext, PTL DEF Spec, SetupInForce

-----------------------------------------------------------------------------
(* Types.                                                                   *)

\* A policy is compiled and loaded only where there is SELinux.
PolicyInv ==
    /\ modules \subseteq Modules /\ (family # "Fedora" => modules = {})
    /\ Now(todo) \in {"compile", "load"} => family = "Fedora"

RestOK ==
    /\ inGroup \in BOOLEAN /\ up \in BOOLEAN /\ recovery \in BOOLEAN /\ wired \in BOOLEAN
    /\ names \in [Slots -> Fingers \cup {None}]
    /\ method \in {"auto", "fingerprint"} /\ slot \in Slots \cup {None}
    /\ hook \in [text : {"none", "torn", "full"}, exec : BOOLEAN]
    /\ cmd \in DOMAIN Steps \cup {"idle"} /\ outcome \in {"none", "done", "failed"}

LEMMA PolicyNext == TodoInv /\ PolicyInv /\ [Next]_vars => PolicyInv'
<1> SUFFICES ASSUME TodoInv, PolicyInv, [Next]_vars PROVE PolicyInv'
  OBVIOUS
<1>1. CASE UNCHANGED vars
  BY <1>1 DEF vars, PolicyInv
<1>2. ASSUME NEW c \in DOMAIN Steps, Begin(c) PROVE PolicyInv'
  <2>1. UNCHANGED <<family, modules>> /\ todo' # << >> /\ Head(todo') \in Firsts
    BY <1>2, BeginFirst DEF Begin
  <2>2. QED
    BY <2>1 DEF PolicyInv, Now, Firsts
<1>3. CASE Stop
  <2>1. UNCHANGED <<family, modules>> /\ todo' = << >>
    BY <1>3, StopTurns DEF Stop
  <2>2. QED
    BY <2>1 DEF PolicyInv, Now
<1>4. CASE Finish \/ LookUpCameras \/ Reboot \/ DeleteFinger
  <2>1. UNCHANGED <<family, modules, todo>>
    BY <1>4 DEF Finish, LookUpCameras, Reboot, DeleteFinger
  <2>2. QED
    BY <2>1 DEF PolicyInv
<1>5. ASSUME Turn, UNCHANGED <<family, modules>>, Head(todo) \notin {"selinux?", "policy?"}
      PROVE  PolicyInv'
  <2>1. Now(todo') \in {"compile", "load"} => Now(todo) = "compile"
    BY <1>5 DEF Turn, Follows, Leads, Now
  <2>2. QED
    BY <1>5, <2>1 DEF PolicyInv
<1>6. CASE SetupStep \/ FaceStep \/ FingerStep
  <2>1. Turn
    BY <1>6, SetupTurns, FaceTurns, FingerTurns
  <2>2. UNCHANGED <<family, modules>>
    BY <1>6 DEF SetupStep, Probe, Choose, WriteRgb, WriteIr, Calibrate, FaceStep, AskEnroll,
       Sample, Captured, AskRecovery, Recovery, FingerStep, AskFinger, FirstFinger, PickSlot,
       Scan, Name, Wire, Unwire, SetMethod, ClearMethod
  <2>3. Head(todo) \notin {"selinux?", "policy?"}
    BY <1>6 DEF SetupStep, Probe, Choose, WriteRgb, WriteIr, Calibrate, FaceStep, AskEnroll,
       Sample, Captured, AskRecovery, Recovery, FingerStep, AskFinger, FirstFinger, PickSlot,
       Scan, Name, Wire, Unwire, SetMethod, ClearMethod
  <2>4. QED
    BY <1>5, <2>1, <2>2, <2>3
<1>7. CASE \/ Compile \/ Restart \/ HookStep \/ OpenHook \/ FillHook \/ ChmodHook
           \/ RemoveHook \/ Group
  <2>1. Turn
    BY <1>7, PartTurns DEF PartStep
  <2>2. UNCHANGED <<family, modules>> /\ Head(todo) \notin {"selinux?", "policy?"}
    BY <1>7 DEF Compile, Restart, HookStep, OpenHook, FillHook, ChmodHook, RemoveHook,
                Group
  <2>3. QED
    BY <1>5, <2>1, <2>2
<1>8. CASE SelinuxStep \/ PolicyCmd
  <2>1. Turn /\ UNCHANGED <<family, modules>> /\ Head(todo) \in {"selinux?", "policy?"}
    BY <1>8, PartTurns DEF PartStep, SelinuxStep, PolicyCmd
  <2>2. CASE family = "Fedora"
    BY <2>1, <2>2 DEF PolicyInv
  <2>3. CASE family # "Fedora"
    <3>1. Next1
      BY <1>8, <2>3 DEF SelinuxStep, PolicyCmd
    <3>2. Follows(Head(todo), Now(todo'))
      BY <2>1, <3>1, NextTurn DEF Turn
    <3>3. Now(todo') \notin {"compile", "load"}
      BY <2>1, <3>2 DEF Follows
    <3>4. QED
      BY <2>1, <3>3 DEF PolicyInv
  <2>4. QED
    BY <2>2, <2>3
<1>9. CASE LoadModule \/ Unload
  <2>1. Turn /\ UNCHANGED family
    BY <1>9, PartTurns DEF PartStep, LoadModule, Unload
  <2>2. Now(todo') \notin {"compile", "load"}
    BY <1>9, <2>1 DEF Turn, Follows, Leads, LoadModule, Unload
  <2>3. modules' \subseteq Modules /\ (family # "Fedora" => modules' = {})
    <3>1. CASE LoadModule
      <4>1. Now(todo) = "load" /\ modules' = modules \cup {"linhello"}
        BY <3>1 DEF LoadModule, Now
      <4>2. QED
        BY <4>1 DEF PolicyInv, Modules
    <3>2. CASE Unload
      BY <3>2 DEF Unload, PolicyInv
    <3>3. QED
      BY <1>9, <3>1, <3>2
  <2>4. QED
    BY <2>1, <2>2, <2>3 DEF PolicyInv
<1>10. QED
  BY <1>1, <1>2, <1>3, <1>4, <1>6, <1>7, <1>8, <1>9 DEF Next, PartStep

\* The running command and how the last one ended.
LEMMA RunTyped ==
    ASSUME TodoInv, RestOK, [Next]_vars
    PROVE  cmd' \in DOMAIN Steps \cup {"idle"} /\ outcome' \in {"none", "done", "failed"}
<1>1. cmd \in DOMAIN Steps \cup {"idle"} /\ outcome \in {"none", "done", "failed"}
  BY DEF RestOK
<1>2. CASE Turn
  BY <1>1, <1>2 DEF Turn
<1>3. ASSUME NEW c \in DOMAIN Steps, Begin(c)
      PROVE  cmd' \in DOMAIN Steps \cup {"idle"} /\ outcome' \in {"none", "done", "failed"}
  BY <1>3 DEF Begin
<1>4. CASE Finish \/ LookUpCameras \/ Reboot \/ DeleteFinger \/ UNCHANGED vars
  BY <1>1, <1>4 DEF Finish, LookUpCameras, Reboot, DeleteFinger, vars
<1>5. QED
  BY <1>2, <1>3, <1>4, PartTurns, SetupTurns, FaceTurns, FingerTurns, StopTurns DEF Next

LEMMA RestNext == TodoInv /\ FingerInv /\ RestOK /\ [Next]_vars => RestOK'
<1> SUFFICES ASSUME TodoInv, FingerInv, RestOK, [Next]_vars PROVE RestOK'
  OBVIOUS
<1>1. /\ inGroup \in BOOLEAN /\ up \in BOOLEAN /\ recovery \in BOOLEAN /\ wired \in BOOLEAN
      /\ names \in [Slots -> Fingers \cup {None}]
      /\ method \in {"auto", "fingerprint"} /\ slot \in Slots \cup {None}
      /\ hook \in [text : {"none", "torn", "full"}, exec : BOOLEAN]
  BY DEF RestOK
<1>2. ASSUME /\ inGroup' \in BOOLEAN /\ up' \in BOOLEAN /\ recovery' \in BOOLEAN
             /\ wired' \in BOOLEAN /\ names' \in [Slots -> Fingers \cup {None}]
             /\ method' \in {"auto", "fingerprint"} /\ slot' \in Slots \cup {None}
             /\ hook' \in [text : {"none", "torn", "full"}, exec : BOOLEAN]
      PROVE  RestOK'
  BY <1>2, RunTyped DEF RestOK
<1>3. ASSUME \/ UNCHANGED vars \/ Finish \/ LookUpCameras \/ Reboot \/ DeleteFinger
             \/ (\E c \in DOMAIN Steps : Begin(c))
      PROVE  RestOK'
  BY <1>1, <1>2, <1>3 DEF vars, Finish, LookUpCameras, Reboot, DeleteFinger, Begin
<1>4. ASSUME Stop PROVE RestOK'
  BY <1>1, <1>2, <1>4 DEF Stop
<1>5. ASSUME SelinuxStep \/ PolicyCmd \/ Compile \/ LoadModule \/ Unload \/ Restart \/ Group
      PROVE  RestOK'
  BY <1>1, <1>2, <1>5 DEF SelinuxStep, PolicyCmd, Compile, LoadModule, Unload, Restart, Group
<1>6. ASSUME HookStep \/ OpenHook \/ FillHook \/ ChmodHook \/ RemoveHook
      PROVE  RestOK'
  <2>1. hook' \in [text : {"none", "torn", "full"}, exec : BOOLEAN]
    <3>1. (family # "Arch") \in BOOLEAN
      OBVIOUS
    <3>2. CASE HookStep
      BY <1>1, <3>2 DEF HookStep
    <3>3. CASE OpenHook \/ FillHook
      BY <1>1, <3>3 DEF OpenHook, FillHook
    <3>4. CASE ChmodHook
      <4>1. PICK x \in BOOLEAN : hook' = [hook EXCEPT !.exec = x]
        BY <3>1, <3>4 DEF ChmodHook
      <4>2. QED
        BY <1>1, <4>1
    <3>5. CASE RemoveHook
      BY <3>5 DEF RemoveHook, Nothing
    <3>6. QED
      BY <1>6, <3>2, <3>3, <3>4, <3>5
  <2>2. QED
    BY <1>1, <1>2, <1>6, <2>1 DEF HookStep, OpenHook, FillHook, ChmodHook, RemoveHook
<1>7. ASSUME SetupStep PROVE RestOK'
  BY <1>1, <1>2, <1>7 DEF SetupStep, Probe, Choose, WriteRgb, WriteIr, Calibrate
<1>8. ASSUME FaceStep PROVE RestOK'
  BY <1>1, <1>2, <1>8 DEF FaceStep, AskEnroll, Sample, Captured, AskRecovery, Recovery
<1>9. ASSUME AskFinger \/ FirstFinger \/ Scan PROVE RestOK'
  BY <1>1, <1>2, <1>9 DEF AskFinger, FirstFinger, Scan
<1>10. ASSUME PickSlot PROVE RestOK'
  <2>1. slot' \in Slots \cup {None}
    BY <1>1, <1>10, FreeSlot DEF PickSlot
  <2>2. QED
    BY <1>1, <1>2, <1>10, <2>1 DEF PickSlot
<1>11. ASSUME Name PROVE RestOK'
  <2>1. names' \in [Slots -> Fingers \cup {None}]
    <3>1. prints \in [Slots -> Fingers \cup {None}]
      BY DEF FingerInv
    <3>2. names' = names \/ names' = [names EXCEPT ![slot] = prints[slot]]
      BY <1>11 DEF Name
    <3>3. CASE slot \in Slots
      BY <1>1, <3>1, <3>2, <3>3
    <3>4. CASE slot \notin Slots
      BY <1>1, <3>2, <3>4
    <3>5. QED
      BY <3>3, <3>4
  <2>2. QED
    BY <1>1, <1>2, <1>11, <2>1 DEF Name
<1>12. ASSUME Wire \/ Unwire \/ SetMethod \/ ClearMethod PROVE RestOK'
  BY <1>1, <1>2, <1>12 DEF Wire, Unwire, Wires, SetMethod, ClearMethod
<1>13. QED
  BY <1>3, <1>4, <1>5, <1>6, <1>7, <1>8, <1>9, <1>10, <1>11, <1>12
     DEF Next, PartStep, FingerStep

LEMMA RestInit == Init => PolicyInv /\ RestOK
<1> SUFFICES ASSUME Init PROVE PolicyInv /\ RestOK
  OBVIOUS
<1>1. PolicyInv
  <2>1. todo = << >> /\ modules \in {{}} \cup (IF family = "Fedora" THEN {{"linhello-daemon"}} ELSE {})
    BY DEF Init
  <2>2. QED
    BY <2>1 DEF PolicyInv, Now, Modules
<1>2. RestOK
  BY DEF Init, RestOK, Nothing
<1>3. QED
  BY <1>1, <1>2

\* Every variable of the commands keeps its type, after any commands, failures
\* and interruptions: no SELinux module is loaded where there is no SELinux, a
\* fingerprint always goes into one of fprintd's slots, and every slot and every
\* name is of a finger of the user's or of none (selinux_setup_step, first_free,
\* set_fingerprint_name).
THEOREM TypeCorrect == Spec => []TypeOK
<1>1. SamplesInv /\ TodoInv /\ FingerInv /\ ForceInv /\ PolicyInv /\ RestOK => TypeOK
  BY DEF SamplesInv, TodoInv, FingerInv, ForceInv, PolicyInv, RestOK, TypeOK, PinSet
<1>2. QED
  BY <1>1, SamplesInit, SamplesNext, TodoInit, TodoNext, FingerInit, FingerNext,
     ForceInit, ForceNext, RestInit, PolicyNext, RestNext, PTL DEF Spec
=============================================================================

--------------------------- MODULE CaptureProofs ---------------------------
(***************************************************************************)
(* Proofs about Capture, for any number of handlers, any deadlines and     *)
(* whatever the devices do.                                                *)
(***************************************************************************)
EXTENDS Capture, FiniteSetTheorems, TLAPS

USE DEF Goto, Arm, Step, Idle, Judge, Done, world, cache, local, fixed

-----------------------------------------------------------------------------
(* Types.                                                                   *)

\* The facts about the constants the lemmas below use.
LEMMA ConstantTypes ==
    /\ Nobody \notin Handlers
    /\ Requests \subseteq [Handlers -> {"verify", "enroll", "position"}]
    /\ MaxWait \in Nat /\ RESOLVE_TTL \in Nat /\ MaxEvents \in Nat
    /\ ENUMERATE_TIMEOUT \in 0..MaxWait
    /\ \A d \in Devices : Timeout[d] \in 0..MaxWait
    /\ \A d \in Devices, s \in {"path", "lookup", "lock", "capture"} : <<d, s>> \in PCs
    /\ <<"rgb", "path">> \in PCs /\ <<"ir", "path">> \in PCs
    /\ Idle \in PCs /\ Judge \in PCs /\ Done \in PCs
    /\ "rgb" \in Devices /\ "ir" \in Devices
BY CaptureAssumption DEF MaxWait, Timeout, Devices, PCs

LEMMA TypeInit == Init => TypeOK
<1> SUFFICES ASSUME Init PROVE TypeOK
  OBVIOUS
<1> USE ConstantTypes
<1>1. PICK s \in Setups :
        /\ conf = [requireIr |-> s.requireIr, temporal |-> FALSE, gateOff |-> FALSE]
        /\ ready = s.ready /\ pinned = s.pinned
  BY DEF Init
<1>2. s \in [requireIr : BOOLEAN, ready : BOOLEAN, pinned : SUBSET Devices]
  BY CaptureAssumption
<1>3. /\ conf \in [requireIr : BOOLEAN, temporal : {FALSE}, gateOff : {FALSE}]
      /\ ready \in BOOLEAN /\ pinned \subseteq Devices
  BY <1>1, <1>2
<1>4. QED
  BY <1>3, SMTT(30) DEF Init, TypeOK, Typed, Timed, Held, Phased

\* A handler that moves keeps the program counters typed and the deadlines
\* running only where they should.
LEMMA Moved ==
    ASSUME TypeOK, NEW h \in Handlers, NEW p \in PCs, pc' = [pc EXCEPT ![h] = p],
           NEW n \in 0..MaxWait, left' = [left EXCEPT ![h] = n],
           n > 0 => p \in Devices \X {"lookup", "capture"}
    PROVE  pc' \in [Handlers -> PCs] /\ left' \in [Handlers -> 0..MaxWait] /\ Timed'
<1>1. pc' \in [Handlers -> PCs] /\ left' \in [Handlers -> 0..MaxWait]
  BY DEF TypeOK, Typed
<1>2. ASSUME NEW g \in Handlers, left'[g] > 0
      PROVE  pc'[g] \in Devices \X {"lookup", "capture"}
  <2>1. CASE g = h
    BY <1>2, <2>1 DEF TypeOK, Typed
  <2>2. CASE g # h
    BY <1>2, <2>2 DEF TypeOK, Typed, Timed
  <2>3. QED
    BY <2>1, <2>2
<1>3. QED
  BY <1>1, <1>2 DEF Timed

\* The same for a handler that had no deadline and sets none.
LEMMA MovedFree ==
    ASSUME TypeOK, NEW h \in Handlers, NEW p \in PCs, pc' = [pc EXCEPT ![h] = p],
           UNCHANGED left, left[h] = 0
    PROVE  pc' \in [Handlers -> PCs] /\ left' \in [Handlers -> 0..MaxWait] /\ Timed'
<1>1. PICK n \in 0..MaxWait : n = 0
  BY ConstantTypes
<1>2. left' = [left EXCEPT ![h] = n]
  BY <1>1 DEF TypeOK, Typed
<1>3. n > 0 => p \in Devices \X {"lookup", "capture"}
  BY <1>1
<1>4. QED
  BY <1>2, <1>3, Moved

\* A handler that is not looking up holds no mutex, so its moves free none.
LEMMA HeldKept ==
    ASSUME TypeOK, NEW h \in Handlers, NEW p \in PCs, pc' = [pc EXCEPT ![h] = p],
           UNCHANGED mutex, \A d \in Devices : pc[h] # <<d, "lookup">>
    PROVE  Held'
BY ConstantTypes DEF TypeOK, Typed, Held

\* A handler that goes on in its phase asks for the lock only to capture.
LEMMA PhaseKept ==
    ASSUME TypeOK, NEW h \in Handlers, NEW p \in PCs, pc' = [pc EXCEPT ![h] = p],
           UNCHANGED <<kind, phase>>,
           p \in Devices \X {"lock", "capture"} => phase[h] = "capture"
    PROVE  Phased'
<1> SUFFICES ASSUME NEW g \in Handlers
             PROVE  /\ pc'[g] \in Devices \X {"lock", "capture"} => phase[g] = "capture"
                    /\ phase[g] = "binding" => kind[g] = "verify"
                    /\ phase[g] = "save" => kind[g] = "enroll"
  BY DEF Phased
<1>1. pc'[g] = IF g = h THEN p ELSE pc[g]
  BY DEF TypeOK, Typed
<1>2. QED
  BY <1>1 DEF TypeOK, Phased

\* A handler that enters a phase of its request starts with the lookups.
LEMMA PhaseEntered ==
    ASSUME TypeOK, NEW h \in Handlers, NEW q \in {"binding", "capture", "save"}, Enter(h, q),
           UNCHANGED kind,
           q = "binding" => kind[h] = "verify", q = "save" => kind[h] = "enroll"
    PROVE  Phased' /\ phase' \in [Handlers -> {"binding", "capture", "save"}]
<1>1. phase' = [phase EXCEPT ![h] = q] /\ pc' = [pc EXCEPT ![h] = <<"rgb", "path">>]
  BY DEF Enter
<1>2. phase' \in [Handlers -> {"binding", "capture", "save"}]
  BY <1>1 DEF TypeOK, Typed
<1>3. ASSUME NEW g \in Handlers
      PROVE  /\ pc'[g] \in Devices \X {"lock", "capture"} => phase'[g] = "capture"
             /\ phase'[g] = "binding" => kind[g] = "verify"
             /\ phase'[g] = "save" => kind[g] = "enroll"
  <2>1. CASE g = h
    <3>1. pc'[g] = <<"rgb", "path">> /\ phase'[g] = q
      BY <1>1, <2>1 DEF TypeOK, Typed
    <3>2. pc'[g] \notin Devices \X {"lock", "capture"}
      BY <3>1
    <3>3. QED
      BY <2>1, <3>1, <3>2
  <2>2. CASE g # h
    <3>1. pc'[g] = pc[g] /\ phase'[g] = phase[g]
      BY <1>1, <2>2 DEF TypeOK, Typed
    <3>2. QED
      BY <3>1 DEF TypeOK, Phased
  <2>3. QED
    BY <2>1, <2>2
<1>4. QED
  BY <1>2, <1>3 DEF Phased

\* Where no deadline runs.
LEMMA NoDeadline ==
    ASSUME TypeOK, NEW h \in Handlers, pc[h] \notin Devices \X {"lookup", "capture"}
    PROVE  left[h] = 0
BY ConstantTypes, SMTT(30) DEF TypeOK, Typed, Timed

LEMMA TypeArrive ==
    ASSUME TypeOK, NEW h \in Handlers, Arrive(h)
    PROVE  TypeOK'
<1> USE ConstantTypes
<1>1. PICK q \in {"binding", "capture", "save"} :
        Enter(h, q) /\ (q = "binding" => kind[h] = "verify") /\ q # "save"
  BY DEF Arrive
<1>2. PICK p \in PCs : p = <<"rgb", "path">>
  OBVIOUS
<1>3. pc' = [pc EXCEPT ![h] = p] /\ pc[h] = Idle
  BY <1>1, <1>2 DEF Arrive, Enter
<1>4. UNCHANGED <<conf, ready, pinned, dev, events, stuck, lock, mutex, ttl, found, left, kind,
                  frame, answer, age>>
  BY DEF Arrive
<1>5. pc[h] \notin Devices \X {"lookup", "capture"}
  BY <1>3
<1>6. pc' \in [Handlers -> PCs] /\ left' \in [Handlers -> 0..MaxWait] /\ Timed'
  BY <1>3, <1>4, <1>5, NoDeadline, MovedFree
<1>7. Held'
  <2>1. \A e \in Devices : pc[h] # <<e, "lookup">>
    BY <1>3
  <2>2. QED
    BY <1>3, <1>4, <2>1, HeldKept
<1>8. Phased' /\ phase' \in [Handlers -> {"binding", "capture", "save"}]
  BY <1>1, <1>4, PhaseEntered
<1>9. QED
  BY <1>4, <1>6, <1>7, <1>8 DEF TypeOK, Typed

LEMMA TypeTakeLock ==
    ASSUME TypeOK, NEW h \in Handlers, NEW d \in Devices, TakeLock(h, d)
    PROVE  TypeOK'
<1> USE ConstantTypes
<1>1. PICK p \in PCs : p = <<d, "capture">>
  OBVIOUS
<1>2. pc' = [pc EXCEPT ![h] = p] /\ left' = [left EXCEPT ![h] = Timeout[d]] /\ lock' = h
  BY <1>1 DEF TakeLock
<1>3. UNCHANGED <<conf, ready, pinned, dev, events, stuck, mutex, ttl, found,
                  kind, phase, frame, answer, age>>
  BY DEF TakeLock
<1>4. pc' \in [Handlers -> PCs] /\ left' \in [Handlers -> 0..MaxWait] /\ Timed'
  BY <1>1, <1>2, Moved
<1>a. Phased'
  <2>1. phase[h] = "capture"
    BY DEF TakeLock, TypeOK, Phased
  <2>2. QED
    BY <1>2, <1>3, <2>1, PhaseKept
<1>5. Held'
  <2>1. \A e \in Devices : pc[h] # <<e, "lookup">>
    BY DEF TakeLock
  <2>2. QED
    BY <1>2, <1>3, <2>1, HeldKept
<1>6. QED
  BY <1>2, <1>3, <1>4, <1>5, <1>a DEF TypeOK, Typed

\* AfterPath goes on to a step of the request.
LEMMA PathNext ==
    ASSUME NEW h, NEW d \in Devices, NEW yes \in BOOLEAN, AfterPath(h, d, yes)
    PROVE  \E p \in PCs : /\ pc' = [pc EXCEPT ![h] = p]
                          /\ p \notin Devices \X {"lookup", "capture"}
                          /\ p \in Devices \X {"lock", "capture"} => phase[h] = "capture"
<1>1. PICK p \in PCs :
        p = IF phase[h] # "capture" THEN (IF d = "rgb" THEN <<"ir", "path">> ELSE Judge)
            ELSE IF yes \/ d = "rgb" THEN <<d, "lock">> ELSE Judge
  BY ConstantTypes
<1>2. p \notin Devices \X {"lookup", "capture"}
  BY <1>1
<1>3. p \in Devices \X {"lock", "capture"} => phase[h] = "capture"
  BY <1>1
<1>4. QED
  BY <1>1, <1>2, <1>3 DEF AfterPath

LEMMA TypeResolve ==
    ASSUME TypeOK, NEW h \in Handlers, NEW d \in Devices, Resolve(h, d)
    PROVE  TypeOK'
<1> USE ConstantTypes
<1>1. UNCHANGED <<conf, ready, pinned, dev, events, stuck, lock, kind, phase, frame, answer, age>>
  BY DEF Resolve
<1>2. /\ pc[h] \notin Devices \X {"lookup", "capture"}
      /\ \A e \in Devices : pc[h] # <<e, "lookup">>
  BY DEF Resolve
<1>3. left[h] = 0
  BY <1>2, NoDeadline
<1>4. CASE ttl[d] > 0 /\ AfterPath(h, d, found[d]) /\ UNCHANGED <<cache, left>>
  <2>1. found[d] \in BOOLEAN
    BY DEF TypeOK, Typed
  <2>a. AfterPath(h, d, found[d])
    BY <1>4
  <2>b. \E p \in PCs : /\ pc' = [pc EXCEPT ![h] = p]
                       /\ p \notin Devices \X {"lookup", "capture"}
                       /\ p \in Devices \X {"lock", "capture"} => phase[h] = "capture"
    <3> HIDE ConstantTypes
    <3>1. PICK yes \in BOOLEAN : yes = found[d]
      BY <2>1
    <3>2. AfterPath(h, d, yes)
      BY <2>a, <3>1
    <3>3. QED
      BY <3>2, PathNext, ZenonT(30)
  <2>2. PICK p \in PCs : /\ pc' = [pc EXCEPT ![h] = p]
                         /\ p \in Devices \X {"lock", "capture"} => phase[h] = "capture"
    BY <2>b
  <2>3. /\ pc' \in [Handlers -> PCs] /\ left' \in [Handlers -> 0..MaxWait] /\ Timed' /\ Held'
        /\ Phased'
    BY <1>1, <1>2, <1>3, <1>4, <2>2, MovedFree, HeldKept, PhaseKept
  <2>4. QED
    BY <1>1, <1>4, <2>3 DEF TypeOK, Typed
<1>5. CASE /\ ttl[d] = 0 /\ d \in pinned
           /\ AfterPath(h, d, dev[d] # "gone")
           /\ ttl' = [ttl EXCEPT ![d] = RESOLVE_TTL]
           /\ found' = [found EXCEPT ![d] = (dev[d] # "gone")]
           /\ UNCHANGED <<mutex, left>>
  <2>a. AfterPath(h, d, dev[d] # "gone") /\ (dev[d] # "gone") \in BOOLEAN
    BY <1>5
  <2>1. PICK p \in PCs : /\ pc' = [pc EXCEPT ![h] = p]
                         /\ p \in Devices \X {"lock", "capture"} => phase[h] = "capture"
    BY <2>a, PathNext
  <2>2. /\ pc' \in [Handlers -> PCs] /\ left' \in [Handlers -> 0..MaxWait] /\ Timed' /\ Held'
        /\ Phased'
    BY <1>1, <1>2, <1>3, <1>5, <2>1, MovedFree, HeldKept, PhaseKept
  <2>3. ttl' \in [Devices -> 0..RESOLVE_TTL] /\ found' \in [Devices -> BOOLEAN]
    BY <1>5, SMTT(30) DEF TypeOK, Typed
  <2>4. QED
    BY <1>1, <1>5, <2>2, <2>3 DEF TypeOK, Typed
<1>6. CASE /\ ttl[d] = 0 /\ d \notin pinned
           /\ mutex' = [mutex EXCEPT ![d] = h] /\ Arm(h, ENUMERATE_TIMEOUT)
           /\ Goto(h, Step(d, "lookup"))
           /\ UNCHANGED <<ttl, found>>
  <2>1. PICK p \in PCs : p = <<d, "lookup">>
    OBVIOUS
  <2>2. pc' = [pc EXCEPT ![h] = p] /\ left' = [left EXCEPT ![h] = ENUMERATE_TIMEOUT]
    BY <1>6, <2>1
  <2>3. pc' \in [Handlers -> PCs] /\ left' \in [Handlers -> 0..MaxWait] /\ Timed'
    BY <2>1, <2>2, Moved
  <2>4. mutex' \in [Devices -> Handlers \cup {Nobody}]
    BY <1>6 DEF TypeOK, Typed
  <2>5. ASSUME NEW e \in Devices, mutex'[e] # Nobody
        PROVE  pc'[mutex'[e]] = <<e, "lookup">>
    <3>1. CASE e = d
      BY <1>6, <2>1, <2>2, <3>1 DEF TypeOK, Typed
    <3>2. CASE e # d
      <4>1. mutex'[e] = mutex[e] /\ mutex[e] \in Handlers
        BY <1>6, <2>5, <3>2 DEF TypeOK, Typed
      <4>2. pc[mutex[e]] = <<e, "lookup">>
        BY <2>5, <4>1 DEF TypeOK, Held
      <4>3. mutex[e] # h
        BY <1>2, <4>2
      <4>4. QED
        BY <2>2, <4>1, <4>2, <4>3 DEF TypeOK, Typed
    <3>3. QED
      BY <3>1, <3>2
  <2>6. Phased'
    <3>1. p \notin Devices \X {"lock", "capture"}
      BY <2>1
    <3>2. QED
      BY <1>1, <2>2, <3>1, PhaseKept
  <2>7. QED
    BY <1>1, <1>6, <2>3, <2>4, <2>5, <2>6 DEF TypeOK, Typed, Held
<1>7. QED
  BY <1>4, <1>5, <1>6 DEF Resolve

LEMMA TypeLookup ==
    ASSUME TypeOK, NEW h \in Handlers, NEW d \in Devices, Lookup(h, d)
    PROVE  TypeOK'
<1> USE ConstantTypes
<1>1. UNCHANGED <<conf, ready, pinned, dev, events, stuck, lock, kind, phase, frame, answer, age>>
  BY DEF Lookup
<1>2. /\ pc[h] = <<d, "lookup">> /\ mutex' = [mutex EXCEPT ![d] = Nobody]
      /\ ttl' = [ttl EXCEPT ![d] = RESOLVE_TTL]
      /\ found' = [found EXCEPT ![d] = (dev[d] # "gone")]
      /\ AfterPath(h, d, dev[d] # "gone") /\ left' = [left EXCEPT ![h] = 0]
  BY DEF Lookup
<1>3. PICK p \in PCs : /\ pc' = [pc EXCEPT ![h] = p]
                       /\ p \in Devices \X {"lock", "capture"} => phase[h] = "capture"
  BY <1>2, PathNext
<1>a. Phased'
  BY <1>1, <1>3, PhaseKept
<1>4. PICK n \in 0..MaxWait : n = 0
  OBVIOUS
<1>5. pc' \in [Handlers -> PCs] /\ left' \in [Handlers -> 0..MaxWait] /\ Timed'
  <2>1. left' = [left EXCEPT ![h] = n]
    BY <1>2, <1>4
  <2>2. n > 0 => p \in Devices \X {"lookup", "capture"}
    BY <1>4
  <2>3. QED
    BY <1>3, <2>1, <2>2, Moved
<1>6. ttl' \in [Devices -> 0..RESOLVE_TTL] /\ found' \in [Devices -> BOOLEAN]
  <2>1. RESOLVE_TTL \in 0..RESOLVE_TTL
    OBVIOUS
  <2>2. ttl' \in [Devices -> 0..RESOLVE_TTL]
    BY <1>2, <2>1 DEF TypeOK, Typed
  <2>3. found' \in [Devices -> BOOLEAN]
    BY <1>2 DEF TypeOK, Typed
  <2>4. QED
    BY <2>2, <2>3
<1>7. mutex' \in [Devices -> Handlers \cup {Nobody}]
  BY <1>2 DEF TypeOK, Typed
<1>8. ASSUME NEW e \in Devices, mutex'[e] # Nobody
      PROVE  pc'[mutex'[e]] = <<e, "lookup">>
  <2>1. e # d /\ mutex'[e] = mutex[e] /\ mutex[e] \in Handlers
    BY <1>2, <1>8 DEF TypeOK, Typed
  <2>2. pc[mutex[e]] = <<e, "lookup">>
    BY <1>8, <2>1 DEF TypeOK, Held
  <2>3. mutex[e] # h
    BY <1>2, <2>1, <2>2
  <2>4. QED
    BY <1>3, <2>1, <2>2, <2>3 DEF TypeOK, Typed
<1>9. QED
  BY <1>1, <1>5, <1>6, <1>7, <1>8, <1>a DEF TypeOK, Typed, Held

\* What a handler's capture leaves, whether it succeeded or not.
LEMMA CaptureNext ==
    ASSUME TypeOK, NEW h \in Handlers, NEW d \in Devices, NEW ok \in BOOLEAN,
           AfterCapture(h, d, ok)
    PROVE  /\ \E p \in PCs : /\ pc' = [pc EXCEPT ![h] = p]
                             /\ p \notin Devices \X {"lookup", "lock", "capture"}
           /\ answer' \in [Handlers -> {"none", "live", "enrolled", "report", "error"}]
           /\ age' \in [Handlers -> Nat]
           /\ \A g \in Handlers : answer'[g] \in {"live", "enrolled"} => answer'[g] = answer[g]
<1> USE ConstantTypes
<1>1. CASE GoOn(h, <<"ir", "path">>)
  <2>1. PICK p \in PCs : p = <<"ir", "path">>
    OBVIOUS
  <2>2. p \notin Devices \X {"lookup", "lock", "capture"}
    BY <2>1
  <2>3. QED
    BY <1>1, <2>1, <2>2 DEF GoOn, TypeOK, Typed
<1>2. CASE GoOn(h, Judge)
  <2>1. PICK p \in PCs : p = Judge
    OBVIOUS
  <2>2. p \notin Devices \X {"lookup", "lock", "capture"}
    BY <2>1
  <2>3. QED
    BY <1>2, <2>1, <2>2 DEF GoOn, TypeOK, Typed
<1>3. CASE Reply(h, "error")
  <2>1. PICK p \in PCs : p = Done
    OBVIOUS
  <2>2. p \notin Devices \X {"lookup", "lock", "capture"}
    BY <2>1
  <2>3. QED
    BY <1>3, <2>1, <2>2 DEF Reply, TypeOK, Typed
<1>4. QED
  BY <1>1, <1>2, <1>3 DEF AfterCapture

LEMMA TypeCaptured ==
    ASSUME TypeOK, NEW h \in Handlers, NEW d \in Devices, Captured(h, d)
    PROVE  TypeOK'
<1> USE ConstantTypes
<1>1. /\ UNCHANGED <<conf, ready, pinned, dev, events, stuck, mutex, ttl, found, kind, phase>>
      /\ frame' = [frame EXCEPT ![h] = @ \cup {d}]
      /\ lock' = Nobody /\ left' = [left EXCEPT ![h] = 0]
  BY DEF Captured
<1>2. AfterCapture(h, d, TRUE)
  BY Zenon DEF Captured
<1>0. \A e \in Devices : pc[h] # <<e, "lookup">>
  BY DEF Captured
<1>3. /\ answer' \in [Handlers -> {"none", "live", "enrolled", "report", "error"}]
      /\ age' \in [Handlers -> Nat]
  BY <1>2, CaptureNext
<1>4. PICK p \in PCs : pc' = [pc EXCEPT ![h] = p] /\ p \notin Devices \X {"lookup", "lock", "capture"}
  BY <1>2, CaptureNext
<1>a. Phased'
  <2>1. p \notin Devices \X {"lock", "capture"}
    BY <1>4
  <2>2. QED
    BY <1>1, <1>4, <2>1, PhaseKept
<1>5. PICK n \in 0..MaxWait : n = 0
  OBVIOUS
<1>6. left' = [left EXCEPT ![h] = n] /\ (n > 0 => p \in Devices \X {"lookup", "capture"})
  BY <1>1, <1>5 DEF TypeOK, Typed
<1>7. pc' \in [Handlers -> PCs] /\ left' \in [Handlers -> 0..MaxWait] /\ Timed'
  BY <1>4, <1>6, Moved
<1>8. Held'
  BY <1>0, <1>1, <1>4, HeldKept
<1>9. frame' \in [Handlers -> SUBSET Devices] /\ stuck' \in [Devices -> Nat]
  BY <1>1, SMTT(30) DEF TypeOK, Typed
<1>10. QED
  BY <1>1, <1>3, <1>7, <1>8, <1>9, <1>a DEF TypeOK, Typed

LEMMA TypeRefused ==
    ASSUME TypeOK, NEW h \in Handlers, NEW d \in Devices, Refused(h, d)
    PROVE  TypeOK'
<1> USE ConstantTypes
<1>1. /\ UNCHANGED <<conf, ready, pinned, dev, events, stuck, mutex, ttl, found, kind, phase>>
      /\ UNCHANGED frame
      /\ lock' = Nobody /\ left' = [left EXCEPT ![h] = 0]
  BY DEF Refused
<1>2. AfterCapture(h, d, FALSE)
  BY Zenon DEF Refused
<1>0. \A e \in Devices : pc[h] # <<e, "lookup">>
  BY DEF Refused
<1>3. /\ answer' \in [Handlers -> {"none", "live", "enrolled", "report", "error"}]
      /\ age' \in [Handlers -> Nat]
  BY <1>2, CaptureNext
<1>4. PICK p \in PCs : pc' = [pc EXCEPT ![h] = p] /\ p \notin Devices \X {"lookup", "lock", "capture"}
  BY <1>2, CaptureNext
<1>a. Phased'
  <2>1. p \notin Devices \X {"lock", "capture"}
    BY <1>4
  <2>2. QED
    BY <1>1, <1>4, <2>1, PhaseKept
<1>5. PICK n \in 0..MaxWait : n = 0
  OBVIOUS
<1>6. left' = [left EXCEPT ![h] = n] /\ (n > 0 => p \in Devices \X {"lookup", "capture"})
  BY <1>1, <1>5 DEF TypeOK, Typed
<1>7. pc' \in [Handlers -> PCs] /\ left' \in [Handlers -> 0..MaxWait] /\ Timed'
  BY <1>4, <1>6, Moved
<1>8. Held'
  BY <1>0, <1>1, <1>4, HeldKept
<1>9. frame' \in [Handlers -> SUBSET Devices] /\ stuck' \in [Devices -> Nat]
  BY <1>1 DEF TypeOK, Typed
<1>10. QED
  BY <1>1, <1>3, <1>7, <1>8, <1>9, <1>a DEF TypeOK, Typed

LEMMA TypeExpired ==
    ASSUME TypeOK, NEW h \in Handlers, NEW d \in Devices, Expired(h, d)
    PROVE  TypeOK'
<1> USE ConstantTypes
<1>1. /\ UNCHANGED <<conf, ready, pinned, dev, events, mutex, ttl, found, kind, phase>>
      /\ stuck' = [stuck EXCEPT ![d] = @ + 1] /\ UNCHANGED frame
      /\ lock' = Nobody /\ UNCHANGED left /\ left[h] = 0
  BY DEF Expired
<1>2. AfterCapture(h, d, FALSE)
  BY Zenon DEF Expired
<1>0. \A e \in Devices : pc[h] # <<e, "lookup">>
  BY DEF Expired
<1>3. /\ answer' \in [Handlers -> {"none", "live", "enrolled", "report", "error"}]
      /\ age' \in [Handlers -> Nat]
  BY <1>2, CaptureNext
<1>4. PICK p \in PCs : pc' = [pc EXCEPT ![h] = p] /\ p \notin Devices \X {"lookup", "lock", "capture"}
  BY <1>2, CaptureNext
<1>a. Phased'
  <2>1. p \notin Devices \X {"lock", "capture"}
    BY <1>4
  <2>2. QED
    BY <1>1, <1>4, <2>1, PhaseKept
<1>5. PICK n \in 0..MaxWait : n = 0
  OBVIOUS
<1>6. left' = [left EXCEPT ![h] = n] /\ (n > 0 => p \in Devices \X {"lookup", "capture"})
  BY <1>1, <1>5 DEF TypeOK, Typed
<1>7. pc' \in [Handlers -> PCs] /\ left' \in [Handlers -> 0..MaxWait] /\ Timed'
  BY <1>4, <1>6, Moved
<1>8. Held'
  BY <1>0, <1>1, <1>4, HeldKept
<1>9. frame' \in [Handlers -> SUBSET Devices] /\ stuck' \in [Devices -> Nat]
  BY <1>1, SMTT(30) DEF TypeOK, Typed
<1>10. QED
  BY <1>1, <1>3, <1>7, <1>8, <1>9, <1>a DEF TypeOK, Typed

\* Liveness and the gate accept nothing without an IR frame where one is due.
LEMMA LiveNeedsIr ==
    ASSUME TypeOK, NEW s, NEW live, NEW ir \in BOOLEAN,
           evaluate(conf, s, ir) = "Real", ir_gate_check(conf, ready, Reference, live, ir),
           conf.requireIr \/ ready
    PROVE  ir
<1>1. conf.gateOff = FALSE /\ conf.requireIr \in BOOLEAN
  BY DEF TypeOK, Typed
<1>2. CASE ready
  BY <1>1, <1>2 DEF ir_gate_check
<1>3. CASE conf.requireIr
  <2> SUFFICES ASSUME ~ir PROVE FALSE
    OBVIOUS
  <2>1. evaluate(conf, s, ir) \in {"Uncertain", "Spoof"}
    BY <1>3 DEF evaluate
  <2>2. QED
    BY <2>1
<1>4. QED
  BY <1>2, <1>3

\* An evaluation that requires IR finds nothing real without it.
LEMMA RealNeedsIr ==
    ASSUME NEW s, NEW ir \in BOOLEAN, evaluate(conf, s, ir) = "Real", conf.requireIr
    PROVE  ir
<1> SUFFICES ASSUME ~ir PROVE FALSE
  OBVIOUS
<1>1. evaluate(conf, s, ir) \in {"Uncertain", "Spoof"}
  BY DEF evaluate
<1>2. QED
  BY <1>1

\* What a handler replies, or which phase it goes on with.
LEMMA DecideNext ==
    ASSUME TypeOK, NEW h \in Handlers, Decide(h)
    PROVE  \/ \E a \in {"live", "report", "error"} :
                /\ Reply(h, a) /\ UNCHANGED phase
                /\ a = "live" /\ (conf.requireIr \/ ready) => "ir" \in frame[h]
           \/ /\ Enter(h, "save") /\ UNCHANGED <<answer, age>> /\ kind[h] = "enroll"
              /\ conf.requireIr => "ir" \in frame[h]
<1>1. CASE kind[h] = "position"
  BY <1>1 DEF Decide
<1>2. CASE kind[h] # "position"
  <2> DEFINE ir == "ir" \in frame[h]
  <2>1. PICK s \in Signals, live \in Live :
          \/ /\ kind[h] = "enroll" /\ evaluate(conf, s, ir) = "Real"
             /\ Enter(h, "save") /\ UNCHANGED <<answer, age>>
          \/ /\ evaluate(conf, s, ir) = "Real"
             /\ ir_gate_check(conf, ready, Reference, live, ir)
             /\ Reply(h, "live") /\ UNCHANGED phase
          \/ Reply(h, "error") /\ UNCHANGED phase
    BY <1>2, Zenon DEF Decide
  <2>2. ir \in BOOLEAN
    OBVIOUS
  <2>3. evaluate(conf, s, ir) = "Real" /\ conf.requireIr => ir
    BY <2>2, RealNeedsIr
  <2>4. /\ evaluate(conf, s, ir) = "Real" /\ ir_gate_check(conf, ready, Reference, live, ir)
        /\ conf.requireIr \/ ready
        => ir
    BY <2>2, LiveNeedsIr
  <2> HIDE DEF ir
  <2>5. QED
    BY <2>1, <2>3, <2>4 DEF ir
<1>3. QED
  BY <1>1, <1>2

\* A handler at Judge replies.
LEMMA TypeReply ==
    ASSUME TypeOK, NEW h \in Handlers, pc[h] = Judge, NEW a \in {"live", "enrolled", "report", "error"},
           Reply(h, a), UNCHANGED <<fixed, world, stuck, lock, cache, left, phase, frame>>
    PROVE  TypeOK'
<1> USE ConstantTypes
<1>3. PICK p \in PCs : p = Done
  OBVIOUS
<1>4. pc' = [pc EXCEPT ![h] = p]
  BY <1>3 DEF Reply
<1>5. /\ pc[h] \notin Devices \X {"lookup", "capture"}
      /\ \A e \in Devices : pc[h] # <<e, "lookup">>
  OBVIOUS
<1>6. pc' \in [Handlers -> PCs] /\ left' \in [Handlers -> 0..MaxWait] /\ Timed'
  BY <1>4, <1>5, NoDeadline, MovedFree
<1>7. Held'
  BY <1>4, <1>5, HeldKept
<1>8. /\ answer' \in [Handlers -> {"none", "live", "enrolled", "report", "error"}]
      /\ age' \in [Handlers -> Nat]
  BY DEF Reply, TypeOK, Typed
<1>9. Phased'
  <2>1. p \notin Devices \X {"lock", "capture"}
    BY <1>3
  <2>2. QED
    BY <1>4, <2>1, PhaseKept
<1>10. QED
  BY <1>6, <1>7, <1>8, <1>9 DEF TypeOK, Typed

\* A handler at Judge goes on to another phase.
LEMMA TypeEnter ==
    ASSUME TypeOK, NEW h \in Handlers, pc[h] = Judge, NEW q \in {"capture", "save"},
           Enter(h, q), q = "save" => kind[h] = "enroll",
           UNCHANGED <<fixed, world, stuck, lock, cache, left, frame, answer, age>>
    PROVE  TypeOK'
<1> USE ConstantTypes
<1>3. PICK p \in PCs : p = <<"rgb", "path">>
  OBVIOUS
<1>4. pc' = [pc EXCEPT ![h] = p]
  BY <1>3 DEF Enter
<1>5. /\ pc[h] \notin Devices \X {"lookup", "capture"}
      /\ \A e \in Devices : pc[h] # <<e, "lookup">>
  OBVIOUS
<1>6. pc' \in [Handlers -> PCs] /\ left' \in [Handlers -> 0..MaxWait] /\ Timed'
  BY <1>4, <1>5, NoDeadline, MovedFree
<1>7. Held'
  BY <1>4, <1>5, HeldKept
<1>8. Phased' /\ phase' \in [Handlers -> {"binding", "capture", "save"}]
  BY PhaseEntered
<1>9. QED
  BY <1>6, <1>7, <1>8 DEF TypeOK, Typed

LEMMA TypeJudged ==
    ASSUME TypeOK, NEW h \in Handlers, CheckBinding(h) \/ Decide(h) \/ SaveBinding(h)
    PROVE  TypeOK'
<1>1. CASE CheckBinding(h)
  BY <1>1, TypeReply, TypeEnter DEF CheckBinding
<1>2. CASE Decide(h)
  <2>1. pc[h] = Judge /\ UNCHANGED <<fixed, world, stuck, lock, cache, left, frame>>
    BY <1>2, Zenon DEF Decide
  <2>2. QED
    BY <1>2, <2>1, DecideNext, TypeReply, TypeEnter
<1>3. CASE SaveBinding(h)
  BY <1>3, TypeReply DEF SaveBinding
<1>4. QED
  BY <1>1, <1>2, <1>3

\* The devices and the clock leave the handlers where they are.
LEMMA TypeWorld ==
    ASSUME TypeOK, (\E d \in Devices : Unstick(d) \/ Change(d)) \/ Tick
    PROVE  TypeOK'
<1> USE ConstantTypes
<1>1. ASSUME NEW d \in Devices, Unstick(d) PROVE TypeOK'
  <2>1. stuck' \in [Devices -> Nat]
    BY <1>1, SMTT(30) DEF Unstick, TypeOK, Typed
  <2>2. QED
    BY <1>1, <2>1 DEF Unstick, TypeOK, Typed, Timed, Held, Phased
<1>2. ASSUME NEW d \in Devices, Change(d) PROVE TypeOK'
  <2>1. dev' \in [Devices -> {"ok", "wedged", "gone"}] /\ events' \in 0..MaxEvents
    BY <1>2, SMTT(30) DEF Change, TypeOK, Typed
  <2>2. QED
    BY <1>2, <2>1 DEF Change, TypeOK, Typed, Timed, Held, Phased
<1>3. ASSUME Tick PROVE TypeOK'
  <2>1. left' \in [Handlers -> 0..MaxWait] /\ Timed'
    <3>1. left' = [h \in Handlers |-> Less(left[h])] /\ UNCHANGED pc
      BY <1>3 DEF Tick
    <3>2. \A h \in Handlers : left[h] \in 0..MaxWait
      BY DEF TypeOK, Typed
    <3>3. \A h \in Handlers : Less(left[h]) \in 0..MaxWait /\ Less(left[h]) <= left[h]
      BY <3>2 DEF Less
    <3>4. left' \in [Handlers -> 0..MaxWait]
      BY <3>1, <3>3
    <3>5. ASSUME NEW h \in Handlers, left'[h] > 0
          PROVE  pc'[h] \in Devices \X {"lookup", "capture"}
      <4>1. left[h] > 0
        BY <3>1, <3>2, <3>3, <3>5
      <4>2. QED
        BY <3>1, <4>1 DEF TypeOK, Timed
    <3>6. QED
      BY <3>4, <3>5 DEF Timed
  <2>2. ttl' \in [Devices -> 0..RESOLVE_TTL]
    <3>1. ttl' = [d \in Devices |-> Less(ttl[d])] /\ ttl \in [Devices -> 0..RESOLVE_TTL]
      BY <1>3 DEF Tick, TypeOK, Typed
    <3>2. \A d \in Devices : Less(ttl[d]) \in 0..RESOLVE_TTL
      BY <3>1 DEF Less
    <3>3. QED
      BY <3>1, <3>2
  <2>3. age' \in [Handlers -> Nat]
    <3>1. /\ age \in [Handlers -> Nat]
          /\ age' = [h \in Handlers |-> IF pc[h] \in {Idle, Done} \/ age[h] > Budget
                                        THEN age[h] ELSE age[h] + 1]
      BY <1>3 DEF Tick, TypeOK, Typed
    <3>2. QED
      BY <3>1
  <2>4. QED
    BY <1>3, <2>1, <2>2, <2>3 DEF Tick, TypeOK, Typed, Held, Phased
<1>4. QED
  BY <1>1, <1>2, <1>3

LEMMA TypeNext == TypeOK /\ [Next]_vars => TypeOK'
<1> SUFFICES ASSUME TypeOK, [Next]_vars PROVE TypeOK'
  OBVIOUS
<1>1. CASE UNCHANGED vars
  BY <1>1 DEF vars, TypeOK, Typed, Timed, Held, Phased
<1>2. ASSUME NEW h \in Handlers, Arrive(h) \/ HandlerStep(h) PROVE TypeOK'
  BY <1>2, TypeArrive, TypeResolve, TypeLookup, TypeTakeLock, TypeCaptured, TypeRefused,
     TypeExpired, TypeJudged DEF HandlerStep
<1>3. QED
  BY <1>1, <1>2, TypeWorld DEF Next

\* Every variable of the capture path keeps its type, deadlines run only during
\* lookups and captures, and a mutex is held only by a handler that is looking
\* up, whatever the drivers do.
THEOREM TypeCorrect == Spec => []TypeOK
BY TypeInit, TypeNext, PTL DEF Spec

-----------------------------------------------------------------------------
(* One stream at a time, and the IR frame of the request.                   *)

\* OneStream is not inductive: that the second handler cannot start follows from
\* the first one holding CAPTURE_LOCK.
LockHeld == \A h \in Handlers : pc[h] \in Devices \X {"capture"} => lock = h

\* An enrollment that stores its binding was judged with its IR frame.
SaveIr == \A h \in Handlers : phase[h] = "save" /\ conf.requireIr => "ir" \in frame[h]

CaptureInv == TypeOK /\ LockHeld /\ IrOfThisRequest /\ SaveIr

\* A handler that moves to a step other than a capture keeps LockHeld if it
\* leaves the lock alone or gives up the one it holds.
LEMMA LockKept ==
    ASSUME TypeOK, LockHeld, NEW h \in Handlers, NEW p \in PCs, pc' = [pc EXCEPT ![h] = p],
           p \notin Devices \X {"capture"},
           \/ UNCHANGED lock
           \/ lock' = Nobody /\ pc[h] \in Devices \X {"capture"}
    PROVE  LockHeld'
<1> SUFFICES ASSUME NEW g \in Handlers, pc'[g] \in Devices \X {"capture"}
             PROVE  lock' = g
  BY DEF LockHeld
<1>1. g # h /\ pc'[g] = pc[g]
  BY DEF TypeOK, Typed
<1>2. lock = g
  BY <1>1 DEF LockHeld
<1>3. CASE UNCHANGED lock
  BY <1>2, <1>3
<1>4. CASE lock' = Nobody /\ pc[h] \in Devices \X {"capture"}
  BY <1>1, <1>2, <1>4 DEF LockHeld
<1>5. QED
  BY <1>3, <1>4

\* Who was not accepted by this step keeps the frames that were the reason.
LEMMA IrKept ==
    ASSUME IrOfThisRequest, SaveIr, UNCHANGED <<conf, ready>>,
           \A g \in Handlers : answer'[g] \in {"live", "enrolled"} => answer'[g] = answer[g],
           \A g \in Handlers : frame[g] \subseteq frame'[g],
           \A g \in Handlers : phase'[g] = "save" => phase[g] = "save"
    PROVE  IrOfThisRequest' /\ SaveIr'
BY DEF IrOfThisRequest, SaveIr

LEMMA CaptureStep ==
    ASSUME CaptureInv, NEW h \in Handlers, NEW d \in Devices,
           Captured(h, d) \/ Refused(h, d) \/ Expired(h, d)
    PROVE  LockHeld' /\ IrOfThisRequest' /\ SaveIr'
<1> USE ConstantTypes DEF CaptureInv
<1>1. \E ok \in BOOLEAN : AfterCapture(h, d, ok)
  BY Zenon DEF Captured, Refused, Expired
<1>2. /\ \E p \in PCs : /\ pc' = [pc EXCEPT ![h] = p]
                        /\ p \notin Devices \X {"lookup", "lock", "capture"}
      /\ \A g \in Handlers : answer'[g] \in {"live", "enrolled"} => answer'[g] = answer[g]
  BY <1>1, CaptureNext
<1>3. /\ lock' = Nobody /\ pc[h] = <<d, "capture">>
      /\ UNCHANGED <<conf, ready, phase>>
  BY DEF Captured, Refused, Expired
<1>4. \A g \in Handlers : frame[g] \subseteq frame'[g]
  <2>1. frame' = frame \/ frame' = [frame EXCEPT ![h] = @ \cup {d}]
    BY DEF Captured, Refused, Expired
  <2>2. DOMAIN frame = Handlers
    BY DEF TypeOK, Typed
  <2>3. ASSUME NEW g \in Handlers PROVE frame'[g] = frame[g] \/ frame'[g] = frame[g] \cup {d}
    BY <2>1, <2>2
  <2>4. QED
    BY <2>3, Zenon
<1>5. PICK p \in PCs : pc' = [pc EXCEPT ![h] = p] /\ p \notin Devices \X {"lookup", "lock", "capture"}
  BY <1>2
<1>6. p \notin Devices \X {"capture"}
  BY <1>5
<1>7. LockHeld'
  <2>1. pc[h] \in Devices \X {"capture"}
    BY <1>3
  <2>2. QED
    BY <1>3, <1>5, <1>6, <2>1, LockKept
<1>8. QED
  BY <1>2, <1>3, <1>4, <1>7, IrKept

LEMMA PathStep ==
    ASSUME CaptureInv, NEW h \in Handlers, NEW d \in Devices,
           Resolve(h, d) \/ Lookup(h, d)
    PROVE  LockHeld' /\ IrOfThisRequest' /\ SaveIr'
<1> USE ConstantTypes DEF CaptureInv
<1>1. UNCHANGED <<conf, ready, lock, frame, answer, phase>>
  BY DEF Resolve, Lookup
<1>2. PICK p \in PCs : pc' = [pc EXCEPT ![h] = p] /\ p \notin Devices \X {"capture"}
  <2>1. CASE \E yes \in BOOLEAN : AfterPath(h, d, yes)
    <3>1. PICK yes \in BOOLEAN : AfterPath(h, d, yes)
      BY <2>1
    <3>2. \E p \in PCs : /\ pc' = [pc EXCEPT ![h] = p]
                         /\ p \notin Devices \X {"lookup", "capture"}
                         /\ p \in Devices \X {"lock", "capture"} => phase[h] = "capture"
      <4> HIDE ConstantTypes
      <4>1. QED
        BY <3>1, PathNext, ZenonT(30)
    <3>3. QED
      BY <3>2
  <2>2. CASE pc' = [pc EXCEPT ![h] = <<d, "lookup">>]
    <3>1. PICK p \in PCs : p = <<d, "lookup">>
      OBVIOUS
    <3>2. QED
      BY <2>2, <3>1
  <2>3. found[d] \in BOOLEAN /\ (dev[d] # "gone") \in BOOLEAN
    BY DEF TypeOK, Typed
  <2>4. CASE Lookup(h, d)
    BY <2>1, <2>3, <2>4 DEF Lookup
  <2>5. CASE Resolve(h, d)
    BY <2>1, <2>2, <2>3, <2>5 DEF Resolve
  <2>6. QED
    BY <2>4, <2>5
<1>3. LockHeld'
  BY <1>1, <1>2, LockKept
<1>4. QED
  BY <1>1, <1>3, IrKept

LEMMA JudgeStep ==
    ASSUME CaptureInv, NEW h \in Handlers, CheckBinding(h) \/ Decide(h) \/ SaveBinding(h)
    PROVE  LockHeld' /\ IrOfThisRequest' /\ SaveIr'
<1> USE ConstantTypes DEF CaptureInv
<1>1. UNCHANGED <<conf, ready, lock, frame>>
  BY Zenon DEF CheckBinding, Decide, SaveBinding
<1>2. \/ \E a \in {"live", "enrolled", "report", "error"} :
           /\ Reply(h, a) /\ UNCHANGED phase
           /\ a = "live" /\ (conf.requireIr \/ ready) => "ir" \in frame[h]
           /\ a = "enrolled" => phase[h] = "save"
      \/ \E q \in {"capture", "save"} :
           /\ Enter(h, q) /\ UNCHANGED <<answer, age>>
           /\ q = "save" /\ conf.requireIr => "ir" \in frame[h]
  <2>1. CASE CheckBinding(h)
    BY <2>1 DEF CheckBinding
  <2>2. CASE Decide(h)
    BY <2>2, DecideNext
  <2>3. CASE SaveBinding(h)
    BY <2>3 DEF SaveBinding
  <2>4. QED
    BY <2>1, <2>2, <2>3
<1>3. CASE \E a \in {"live", "enrolled", "report", "error"} :
             /\ Reply(h, a) /\ UNCHANGED phase
             /\ a = "live" /\ (conf.requireIr \/ ready) => "ir" \in frame[h]
             /\ a = "enrolled" => phase[h] = "save"
  <2>1. PICK a \in {"live", "enrolled", "report", "error"} :
          /\ Reply(h, a) /\ UNCHANGED phase
          /\ a = "live" /\ (conf.requireIr \/ ready) => "ir" \in frame[h]
          /\ a = "enrolled" => phase[h] = "save"
    BY <1>3
  <2>2. PICK p \in PCs : p = Done
    OBVIOUS
  <2>3. /\ pc' = [pc EXCEPT ![h] = p] /\ p \notin Devices \X {"capture"}
        /\ answer' = [answer EXCEPT ![h] = a]
    BY <2>1, <2>2 DEF Reply
  <2>4. LockHeld'
    BY <1>1, <2>3, LockKept
  <2>5. a = "enrolled" /\ conf.requireIr => "ir" \in frame[h]
    BY <2>1 DEF SaveIr
  <2>6. IrOfThisRequest'
    <3>1. \A g \in Handlers : answer'[g] = IF g = h THEN a ELSE answer[g]
      BY <2>3 DEF TypeOK, Typed
    <3>2. QED
      BY <1>1, <2>1, <2>5, <3>1 DEF IrOfThisRequest
  <2>7. SaveIr'
    BY <1>1, <2>1 DEF SaveIr
  <2>8. QED
    BY <2>4, <2>6, <2>7
<1>4. CASE \E q \in {"capture", "save"} :
             /\ Enter(h, q) /\ UNCHANGED <<answer, age>>
             /\ q = "save" /\ conf.requireIr => "ir" \in frame[h]
  <2>1. PICK q \in {"capture", "save"} :
          /\ Enter(h, q) /\ UNCHANGED <<answer, age>>
          /\ q = "save" /\ conf.requireIr => "ir" \in frame[h]
    BY <1>4
  <2>2. PICK p \in PCs : p = <<"rgb", "path">>
    OBVIOUS
  <2>3. /\ pc' = [pc EXCEPT ![h] = p] /\ p \notin Devices \X {"capture"}
        /\ phase' = [phase EXCEPT ![h] = q]
    BY <2>1, <2>2 DEF Enter
  <2>4. LockHeld'
    BY <1>1, <2>3, LockKept
  <2>5. IrOfThisRequest'
    BY <1>1, <2>1 DEF IrOfThisRequest
  <2>6. SaveIr'
    <3>1. \A g \in Handlers : phase'[g] = IF g = h THEN q ELSE phase[g]
      BY <2>3 DEF TypeOK, Typed
    <3>2. QED
      BY <1>1, <2>1, <3>1 DEF SaveIr
  <2>7. QED
    BY <2>4, <2>5, <2>6
<1>5. QED
  BY <1>2, <1>3, <1>4

LEMMA CaptureInvNext == CaptureInv /\ [Next]_vars => CaptureInv'
<1> SUFFICES ASSUME CaptureInv, [Next]_vars PROVE LockHeld' /\ IrOfThisRequest' /\ SaveIr'
  BY TypeNext DEF CaptureInv
<1> USE ConstantTypes DEF CaptureInv
<1>1. ASSUME NEW h \in Handlers, Arrive(h) PROVE LockHeld' /\ IrOfThisRequest' /\ SaveIr'
  <2>1. PICK p \in PCs : p = <<"rgb", "path">>
    OBVIOUS
  <2>2. /\ pc' = [pc EXCEPT ![h] = p] /\ p \notin Devices \X {"capture"}
        /\ UNCHANGED <<conf, ready, lock, frame, answer>>
    BY <1>1, <2>1 DEF Arrive, Enter
  <2>3. \A g \in Handlers : phase'[g] = "save" => phase[g] = "save"
    <3>1. PICK q \in {"binding", "capture"} : phase' = [phase EXCEPT ![h] = q]
      BY <1>1 DEF Arrive, Enter
    <3>2. QED
      BY <3>1 DEF TypeOK, Typed
  <2>4. QED
    BY <2>2, <2>3, LockKept, IrKept
<1>3. ASSUME NEW h \in Handlers, NEW d \in Devices, TakeLock(h, d)
      PROVE  LockHeld' /\ IrOfThisRequest' /\ SaveIr'
  <2>1. UNCHANGED <<conf, ready, frame, answer, phase>> /\ lock = Nobody /\ lock' = h
    BY <1>3 DEF TakeLock
  <2>2. \A g \in Handlers : g # h => pc'[g] = pc[g]
    BY <1>3 DEF TakeLock, TypeOK, Typed
  <2>3. LockHeld'
    BY <2>1, <2>2 DEF LockHeld
  <2>4. QED
    BY <2>1, <2>3, IrKept
<1>4. ASSUME \/ UNCHANGED vars
             \/ \E d \in Devices : Unstick(d) \/ Change(d)
             \/ Tick
      PROVE  LockHeld' /\ IrOfThisRequest' /\ SaveIr'
  <2>1. UNCHANGED <<conf, ready, lock, frame, answer, pc, phase>>
    BY <1>4 DEF vars, Unstick, Change, Tick
  <2>2. QED
    BY <2>1 DEF LockHeld, IrOfThisRequest, SaveIr
<1>5. ASSUME NEW h \in Handlers, HandlerStep(h) PROVE LockHeld' /\ IrOfThisRequest' /\ SaveIr'
  BY <1>3, <1>5, PathStep, CaptureStep, JudgeStep DEF HandlerStep
<1>6. QED
  BY <1>1, <1>4, <1>5 DEF Next

LEMMA CaptureInvInit == Init => CaptureInv
<1> SUFFICES ASSUME Init PROVE LockHeld /\ IrOfThisRequest /\ SaveIr
  BY TypeInit DEF CaptureInv
<1>1. \A h \in Handlers : pc[h] = Idle /\ answer[h] = "none" /\ phase[h] = "capture"
  BY DEF Init
<1>2. \A h \in Handlers : pc[h] \notin Devices \X {"capture"}
  BY <1>1
<1>3. QED
  BY <1>1, <1>2 DEF LockHeld, IrOfThisRequest, SaveIr

LEMMA CaptureInvAlways == Spec => []CaptureInv
BY CaptureInvInit, CaptureInvNext, PTL DEF Spec

\* CAPTURE_LOCK keeps the captures of any number of handlers apart, also after
\* threads were abandoned in a wedged driver.
THEOREM Streams == Spec => []OneStream
<1>1. CaptureInv => OneStream
  BY DEF CaptureInv, LockHeld, OneStream
<1>2. QED
  BY <1>1, CaptureInvAlways, PTL

\* Whatever the cameras do, a face passes as live only with an IR frame that the
\* same request captured, where IR is required or the user is calibrated, and is
\* enrolled only with one where IR is required.
THEOREM IrCaptured == Spec => []IrOfThisRequest
<1>1. CaptureInv => IrOfThisRequest
  BY DEF CaptureInv
<1>2. QED
  BY <1>1, CaptureInvAlways, PTL

-----------------------------------------------------------------------------
(* Every request is answered in time.                                       *)

\* how much longer a lookup of d may keep a handler that needs its path
Wait(d) == IF mutex[d] # Nobody THEN left[mutex[d]]
           ELSE IF ttl[d] > 0 THEN 0 ELSE ENUMERATE_TIMEOUT

\* the time h may still spend on the lookups of this phase, its own or those it
\* waits for
Here(h) ==
    IF pc[h] = <<"rgb", "path">> THEN Wait("rgb") + ENUMERATE_TIMEOUT
    ELSE IF pc[h] = <<"rgb", "lookup">> THEN left[h] + ENUMERATE_TIMEOUT
    ELSE IF pc[h] \in {<<"rgb", "lock">>, <<"rgb", "capture">>} THEN ENUMERATE_TIMEOUT
    ELSE IF pc[h] = <<"ir", "path">> THEN Wait("ir")
    ELSE IF pc[h] = <<"ir", "lookup">> THEN left[h]
    ELSE 0

\* and of the phase to come
Ahead(h) == IF phase[h] = "binding" \/ (phase[h] = "capture" /\ kind[h] = "enroll")
            THEN 2 * ENUMERATE_TIMEOUT ELSE 0

Search(h) == Here(h) + Ahead(h)

\* the time h may still spend capturing
Owed(h) ==
    IF pc[h] = Idle \/ (phase[h] = "binding" /\ pc[h] # Done) THEN RGB_TIMEOUT + IR_TIMEOUT
    ELSE IF pc[h] \in {Judge, Done} \/ phase[h] = "save" THEN 0
    ELSE IF pc[h] = <<"rgb", "capture">> THEN left[h] + IR_TIMEOUT
    ELSE IF pc[h] = <<"ir", "capture">> THEN left[h]
    ELSE IF pc[h] \in {<<"ir", "path">>, <<"ir", "lookup">>, <<"ir", "lock">>} THEN IR_TIMEOUT
    ELSE RGB_TIMEOUT + IR_TIMEOUT

\* The time all handlers together may still spend capturing, as a set of units:
\* its size is the sum.
Units == {u \in Handlers \X (1 .. RGB_TIMEOUT + IR_TIMEOUT) : u[2] <= Owed(u[1])}

Pending(h) == pc[h] \notin {Idle, Done}

\* A deadline is at most the one that was set, and the lock is only held to capture.
Armed ==
    /\ \A h \in Handlers : \A d \in Devices :
         /\ pc[h] = <<d, "lookup">> => left[h] <= ENUMERATE_TIMEOUT
         /\ pc[h] = <<d, "capture">> => left[h] <= Timeout[d]
    /\ lock # Nobody => \E d \in Devices : pc[lock] = <<d, "capture">>

\* What a request has waited and what it may still have to wait are within the
\* budget: its own lookups and the captures of all.
InBudget ==
    \A h \in Handlers :
        IF Pending(h) THEN age[h] + Search(h) + Cardinality(Units) <= Budget
        ELSE age[h] = 0

TimeInv == CaptureInv /\ Armed /\ InBudget


All == Cardinality(Handlers) * (RGB_TIMEOUT + IR_TIMEOUT)

LEMMA Amounts ==
    /\ RGB_TIMEOUT \in Nat /\ IR_TIMEOUT \in Nat /\ ENUMERATE_TIMEOUT \in Nat
    /\ RESOLVE_TTL \in Nat /\ RESOLVE_TTL > 0
    /\ Timeout["rgb"] = RGB_TIMEOUT /\ Timeout["ir"] = IR_TIMEOUT
    /\ All \in Nat /\ Budget = 4 * ENUMERATE_TIMEOUT + All
<1>1. RGB_TIMEOUT \in Nat /\ IR_TIMEOUT \in Nat /\ IsFiniteSet(Handlers)
  BY CaptureAssumption
<1>2. Cardinality(Handlers) \in Nat
  BY <1>1, FS_CardinalityType
<1>3. All \in Nat
  BY <1>1, <1>2 DEF All
<1>4. QED
  BY <1>1, <1>3, CaptureAssumption DEF Timeout, Budget, All

\* Units can be counted, and there are never more than one request each leaves.
LEMMA Counted ==
    ASSUME NEW U, U \subseteq Handlers \X (1 .. RGB_TIMEOUT + IR_TIMEOUT)
    PROVE  IsFiniteSet(U) /\ Cardinality(U) \in Nat /\ Cardinality(U) <= All
<1> DEFINE n == RGB_TIMEOUT + IR_TIMEOUT
           T == 1 .. n
<1>1. n \in Nat /\ IsFiniteSet(Handlers)
  BY Amounts, CaptureAssumption
<1>2. IsFiniteSet(T) /\ Cardinality(T) = n
  BY <1>1, FS_Interval
<1> HIDE DEF T
<1>3. IsFiniteSet(Handlers \X T) /\ Cardinality(Handlers \X T) = Cardinality(Handlers) * Cardinality(T)
  BY <1>1, <1>2, FS_Product
<1>4. U \in SUBSET (Handlers \X T)
  BY DEF T
<1>5. IsFiniteSet(U) /\ Cardinality(U) <= Cardinality(Handlers \X T)
  BY <1>3, <1>4, FS_Subset
<1>6. Cardinality(U) \in Nat
  BY <1>5, FS_CardinalityType
<1>7. QED
  BY <1>2, <1>3, <1>5, <1>6 DEF All

LEMMA Fewer ==
    ASSUME NEW U, NEW V, U \subseteq V, V \subseteq Handlers \X (1 .. RGB_TIMEOUT + IR_TIMEOUT)
    PROVE  /\ Cardinality(U) <= Cardinality(V)
           /\ \A x \in V : x \notin U => Cardinality(U) <= Cardinality(V) - 1
<1>1. IsFiniteSet(V) /\ Cardinality(V) \in Nat
  BY Counted
<1>2. Cardinality(U) <= Cardinality(V)
  <2>1. U \in SUBSET V
    OBVIOUS
  <2>2. QED
    BY <1>1, <2>1, FS_Subset
<1>3. ASSUME NEW x \in V, x \notin U PROVE Cardinality(U) <= Cardinality(V) - 1
  <2>1. IsFiniteSet(V \ {x}) /\ Cardinality(V \ {x}) = Cardinality(V) - 1
    BY <1>1, FS_RemoveElement
  <2>2. U \in SUBSET (V \ {x})
    BY <1>3
  <2>3. Cardinality(U) <= Cardinality(V \ {x})
    BY <2>1, <2>2, FS_Subset
  <2>4. QED
    BY <2>1, <2>3
<1>4. QED
  BY <1>2, <1>3

\* a handler is at one of these steps
LEMMA Places ==
    ASSUME TypeOK, NEW h \in Handlers
    PROVE  /\ left[h] \in Nat /\ age[h] \in Nat
           /\ \/ pc[h] \in {Idle, Judge, Done}
              \/ \E d \in Devices : pc[h] \in {<<d, "path">>, <<d, "lookup">>, <<d, "lock">>, <<d, "capture">>}
<1>1. pc[h] \in PCs /\ left[h] \in 0 .. MaxWait /\ age[h] \in Nat
  BY DEF TypeOK, Typed
<1>2. left[h] \in Nat
  BY <1>1, ConstantTypes
<1>3. QED
  BY <1>1, <1>2 DEF PCs

LEMMA WaitSize ==
    ASSUME TypeOK, Armed, NEW d \in Devices
    PROVE  Wait(d) \in Nat /\ Wait(d) <= ENUMERATE_TIMEOUT
<1>1. CASE mutex[d] # Nobody
  <2>1. mutex[d] \in Handlers /\ pc[mutex[d]] = <<d, "lookup">>
    BY <1>1 DEF TypeOK, Typed, Held
  <2>2. left[mutex[d]] \in Nat /\ left[mutex[d]] <= ENUMERATE_TIMEOUT
    BY <2>1, Places DEF Armed
  <2>3. QED
    BY <1>1, <2>2 DEF Wait
<1>2. CASE mutex[d] = Nobody
  BY <1>2, Amounts DEF Wait
<1>3. QED
  BY <1>1, <1>2

LEMMA Sizes ==
    ASSUME TypeOK, Armed, NEW h \in Handlers
    PROVE  /\ Search(h) \in Nat
           /\ Owed(h) \in Nat /\ Owed(h) <= RGB_TIMEOUT + IR_TIMEOUT
<1>1. "rgb" \in Devices /\ "ir" \in Devices
  BY DEF Devices
<1>2. left[h] \in Nat /\ Wait("rgb") \in Nat /\ Wait("ir") \in Nat
  BY <1>1, Places, WaitSize
<1>3. Search(h) \in Nat
  BY <1>2, Amounts DEF Search, Here, Ahead
<1>4. pc[h] = <<"rgb", "capture">> => left[h] <= RGB_TIMEOUT
  BY <1>1, Amounts DEF Armed
<1>5. pc[h] = <<"ir", "capture">> => left[h] <= IR_TIMEOUT
  BY <1>1, Amounts DEF Armed
<1>6. QED
  BY <1>2, <1>3, <1>4, <1>5, Amounts DEF Owed


LEMMA WaitKept ==
    ASSUME TypeOK, NEW h \in Handlers, NEW e \in Devices, mutex'[e] = mutex[e], ttl'[e] = ttl[e],
           \A g \in Handlers \ {h} : left'[g] = left[g],
           left'[h] = left[h] \/ pc[h] # <<e, "lookup">>
    PROVE  Wait(e)' = Wait(e)
<1>1. CASE mutex[e] # Nobody
  <2>1. mutex[e] \in Handlers /\ pc[mutex[e]] = <<e, "lookup">>
    BY <1>1 DEF TypeOK, Typed, Held
  <2>2. left'[mutex[e]] = left[mutex[e]]
    BY <2>1
  <2>3. QED
    BY <1>1, <2>2 DEF Wait
<1>2. CASE mutex[e] = Nobody
  BY <1>2 DEF Wait
<1>3. QED
  BY <1>1, <1>2

Sized ==
    /\ \A d \in Devices : Wait(d) \in Nat /\ Wait(d) <= ENUMERATE_TIMEOUT
    /\ \A h \in Handlers : /\ Search(h) \in Nat /\ age[h] \in Nat /\ left[h] \in Nat
                          /\ Owed(h) \in Nat /\ Owed(h) <= RGB_TIMEOUT + IR_TIMEOUT

LEMMA AllSized == TypeOK /\ Armed => Sized
BY Sizes, WaitSize, Places DEF Sized

LEMMA NextSized == TypeOK' /\ Armed' => Sized'
<1>1. (TypeOK /\ Armed => Sized)'
  BY AllSized, PTL
<1>2. QED
  BY <1>1

\* A step of h leaves the others no more to wait for than they had.
LEMMA Settle ==
    ASSUME TimeInv, TypeOK', Armed', NEW h \in Handlers,
           \A g \in Handlers \ {h} : /\ pc'[g] = pc[g] /\ left'[g] = left[g] /\ age'[g] = age[g]
                                     /\ phase'[g] = phase[g],
           UNCHANGED kind,
           \A d \in Devices : Wait(d)' <= Wait(d),
           Owed(h)' <= Owed(h),
           Pending(h)' => \/ Pending(h) /\ age'[h] + Search(h)' <= age[h] + Search(h)
                          \/ age'[h] + Search(h)' <= 4 * ENUMERATE_TIMEOUT,
           ~Pending(h)' => age'[h] = 0
    PROVE  InBudget'
<1>1. TypeOK /\ Armed /\ InBudget /\ Sized /\ Sized'
  BY AllSized, NextSized DEF TimeInv, CaptureInv
<1>2. "rgb" \in Devices /\ "ir" \in Devices
  BY DEF Devices
<1>3. \A g \in Handlers : Owed(g)' <= Owed(g)
  <2>1. \A g \in Handlers \ {h} : Owed(g)' = Owed(g)
    BY DEF Owed
  <2>2. \A g \in Handlers : Owed(g) \in Nat
    BY <1>1 DEF Sized
  <2>3. QED
    BY <2>1, <2>2
<1>4. \A g \in Handlers \ {h} : Search(g)' <= Search(g)
  <2> TAKE g \in Handlers \ {h}
  <2>1. pc'[g] = pc[g] /\ left'[g] = left[g] /\ left[g] \in Nat /\ phase'[g] = phase[g]
    BY <1>1 DEF Sized
  <2>2. /\ Wait("rgb")' <= Wait("rgb") /\ Wait("ir")' <= Wait("ir")
        /\ Wait("rgb") \in Nat /\ Wait("ir") \in Nat
        /\ Wait("rgb")' \in Nat /\ Wait("ir")' \in Nat
    BY <1>1, <1>2 DEF Sized
  <2>3. ENUMERATE_TIMEOUT \in Nat
    BY Amounts
  <2>4. QED
    BY <2>1, <2>2, <2>3 DEF Search, Here, Ahead
<1>5. Cardinality(Units') <= Cardinality(Units) /\ Cardinality(Units) \in Nat
      /\ Cardinality(Units') \in Nat /\ Cardinality(Units') <= All
  <2>1. Units' \subseteq Units
    <3>1. ASSUME NEW u \in Units' PROVE u \in Units
      <4>1. u \in Handlers \X (1 .. RGB_TIMEOUT + IR_TIMEOUT) /\ u[2] <= Owed(u[1])'
        BY <3>1 DEF Units
      <4>2. u[1] \in Handlers /\ u[2] \in Nat
        BY <4>1
      <4>3. Owed(u[1])' <= Owed(u[1]) /\ Owed(u[1])' \in Nat /\ Owed(u[1]) \in Nat
        BY <1>1, <1>3, <4>2 DEF Sized
      <4>4. u[2] <= Owed(u[1])
        BY <4>1, <4>2, <4>3
      <4>5. QED
        BY <4>1, <4>4 DEF Units
    <3>2. QED
      BY <3>1
  <2>2. Units \subseteq Handlers \X (1 .. RGB_TIMEOUT + IR_TIMEOUT)
    BY DEF Units
  <2>3. Units' \subseteq Handlers \X (1 .. RGB_TIMEOUT + IR_TIMEOUT)
    BY <2>1, <2>2
  <2>4. QED
    BY <2>1, <2>2, <2>3, Fewer, Counted
<1>6. Cardinality(Units)' = Cardinality(Units')
  OBVIOUS
<1>7. ASSUME NEW g \in Handlers
      PROVE  IF Pending(g)' THEN age'[g] + Search(g)' + Cardinality(Units') <= Budget ELSE age'[g] = 0
  <2>0. /\ Search(g) \in Nat /\ Search(g)' \in Nat /\ age[g] \in Nat /\ age'[g] \in Nat
        /\ IF Pending(g) THEN age[g] + Search(g) + Cardinality(Units) <= Budget ELSE age[g] = 0
    BY <1>1 DEF Sized, InBudget
  <2>1. CASE g # h
    <3>1. (Pending(g)' <=> Pending(g)) /\ age'[g] = age[g] /\ Search(g)' <= Search(g)
      BY <1>4, <2>1 DEF Pending
    <3>2. QED
      BY <1>5, <2>0, <3>1, Amounts
  <2>2. CASE g = h
    BY <1>5, <2>0, <2>2, Amounts
  <2>3. QED
    BY <2>1, <2>2
<1>8. QED
  BY <1>6, <1>7, Amounts DEF InBudget


LEMMA ArmedKept ==
    ASSUME TimeInv, NEW h \in Handlers,
           \A g \in Handlers \ {h} : pc'[g] = pc[g] /\ left'[g] = left[g],
           \A d \in Devices : /\ pc'[h] = <<d, "lookup">> => left'[h] <= ENUMERATE_TIMEOUT
                              /\ pc'[h] = <<d, "capture">> => left'[h] <= Timeout[d],
           \/ lock' = Nobody
           \/ lock' = h /\ \E d \in Devices : pc'[h] = <<d, "capture">>
           \/ lock' = lock /\ \A d \in Devices : pc[h] # <<d, "capture">>
    PROVE  Armed'
<1>1. TypeOK /\ Armed
  BY DEF TimeInv, CaptureInv
<1>2. \A g \in Handlers : \A d \in Devices :
         /\ pc'[g] = <<d, "lookup">> => left'[g] <= ENUMERATE_TIMEOUT
         /\ pc'[g] = <<d, "capture">> => left'[g] <= Timeout[d]
  BY <1>1 DEF Armed
<1>3. lock' # Nobody => \E d \in Devices : pc'[lock'] = <<d, "capture">>
  <2>1. CASE lock' = lock /\ (\A d \in Devices : pc[h] # <<d, "capture">>) /\ lock # Nobody
    <3>1. lock \in Handlers
      BY <1>1, <2>1 DEF TypeOK, Typed
    <3>2. PICK d \in Devices : pc[lock] = <<d, "capture">>
      BY <1>1, <2>1 DEF Armed
    <3>3. lock # h
      BY <2>1, <3>2
    <3>4. QED
      BY <2>1, <3>1, <3>2, <3>3
  <2>2. QED
    BY <2>1
<1>5. QED
  BY <1>2, <1>3 DEF Armed

\* A handler that has its path, fresh or looked up, goes on without waiting for it.
LEMMA PathPlace ==
    ASSUME TypeOK, NEW h \in Handlers, NEW d \in Devices, NEW yes \in BOOLEAN, AfterPath(h, d, yes)
    PROVE  /\ \/ phase[h] = "capture" /\ pc'[h] = <<d, "lock">>
              \/ phase[h] # "capture" /\ d = "rgb" /\ pc'[h] = <<"ir", "path">>
              \/ d = "ir" /\ pc'[h] = Judge
           /\ \A g \in Handlers \ {h} : pc'[g] = pc[g]
<1>1. pc' = [pc EXCEPT ![h] =
               IF phase[h] # "capture" THEN (IF d = "rgb" THEN <<"ir", "path">> ELSE Judge)
               ELSE IF yes \/ d = "rgb" THEN <<d, "lock">> ELSE Judge]
  BY DEF AfterPath
<1>2. DOMAIN pc = Handlers
  BY DEF TypeOK, Typed
<1>3. d = "rgb" \/ d = "ir"
  BY DEF Devices
<1>4. QED
  BY <1>1, <1>2, <1>3

LEMMA OwedAtPath ==
    ASSUME TypeOK, NEW h \in Handlers, NEW d \in Devices,
           pc[h] = <<d, "path">> \/ pc[h] = <<d, "lookup">>, UNCHANGED phase,
           \/ phase[h] = "capture" /\ pc'[h] = <<d, "lock">>
           \/ phase[h] # "capture" /\ d = "rgb" /\ pc'[h] = <<"ir", "path">>
           \/ d = "ir" /\ pc'[h] = Judge
    PROVE  Owed(h)' <= Owed(h)
<1>1. RGB_TIMEOUT \in Nat /\ IR_TIMEOUT \in Nat
  BY Amounts
<1>2. phase[h] \in {"binding", "capture", "save"}
  BY DEF TypeOK, Typed
<1>3. CASE phase[h] = "binding"
  <2>1. Owed(h) = RGB_TIMEOUT + IR_TIMEOUT /\ Owed(h)' = RGB_TIMEOUT + IR_TIMEOUT
    BY <1>3 DEF Owed
  <2>2. QED
    BY <1>1, <2>1
<1>4. CASE phase[h] = "save"
  <2>1. Owed(h) = 0 /\ Owed(h)' = 0
    BY <1>4 DEF Owed
  <2>2. QED
    BY <2>1
<1>5. CASE phase[h] = "capture" /\ d = "rgb"
  <2>1. Owed(h) = RGB_TIMEOUT + IR_TIMEOUT /\ Owed(h)' = RGB_TIMEOUT + IR_TIMEOUT
    BY <1>5 DEF Owed
  <2>2. QED
    BY <1>1, <2>1
<1>6. CASE phase[h] = "capture" /\ d = "ir"
  <2>1. Owed(h) = IR_TIMEOUT
    BY <1>6 DEF Owed
  <2>2. Owed(h)' = IR_TIMEOUT \/ Owed(h)' = 0
    BY <1>6 DEF Owed
  <2>3. QED
    BY <1>1, <2>1, <2>2
<1>7. QED
  BY <1>2, <1>3, <1>4, <1>5, <1>6 DEF Devices

\* A handler that enters a phase has at most two lookups before it and, in the
\* first phase, at most two more to come.
LEMMA Entered ==
    ASSUME TypeOK, NEW h \in Handlers, NEW q \in {"binding", "capture", "save"}, Enter(h, q),
           UNCHANGED kind, Sized'
    PROVE  /\ pc'[h] = <<"rgb", "path">> /\ phase'[h] = q
           /\ \A g \in Handlers \ {h} : pc'[g] = pc[g] /\ phase'[g] = phase[g]
           /\ Search(h)' \in Nat
           /\ Search(h)' <= IF q = "binding" \/ (q = "capture" /\ kind[h] = "enroll")
                            THEN 4 * ENUMERATE_TIMEOUT ELSE 2 * ENUMERATE_TIMEOUT
           /\ Owed(h)' = IF q = "save" THEN 0 ELSE RGB_TIMEOUT + IR_TIMEOUT
<1>1. /\ pc'[h] = <<"rgb", "path">> /\ phase'[h] = q
      /\ \A g \in Handlers \ {h} : pc'[g] = pc[g] /\ phase'[g] = phase[g]
  BY DEF Enter, TypeOK, Typed
<1>2. Here(h)' = Wait("rgb")' + ENUMERATE_TIMEOUT
  BY <1>1 DEF Here
<1>3. Wait("rgb")' \in Nat /\ Wait("rgb")' <= ENUMERATE_TIMEOUT /\ ENUMERATE_TIMEOUT \in Nat
  BY Amounts DEF Sized, Devices
<1>4. Ahead(h)' = IF q = "binding" \/ (q = "capture" /\ kind[h] = "enroll")
                  THEN 2 * ENUMERATE_TIMEOUT ELSE 0
  BY <1>1 DEF Ahead
<1>5. Search(h)' = Here(h)' + Ahead(h)'
  BY DEF Search
<1>6. Owed(h)' = IF q = "save" THEN 0 ELSE RGB_TIMEOUT + IR_TIMEOUT
  BY <1>1 DEF Owed
<1>7. QED
  BY <1>1, <1>2, <1>3, <1>4, <1>5, <1>6

LEMMA TimeArrive ==
    ASSUME TimeInv, TypeOK', NEW h \in Handlers, Arrive(h)
    PROVE  Armed' /\ InBudget'
<1>1. TypeOK /\ Armed /\ InBudget /\ "rgb" \in Devices
  BY DEF TimeInv, CaptureInv, Devices
<1>0. PICK q \in {"binding", "capture", "save"} : Enter(h, q) /\ q # "save"
  BY DEF Arrive
<1>2. /\ pc[h] = Idle /\ pc'[h] = <<"rgb", "path">>
      /\ \A g \in Handlers \ {h} : pc'[g] = pc[g]
      /\ UNCHANGED <<left, age, lock, mutex, ttl, kind>>
  BY <1>0, <1>1 DEF Arrive, Enter, TypeOK, Typed
<1>3. Armed'
  BY <1>2, ArmedKept
<1>4. Sized /\ Sized'
  BY <1>1, <1>3, AllSized, NextSized
<1>5. \A d \in Devices : Wait(d)' = Wait(d)
  BY <1>2 DEF Wait
<1>6. /\ Search(h)' \in Nat /\ Search(h)' <= 4 * ENUMERATE_TIMEOUT
      /\ Owed(h)' = RGB_TIMEOUT + IR_TIMEOUT
      /\ \A g \in Handlers \ {h} : phase'[g] = phase[g]
  BY <1>0, <1>1, <1>2, <1>4, Entered, Amounts
<1>7. age'[h] = 0 /\ Pending(h)'
  BY <1>1, <1>2, SMTT(30) DEF InBudget, Pending
<1>8. Owed(h) = RGB_TIMEOUT + IR_TIMEOUT
  BY <1>2 DEF Owed
<1>9. \A d \in Devices : Wait(d)' <= Wait(d)
  BY <1>4, <1>5 DEF Sized
<1>10. age'[h] + Search(h)' <= 4 * ENUMERATE_TIMEOUT /\ Owed(h)' <= Owed(h)
  BY <1>6, <1>7, <1>8, Amounts
<1>11. QED
  BY <1>2, <1>3, <1>6, <1>7, <1>9, <1>10, Settle

LEMMA TimeTakeLock ==
    ASSUME TimeInv, TypeOK', NEW h \in Handlers, NEW d \in Devices, TakeLock(h, d)
    PROVE  Armed' /\ InBudget'
<1>1. TypeOK /\ Armed /\ InBudget
  BY DEF TimeInv, CaptureInv
<1>2. /\ pc[h] = <<d, "lock">> /\ pc'[h] = <<d, "capture">> /\ left'[h] = Timeout[d]
      /\ \A g \in Handlers \ {h} : pc'[g] = pc[g] /\ left'[g] = left[g]
      /\ UNCHANGED <<age, mutex, ttl, phase, kind>> /\ lock' = h
  BY <1>1 DEF TakeLock, TypeOK, Typed
<1>3. d = "rgb" \/ d = "ir"
  BY DEF Devices
<1>4. Armed'
  <2>1. left'[h] <= Timeout[d]
    BY <1>2, <1>3, Amounts
  <2>2. QED
    BY <1>2, <2>1, ArmedKept
<1>5. Sized /\ Sized'
  BY <1>1, <1>4, AllSized, NextSized
<1>6. \A e \in Devices : Wait(e)' = Wait(e)
  BY <1>1, <1>2, WaitKept
<1>7. Owed(h)' = Owed(h) /\ Search(h)' = Search(h)
  <2>1. phase[h] = "capture"
    BY <1>1, <1>2 DEF TypeOK, Phased
  <2>2. QED
    BY <1>2, <1>3, <2>1, Amounts DEF Owed, Search, Here, Ahead
<1>8. (\A e \in Devices : Wait(e)' <= Wait(e)) /\ Owed(h)' <= Owed(h)
      /\ age'[h] + Search(h)' <= age[h] + Search(h)
  BY <1>2, <1>5, <1>6, <1>7 DEF Sized
<1>9. Pending(h) /\ Pending(h)'
  BY <1>2 DEF Pending
<1>10. QED
  BY <1>2, <1>4, <1>8, <1>9, Settle


LEMMA TimeResolve ==
    ASSUME TimeInv, TypeOK', NEW h \in Handlers, NEW d \in Devices, Resolve(h, d)
    PROVE  Armed' /\ InBudget'
<1>1. TypeOK /\ Armed /\ InBudget /\ found[d] \in BOOLEAN /\ (dev[d] # "gone") \in BOOLEAN
  BY DEF TimeInv, CaptureInv, TypeOK, Typed
<1>2. pc[h] = <<d, "path">> /\ mutex[d] = Nobody /\ UNCHANGED <<age, lock, phase, kind>>
  BY DEF Resolve
<1>3. d = "rgb" \/ d = "ir"
  BY DEF Devices
<1>4. Sized
  BY <1>1, AllSized
<1>5. CASE \/ ttl[d] > 0 /\ AfterPath(h, d, found[d]) /\ UNCHANGED <<cache, left>>
           \/ /\ ttl[d] = 0 /\ d \in pinned
              /\ AfterPath(h, d, dev[d] # "gone")
              /\ ttl' = [ttl EXCEPT ![d] = RESOLVE_TTL]
              /\ found' = [found EXCEPT ![d] = (dev[d] # "gone")]
              /\ UNCHANGED <<mutex, left>>
  <2>1. /\ \/ phase[h] = "capture" /\ pc'[h] = <<d, "lock">>
           \/ phase[h] # "capture" /\ d = "rgb" /\ pc'[h] = <<"ir", "path">>
           \/ d = "ir" /\ pc'[h] = Judge
        /\ \A g \in Handlers \ {h} : pc'[g] = pc[g]
    <3>1. \E yes \in BOOLEAN : AfterPath(h, d, yes)
      BY <1>1, <1>5, Zenon
    <3>2. QED
      BY <1>1, <3>1, PathPlace
  <2>2. UNCHANGED <<mutex, left>>
    BY <1>5
  <2>3. Armed'
    BY <1>2, <2>1, <2>2, ArmedKept
  <2>4. Sized'
    BY <2>3, NextSized
  <2>5. ASSUME NEW e \in Devices PROVE Wait(e)' <= Wait(e)
    <3>1. CASE ttl'[e] = ttl[e]
      <4>1. Wait(e)' = Wait(e)
        BY <2>2, <3>1 DEF Wait
      <4>2. QED
        BY <1>4, <4>1 DEF Sized
    <3>2. CASE ttl'[e] # ttl[e]
      <4>1. e = d /\ ttl'[d] = RESOLVE_TTL
        BY <1>1, <1>5, <3>2 DEF TypeOK, Typed
      <4>2. Wait(e)' = 0
        BY <1>2, <2>2, <4>1, Amounts DEF Wait
      <4>3. QED
        BY <1>4, <4>2 DEF Sized
    <3>3. QED
      BY <3>1, <3>2
  <2>6. Owed(h)' <= Owed(h)
    BY <1>1, <1>2, <2>1, OwedAtPath
  <2>7. Search(h)' <= Search(h)
    <3>1. Wait(d) \in Nat /\ Wait("ir")' \in Nat /\ Wait("ir")' <= ENUMERATE_TIMEOUT
      BY <1>4, <2>4 DEF Sized, Devices
    <3>2. Ahead(h)' = Ahead(h) /\ Ahead(h) \in Nat
      BY <1>2, Amounts DEF Ahead
    <3>3. Here(h)' \in Nat /\ Here(h) \in Nat /\ Here(h)' <= Here(h)
      BY <1>2, <1>3, <2>1, <3>1, Amounts DEF Here
    <3>4. QED
      BY <3>2, <3>3 DEF Search
  <2>8. age'[h] + Search(h)' <= age[h] + Search(h)
    BY <1>2, <1>4, <2>4, <2>7 DEF Sized
  <2>9. Pending(h) /\ Pending(h)'
    BY <1>2, <2>1 DEF Pending
  <2>10. QED
    BY <1>2, <2>1, <2>2, <2>3, <2>5, <2>6, <2>8, <2>9, Settle
<1>6. CASE /\ ttl[d] = 0 /\ d \notin pinned
           /\ mutex' = [mutex EXCEPT ![d] = h] /\ Arm(h, ENUMERATE_TIMEOUT)
           /\ Goto(h, Step(d, "lookup"))
           /\ UNCHANGED <<ttl, found>>
  <2>1. /\ pc'[h] = <<d, "lookup">> /\ left'[h] = ENUMERATE_TIMEOUT
        /\ \A g \in Handlers \ {h} : pc'[g] = pc[g] /\ left'[g] = left[g]
        /\ mutex'[d] = h /\ \A e \in Devices \ {d} : mutex'[e] = mutex[e]
    BY <1>1, <1>6 DEF TypeOK, Typed
  <2>2. Armed'
    BY <1>2, <2>1, ArmedKept, Amounts
  <2>3. Sized'
    BY <2>2, NextSized
  <2>4. Wait(d) = ENUMERATE_TIMEOUT /\ Wait(d)' = ENUMERATE_TIMEOUT
    <3>1. h # Nobody
      BY ConstantTypes
    <3>2. QED
      BY <1>2, <1>6, <2>1, <3>1 DEF Wait
  <2>5. ASSUME NEW e \in Devices PROVE Wait(e)' = Wait(e)
    <3>1. CASE e # d
      BY <1>1, <1>2, <1>6, <2>1, <3>1, WaitKept
    <3>2. QED
      BY <2>4, <3>1
  <2>6. Owed(h)' = Owed(h)
    BY <1>2, <1>3, <2>1 DEF Owed
  <2>7. Search(h)' = Search(h)
    BY <1>2, <1>3, <2>1, <2>4 DEF Search, Here, Ahead
  <2>8. (\A e \in Devices : Wait(e)' <= Wait(e)) /\ Owed(h)' <= Owed(h)
        /\ age'[h] + Search(h)' <= age[h] + Search(h)
    BY <1>2, <1>4, <2>5, <2>6, <2>7 DEF Sized
  <2>9. Pending(h) /\ Pending(h)'
    BY <1>2, <2>1 DEF Pending
  <2>10. QED
    BY <1>2, <2>1, <2>2, <2>8, <2>9, Settle
<1>7. QED
  BY <1>5, <1>6 DEF Resolve

LEMMA TimeLookup ==
    ASSUME TimeInv, TypeOK', NEW h \in Handlers, NEW d \in Devices, Lookup(h, d)
    PROVE  Armed' /\ InBudget'
<1>1. TypeOK /\ Armed /\ InBudget /\ (dev[d] # "gone") \in BOOLEAN
  BY DEF TimeInv, CaptureInv, TypeOK, Typed
<1>2. /\ pc[h] = <<d, "lookup">> /\ UNCHANGED <<age, lock, phase, kind>>
      /\ AfterPath(h, d, dev[d] # "gone")
      /\ left' = [left EXCEPT ![h] = 0] /\ mutex' = [mutex EXCEPT ![d] = Nobody]
      /\ ttl' = [ttl EXCEPT ![d] = RESOLVE_TTL]
  BY DEF Lookup
<1>3. d = "rgb" \/ d = "ir"
  BY DEF Devices
<1>4. /\ left'[h] = 0 /\ \A g \in Handlers \ {h} : left'[g] = left[g]
      /\ mutex'[d] = Nobody /\ ttl'[d] = RESOLVE_TTL
      /\ \A e \in Devices \ {d} : mutex'[e] = mutex[e] /\ ttl'[e] = ttl[e]
  BY <1>1, <1>2 DEF TypeOK, Typed
<1>5. /\ \/ phase[h] = "capture" /\ pc'[h] = <<d, "lock">>
         \/ phase[h] # "capture" /\ d = "rgb" /\ pc'[h] = <<"ir", "path">>
         \/ d = "ir" /\ pc'[h] = Judge
      /\ \A g \in Handlers \ {h} : pc'[g] = pc[g]
  BY <1>1, <1>2, PathPlace
<1>6. Armed'
  BY <1>2, <1>4, <1>5, ArmedKept
<1>7. Sized /\ Sized'
  BY <1>1, <1>6, AllSized, NextSized
<1>8. ASSUME NEW e \in Devices PROVE Wait(e)' <= Wait(e)
  <2>1. CASE e = d
    <3>1. Wait(e)' = 0
      BY <1>4, <2>1, Amounts DEF Wait
    <3>2. QED
      BY <1>7, <3>1 DEF Sized
  <2>2. CASE e # d
    <3>1. pc[h] # <<e, "lookup">>
      BY <1>2, <2>2
    <3>2. Wait(e)' = Wait(e)
      BY <1>1, <1>4, <2>2, <3>1, WaitKept
    <3>3. QED
      BY <1>7, <3>2 DEF Sized
  <2>3. QED
    BY <2>1, <2>2
<1>9. Owed(h)' <= Owed(h)
  BY <1>1, <1>2, <1>5, OwedAtPath
<1>10. Search(h)' <= Search(h)
  <2>1. left[h] \in Nat /\ Wait("ir")' \in Nat /\ Wait("ir")' <= ENUMERATE_TIMEOUT
    BY <1>7 DEF Sized, Devices
  <2>2. Ahead(h)' = Ahead(h) /\ Ahead(h) \in Nat
    BY <1>2, Amounts DEF Ahead
  <2>3. Here(h)' \in Nat /\ Here(h) \in Nat /\ Here(h)' <= Here(h)
    BY <1>2, <1>3, <1>5, <2>1, Amounts DEF Here
  <2>4. QED
    BY <2>2, <2>3 DEF Search
<1>11. age'[h] + Search(h)' <= age[h] + Search(h)
  BY <1>2, <1>7, <1>10 DEF Sized
<1>12. Pending(h) /\ Pending(h)'
  BY <1>2, <1>5 DEF Pending
<1>13. QED
  BY <1>2, <1>4, <1>5, <1>6, <1>8, <1>9, <1>11, <1>12, Settle

LEMMA TimeCapture ==
    ASSUME TimeInv, TypeOK', NEW h \in Handlers, NEW d \in Devices,
           Captured(h, d) \/ Refused(h, d) \/ Expired(h, d)
    PROVE  Armed' /\ InBudget'
<1>1. TypeOK /\ Armed /\ InBudget
  BY DEF TimeInv, CaptureInv
<1>2. pc[h] = <<d, "capture">> /\ lock' = Nobody /\ UNCHANGED <<mutex, ttl, phase, kind>>
  BY DEF Captured, Refused, Expired
<1>0. phase[h] = "capture"
  <2>1. pc[h] \in Devices \X {"lock", "capture"}
    BY <1>2
  <2>2. QED
    BY <1>1, <2>1 DEF TypeOK, Phased
<1>3. \E ok \in BOOLEAN : AfterCapture(h, d, ok)
  BY Zenon DEF Captured, Refused, Expired
<1>4. left'[h] = 0 /\ \A g \in Handlers \ {h} : left'[g] = left[g]
  <2>1. left' = [left EXCEPT ![h] = 0] \/ (UNCHANGED left /\ left[h] = 0)
    BY DEF Captured, Refused, Expired
  <2>2. QED
    BY <1>1, <2>1 DEF TypeOK, Typed
<1>5. d = "rgb" \/ d = "ir"
  BY DEF Devices
<1>6. /\ \/ d = "rgb" /\ pc'[h] = <<"ir", "path">> /\ age'[h] = age[h]
         \/ d = "rgb" /\ pc'[h] = Done /\ age'[h] = 0
         \/ d = "ir" /\ pc'[h] = Judge /\ age'[h] = age[h]
      /\ \A g \in Handlers \ {h} : pc'[g] = pc[g] /\ age'[g] = age[g]
  <2>1. DOMAIN pc = Handlers /\ DOMAIN age = Handlers
    BY <1>1 DEF TypeOK, Typed
  <2>2. \/ d = "rgb" /\ GoOn(h, <<"ir", "path">>)
        \/ d = "rgb" /\ Reply(h, "error")
        \/ d = "ir" /\ GoOn(h, Judge)
    BY <1>3, <1>5 DEF AfterCapture
  <2>3. QED
    BY <2>1, <2>2 DEF GoOn, Reply
<1>7. Armed'
  <2>1. \A e \in Devices : pc'[h] # <<e, "lookup">> /\ pc'[h] # <<e, "capture">>
    BY <1>6
  <2>2. QED
    BY <1>2, <1>4, <1>6, <2>1, ArmedKept
<1>8. Sized /\ Sized'
  BY <1>1, <1>7, AllSized, NextSized
<1>9. \A e \in Devices : Wait(e)' = Wait(e)
  BY <1>1, <1>2, <1>4, WaitKept
<1>10. \A e \in Devices : Wait(e)' <= Wait(e)
  BY <1>8, <1>9 DEF Sized
<1>11. left[h] \in Nat
  BY <1>8 DEF Sized
<1>12. Owed(h)' <= Owed(h)
  <2>1. IR_TIMEOUT \in Nat
    BY Amounts
  <2>2. CASE d = "rgb"
    <3>1. Owed(h) = left[h] + IR_TIMEOUT
      BY <1>0, <1>2, <2>2 DEF Owed
    <3>2. Owed(h)' = IR_TIMEOUT \/ Owed(h)' = 0
      BY <1>0, <1>2, <1>6, <2>2 DEF Owed
    <3>3. QED
      BY <1>11, <2>1, <3>1, <3>2
  <2>3. CASE d = "ir"
    <3>1. Owed(h) = left[h] /\ Owed(h)' = 0
      BY <1>0, <1>2, <1>6, <2>3 DEF Owed
    <3>2. QED
      BY <1>11, <3>1
  <2>4. QED
    BY <1>5, <2>2, <2>3
<1>13. Pending(h)' => Search(h)' <= Search(h)
  <2>1. Wait("ir")' \in Nat /\ Wait("ir")' <= ENUMERATE_TIMEOUT /\ ENUMERATE_TIMEOUT \in Nat
    BY <1>8, Amounts DEF Sized, Devices
  <2>2. Ahead(h)' = Ahead(h) /\ Ahead(h) \in Nat
    BY <1>2, Amounts DEF Ahead
  <2>3. Here(h) \in Nat
    BY <1>2, <1>5, <2>1 DEF Here
  <2>4. CASE d = "rgb" /\ pc'[h] = <<"ir", "path">>
    <3>1. Here(h)' = Wait("ir")' /\ Here(h) = ENUMERATE_TIMEOUT
      BY <1>2, <2>4 DEF Here
    <3>2. QED
      BY <2>1, <2>2, <3>1 DEF Search
  <2>5. CASE pc'[h] = Judge
    <3>1. Here(h)' = 0
      BY <2>5 DEF Here
    <3>2. QED
      BY <2>2, <2>3, <3>1 DEF Search
  <2>6. QED
    BY <1>6, <2>4, <2>5 DEF Pending
<1>14. Pending(h)' => age'[h] + Search(h)' <= age[h] + Search(h)
  <2>1. Pending(h)' => age'[h] = age[h]
    BY <1>6 DEF Pending
  <2>2. QED
    BY <1>8, <1>13, <2>1 DEF Sized
<1>15. Pending(h) /\ (~Pending(h)' => age'[h] = 0)
  BY <1>2, <1>6 DEF Pending
<1>16. QED
  BY <1>2, <1>4, <1>6, <1>7, <1>10, <1>12, <1>14, <1>15, Settle

LEMMA TimeReply ==
    ASSUME TimeInv, TypeOK', NEW h \in Handlers, pc[h] = Judge, NEW a, Reply(h, a),
           UNCHANGED <<lock, mutex, ttl, left, phase, kind>>
    PROVE  Armed' /\ InBudget'
<1>1. TypeOK /\ Armed /\ InBudget
  BY DEF TimeInv, CaptureInv
<1>4. /\ pc'[h] = Done /\ age'[h] = 0
      /\ \A g \in Handlers \ {h} : pc'[g] = pc[g] /\ age'[g] = age[g]
  BY <1>1 DEF Reply, TypeOK, Typed
<1>5. Armed'
  BY <1>4, ArmedKept
<1>6. Sized
  BY <1>1, AllSized
<1>7. \A e \in Devices : Wait(e)' = Wait(e)
  BY DEF Wait
<1>8. \A e \in Devices : Wait(e)' <= Wait(e)
  BY <1>6, <1>7 DEF Sized
<1>9. Owed(h)' = 0 /\ Owed(h) \in Nat /\ ~Pending(h)'
  BY <1>4, <1>6 DEF Owed, Pending, Sized
<1>10. QED
  BY <1>4, <1>5, <1>8, <1>9, Settle

\* The lookups of a phase to come were counted before it.
LEMMA TimeEnter ==
    ASSUME TimeInv, TypeOK', NEW h \in Handlers, pc[h] = Judge,
           NEW q \in {"capture", "save"}, Enter(h, q),
           IF q = "capture" THEN phase[h] = "binding" ELSE phase[h] = "capture" /\ kind[h] = "enroll",
           UNCHANGED <<lock, mutex, ttl, left, kind, age>>
    PROVE  Armed' /\ InBudget'
<1>1. TypeOK /\ Armed /\ InBudget
  BY DEF TimeInv, CaptureInv
<1>2. /\ pc'[h] = <<"rgb", "path">>
      /\ \A g \in Handlers \ {h} : pc'[g] = pc[g]
  BY <1>1 DEF Enter, TypeOK, Typed
<1>3. Armed'
  BY <1>2, ArmedKept
<1>4. Sized /\ Sized'
  BY <1>1, <1>3, AllSized, NextSized
<1>5. \A d \in Devices : Wait(d)' = Wait(d)
  BY DEF Wait
<1>6. \A d \in Devices : Wait(d)' <= Wait(d)
  BY <1>4, <1>5 DEF Sized
<1>7. q = "capture" => kind[h] = "verify"
  BY <1>1 DEF TypeOK, Phased
<1>8. /\ Search(h)' \in Nat /\ Search(h)' <= 2 * ENUMERATE_TIMEOUT
      /\ Owed(h)' = IF q = "save" THEN 0 ELSE RGB_TIMEOUT + IR_TIMEOUT
      /\ \A g \in Handlers \ {h} : phase'[g] = phase[g]
  BY <1>1, <1>4, <1>7, Entered
<1>9. Search(h) = 2 * ENUMERATE_TIMEOUT
  <2>1. Here(h) = 0 /\ Ahead(h) = 2 * ENUMERATE_TIMEOUT
    BY DEF Here, Ahead
  <2>2. QED
    BY <2>1, Amounts DEF Search
<1>10. Owed(h)' <= Owed(h)
  <2>1. Owed(h) \in Nat /\ (q = "capture" => Owed(h) = RGB_TIMEOUT + IR_TIMEOUT)
    BY <1>4 DEF Owed, Sized
  <2>2. QED
    BY <1>8, <2>1, Amounts
<1>11. age'[h] + Search(h)' <= age[h] + Search(h)
  BY <1>4, <1>8, <1>9, Amounts DEF Sized
<1>12. Pending(h) /\ Pending(h)'
  BY <1>2 DEF Pending
<1>13. QED
  BY <1>2, <1>3, <1>6, <1>8, <1>10, <1>11, <1>12, Settle

LEMMA TimeJudged ==
    ASSUME TimeInv, TypeOK', NEW h \in Handlers, CheckBinding(h) \/ Decide(h) \/ SaveBinding(h)
    PROVE  Armed' /\ InBudget'
<1>0. TypeOK
  BY DEF TimeInv, CaptureInv
<1>1. CASE CheckBinding(h)
  BY <1>1, TimeReply, TimeEnter DEF CheckBinding
<1>2. CASE Decide(h)
  <2>1. pc[h] = Judge /\ phase[h] = "capture" /\ UNCHANGED <<lock, mutex, ttl, left, kind>>
    BY <1>2, Zenon DEF Decide
  <2>2. QED
    BY <1>0, <1>2, <2>1, DecideNext, TimeReply, TimeEnter
<1>3. CASE SaveBinding(h)
  BY <1>3, TimeReply DEF SaveBinding
<1>4. QED
  BY <1>1, <1>2, <1>3


\* When the clock goes on, whoever is pending has less to wait for: a lookup it
\* waits for is nearer to its deadline, or somebody is capturing.
LEMMA TimeTick ==
    ASSUME TimeInv, TypeOK', Tick
    PROVE  Armed' /\ InBudget'
<1>1. TypeOK /\ Armed /\ InBudget /\ LockHeld /\ Sized
  BY AllSized DEF TimeInv, CaptureInv
<1>2. /\ \A h \in Handlers : Waits(h)
      /\ UNCHANGED <<pc, lock, mutex, phase, kind>>
  BY DEF Tick
<1>3. \A h \in Handlers : /\ left[h] \in Nat /\ left'[h] \in Nat /\ left'[h] <= left[h]
                          /\ left[h] > 0 => left'[h] = left[h] - 1
  <2>1. \A h \in Handlers : left'[h] = Less(left[h]) /\ left[h] \in Nat
    BY <1>1 DEF Tick, Sized
  <2>2. QED
    BY <2>1 DEF Less
<1>4. \A h \in Handlers : /\ age[h] \in Nat /\ age'[h] \in Nat /\ age'[h] <= age[h] + 1
                          /\ ~Pending(h) => age'[h] = age[h]
  <2>1. \A h \in Handlers :
          age'[h] = IF pc[h] \in {Idle, Done} \/ age[h] > Budget THEN age[h] ELSE age[h] + 1
    BY DEF Tick
  <2>2. \A h \in Handlers : age[h] \in Nat
    BY <1>1 DEF Sized
  <2>3. QED
    BY <2>1, <2>2 DEF Pending
<1>5. Armed'
  <2>1. ASSUME NEW h \in Handlers, NEW d \in Devices
        PROVE  /\ pc'[h] = <<d, "lookup">> => left'[h] <= ENUMERATE_TIMEOUT
               /\ pc'[h] = <<d, "capture">> => left'[h] <= Timeout[d]
    <3>1. /\ pc[h] = <<d, "lookup">> => left[h] <= ENUMERATE_TIMEOUT
          /\ pc[h] = <<d, "capture">> => left[h] <= Timeout[d]
      BY <1>1 DEF Armed
    <3>2. ENUMERATE_TIMEOUT \in Nat /\ Timeout[d] \in Nat
      BY Amounts DEF Devices
    <3>3. left[h] \in Nat /\ left'[h] \in Nat /\ left'[h] <= left[h] /\ pc'[h] = pc[h]
      BY <1>2, <1>3
    <3>4. QED
      BY <3>1, <3>2, <3>3
  <2>2. QED
    BY <1>1, <1>2, <2>1 DEF Armed
<1>6. Sized'
  BY <1>5, NextSized
<1>7. \A h \in Handlers : Owed(h)' <= Owed(h)
  <2> TAKE h \in Handlers
  <2>1. left[h] \in Nat /\ left'[h] \in Nat /\ left'[h] <= left[h] /\ pc'[h] = pc[h] /\ phase'[h] = phase[h]
    BY <1>2, <1>3
  <2>2. RGB_TIMEOUT \in Nat /\ IR_TIMEOUT \in Nat
    BY Amounts
  <2>3. QED
    BY <2>1, <2>2 DEF Owed
<1>8. ASSUME NEW h \in Handlers, NEW d \in Devices, pc[h] = <<d, "capture">>
      PROVE  left[h] > 0 /\ Owed(h)' = Owed(h) - 1
  <2>1. left[h] > 0
    BY <1>2, <1>8 DEF Waits
  <2>2. d = "rgb" \/ d = "ir"
    BY DEF Devices
  <2>3. /\ left'[h] = left[h] - 1 /\ left[h] \in Nat /\ pc'[h] = pc[h]
        /\ phase'[h] = phase[h] /\ phase[h] = "capture"
    <3>1. pc[h] \in Devices \X {"lock", "capture"}
      BY <1>8
    <3>2. QED
      BY <1>1, <1>2, <1>3, <2>1, <3>1 DEF TypeOK, Phased
  <2>4. IR_TIMEOUT \in Nat
    BY Amounts
  <2>5. QED
    BY <1>8, <2>1, <2>2, <2>3, <2>4 DEF Owed
<1>9. /\ Units' \subseteq Units /\ Units \subseteq Handlers \X (1 .. RGB_TIMEOUT + IR_TIMEOUT)
      /\ \A u \in Handlers \X (1 .. RGB_TIMEOUT + IR_TIMEOUT) : u \in Units' <=> u[2] <= Owed(u[1])'
  <2>1. ASSUME NEW u \in Units' PROVE u \in Units
    <3>1. u \in Handlers \X (1 .. RGB_TIMEOUT + IR_TIMEOUT) /\ u[2] <= Owed(u[1])'
      BY <2>1 DEF Units
    <3>2. u[1] \in Handlers /\ u[2] \in Nat
      BY <3>1
    <3>3. Owed(u[1])' <= Owed(u[1]) /\ Owed(u[1])' \in Nat /\ Owed(u[1]) \in Nat
      BY <1>1, <1>6, <1>7, <3>2 DEF Sized
    <3>4. u[2] <= Owed(u[1])
      BY <3>1, <3>2, <3>3
    <3>5. QED
      BY <3>1, <3>4 DEF Units
  <2>2. QED
    BY <2>1 DEF Units
<1>10. /\ Cardinality(Units') <= Cardinality(Units) /\ Cardinality(Units) \in Nat
       /\ Cardinality(Units') \in Nat
  <2>1. Units' \subseteq Handlers \X (1 .. RGB_TIMEOUT + IR_TIMEOUT)
    BY <1>9
  <2>2. QED
    BY <1>9, <2>1, Fewer, Counted
<1>11. ASSUME NEW h \in Handlers, NEW d \in Devices, pc[h] = <<d, "capture">>
       PROVE  Cardinality(Units') <= Cardinality(Units) - 1
  <2>1. /\ Owed(h) \in Nat /\ Owed(h)' = Owed(h) - 1 /\ Owed(h)' \in Nat
        /\ Owed(h) <= RGB_TIMEOUT + IR_TIMEOUT
    BY <1>1, <1>6, <1>8, <1>11 DEF Sized
  <2>2. Owed(h) \in 1 .. RGB_TIMEOUT + IR_TIMEOUT
    BY <2>1, Amounts
  <2>3. PICK n \in 1 .. RGB_TIMEOUT + IR_TIMEOUT : n = Owed(h)
    BY <2>2
  <2>4. PICK u \in Handlers \X (1 .. RGB_TIMEOUT + IR_TIMEOUT) : u[1] = h /\ u[2] = n
    <3>1. <<h, n>> \in Handlers \X (1 .. RGB_TIMEOUT + IR_TIMEOUT)
      OBVIOUS
    <3>2. <<h, n>>[1] = h /\ <<h, n>>[2] = n
      OBVIOUS
    <3>3. QED
      BY <3>1, <3>2, Zenon
  <2>5. u \in Units
    BY <2>1, <2>3, <2>4 DEF Units
  <2>6. u \notin Units'
    <3>1. ~(u[2] <= Owed(h)') /\ Owed(u[1])' = Owed(h)'
      BY <2>1, <2>3, <2>4
    <3>2. QED
      BY <1>9, <2>4, <3>1
  <2>7. QED
    BY <1>9, <2>5, <2>6, Fewer
<1>12. ASSUME NEW d \in Devices, mutex[d] # Nobody
       PROVE  Wait(d)' = Wait(d) - 1
  <2>1. mutex[d] \in Handlers /\ pc[mutex[d]] = <<d, "lookup">>
    BY <1>1, <1>12 DEF TypeOK, Typed, Held
  <2>2. left[mutex[d]] > 0
    BY <1>2, <2>1 DEF Waits
  <2>3. left'[mutex[d]] = left[mutex[d]] - 1
    BY <1>3, <2>1, <2>2
  <2>4. QED
    BY <1>2, <1>12, <2>3 DEF Wait
<1>13. ASSUME NEW h \in Handlers, Pending(h)
       PROVE  Search(h)' + Cardinality(Units') <= Search(h) + Cardinality(Units) - 1
  <2>0. /\ Search(h) \in Nat /\ Search(h)' \in Nat /\ pc'[h] = pc[h]
        /\ left[h] \in Nat /\ Wait("rgb") \in Nat /\ Wait("ir") \in Nat
        /\ ENUMERATE_TIMEOUT \in Nat
        /\ phase'[h] = phase[h] /\ kind' = kind
    BY <1>1, <1>2, <1>6, Amounts DEF Sized, Devices
  <2>1. PICK d \in Devices : pc[h] \in {<<d, "path">>, <<d, "lookup">>, <<d, "lock">>, <<d, "capture">>}
    <3>1. pc[h] # Judge
      <4>1. /\ Judge \notin {Idle, Done} /\ Judge \notin Devices \X {"lookup", "capture"}
            /\ Judge \notin Devices \X {"lock"} /\ \A e \in Devices : Judge # <<e, "path">>
        BY DEF Devices
      <4>2. Waits(h)
        BY <1>2
      <4>3. QED
        BY <4>1, <4>2, Zenon DEF Waits
    <3>2. \/ pc[h] \in {Idle, Judge, Done}
          \/ \E d \in Devices :
               pc[h] \in {<<d, "path">>, <<d, "lookup">>, <<d, "lock">>, <<d, "capture">>}
      BY <1>1, Places
    <3>3. pc[h] \notin {Idle, Judge, Done}
      BY <1>13, <3>1 DEF Pending
    <3>4. QED
      BY <3>2, <3>3, Zenon
  <2>2. d = "rgb" \/ d = "ir"
    BY DEF Devices
  <2>3. CASE pc[h] = <<d, "path">>
    <3>1. mutex[d] # Nobody
      BY <1>2, <2>3 DEF Waits
    <3>2. Wait(d)' = Wait(d) - 1
      BY <1>12, <3>1
    <3>3. Search(h)' = Search(h) - 1
      BY <2>0, <2>2, <2>3, <3>2 DEF Search, Here, Ahead
    <3>4. QED
      BY <1>10, <2>0, <3>3
  <2>4. CASE pc[h] = <<d, "lookup">>
    <3>1. left[h] > 0
      BY <1>2, <2>4 DEF Waits
    <3>2. left'[h] = left[h] - 1
      BY <1>3, <3>1
    <3>3. Search(h)' = Search(h) - 1
      BY <2>0, <2>2, <2>4, <3>2 DEF Search, Here, Ahead
    <3>4. QED
      BY <1>10, <2>0, <3>3
  <2>5. CASE pc[h] = <<d, "lock">> \/ pc[h] = <<d, "capture">>
    <3>1. Search(h)' = Search(h)
      BY <2>0, <2>2, <2>5 DEF Search, Here, Ahead
    <3>2. \E g \in Handlers, e \in Devices : pc[g] = <<e, "capture">>
      <4>1. CASE pc[h] = <<d, "lock">>
        <5>1. lock # Nobody
          BY <1>2, <4>1 DEF Waits
        <5>2. lock \in Handlers
          BY <1>1, <5>1 DEF TypeOK, Typed
        <5>3. QED
          BY <1>1, <5>1, <5>2 DEF Armed
      <4>2. QED
        BY <2>5, <4>1
    <3>3. Cardinality(Units') <= Cardinality(Units) - 1
      BY <1>11, <3>2
    <3>4. QED
      BY <1>10, <2>0, <3>1, <3>3
  <2>6. QED
    BY <2>1, <2>3, <2>4, <2>5
<1>14. ASSUME NEW h \in Handlers
       PROVE  IF Pending(h)' THEN age'[h] + Search(h)' + Cardinality(Units') <= Budget ELSE age'[h] = 0
  <2>0. /\ Search(h) \in Nat /\ Search(h)' \in Nat /\ (Pending(h)' <=> Pending(h))
        /\ IF Pending(h) THEN age[h] + Search(h) + Cardinality(Units) <= Budget ELSE age[h] = 0
    BY <1>1, <1>2, <1>6 DEF Sized, InBudget, Pending
  <2>1. CASE Pending(h)
    <3>1. Search(h)' + Cardinality(Units') <= Search(h) + Cardinality(Units) - 1
      BY <1>13, <2>1
    <3>2. age[h] \in Nat /\ age'[h] \in Nat /\ age'[h] <= age[h] + 1
      BY <1>4
    <3>3. Budget \in Int
      BY Amounts
    <3>4. QED
      BY <1>10, <2>0, <2>1, <3>1, <3>2, <3>3
  <2>2. CASE ~Pending(h)
    BY <1>4, <2>0, <2>2
  <2>3. QED
    BY <2>1, <2>2
<1>15. Cardinality(Units)' = Cardinality(Units')
  OBVIOUS
<1>16. QED
  BY <1>5, <1>14, <1>15 DEF InBudget

LEMMA TimeStart == Init => TimeInv
<1> SUFFICES ASSUME Init PROVE Armed /\ InBudget
  BY CaptureInvInit DEF TimeInv
<1>1. /\ \A h \in Handlers : pc[h] = Idle /\ age[h] = 0
      /\ lock = Nobody
  BY DEF Init
<1>2. Armed
  BY <1>1 DEF Armed
<1>3. InBudget
  BY <1>1 DEF InBudget, Pending
<1>4. QED
  BY <1>2, <1>3

LEMMA TimeStep == TimeInv /\ [Next]_vars => TimeInv'
<1> SUFFICES ASSUME TimeInv, [Next]_vars PROVE Armed' /\ InBudget'
  BY CaptureInvNext DEF TimeInv
<1>1. TypeOK'
  BY TypeNext DEF TimeInv, CaptureInv
<1>2. CASE UNCHANGED vars \/ \E d \in Devices : Unstick(d) \/ Change(d)
  <2>1. UNCHANGED <<pc, left, age, lock, mutex, ttl, phase, kind>>
    BY <1>2 DEF vars, Unstick, Change
  <2>2. Armed'
    BY <2>1 DEF TimeInv, Armed
  <2>3. \A h \in Handlers : Search(h)' = Search(h) /\ Owed(h)' = Owed(h)
    BY <2>1 DEF Search, Here, Ahead, Owed, Wait
  <2>4. Units' = Units
    BY <2>3 DEF Units
  <2>5. InBudget'
    BY <2>1, <2>3, <2>4 DEF TimeInv, InBudget, Pending
  <2>6. QED
    BY <2>2, <2>5
<1>3. ASSUME NEW h \in Handlers, Arrive(h) \/ HandlerStep(h) PROVE Armed' /\ InBudget'
  BY <1>1, <1>3, TimeArrive, TimeResolve, TimeLookup, TimeTakeLock, TimeCapture, TimeJudged
     DEF HandlerStep
<1>4. QED
  BY <1>1, <1>2, <1>3, TimeTick DEF Next

\* For any number of requests and any deadlines, no request waits longer for its
\* answer than two lookups of each camera (for the binding and for the capture)
\* and one capture of each camera by every handler take, however the drivers hang
\* (run_with_deadline, CAPTURE_LOCK, the path caches, snapshot_camera_binding).
THEOREM InTime == Spec => []AnsweredInTime
<1>1. TimeInv => AnsweredInTime
  <2> SUFFICES ASSUME TimeInv, NEW h \in Handlers PROVE age[h] <= Budget
    BY DEF AnsweredInTime
  <2>1. Sized /\ InBudget
    BY AllSized DEF TimeInv, CaptureInv
  <2>2. age[h] \in Nat /\ Search(h) \in Nat
    BY <2>1 DEF Sized
  <2>3. Cardinality(Units) \in Nat
    <3>1. Units \subseteq Handlers \X (1 .. RGB_TIMEOUT + IR_TIMEOUT)
      BY DEF Units
    <3>2. QED
      BY <3>1, Counted
  <2>4. Budget \in Nat
    BY Amounts
  <2>5. QED
    BY <2>1, <2>2, <2>3, <2>4 DEF InBudget
<1>2. QED
  BY <1>1, TimeStart, TimeStep, PTL DEF Spec


-----------------------------------------------------------------------------
(* The decisions on one capture, for all measurements.                      *)

\* Whatever is measured, the enrollment guide says "ready" exactly when the
\* screen would capture (well_framed of framing_guidance), and a well framed face
\* passes the pose and the size check of the liveness evaluation.
THEOREM FramingForAll ==
    \A angles, fracs, offsets, lums \in SUBSET Int : FramingAgrees(angles, fracs, offsets, lums)
<1> SUFFICES ASSUME NEW angles \in SUBSET Int, NEW fracs \in SUBSET Int,
                    NEW offsets \in SUBSET Int, NEW lums \in SUBSET Int,
                    NEW f \in Frames(angles, fracs, offsets, lums)
             PROVE  /\ well_framed(f) <=> guidance(f) = "ready"
                    /\ well_framed(f) => is_frontal(f.yaw, f.pitch) /\ ~TooFar(f.frac)
  BY DEF FramingAgrees
<1>1. /\ f.count \in 0 .. 2 /\ f.dark \in BOOLEAN
      /\ f.frac \in Int /\ f.yaw \in Int /\ f.pitch \in Int
      /\ f.off_x \in Int /\ f.off_y \in Int
  BY DEF Frames
<1>2. f.face_lum \in Int /\ f.frame_lum \in Int
  BY DEF Frames
<1>3. \A n \in Int : \A b \in Nat : Abs(n) <= b <=> ~(n < -b) /\ ~(n > b)
  BY DEF Abs
<1>4. /\ Abs(f.yaw) <= MAX_ANGLE_DEG <=> ~(f.yaw < -MAX_ANGLE_DEG) /\ ~(f.yaw > MAX_ANGLE_DEG)
      /\ Abs(f.pitch) <= MAX_ANGLE_DEG <=> ~(f.pitch < -MAX_ANGLE_DEG) /\ ~(f.pitch > MAX_ANGLE_DEG)
      /\ Abs(f.off_x) <= CENTER_TOL <=> ~(f.off_x < -CENTER_TOL) /\ ~(f.off_x > CENTER_TOL)
      /\ Abs(f.off_y) <= CENTER_TOL <=> ~(f.off_y < -CENTER_TOL) /\ ~(f.off_y > CENTER_TOL)
  BY <1>1, <1>3 DEF MAX_ANGLE_DEG, CENTER_TOL
<1>5. /\ f.frac >= MIN_FACE_FRAC <=> ~(f.frac < MIN_FACE_FRAC)
      /\ f.frac <= MAX_FRAC <=> ~(f.frac > MAX_FRAC)
      /\ f.face_lum >= DIM_GATE <=> ~(f.face_lum < DIM_GATE)
      /\ f.face_lum <= BRIGHT_GATE <=> ~(f.face_lum > BRIGHT_GATE)
      /\ f.count = 1 <=> f.count # 0 /\ ~(f.count > 1)
  BY <1>1, <1>2 DEF MIN_FACE_FRAC, MAX_FRAC, DIM_GATE, BRIGHT_GATE
<1>6. guidance(f) = "ready" <=>
        /\ f.count # 0 /\ ~f.dark /\ ~(f.count > 1)
        /\ ~(f.frac < MIN_FACE_FRAC) /\ ~(f.frac > MAX_FRAC)
        /\ ~(f.off_y < -CENTER_TOL) /\ ~(f.off_y > CENTER_TOL)
        /\ ~(f.off_x > CENTER_TOL) /\ ~(f.off_x < -CENTER_TOL)
        /\ ~(f.yaw > MAX_ANGLE_DEG) /\ ~(f.yaw < -MAX_ANGLE_DEG)
        /\ ~(f.pitch > MAX_ANGLE_DEG) /\ ~(f.pitch < -MAX_ANGLE_DEG)
        /\ ~backlit(f) /\ ~(f.face_lum < DIM_GATE) /\ ~(f.face_lum > BRIGHT_GATE)
  BY DEF guidance
<1>7. well_framed(f) <=> guidance(f) = "ready"
  BY <1>4, <1>5, <1>6 DEF well_framed
<1>8. well_framed(f) => is_frontal(f.yaw, f.pitch) /\ ~TooFar(f.frac)
  BY <1>5 DEF well_framed, is_frontal, TooFar
<1>9. QED
  BY <1>7, <1>8

\* Whatever the enrollment measured, the IR gate passes the enrolled face, never
\* turns a pass into a rejection for a stronger cue, and rejects a flat, unlit
\* medium once the enrollment has seen one cue clearly (IrCalibration::gate).
THEOREM GateForAll ==
    \A ratios, glints, depths \in SUBSET Nat : GateIsFair(ratios, glints, depths)
<1> SUFFICES ASSUME NEW ratios \in SUBSET Nat, NEW glints \in SUBSET Nat,
                    NEW depths \in SUBSET Nat,
                    NEW ref \in Cues(ratios, glints, depths), NEW live \in Cues(ratios, glints, depths)
             PROVE  /\ (live.ratio >= ref.ratio /\ live.glint >= ref.glint /\ live.depth >= ref.depth)
                         => gate(ref, live)
                    /\ gate(ref, live) =>
                         \A r \in ratios, g \in glints, d \in depths :
                            r >= live.ratio /\ g >= live.glint /\ d >= live.depth
                              => gate(ref, [ratio |-> r, glint |-> g, depth |-> d])
                    /\ ref.ratio > 0 \/ ref.glint > 0 \/ ref.depth >= 120 =>
                         ~gate(ref, [ratio |-> 0, glint |-> 0, depth |-> 100])
  BY DEF GateIsFair
<1>1. /\ ref.ratio \in Nat /\ ref.glint \in Nat /\ ref.depth \in Nat
      /\ live.ratio \in Nat /\ live.glint \in Nat /\ live.depth \in Nat
  BY DEF Cues
<1>2. (live.ratio >= ref.ratio /\ live.glint >= ref.glint /\ live.depth >= ref.depth)
        => gate(ref, live)
  BY <1>1 DEF gate, DepthMinRef
<1>3. ASSUME gate(ref, live), NEW r \in ratios, NEW g \in glints, NEW d \in depths,
             r >= live.ratio, g >= live.glint, d >= live.depth
      PROVE  gate(ref, [ratio |-> r, glint |-> g, depth |-> d])
  <2> DEFINE x == [ratio |-> r, glint |-> g, depth |-> d]
  <2>1. x.ratio = r /\ x.glint = g /\ x.depth = d /\ r \in Nat /\ g \in Nat /\ d \in Nat
    OBVIOUS
  <2> HIDE DEF x
  <2>2. gate(ref, x)
    BY <1>1, <1>3, <2>1 DEF gate, DepthMinRef
  <2>3. QED
    BY <2>2 DEF x
<1>4. ref.ratio > 0 \/ ref.glint > 0 \/ ref.depth >= 120 =>
        ~gate(ref, [ratio |-> 0, glint |-> 0, depth |-> 100])
  BY <1>1 DEF gate, DepthMinRef
<1>5. QED
  BY <1>2, <1>3, <1>4

-----------------------------------------------------------------------------
(* The enrolled floor of a cue, for all samples.                            *)

\* The samples a stable sort does not put behind sample i.
Upto(vals, i) == {j \in DOMAIN vals : vals[j] < vals[i] \/ (vals[j] = vals[i] /\ j <= i)}

\* Sorting gives every place to exactly one sample.
LEMMA PlaceTaken ==
    ASSUME NEW n \in Nat, NEW vals \in [1..n -> Nat], NEW k \in 1..n
    PROVE  \E i \in 1..n : Place(vals, i) = k
<1> DEFINE f == [i \in 1..n |-> Place(vals, i)]
<1>1. IsFiniteSet(1..n) /\ Cardinality(1..n) = n
  BY FS_Interval
<1>2. \A i \in 1..n : IsFiniteSet(Upto(vals, i)) /\ Cardinality(Upto(vals, i)) <= n
  BY <1>1, FS_Subset DEF Upto
<1>3. \A i \in 1..n : Place(vals, i) = Cardinality(Upto(vals, i))
  BY DEF Place, Upto
<1>4. ASSUME NEW i \in 1..n PROVE Place(vals, i) \in 1..n
  <2>1. i \in Upto(vals, i)
    BY DEF Upto
  <2>2. Cardinality(Upto(vals, i)) # 0
    BY <1>2, <2>1, FS_EmptySet
  <2>3. Cardinality(Upto(vals, i)) \in Nat
    BY <1>2, FS_CardinalityType
  <2>4. QED
    BY <1>2, <1>3, <2>2, <2>3
<1>5. ASSUME NEW i \in 1..n, NEW j \in 1..n, i # j, Place(vals, i) = Place(vals, j)
      PROVE  FALSE
  <2>1. ASSUME NEW a \in 1..n, NEW b \in 1..n, a # b, a \in Upto(vals, b),
               Place(vals, a) = Place(vals, b)
        PROVE  FALSE
    <3>1. vals[a] \in Nat /\ vals[b] \in Nat
      OBVIOUS
    <3>2. b \in Upto(vals, b) /\ b \notin Upto(vals, a)
      BY <2>1, <3>1 DEF Upto
    <3>3. Upto(vals, a) \subseteq Upto(vals, b)
      BY <2>1, <3>1 DEF Upto
    <3>4. QED
      BY <1>2, <1>3, <2>1, <3>2, <3>3, FS_Subset
  <2>2. i \in Upto(vals, j) \/ j \in Upto(vals, i)
    <3>1. vals[i] \in Nat /\ vals[j] \in Nat
      OBVIOUS
    <3>2. QED
      BY <3>1 DEF Upto
  <2>3. QED
    BY <1>5, <2>1, <2>2
<1>6. f \in Injection(1..n, 1..n)
  <2>1. f \in [1..n -> 1..n]
    BY <1>4
  <2>2. \A a, b \in 1..n : f[a] = f[b] => a = b
    BY <1>5
  <2>3. QED
    BY <2>1, <2>2 DEF Injection, IsInjective
<1>7. f \in Surjection(1..n, 1..n)
  BY <1>1, <1>6, FS_Injection
<1>8. QED
  BY <1>7 DEF Surjection

\* The floor is the sample a fifth of the way up.
LEMMA FloorSample ==
    ASSUME NEW n \in Nat \ {0}, NEW vals \in [1..n -> Nat]
    PROVE  \E i \in 1..n : Place(vals, i) = n \div 5 + 1 /\ robust_low(vals) = vals[i]
<1>1. Len(vals) = n /\ DOMAIN vals = 1..n
  OBVIOUS
<1>2. n \div 5 + 1 \in 1..n /\ n \div 5 < n
  OBVIOUS
<1>3. PICK i \in 1..n : i = CHOOSE j \in 1..n : Place(vals, j) = n \div 5 + 1
  BY <1>2, PlaceTaken
<1>4. Place(vals, i) = n \div 5 + 1
  BY <1>2, <1>3, PlaceTaken
<1>5. sort(vals)[n \div 5 + 1] = vals[i]
  BY <1>1, <1>2, <1>3 DEF sort
<1>6. QED
  BY <1>1, <1>2, <1>4, <1>5 DEF robust_low


\* For all samples: the floor the gate compares with is one of the samples, at most
\* a fifth of them are below it, and one capture that measured nothing sets it
\* where there are fewer than five and not otherwise (IrCalibration::robust_low).
THEOREM FloorForAll ==
    \A values, lengths \in SUBSET Nat : FloorIsRobust(values, lengths)
<1> SUFFICES ASSUME NEW n \in Nat, NEW vals \in [1..n -> Nat]
             PROVE  RobustFloor(n, vals)
  <2> SUFFICES ASSUME NEW values \in SUBSET Nat, NEW lengths \in SUBSET Nat,
                      NEW n \in lengths, NEW vals \in [1..n -> values]
               PROVE  RobustFloor(n, vals)
    BY DEF FloorIsRobust
  <2>1. n \in Nat /\ vals \in [1..n -> Nat]
    OBVIOUS
  <2>2. QED
    BY <2>1
<1>1. n > 0 => \E j \in 1..n : robust_low(vals) = vals[j]
  BY FloorSample
<1>2. Cardinality({j \in 1..n : vals[j] < robust_low(vals)}) <= n \div 5
  <2> DEFINE Low == {j \in 1..n : vals[j] < robust_low(vals)}
  <2>1. CASE n = 0
    <3>1. Low = {}
      BY <2>1
    <3>2. QED
      BY <2>1, <3>1, FS_EmptySet
  <2>2. CASE n > 0
    <3>1. PICK m \in 1..n : Place(vals, m) = n \div 5 + 1 /\ robust_low(vals) = vals[m]
      BY <2>2, FloorSample
    <3>2. IsFiniteSet(Upto(vals, m)) /\ Cardinality(Upto(vals, m)) = n \div 5 + 1
      <4>1. IsFiniteSet(1..n)
        BY FS_Interval
      <4>2. QED
        BY <3>1, <4>1, FS_Subset DEF Upto, Place
    <3>3. vals[m] \in Nat /\ m \in Upto(vals, m) /\ n \div 5 \in Nat
      BY DEF Upto
    <3>4. /\ IsFiniteSet(Upto(vals, m) \ {m})
          /\ Cardinality(Upto(vals, m) \ {m}) = n \div 5
      <4>1. /\ IsFiniteSet(Upto(vals, m) \ {m})
            /\ Cardinality(Upto(vals, m) \ {m}) = Cardinality(Upto(vals, m)) - 1
        BY <3>2, <3>3, FS_RemoveElement, Zenon
      <4>2. QED
        BY <3>2, <3>3, <4>1
    <3>5. Low \subseteq Upto(vals, m) \ {m}
      <4>1. \A j \in 1..n : vals[j] < vals[m] => j \in Upto(vals, m) /\ j # m
        BY <3>3 DEF Upto
      <4>2. QED
        BY <3>1, <4>1
    <3>6. QED
      BY <3>4, <3>5, FS_Subset
  <2>3. QED
    BY <2>1, <2>2
<1>3. ASSUME n >= 5, NEW i \in 1..n
      PROVE  \E j \in (1..n) \ {i} : robust_low([vals EXCEPT ![i] = 0]) >= vals[j]
  <2> DEFINE w == [vals EXCEPT ![i] = 0]
  <2>1. w \in [1..n -> Nat] /\ w[i] = 0 /\ \A j \in (1..n) \ {i} : w[j] = vals[j]
    OBVIOUS
  <2> HIDE DEF w
  <2>2. PICK m \in 1..n : Place(w, m) = n \div 5 + 1 /\ robust_low(w) = w[m]
    BY <1>3, <2>1, FloorSample
  <2>3. CASE m # i
    <3>1. robust_low(w) = vals[m] /\ vals[m] \in Nat
      BY <2>1, <2>2, <2>3
    <3>2. QED
      BY <2>3, <3>1 DEF w
  <2>4. CASE m = i
    <3>1. IsFiniteSet(Upto(w, i)) /\ Cardinality(Upto(w, i)) >= 2
      <4>1. IsFiniteSet(1..n)
        BY FS_Interval
      <4>2. IsFiniteSet(Upto(w, i))
        BY <2>1, <4>1, FS_Subset DEF Upto
      <4>3. Cardinality(Upto(w, i)) = n \div 5 + 1
        BY <2>2, <2>4 DEF Upto, Place
      <4>4. QED
        BY <1>3, <4>2, <4>3
    <3>2. Upto(w, i) # {i}
      <4>1. Cardinality({i}) = 1
        BY FS_Singleton, Zenon
      <4>2. SUFFICES ASSUME Upto(w, i) = {i} PROVE FALSE
        OBVIOUS
      <4>3. Cardinality(Upto(w, i)) = 1
        BY <4>1, <4>2, Zenon
      <4>4. QED
        BY <3>1, <4>3
    <3>3. i \in Upto(w, i)
      BY <2>1 DEF Upto
    <3>4. PICK j \in Upto(w, i) : j # i
      BY <3>2, <3>3
    <3>5. j \in (1..n) \ {i} /\ w[j] <= 0
      BY <2>1, <3>4 DEF Upto
    <3>6. robust_low(w) = 0 /\ vals[j] <= 0
      BY <2>1, <2>2, <2>4, <3>5
    <3>7. QED
      BY <3>5, <3>6 DEF w
  <2>5. QED
    BY <2>3, <2>4 DEF w
<1>4. ASSUME n < 5, NEW i \in 1..n
      PROVE  robust_low([vals EXCEPT ![i] = 0]) = 0
  <2> DEFINE w == [vals EXCEPT ![i] = 0]
  <2>1. w \in [1..n -> Nat] /\ w[i] = 0 /\ n \in Nat \ {0} /\ n \div 5 = 0
    BY <1>4
  <2> HIDE DEF w
  <2>a. PICK m \in 1..n : Place(w, m) = n \div 5 + 1 /\ robust_low(w) = w[m]
    BY <2>1, FloorSample
  <2>2. Place(w, m) = 1 /\ robust_low(w) = w[m]
    BY <2>1, <2>a
  <2>3. IsFiniteSet(Upto(w, m)) /\ Cardinality(Upto(w, m)) = 1
    <3>1. IsFiniteSet(1..n)
      BY FS_Interval
    <3>2. QED
      BY <2>1, <2>2, <3>1, FS_Subset DEF Upto, Place
  <2>4. m \in Upto(w, m)
    BY <2>1 DEF Upto
  <2>5. /\ IsFiniteSet(Upto(w, m) \ {m})
        /\ Cardinality(Upto(w, m) \ {m}) = Cardinality(Upto(w, m)) - 1
    BY <2>3, <2>4, FS_RemoveElement, Zenon
  <2>6. Upto(w, m) \ {m} = {}
    <3>1. Cardinality(Upto(w, m) \ {m}) = 0
      BY <2>3, <2>5
    <3>2. QED
      BY <2>5, <3>1, FS_EmptySet, Zenon
  <2>7. w[m] \in Nat /\ (w[m] > 0 => i \in Upto(w, m) /\ i # m)
    BY <2>1 DEF Upto
  <2>8. w[m] = 0
    BY <2>6, <2>7
  <2>9. QED
    BY <2>2, <2>8 DEF w
<1>5. QED
  BY <1>1, <1>2, <1>3, <1>4 DEF RobustFloor

\* Every position report is one whose advice, well_framed and the liveness check
\* agree, for every set of measurements (framing_guidance, capture_position_sample).
THEOREM Reports == Spec => []ReportAgrees
<1>1. ReportAgrees
  BY CaptureAssumption, FramingForAll DEF ReportAgrees, Framing
<1>2. QED
  BY <1>1, PTL

\* Wherever the user is calibrated the gate is fair, for every set of samples and
\* cues (IrCalibration::robust_low, gate).
THEOREM Gated == Spec => []FairGate
<1>1. FairGate
  BY CaptureAssumption, FloorForAll, GateForAll DEF FairGate, Floor, Fair
<1>2. QED
  BY <1>1, PTL

=============================================================================

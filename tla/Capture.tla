------------------------------ MODULE Capture ------------------------------
(***************************************************************************)
(* Handlers of the daemon that capture a face, sharing the two cameras     *)
(* (camera.rs, linhello-biometrics lib.rs, the daemon's main.rs).  Each    *)
(* resolves the RGB camera, captures under CAPTURE_LOCK, looks for a face, *)
(* does the same with the IR camera, and decides.  "verify" stands for     *)
(* Verify, Authenticate and Unseal, which first resolve both cameras to    *)
(* compare them with the enrolled binding and pass the calibrated IR gate  *)
(* at the end; "enroll" for Enroll, which resolves them once more to store *)
(* the binding and is not gated; "position" for PositionSample.  Identify, *)
(* whose lookups grow with the number of profiles, is left out.            *)
(*                                                                         *)
(* A resolved path is cached for RESOLVE_TTL; the lookup holds the cache's *)
(* mutex.  Lookup and capture run on a thread of their own, abandoned when *)
(* the deadline passes; a thread that sits in a wedged driver keeps the    *)
(* device, not the lock.                                                   *)
(*                                                                         *)
(* Time is discrete and passes only when no handler can step without it:   *)
(* computation takes none, the lookups, the captures and the waits do.     *)
(***************************************************************************)
EXTENDS Liveness

CONSTANTS Handlers,   \* requests, each served by a thread of its own
          Requests,   \* what they may ask for: "verify", "enroll", "position"
          RGB_TIMEOUT, IR_TIMEOUT, ENUMERATE_TIMEOUT, RESOLVE_TTL,
          Setups,     \* whether IR is required, whether the user is calibrated,
                      \* which cameras cameras.conf pins
          Signals,    \* what a burst may measure (see evaluate)
          Grid,       \* the measurements the promises of Liveness are about
          MaxEvents   \* bound: how often a device changes

Devices == {"rgb", "ir"}
Nobody  == "nobody"
Timeout == [rgb |-> RGB_TIMEOUT, ir |-> IR_TIMEOUT]

\* Each handler makes one request.  It looks up both cameras for the capture and
\* once more for the binding, and a lookup takes at most one deadline; of the
\* lock, every handler has at most one capture of each camera.
Budget == 4 * ENUMERATE_TIMEOUT + Cardinality(Handlers) * (RGB_TIMEOUT + IR_TIMEOUT)

ASSUME CaptureAssumption ==
    /\ IsFiniteSet(Handlers) /\ Nobody \notin Handlers
    /\ Requests \subseteq [Handlers -> {"verify", "enroll", "position"}]
    /\ {RGB_TIMEOUT, IR_TIMEOUT, ENUMERATE_TIMEOUT, RESOLVE_TTL} \subseteq Nat \ {0}
    /\ Setups \subseteq [requireIr : BOOLEAN, ready : BOOLEAN, pinned : SUBSET Devices]
    /\ Grid \in [angles : SUBSET Int, fracs : SUBSET Int, offsets : SUBSET Int, lums : SUBSET Int,
                 samples : SUBSET Nat, lengths : SUBSET Nat,
                 ratios : SUBSET Nat, glints : SUBSET Nat, depths : SUBSET Nat]
    /\ MaxEvents \in Nat

VARIABLES
    conf,    \* the evaluator's and the gate's configuration
    ready,   \* the user's IR calibration is ready
    pinned,  \* cameras named in cameras.conf
    kind,    \* what each handler is asked for
    dev,     \* each device: "ok", "wedged", "gone"
    stuck,   \* abandoned threads that still hold each device
    lock,    \* holder of CAPTURE_LOCK
    mutex,   \* holder of each path cache
    ttl, found, \* what is left of a cached path's time; whether there is a path
    pc, left, \* each handler: step, time to the deadline
    phase,  \* each handler: what it resolves the cameras for
    frame,  \* each handler: cameras it has a frame of
    answer, \* each handler: its reply
    age,    \* history: how long a request has been waiting for its answer
    events

world == <<dev, events>>
cache == <<mutex, ttl, found>>
local == <<phase, frame, answer, age>>
fixed == <<conf, ready, pinned, kind>>
vars  == <<fixed, world, stuck, lock, cache, pc, left, local>>

Step(d, s) == <<d, s>>  \* s is "path", "lookup", "lock" or "capture"
Idle   == <<"-", "idle">>
Judge  == <<"-", "decide">>
Done   == <<"-", "done">>

Init ==
    /\ \E s \in Setups :
         /\ conf = [requireIr |-> s.requireIr, temporal |-> FALSE, gateOff |-> FALSE]
         /\ ready = s.ready /\ pinned = s.pinned
    /\ dev = [d \in Devices |-> "ok"] /\ events = 0
    /\ stuck = [d \in Devices |-> 0] /\ lock = Nobody
    /\ mutex = [d \in Devices |-> Nobody]
    /\ ttl = [d \in Devices |-> 0] /\ found = [d \in Devices |-> FALSE]
    /\ pc = [h \in Handlers |-> Idle] /\ left = [h \in Handlers |-> 0]
    /\ kind \in Requests /\ phase = [h \in Handlers |-> "capture"]
    /\ frame = [h \in Handlers |-> {}]
    /\ answer = [h \in Handlers |-> "none"] /\ age = [h \in Handlers |-> 0]

Goto(h, s) == pc' = [pc EXCEPT ![h] = s]
Arm(h, n)  == left' = [left EXCEPT ![h] = n]

Enter(h, p) == Goto(h, Step("rgb", "path")) /\ phase' = [phase EXCEPT ![h] = p]

\* load_user_samples comes first in a verification; the binding is not looked at
\* where none was stored.
Arrive(h) ==
    /\ pc[h] = Idle
    /\ Enter(h, "capture") \/ (kind[h] = "verify" /\ Enter(h, "binding"))
    /\ UNCHANGED <<fixed, world, stuck, lock, cache, left, frame, answer, age>>

Reply(h, a) == /\ Goto(h, Done) /\ answer' = [answer EXCEPT ![h] = a]
               /\ age' = [age EXCEPT ![h] = 0]
GoOn(h, s) == Goto(h, s) /\ UNCHANGED <<answer, age>>

-----------------------------------------------------------------------------
(* rgb_device, ir_device.                                                   *)

\* The RGB camera has a default path; without an IR path the IR capture is
\* left out.  For the binding only the paths are needed (snapshot_camera_binding).
AfterPath(h, d, yes) ==
    Goto(h, IF phase[h] # "capture" THEN (IF d = "rgb" THEN Step("ir", "path") ELSE Judge)
            ELSE IF yes \/ d = "rgb" THEN Step(d, "lock") ELSE Judge)

\* A fresh entry is used; a pinned camera is read from cameras.conf (the IR
\* one must exist); otherwise the devices are enumerated, under the mutex.
Resolve(h, d) ==
    /\ pc[h] = Step(d, "path") /\ mutex[d] = Nobody
    /\ \/ ttl[d] > 0 /\ AfterPath(h, d, found[d]) /\ UNCHANGED <<cache, left>>
       \/ /\ ttl[d] = 0 /\ d \in pinned
          /\ AfterPath(h, d, dev[d] # "gone")
          /\ ttl' = [ttl EXCEPT ![d] = RESOLVE_TTL]
          /\ found' = [found EXCEPT ![d] = (dev[d] # "gone")]
          /\ UNCHANGED <<mutex, left>>
       \/ /\ ttl[d] = 0 /\ d \notin pinned
          /\ mutex' = [mutex EXCEPT ![d] = h] /\ Arm(h, ENUMERATE_TIMEOUT)
          /\ Goto(h, Step(d, "lookup"))
          /\ UNCHANGED <<ttl, found>>
    /\ UNCHANGED <<fixed, world, stuck, lock, local>>

\* Mutant of Lookup: the enumeration has no deadline.
LookupWaits(h, d) ==
    /\ pc[h] = Step(d, "lookup") /\ \A e \in Devices : dev[e] # "wedged"
    /\ mutex' = [mutex EXCEPT ![d] = Nobody]
    /\ ttl' = [ttl EXCEPT ![d] = RESOLVE_TTL]
    /\ found' = [found EXCEPT ![d] = (dev[d] # "gone")]
    /\ AfterPath(h, d, dev[d] # "gone") /\ Arm(h, 0)
    /\ UNCHANGED <<fixed, world, stuck, lock, local>>

\* enumerate: it opens every node, so one wedged node holds it up until the
\* deadline, which counts as no cameras: the default paths are tried.
Lookup(h, d) ==
    /\ pc[h] = Step(d, "lookup")
    /\ (\A e \in Devices : dev[e] # "wedged") \/ left[h] = 0
    /\ mutex' = [mutex EXCEPT ![d] = Nobody]
    /\ ttl' = [ttl EXCEPT ![d] = RESOLVE_TTL]
    /\ found' = [found EXCEPT ![d] = (dev[d] # "gone")]
    /\ AfterPath(h, d, dev[d] # "gone") /\ Arm(h, 0)
    /\ UNCHANGED <<fixed, world, stuck, lock, local>>

-----------------------------------------------------------------------------
(* capture_burst, capture_from, capture_ir_from.                            *)

\* Mutant of TakeLock: the lock is not taken.
TakeNoLock(h, d) ==
    /\ pc[h] = Step(d, "lock")
    /\ Goto(h, Step(d, "capture")) /\ Arm(h, Timeout[d])
    /\ UNCHANGED <<fixed, world, stuck, lock, cache, local>>

TakeLock(h, d) ==
    /\ pc[h] = Step(d, "lock") /\ lock = Nobody /\ lock' = h
    /\ Goto(h, Step(d, "capture")) /\ Arm(h, Timeout[d])
    /\ UNCHANGED <<fixed, world, stuck, cache, local>>

\* A failed RGB capture, or one without a face, is the reply of the request,
\* except that the guide goes on without a face; a failed IR capture means no
\* IR frame.
AfterCapture(h, d, ok) ==
    IF d = "rgb"
    THEN \/ ok /\ GoOn(h, Step("ir", "path"))
         \/ ~(ok /\ kind[h] = "position") /\ Reply(h, "error")
    ELSE GoOn(h, Judge)

\* The device delivers: not wedged, gone or held by an abandoned thread.  The
\* formats tried, the frames warmed up with and decoded are not told apart.
Captured(h, d) ==
    /\ pc[h] = Step(d, "capture") /\ dev[d] = "ok" /\ stuck[d] = 0
    /\ frame' = [frame EXCEPT ![h] = @ \cup {d}]
    /\ lock' = Nobody /\ Arm(h, 0) /\ AfterCapture(h, d, TRUE)
    /\ UNCHANGED <<fixed, world, stuck, cache, phase>>

\* It does not: the node is gone or busy, its privacy shutter is closed, it
\* offers no format that can be decoded.
Refused(h, d) ==
    /\ pc[h] = Step(d, "capture") /\ dev[d] # "wedged"
    /\ lock' = Nobody /\ Arm(h, 0) /\ AfterCapture(h, d, FALSE)
    /\ UNCHANGED <<fixed, world, stuck, cache, phase, frame>>

\* Mutant of Expired: the deadline is followed by a second attempt.
ExpiredTwice(h, d) ==
    /\ pc[h] = Step(d, "capture") /\ left[h] = 0
    /\ stuck' = [stuck EXCEPT ![d] = @ + 1]
    /\ IF stuck[d] = 0 THEN Arm(h, Timeout[d]) /\ UNCHANGED <<lock, answer, age, pc>>
                       ELSE lock' = Nobody /\ UNCHANGED left /\ AfterCapture(h, d, FALSE)
    /\ UNCHANGED <<fixed, world, cache, phase, frame>>

\* run_with_deadline gives up on the thread, which keeps the device.
Expired(h, d) ==
    /\ pc[h] = Step(d, "capture") /\ left[h] = 0
    /\ stuck' = [stuck EXCEPT ![d] = @ + 1]
    /\ lock' = Nobody /\ AfterCapture(h, d, FALSE)
    /\ UNCHANGED <<fixed, world, cache, left, phase, frame>>

\* An abandoned thread ends once its driver answers or the device is gone.
Unstick(d) ==
    /\ stuck[d] > 0 /\ dev[d] # "wedged" /\ stuck' = [stuck EXCEPT ![d] = @ - 1]
    /\ UNCHANGED <<fixed, world, lock, cache, pc, left, local>>

-----------------------------------------------------------------------------
(* load_user_samples; capture_embed_gated, capture_position_sample;         *)
(* do_enroll.                                                               *)

\* The cameras are the enrolled ones and the template can be read, or not.
CheckBinding(h) ==
    /\ pc[h] = Judge /\ phase[h] = "binding"
    /\ \/ Enter(h, "capture") /\ UNCHANGED <<answer, age>>
       \/ Reply(h, "error") /\ UNCHANGED phase
    /\ UNCHANGED <<fixed, world, stuck, lock, cache, left, frame>>

Reference == [ratio |-> 10, glint |-> 10, depth |-> 130]
Live      == {Reference, [ratio |-> 0, glint |-> 0, depth |-> 100]}

\* Every capture but the guide's is evaluated; a verification also passes the
\* gate, an enrollment stores the template (or fails to) and goes on to the
\* binding.
Decide(h) ==
    /\ pc[h] = Judge /\ phase[h] = "capture"
    /\ IF kind[h] = "position" THEN Reply(h, "report") /\ UNCHANGED phase
       ELSE \E s \in Signals, live \in Live :
              LET ir   == "ir" \in frame[h]
                  real == evaluate(conf, s, ir) = "Real"
              IN  \/ /\ kind[h] = "enroll" /\ real
                     /\ Enter(h, "save") /\ UNCHANGED <<answer, age>>
                  \/ /\ kind[h] = "verify" /\ real
                     /\ ir_gate_check(conf, ready, Reference, live, ir)
                     /\ Reply(h, "live") /\ UNCHANGED phase
                  \/ /\ kind[h] = "verify" /\ real
                        => ~ir_gate_check(conf, ready, Reference, live, ir)
                     /\ Reply(h, "error") /\ UNCHANGED phase
    /\ UNCHANGED <<fixed, world, stuck, lock, cache, left, frame>>

\* save_camera_binding and save_ir_calibration, which cannot fail the request.
SaveBinding(h) ==
    /\ pc[h] = Judge /\ phase[h] = "save" /\ Reply(h, "enrolled")
    /\ UNCHANGED <<fixed, world, stuck, lock, cache, left, phase, frame>>

-----------------------------------------------------------------------------
(* Devices and time.                                                        *)

\* A driver hangs (resume from suspend) and recovers, a camera is unplugged
\* and plugged in.
Change(d) ==
    /\ events < MaxEvents /\ events' = events + 1
    /\ \E x \in {"ok", "wedged", "gone"} \ {dev[d]} :
         /\ dev[d] = "gone" => x = "ok"
         /\ dev' = [dev EXCEPT ![d] = x]
    /\ UNCHANGED <<fixed, stuck, lock, cache, pc, left, local>>

\* Waiting: not asked yet or answered, for a device, for the lock, for a cache.
Waits(h) ==
    \/ pc[h] \in {Idle, Done}
    \/ pc[h] \in Devices \X {"lookup", "capture"} /\ left[h] > 0
    \/ pc[h] \in Devices \X {"lock"} /\ lock # Nobody
    \/ \E d \in Devices : pc[h] = Step(d, "path") /\ mutex[d] # Nobody

Less(n) == IF n > 0 THEN n - 1 ELSE 0

Tick ==
    /\ \A h \in Handlers : Waits(h)
    /\ \E h \in Handlers : pc[h] \notin {Idle, Done}
    /\ left' = [h \in Handlers |-> Less(left[h])]
    /\ ttl' = [d \in Devices |-> Less(ttl[d])]
    /\ age' = [h \in Handlers |-> IF pc[h] \in {Idle, Done} \/ age[h] > Budget
                                  THEN age[h] ELSE age[h] + 1]
    /\ UNCHANGED <<fixed, world, stuck, lock, mutex, found, pc, phase, frame, answer>>

HandlerStep(h) ==
    \/ CheckBinding(h) \/ Decide(h) \/ SaveBinding(h)
    \/ \E d \in Devices : \/ Resolve(h, d) \/ Lookup(h, d) \/ TakeLock(h, d)
                          \/ Captured(h, d) \/ Refused(h, d) \/ Expired(h, d)

Next == \/ \E h \in Handlers : Arrive(h) \/ HandlerStep(h)
        \/ \E d \in Devices : Unstick(d) \/ Change(d)
        \/ Tick

\* Threads that can run do run, and the clock goes on.
Fairness == WF_vars(Tick) /\ \A h \in Handlers : WF_vars(HandlerStep(h))

Spec == Init /\ [][Next]_vars /\ Fairness

-----------------------------------------------------------------------------
(* Properties.                                                              *)

PCs == {Idle, Judge, Done} \cup (Devices \X {"path", "lookup", "lock", "capture"})
MaxWait == RGB_TIMEOUT + IR_TIMEOUT + ENUMERATE_TIMEOUT

Typed ==
    /\ conf \in [requireIr : BOOLEAN, temporal : {FALSE}, gateOff : {FALSE}]
    /\ ready \in BOOLEAN /\ pinned \subseteq Devices
    /\ dev \in [Devices -> {"ok", "wedged", "gone"}] /\ stuck \in [Devices -> Nat]
    /\ lock \in Handlers \cup {Nobody} /\ mutex \in [Devices -> Handlers \cup {Nobody}]
    /\ ttl \in [Devices -> 0..RESOLVE_TTL] /\ found \in [Devices -> BOOLEAN]
    /\ pc \in [Handlers -> PCs] /\ left \in [Handlers -> 0..MaxWait]
    /\ kind \in [Handlers -> {"verify", "enroll", "position"}]
    /\ phase \in [Handlers -> {"binding", "capture", "save"}]
    /\ frame \in [Handlers -> SUBSET Devices]
    /\ answer \in [Handlers -> {"none", "live", "enrolled", "report", "error"}]
    /\ age \in [Handlers -> Nat] /\ events \in 0..MaxEvents

Timed == \A h \in Handlers : left[h] > 0 => pc[h] \in Devices \X {"lookup", "capture"}
Held  == \A d \in Devices : mutex[d] # Nobody => pc[mutex[d]] = Step(d, "lookup")

Phased ==
    \A h \in Handlers :
        /\ pc[h] \in Devices \X {"lock", "capture"} => phase[h] = "capture"
        /\ phase[h] = "binding" => kind[h] = "verify"
        /\ phase[h] = "save" => kind[h] = "enroll"

\* Every variable keeps its type; deadlines run only during a lookup or a
\* capture, a mutex is held by the handler that is looking up, and only the
\* capture proper asks for the lock.
TypeOK == Typed /\ Timed /\ Held /\ Phased

\* Two handlers never stream at once, on one camera or on the two of one
\* module (the second would be refused as busy, or starve the first): only a
\* thread that was abandoned can be in the way of a capture.
OneStream ==
    \A g, h \in Handlers :
        pc[g] \in Devices \X {"capture"} /\ pc[h] \in Devices \X {"capture"} => g = h

\* Whatever the devices do, a request is answered within the deadlines of its
\* own lookups (for the binding and for the capture) and of its own captures and
\* the ones it may have to wait for.
AnsweredInTime == \A h \in Handlers : age[h] <= Budget

\* A face is accepted as live only with an IR frame of the same request, when
\* IR is required or the user has a calibration, and enrolled only with one when
\* IR is required: a frame of an earlier request, a cached path, the binding's
\* lookup or a failed IR capture do not stand in for it.
IrOfThisRequest ==
    \A h \in Handlers :
        \/ answer[h] = "live" /\ (conf.requireIr \/ ready)
        \/ answer[h] = "enrolled" /\ conf.requireIr
        => "ir" \in frame[h]

Framing == FramingAgrees(Grid.angles, Grid.fracs, Grid.offsets, Grid.lums)
Floor   == FloorIsRobust(Grid.samples, Grid.lengths)
Fair    == GateIsFair(Grid.ratios, Grid.glints, Grid.depths)

\* Whatever the frame a position report is about, its advice and its
\* well_framed agree, and the liveness check agrees with both.
ReportAgrees == \A h \in Handlers : answer[h] = "report" => Framing

\* Where the user is calibrated: most of the user's own captures reach the floors
\* the gate compares with, one blinded capture sets them if there are fewer than
\* five and not otherwise, and the gate passes the enrolled face, is monotone and
\* rejects a flat, unlit medium.
FairGate == ready => Floor /\ Fair

\* Every request is answered, also when a device stays wedged for good.
Answered == \A h \in Handlers : pc[h] # Idle ~> pc[h] = Done
=============================================================================

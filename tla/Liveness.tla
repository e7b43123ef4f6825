------------------------------ MODULE Liveness ------------------------------
(***************************************************************************)
(* The decisions taken on one capture, as pure operators: the liveness     *)
(* evaluation (linhello-liveness lib.rs), the calibrated IR gate (ir.rs,   *)
(* the daemon's ir_gate_check) and the framing advice of the enrollment    *)
(* guide (linhello-biometrics lib.rs).                                     *)
(*                                                                         *)
(* The measurements are integers: angles in degrees, face size and offsets *)
(* in percent of the frame, brightness in luma, the IR depth ratio in      *)
(* hundredths.  A measurement that was not taken is NotMeasured.           *)
(***************************************************************************)
EXTENDS Integers, Sequences, FiniteSets

NotMeasured == -1000

MAX_ANGLE_DEG  == 18
MIN_FACE_FRAC  == 15
SpoofThreshold == 50
TemporalMin    == 8
DepthMinRef    == 110

-----------------------------------------------------------------------------
(* orientation::is_frontal, ir::classify, LivenessEvaluator::evaluate.      *)

Abs(n) == IF n < 0 THEN -n ELSE n

is_frontal(yaw, pitch) == Abs(yaw) <= MAX_ANGLE_DEG /\ Abs(pitch) <= MAX_ANGLE_DEG

\* Of what IR measures only the size of the face decides here.
TooFar(frac) == frac < MIN_FACE_FRAC

\* Mutant of evaluate: a missing IR frame is passed over.
evaluateWithoutIr(conf, s, ir) ==
    IF ~is_frontal(s.yaw, s.pitch) THEN "Uncertain"
    ELSE IF s.device = 0 THEN "Spoof"
    ELSE IF ir /\ TooFar(s.frac) THEN "Uncertain"
    ELSE IF s.spoof >= SpoofThreshold THEN "Spoof"
    ELSE "Real"

\* The checks in their order; the first that fails decides.  conf is the
\* configuration, ir tells whether an IR frame was captured; device is 0 for a
\* virtual camera, 1 for an unknown driver, 2 for real hardware.
evaluate(conf, s, ir) ==
    IF ~is_frontal(s.yaw, s.pitch) THEN "Uncertain"
    ELSE IF s.device = 0 THEN "Spoof"
    ELSE IF ~ir /\ conf.requireIr THEN "Uncertain"
    ELSE IF ir /\ TooFar(s.frac) THEN "Uncertain"
    ELSE IF s.spoof # NotMeasured /\ s.spoof >= SpoofThreshold THEN "Spoof"
    ELSE IF s.motion # NotMeasured /\ conf.temporal /\ s.motion < TemporalMin THEN "Uncertain"
    ELSE IF s.spoof = NotMeasured /\ s.device < 2 THEN "Uncertain"
    ELSE "Real"

-----------------------------------------------------------------------------
(* IrCalibration.                                                           *)

\* Where a stable sort (Rust's sort_by) puts sample i.
Place(vals, i) ==
    Cardinality({j \in DOMAIN vals : vals[j] < vals[i] \/ (vals[j] = vals[i] /\ j <= i)})

sort(vals) == [k \in DOMAIN vals |-> vals[CHOOSE i \in DOMAIN vals : Place(vals, i) = k]]

\* About the 20th percentile of the samples: of n in order, number n/5 + 1.
robust_low(vals) ==
    LET n == Len(vals)
        i == IF n \div 5 < n THEN n \div 5 ELSE n - 1
    IN  IF n = 0 THEN 0 ELSE sort(vals)[i + 1]

\* Mutant of gate: the depth floor is above the reference instead of below it.
gateTight(ref, live) ==
    /\ ~(/\ ref.ratio > 0 \/ ref.glint > 0
         /\ ref.ratio > 0 => 10 * live.ratio < 8 * ref.ratio
         /\ ref.glint > 0 => 10 * live.glint < 5 * ref.glint)
    /\ ~(ref.depth > DepthMinRef /\ 85 * live.depth < 100 * ref.depth)

\* IrCalibration::gate on the references (robust_low of each cue) and a live
\* observation: TRUE is Pass.  The brightness cues reject together, over those of
\* them the enrollment has seen; depth rejects alone, where the enrollment shows
\* any.
gate(ref, live) ==
    LET brightness_spoof == /\ ref.ratio > 0 \/ ref.glint > 0
                            /\ ref.ratio > 0 => 10 * live.ratio < 8 * ref.ratio
                            /\ ref.glint > 0 => 10 * live.glint < 5 * ref.glint
        depth_spoof == ref.depth > DepthMinRef /\ 100 * live.depth < 85 * ref.depth
    IN  ~brightness_spoof /\ ~depth_spoof

\* ir_gate_check: fail closed without an IR frame once there is a calibration.
ir_gate_check(conf, ready, ref, live, ir) ==
    conf.gateOff \/ ~ready \/ (ir /\ gate(ref, live))

-----------------------------------------------------------------------------
(* framing_guidance: the advice and well_framed of a detected face.         *)

MAX_FRAC == 60
CENTER_TOL == 18
DIM_GATE == 40
BRIGHT_GATE == 230
BACKLIT_DELTA == 55
BACKLIT_FACE_FLOOR == 65

backlit(f) == f.frame_lum - f.face_lum >= BACKLIT_DELTA /\ f.face_lum < BACKLIT_FACE_FLOOR

\* No face in either camera; only IR sees one (dark); then the corrections in
\* their order.
guidance(f) ==
    IF f.count = 0 THEN "no face"
    ELSE IF f.dark THEN "too dark"
    ELSE IF f.count > 1 THEN "only you"
    ELSE IF f.frac < MIN_FACE_FRAC THEN "closer"
    ELSE IF f.frac > MAX_FRAC THEN "back"
    ELSE IF f.off_y < -CENTER_TOL THEN "down"
    ELSE IF f.off_y > CENTER_TOL THEN "up"
    ELSE IF f.off_x > CENTER_TOL THEN "right"
    ELSE IF f.off_x < -CENTER_TOL THEN "left"
    ELSE IF f.yaw > MAX_ANGLE_DEG THEN "turn left"
    ELSE IF f.yaw < -MAX_ANGLE_DEG THEN "turn right"
    ELSE IF f.pitch > MAX_ANGLE_DEG THEN "lift chin"
    ELSE IF f.pitch < -MAX_ANGLE_DEG THEN "lower chin"
    ELSE IF backlit(f) THEN "backlit"
    ELSE IF f.face_lum < DIM_GATE THEN "more light"
    ELSE IF f.face_lum > BRIGHT_GATE THEN "glare"
    ELSE "ready"

\* Mutant of well_framed: the pose is not looked at.
well_framed_any_pose(f) ==
    /\ f.count = 1 /\ ~f.dark /\ f.frac >= MIN_FACE_FRAC /\ f.frac <= MAX_FRAC
    /\ Abs(f.off_x) <= CENTER_TOL /\ Abs(f.off_y) <= CENTER_TOL
    /\ f.face_lum >= DIM_GATE /\ f.face_lum <= BRIGHT_GATE /\ ~backlit(f)

well_framed(f) ==
    /\ f.count = 1 /\ ~f.dark /\ f.frac >= MIN_FACE_FRAC /\ f.frac <= MAX_FRAC
    /\ Abs(f.yaw) <= MAX_ANGLE_DEG /\ Abs(f.pitch) <= MAX_ANGLE_DEG
    /\ Abs(f.off_x) <= CENTER_TOL /\ Abs(f.off_y) <= CENTER_TOL
    /\ f.face_lum >= DIM_GATE /\ f.face_lum <= BRIGHT_GATE /\ ~backlit(f)

-----------------------------------------------------------------------------
(* What the operators promise, over every input of the given sets.          *)

Frames(angles, fracs, offsets, lums) ==
    [count : 0..2, dark : BOOLEAN, frac : fracs, yaw : angles, pitch : angles, off_x : offsets,
     off_y : offsets, face_lum : lums, frame_lum : lums]

\* The guide tells the user to hold still exactly when the enrollment screen
\* would capture, and a face it calls well framed is one the liveness evaluation
\* does not send away for its pose or its size.
FramingAgrees(angles, fracs, offsets, lums) ==
    \A f \in Frames(angles, fracs, offsets, lums) :
        /\ well_framed(f) <=> guidance(f) = "ready"
        /\ well_framed(f) => is_frontal(f.yaw, f.pitch) /\ ~TooFar(f.frac)

\* The floor of a cue is one of the n samples, and at most a fifth of them are
\* below it.  Among five or more, one capture that measured nothing does not pull
\* it below what all the others measured; among fewer (the gate is ready from
\* three) it does: the floor is then the smallest sample, and a floor of nothing
\* puts the cue out of use.
RobustFloor(n, vals) ==
    /\ n > 0 => \E j \in 1..n : robust_low(vals) = vals[j]
    /\ Cardinality({j \in 1..n : vals[j] < robust_low(vals)}) <= n \div 5
    /\ n >= 5 => \A i \in 1..n : \E j \in (1..n) \ {i} :
         robust_low([vals EXCEPT ![i] = 0]) >= vals[j]
    /\ n < 5 => \A i \in 1..n : robust_low([vals EXCEPT ![i] = 0]) = 0

FloorIsRobust(values, lengths) ==
    \A n \in lengths : \A vals \in [1..n -> values] : RobustFloor(n, vals)

Cues(ratios, glints, depths) == [ratio : ratios, glint : glints, depth : depths]

\* Whoever shows the enrolled floor in every cue passes; a stronger cue never
\* turns Pass into Reject; a flat and unlit medium is rejected as soon as the
\* enrollment has seen one cue clearly.
GateIsFair(ratios, glints, depths) ==
    \A ref, live \in Cues(ratios, glints, depths) :
        /\ (live.ratio >= ref.ratio /\ live.glint >= ref.glint /\ live.depth >= ref.depth)
             => gate(ref, live)
        /\ gate(ref, live) =>
             \A r \in ratios, g \in glints, d \in depths :
                r >= live.ratio /\ g >= live.glint /\ d >= live.depth
                  => gate(ref, [ratio |-> r, glint |-> g, depth |-> d])
        /\ ref.ratio > 0 \/ ref.glint > 0 \/ ref.depth >= 120 =>
             ~gate(ref, [ratio |-> 0, glint |-> 0, depth |-> 100])
=============================================================================

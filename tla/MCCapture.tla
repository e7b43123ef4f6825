----------------------------- MODULE MCCapture -----------------------------
(* A small instance of Capture for TLC.                                     *)
EXTENDS Capture

\* A face in front of hardware; turned away; virtual camera; spoof score; an
\* unknown driver without a score; a face too far away for IR.
SignalsMC ==
    LET s == [yaw |-> 0, pitch |-> 0, device |-> 2, frac |-> 30, spoof |-> NotMeasured,
              motion |-> NotMeasured]
    IN  {s, [s EXCEPT !.yaw = 30], [s EXCEPT !.device = 0], [s EXCEPT !.spoof = 90],
         [s EXCEPT !.device = 1], [s EXCEPT !.frac = 10]}

\* A verification beside an enrollment or the guide.
CONSTANT h1
RequestsMC == {[h \in Handlers |-> IF h = h1 THEN "verify" ELSE k] : k \in {"enroll", "position"}}

\* Cameras that are enumerated, with IR required; pinned ones, with a calibration.
SetupsMC == {[requireIr |-> TRUE, ready |-> FALSE, pinned |-> {}],
             [requireIr |-> FALSE, ready |-> TRUE, pinned |-> Devices]}

\* Both sides of every threshold.
GridMC == [angles  |-> {-30, -18, 0, 18, 30}, fracs |-> {10, 15, 60, 70},
           offsets |-> {-20, -18, 0, 18, 20}, lums |-> {30, 40, 64, 65, 230, 240},
           samples |-> 0..2, lengths |-> 3..6,
           ratios  |-> {0, 5, 10, 14}, glints |-> {0, 5, 10},
           depths  |-> {100, 110, 115, 120, 140}]
=============================================================================

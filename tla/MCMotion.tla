------------------------------ MODULE MCMotion ------------------------------
(* Motion on short tracks.                                                 *)
EXTENDS Motion

CONSTANTS TrackX, TrackY, Overtravel, FirstBoot, LastBoot, Xs, Ys

MCTasks == {vCalibrate, vStepperTask}
MCTrack == [a \in Axes |-> IF a = "x" THEN TrackX ELSE TrackY]
MCRails == -Overtravel..(TrackX + TrackY + Overtravel)
MCBoot == (FirstBoot - Overtravel)..LastBoot
MCTargets == {c \in [Axes -> Xs \cup Ys] : c["x"] \in Xs /\ c["y"] \in Ys}
=============================================================================

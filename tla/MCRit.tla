------------------------------- MODULE MCRit -------------------------------
(* Rit on a short track, the rails reaching one step past both switches.    *)
EXTENDS RitInv

CONSTANTS TrackX, TrackY, Overtravel

MCTrack == [a \in Axes |-> IF a = "x" THEN TrackX ELSE TrackY]
MCRails == -Overtravel..(TrackX + Overtravel)
=============================================================================

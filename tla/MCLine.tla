------------------------------- MODULE MCLine -------------------------------
(* Lines between a few points of a small table, coordinates in half         *)
(* millimetres: fractions of steps, ties, equal axes, and an x beyond the   *)
(* table, which runs into the Start switch.                                *)
EXTENDS LineInv

CONSTANTS Xs, Ys

MCTrack == [a \in Axes |-> 12]
MCRails == -1..13
MCScale == [a \in Axes |-> IF a = "x" THEN 2 ELSE 1]
MCHome == [a \in Axes |-> Kept(12)]
MCTargets == {c \in [Axes -> Xs \cup Ys] : c["x"] \in Xs /\ c["y"] \in Ys}

(* One is fine enough for every deltaError of these targets to be exact. *)
ASSUME \A c0, c1 \in MCTargets, whole \in BOOLEAN :
         LET dist == [a \in Axes |-> Abs((c1[a] - c0[a]) * MCScale[a], whole)]
             a == Dominating(dist)
         IN  dist[a] # 0 => (One * dist[Other(a)]) % dist[a] = 0
=============================================================================

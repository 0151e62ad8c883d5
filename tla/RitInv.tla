------------------------------- MODULE RitInv -------------------------------
(***************************************************************************)
(* The inductive invariant behind the properties of Rit, for callers that  *)
(* keep to one call at a time (Exclusive).  It says how far the call under *)
(* way has come: the counters, the phase and the carriage at each stage.   *)
(***************************************************************************)
EXTENDS Rit

OneCall ==
  \A t, u \in Tasks : pc[t] # "idle" /\ pc[u] # "idle" => t = u

Loaded(t) == \A a \in Axes : steps[a] = Count(t, a)

Held(t) == AllCalibrated /\ AtLimit(from[t], req[t])

(* before the interrupt is unmasked: nothing has moved *)
Preparing(t) ==
  /\ ~nvicOn /\ sbRIT = 0 /\ stepTurn = TRUE /\ pos = from[t]
  /\ pc[t] # "unmask" => ~ritOn /\ ~irqPending
  /\ pc[t] = "setX" => \A a \in Axes : steps[a] = 0
  /\ pc[t] = "setY" => steps["x"] = Count(t, "x") /\ steps["y"] = 0
  /\ pc[t] = "arm" => Loaded(t)
  /\ pc[t] = "unmask" => ritOn /\ Loaded(t)

(* no toggle yet, one toggle (the pin went low), or both *)
Untouched(t) ==
  /\ steps[req[t]] = 2 /\ ritOn /\ sbRIT = 0
  /\ stepTurn = TRUE /\ pos = from[t]
Halfway(t) ==
  /\ steps[req[t]] = 1 /\ ritOn /\ sbRIT = 0
  /\ stepTurn = FALSE /\ stepPin[req[t]] = FALSE /\ pos = from[t]
  /\ ~Held(t)
Complete(t) ==
  /\ steps[req[t]] = 0 /\ ~ritOn
  /\ stepTurn = TRUE /\ pos = AfterCall(from[t], req[t])

Stage(t) ==
  /\ pc[t] # "idle" => Serves(req[t])
  /\ pc[t] \in {"setX", "setY", "arm", "unmask"} => Preparing(t)
  /\ pc[t] \in {"wait", "mask"} => nvicOn /\ steps[Other(req[t])] = 0
  /\ pc[t] = "wait" => Untouched(t) \/ Halfway(t) \/ (Complete(t) /\ sbRIT = 1)
  /\ pc[t] = "mask" => Complete(t) /\ sbRIT = 0 /\ ~irqPending

IInv ==
  /\ RitTypeOK
  /\ OneCall
  /\ QuietBetweenCalls
  /\ \A t \in Tasks : Stage(t)

=============================================================================

-------------------------------- MODULE Rit --------------------------------
(***************************************************************************)
(* The stepping driver: RIT_start(xCount, yCount, us), run by a task, and  *)
(* RIT_IRQHandler, the repetitive-interrupt handler that serves it.        *)
(* A task writes the two step counters, arms the timer, unmasks the        *)
(* interrupt and blocks on the binary semaphore sbRIT; every timer match   *)
(* then runs the handler, which toggles the step pin of the axis and, with *)
(* both counters at zero, stops the timer and gives the semaphore.         *)
(*                                                                         *)
(* Every caller in the source asks for (2, 0) or (0, 2): two toggles of    *)
(* one axis, which is one rising edge, which is one motor step.            *)
(***************************************************************************)
EXTENDS Carriage

CONSTANTS
  Tasks,      \* the tasks that call RIT_start
  Exclusive   \* TRUE: no call begins while another is under way

ASSUME RitAssumption == Exclusive \in BOOLEAN

VARIABLES
  pc,          \* where each task is inside RIT_start
  req,         \* the axis each task last asked for
  from,        \* history: the positions when that call began
  steps,       \* xSteps and ySteps
  stepTurn,    \* the level the next toggle leaves behind, for both axes
  calibrated,  \* xCalibrated and yCalibrated
  ritOn,       \* the timer counts
  irqPending,  \* a match has been latched
  nvicOn,      \* the interrupt is unmasked in the NVIC
  sbRIT,       \* the binary semaphore
  stepPin,     \* level of the step output
  dirPin,      \* level of the direction output; TRUE runs towards Start
  pos          \* carriage, in motor steps from the Start switch

swVars  == <<pc, req, from>>
irqVars == <<ritOn, irqPending, nvicOn, sbRIT>>
motorVars == <<steps, stepTurn, stepPin, pos>>
ritVars == <<swVars, irqVars, motorVars, calibrated, dirPin>>

Locations == {"idle", "setX", "setY", "arm", "unmask", "wait", "mask"}

RitTypeOK ==
  /\ pc \in [Tasks -> Locations]
  /\ req \in [Tasks -> Axes]
  /\ from \in [Tasks -> [Axes -> Int]]
  /\ steps \in [Axes -> 0..2]
  /\ stepTurn \in BOOLEAN
  /\ calibrated \in [Axes -> BOOLEAN]
  /\ ritOn \in BOOLEAN /\ irqPending \in BOOLEAN /\ nvicOn \in BOOLEAN
  /\ sbRIT \in 0..1
  /\ stepPin \in [Axes -> BOOLEAN]
  /\ dirPin \in [Axes -> BOOLEAN]
  /\ pos \in [Axes -> Int]

RitInit ==
  /\ pc = [t \in Tasks |-> "idle"]
  /\ req = [t \in Tasks |-> "x"]
  /\ steps = [a \in Axes |-> 0]
  /\ stepTurn = TRUE
  /\ calibrated = [a \in Axes |-> FALSE]
  /\ ritOn = FALSE /\ irqPending = FALSE /\ nvicOn = FALSE
  /\ sbRIT = 0
  /\ stepPin = [a \in Axes |-> FALSE]
  /\ dirPin = [a \in Axes |-> FALSE]
  /\ pos \in [Axes -> Rails]
  /\ from = [t \in Tasks |-> pos]

-----------------------------------------------------------------------------
AllCalibrated == \A a \in Axes : calibrated[a]

(* The handler looks at an axis in its calibration branch or, once both    *)
(* axes are calibrated, in its run branch: in between it ignores the one   *)
(* that finished first.                                                    *)
Serves(a) == ~calibrated[a] \/ AllCalibrated

(* What one completed call should have done. *)
AfterCall(p, a) ==
  IF AllCalibrated /\ AtLimit(p, a) THEN p ELSE Advance(p, dirPin, a)

-----------------------------------------------------------------------------
(* RIT_IRQHandler.  It runs at interrupt level, so no task step separates   *)
(* its parts; x comes before y and both share the phase stepTurn.           *)

(* Mutations of Serve: no test of the counter; a toggle although the axis is *)
(* held.                                                                   *)
ServeUncounted(m, a) ==
  IF ~Serves(a) THEN m ELSE [m EXCEPT !.steps[a] = @ - 1, !.turn = ~@]

ServeTogglesHeld(m, a) ==
  IF m.steps[a] = 0 \/ ~Serves(a) THEN m
  ELSE IF AllCalibrated /\ AtLimit(m.pos, a)
    THEN [m EXCEPT !.steps[a] = 0, !.turn = ~@]
    ELSE [steps |-> [m.steps EXCEPT ![a] = @ - 1],
          turn |-> ~m.turn,
          pin |-> [m.pin EXCEPT ![a] = ~m.turn],
          pos |-> IF ~m.turn /\ ~m.pin[a] THEN Advance(m.pos, dirPin, a)
                                          ELSE m.pos]

Serve(m, a) ==
  IF m.steps[a] = 0 \/ ~Serves(a) THEN m
  ELSE IF AllCalibrated /\ AtLimit(m.pos, a)
    THEN [m EXCEPT !.steps[a] = 0]
    ELSE [steps |-> [m.steps EXCEPT ![a] = @ - 1],
          turn |-> ~m.turn,
          pin |-> [m.pin EXCEPT ![a] = ~m.turn],
          pos |-> IF ~m.turn /\ ~m.pin[a] THEN Advance(m.pos, dirPin, a)
                                          ELSE m.pos]

Motors == [steps |-> steps, turn |-> stepTurn, pin |-> stepPin, pos |-> pos]

(* Mutation: the handler forgets y. *)
ServedXOnly == Serve(Motors, "x")

Served == Serve(Serve(Motors, "x"), "y")

RIT_IRQHandler ==
  /\ irqPending /\ nvicOn
  \* a match may fall between clearing the flag and stopping the timer
  /\ irqPending' \in BOOLEAN /\ (irqPending' => ritOn)
  /\ steps' = Served.steps
  /\ stepTurn' = Served.turn
  /\ stepPin' = Served.pin
  /\ pos' = Served.pos
  /\ IF \A a \in Axes : steps'[a] = 0
       THEN ritOn' = FALSE /\ sbRIT' = 1
       ELSE UNCHANGED <<ritOn, sbRIT>>
  /\ UNCHANGED <<swVars, nvicOn, calibrated, dirPin>>

(* The timer reaches its compare value and clears itself. *)
Match ==
  /\ ritOn /\ ~irqPending
  /\ irqPending' = TRUE
  /\ UNCHANGED <<swVars, ritOn, nvicOn, sbRIT, motorVars, calibrated, dirPin>>

-----------------------------------------------------------------------------
(* RIT_start, one action per access to something the handler shares.  An    *)
(* unmasked pending interrupt is taken before the next task instruction.    *)

TaskMayRun == ~(irqPending /\ nvicOn)

Goto(t, l) == pc' = [pc EXCEPT ![t] = l]

(* stop the timer before reconfiguring it *)
Call(t, a) ==
  /\ TaskMayRun
  /\ pc[t] = "idle" /\ Goto(t, "setX")
  /\ req' = [req EXCEPT ![t] = a]
  /\ from' = [from EXCEPT ![t] = pos]
  /\ ritOn' = FALSE
  /\ UNCHANGED <<irqPending, nvicOn, sbRIT, motorVars, calibrated, dirPin>>

(* Mutation: a request for one toggle. *)
CountOne(t, a) == IF req[t] = a THEN 1 ELSE 0

Count(t, a) == IF req[t] = a THEN 2 ELSE 0

SetCount(t, a, here, next) ==
  /\ TaskMayRun
  /\ pc[t] = here /\ Goto(t, next)
  /\ steps' = [steps EXCEPT ![a] = Count(t, a)]
  /\ UNCHANGED <<req, from, irqVars, stepTurn, stepPin, pos, calibrated, dirPin>>

SetX(t) == SetCount(t, "x", "setX", "setY")
SetY(t) == SetCount(t, "y", "setY", "arm")

Arm(t) ==
  /\ TaskMayRun
  /\ pc[t] = "arm" /\ Goto(t, "unmask")
  /\ ritOn' = TRUE
  /\ UNCHANGED <<req, from, irqPending, nvicOn, sbRIT, motorVars, calibrated,
                 dirPin>>

Unmask(t) ==
  /\ TaskMayRun
  /\ pc[t] = "unmask" /\ Goto(t, "wait")
  /\ nvicOn' = TRUE
  /\ UNCHANGED <<req, from, ritOn, irqPending, sbRIT, motorVars, calibrated,
                 dirPin>>

(* xSemaphoreTake(sbRIT, portMAX_DELAY) returns *)
Take(t) ==
  /\ TaskMayRun
  /\ pc[t] = "wait" /\ sbRIT = 1 /\ Goto(t, "mask")
  /\ sbRIT' = 0
  /\ UNCHANGED <<req, from, ritOn, irqPending, nvicOn, motorVars, calibrated,
                 dirPin>>

Mask(t) ==
  /\ TaskMayRun
  /\ pc[t] = "mask" /\ Goto(t, "idle")
  /\ nvicOn' = FALSE
  /\ UNCHANGED <<req, from, ritOn, irqPending, sbRIT, motorVars, calibrated,
                 dirPin>>

(* the part of RIT_start after its first statement *)
Inside(t) == SetX(t) \/ SetY(t) \/ Arm(t) \/ Unmask(t) \/ Take(t) \/ Mask(t)

-----------------------------------------------------------------------------
(* The callers, as the driver sees them: between calls they turn the motors *)
(* and calibrate axes.  Exclusive is their discipline; the module Motion    *)
(* has the tasks themselves and checks whether they keep it.               *)

AllIdle == \A t \in Tasks : pc[t] = "idle"

Begin(t, a) ==
  /\ Exclusive => AllIdle /\ Serves(a)
  /\ Call(t, a)

Between(t) == pc[t] = "idle" /\ (Exclusive => AllIdle) /\ TaskMayRun

SetDirection(t, dirs) ==
  /\ Between(t)
  /\ dirPin' = dirs
  /\ UNCHANGED <<swVars, irqVars, motorVars, calibrated>>

Calibrate(t, a) ==
  /\ Between(t)
  /\ calibrated' = [calibrated EXCEPT ![a] = TRUE]
  /\ UNCHANGED <<swVars, irqVars, motorVars, dirPin>>

TaskStep(t) ==
  \/ \E a \in Axes : Begin(t, a)
  \/ Inside(t)
  \/ \E dirs \in [Axes -> BOOLEAN] : SetDirection(t, dirs)
  \/ \E a \in Axes : Calibrate(t, a)

RitNext == RIT_IRQHandler \/ Match \/ \E t \in Tasks : TaskStep(t)

(* The timer and the interrupt controller are hardware that does not stop,  *)
(* and a task that can run is scheduled; whether a caller calls is up to it. *)
Fairness ==
  /\ WF_ritVars(RIT_IRQHandler) /\ WF_ritVars(Match)
  /\ \A t \in Tasks : WF_ritVars(Inside(t))

(* what the proofs are about *)
RitSafe == RitInit /\ [][RitNext]_ritVars

RitSpec == RitSafe /\ Fairness

-----------------------------------------------------------------------------
(* Properties.                                                             *)

(* RIT_start returns ("wait for ISR to tell that we're done") exactly when  *)
(* the motor has made the one step asked for, or none if a switch holds a   *)
(* calibrated axis, and the other axis has not moved.                      *)
CallMovesOneStep ==
  \A t \in Tasks : pc[t] = "mask" => pos = AfterCall(from[t], req[t])

(* Between calls nothing of a call is left: no count that a later call      *)
(* would add to, no running timer, no unmasked or latched interrupt, no     *)
(* stale semaphore that would let the next call return at once, and the     *)
(* shared phase back where two toggles make one rising edge.               *)
QuietBetweenCalls ==
  AllIdle =>
    /\ \A a \in Axes : steps[a] = 0
    /\ ~ritOn /\ ~irqPending /\ ~nvicOn
    /\ sbRIT = 0
    /\ stepTurn = TRUE

(* A call that has begun returns. *)
CallReturns == \A t \in Tasks : pc[t] # "idle" ~> pc[t] = "idle"

=============================================================================

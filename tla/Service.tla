------------------------------ MODULE Service ------------------------------
(***************************************************************************)
(* What the firmware promises a host that waits for each answer.  The host *)
(* asks for one effect at a time, or, with a line that has none, for       *)
(* nothing; the effect happens; then it is answered.                       *)
(***************************************************************************)
EXTENDS Integers, Sequences

VARIABLES
  waiting,   \* the host waits for an answer
  ordered,   \* the effects it has asked for
  executed   \* the effects that have happened

vars == <<waiting, ordered, executed>>

Init == waiting = FALSE /\ ordered = <<>> /\ executed = <<>>

Ask ==
  /\ ~waiting /\ waiting' = TRUE
  /\ \/ UNCHANGED ordered
     \/ /\ Len(ordered') = Len(ordered) + 1
        /\ SubSeq(ordered', 1, Len(ordered)) = ordered
  /\ UNCHANGED executed

Execute ==
  /\ Len(executed) < Len(ordered)
  /\ executed' = Append(executed, ordered[Len(executed) + 1])
  /\ UNCHANGED <<waiting, ordered>>

Answer ==
  /\ waiting /\ executed = ordered
  /\ waiting' = FALSE
  /\ UNCHANGED <<ordered, executed>>

Next == Ask \/ Execute \/ Answer

(* The host asks when it likes; what it asked for is done and answered.     *)
Spec == Init /\ [][Next]_vars /\ WF_vars(Execute) /\ WF_vars(Answer)

=============================================================================

------------------------------ MODULE LineInv ------------------------------
(***************************************************************************)
(* The inductive invariant behind ErrorBound and OnTheLine: the error term *)
(* is a running account of the steps the minor axis owes, at every point   *)
(* of the loop.                                                            *)
(***************************************************************************)
EXTENDS Line

Small(e) == -Half <= e /\ e <= Half

(* the minor axis' share of the steps of the major one, less its own steps *)
Owed == hist.count[major] * deltaError - hist.count[Other(major)] * One

Account ==
  CASE pc = "accumulate" -> Owed - deltaError
    [] pc = "repay" -> Owed + One
    [] OTHER -> Owed

LineIInv ==
  /\ TypeOK
  /\ Small(hist.error)
  /\ pc \in {"idle", "major", "accumulate"} => Small(error)
  /\ pc \in {"minor", "repay"} => Half <= error /\ error <= Half + One
  /\ error - hist.error = Account

=============================================================================

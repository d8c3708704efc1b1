---------------------------- MODULE FaultCustody ----------------------------
(***************************************************************************)
(* What the control plane promises about the faults it injects, with       *)
(* nothing of how it keeps the promise.  A run holds the failpoints it     *)
(* armed last.  It takes failpoints only while it is open; failpoints may  *)
(* be lifted at any time, by any run, an operator or a pod restart; and a  *)
(* run closes as clean only when it holds nothing.                         *)
(***************************************************************************)
CONSTANTS Procs, Points, Nil

VARIABLES
  phase,    \* of each run: new, open, clean (closed with a promise) or ended
  holder    \* the run that holds a failpoint, or Nil

vars == <<phase, holder>>

Init ==
  /\ phase = [r \in Procs |-> "new"]
  /\ holder = [p \in Points |-> Nil]

Open(r) ==
  /\ phase[r] = "new"
  /\ phase' = [phase EXCEPT ![r] = "open"]
  /\ UNCHANGED holder

Take(r, p) ==
  /\ phase[r] = "open"
  /\ holder' = [holder EXCEPT ![p] = r]
  /\ UNCHANGED phase

Lift(S) ==
  /\ holder' = [p \in Points |-> IF p \in S THEN Nil ELSE holder[p]]
  /\ UNCHANGED phase

Close(r) ==
  /\ phase[r] = "open"
  /\ \E end \in {"clean", "ended"} :
       /\ end = "clean" => \A p \in Points : holder[p] # r
       /\ phase' = [phase EXCEPT ![r] = end]
  /\ UNCHANGED holder

Next ==
  \/ \E r \in Procs : Open(r) \/ Close(r) \/ \E p \in Points : Take(r, p)
  \/ \E S \in SUBSET Points : Lift(S)

Spec == Init /\ [][Next]_vars

\* A run that closed clean holds nothing, then and for ever after: lifted
\* faults stay lifted although other runs arm the same failpoints.
CleanHoldsNothing ==
  \A r \in Procs : phase[r] = "clean" => \A p \in Points : holder[p] # r
=============================================================================

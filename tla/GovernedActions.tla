--------------------------- MODULE GovernedActions ---------------------------
(***************************************************************************)
(* What the approval workflow promises: an action that touches money, a    *)
(* customer or the law is done at most once, and only after an owner       *)
(* approved it; a decision is never taken back.                            *)
(***************************************************************************)
EXTENDS Naturals

CONSTANT Approval

VARIABLES
  decision,   (* what the owner decided about each requested action          *)
  times       (* how often the action was done                               *)

Init ==
  /\ decision \in [Approval -> {"none", "pending"}]
  /\ times = [a \in Approval |-> 0]

Ask(a) ==
  /\ decision[a] = "none"
  /\ decision' = [decision EXCEPT ![a] = "pending"]
  /\ UNCHANGED times

Answer(a, answer) ==
  /\ decision[a] = "pending"
  /\ decision' = [decision EXCEPT ![a] = answer]
  /\ UNCHANGED times

Perform(a) ==
  /\ decision[a] = "approved"
  /\ times[a] = 0
  /\ times' = [times EXCEPT ![a] = 1]
  /\ UNCHANGED decision

Next ==
  \E a \in Approval:
    \/ Ask(a)
    \/ Answer(a, "approved")
    \/ Answer(a, "rejected")
    \/ Perform(a)

Spec == Init /\ [][Next]_<<decision, times>>
=============================================================================

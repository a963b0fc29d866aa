----------------------------- MODULE GroupPool -----------------------------
(***************************************************************************)
(* What a global step owes to its sequence groups, wherever they are       *)
(* generated (ReasoningRunner.run, rlinf/runners/reasoning_runner.py):     *)
(* what was generated is kept, every group is put out once, when all of    *)
(* its sequences are complete, and the step ends with the last of them.    *)
(***************************************************************************)
EXTENDS Naturals, SequencesExt

CONSTANTS Groups, GroupSize

VARIABLES
  completed,  (* how many sequences of each group are complete              *)
  output,     (* the groups put out, in order                               *)
  open        (* TRUE during a step                                         *)

vars == <<completed, output, open>>

Fresh == /\ completed' = [g \in Groups |-> 0]
         /\ output' = <<>>

Init ==
  /\ completed = [g \in Groups |-> 0]
  /\ output = <<>>
  /\ open = FALSE

Start == ~open /\ open' = TRUE /\ Fresh

(* Sequences complete; none is ever generated again.                        *)
Generate ==
  /\ open
  /\ completed' \in [Groups -> 0..GroupSize]
  /\ \A g \in Groups : completed'[g] >= completed[g]
  /\ UNCHANGED <<output, open>>

PutOut(g) ==
  /\ open /\ completed[g] = GroupSize /\ ~Contains(output, g)
  /\ output' = Append(output, g)
  /\ UNCHANGED <<completed, open>>

End ==
  /\ open /\ ToSet(output) = Groups
  /\ open' = FALSE
  /\ UNCHANGED <<completed, output>>

Next == Start \/ Generate \/ End \/ \E g \in Groups : PutOut(g)

Spec == Init /\ [][Next]_vars
=============================================================================

---------------------------- MODULE DeviceMutex ----------------------------
(***************************************************************************)
(* What a worker may rely on when it brackets its work with                *)
(* `with self.device_lock` (rlinf/scheduler/worker/lock.py): it gets all   *)
(* its accelerators at once, in the order of arrival among those that      *)
(* compete for them, and keeps them until it leaves.                       *)
(***************************************************************************)
EXTENDS Naturals, SequencesExt

CONSTANTS
  Workers,  (* worker addresses                                             *)
  Devices,  (* accelerator ids                                              *)
  Needs,    (* Needs[w]: the accelerators of w                              *)
  Mortal    (* the workers that may be killed                               *)

VARIABLES
  phase,    (* "idle", "waiting", "holding" or "dead", for each worker      *)
  line      (* the workers that wait or hold, in order of arrival           *)

vars == <<phase, line>>

Compete(v, w) == Needs[v] \cap Needs[w] # {}

Init ==
  /\ phase = [w \in Workers |-> "idle"]
  /\ line = <<>>

Ask(w) ==
  /\ phase[w] = "idle"
  /\ phase' = [phase EXCEPT ![w] = "waiting"]
  /\ line' = Append(line, w)

(* Nobody who arrived before w, and is still here, competes with it.        *)
Grant(w) ==
  /\ phase[w] = "waiting"
  /\ \A i, j \in DOMAIN line :
       i < j /\ line[j] = w => ~Compete(line[i], w)
  /\ phase' = [phase EXCEPT ![w] = "holding"]
  /\ UNCHANGED line

Leave(w) ==
  /\ phase[w] = "holding"
  /\ phase' = [phase EXCEPT ![w] = "idle"]
  /\ \E i \in DOMAIN line : line[i] = w /\ line' = RemoveAt(line, i)

(* A killed worker leaves nothing: whoever competes with it waits on.       *)
Die(w) ==
  /\ w \in Mortal /\ phase[w] # "dead"
  /\ phase' = [phase EXCEPT ![w] = "dead"]
  /\ UNCHANGED line

Next == \E w \in Workers : Ask(w) \/ Grant(w) \/ Leave(w) \/ Die(w)

Spec == Init /\ [][Next]_vars

Fairness == \A w \in Workers : WF_vars(Grant(w)) /\ WF_vars(Leave(w))

FairSpec == Spec /\ Fairness
=============================================================================

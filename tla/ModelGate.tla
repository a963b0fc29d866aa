----------------------------- MODULE ModelGate -----------------------------
(***************************************************************************)
(* What OnlineRouterWorker promises its runner between sync_model_start    *)
(* and sync_model_end: a gate that is shut once the requests it found      *)
(* inside have left.  Who was held back passes once it has opened, and     *)
(* that may be after it began to close again.                              *)
(***************************************************************************)
CONSTANT Requests

VARIABLES
  gate,    (* "open", "closing" or "closed"                                 *)
  inside,  (* the requests that are being generated                         *)
  old,     (* those of them that the gate waits for                         *)
  passing  (* the requests that were told that it opened                    *)

vars == <<gate, inside, old, passing>>

Init == gate = "open" /\ inside = {} /\ old = {} /\ passing = {}

Enter(r) ==
  /\ gate = "open" \/ r \in passing
  /\ inside' = inside \cup {r} /\ passing' = passing \ {r}
  /\ UNCHANGED <<gate, old>>

(* A request that fails before it is forwarded.                             *)
TurnAway(r) ==
  r \in passing /\ passing' = passing \ {r} /\ UNCHANGED <<gate, inside, old>>

Leave(r) ==
  /\ r \in inside
  /\ inside' = inside \ {r} /\ old' = old \ {r}
  /\ UNCHANGED <<gate, passing>>

Close ==
  /\ gate = "open" /\ old' = inside
  /\ gate' = IF inside = {} THEN "closed" ELSE "closing"
  /\ UNCHANGED <<inside, passing>>

Closed ==
  /\ gate = "closing" /\ old = {} /\ gate' = "closed"
  /\ UNCHANGED <<inside, old, passing>>

Open ==
  /\ gate = "closed" /\ gate' = "open"
  /\ passing' \in SUBSET (Requests \ inside)
  /\ UNCHANGED <<inside, old>>

Next == \/ Close \/ Closed \/ Open
        \/ \E r \in Requests : Enter(r) \/ TurnAway(r) \/ Leave(r)

Spec == Init /\ [][Next]_vars
=============================================================================

------------------------------ MODULE GpuPool ------------------------------
(* What the dynamic scheduler promises of the GPUs of a cluster: each has at *)
(* most one holder, and a component takes only GPUs that nobody holds.       *)
CONSTANTS Components, Gpus
VARIABLE owner

Nobody == "nobody"

Init == owner \in [Gpus -> Components \cup {Nobody}]

(* Some components give GPUs up, some take free ones.                        *)
Next ==
  /\ owner' \in [Gpus -> Components \cup {Nobody}]
  /\ \A g \in Gpus : owner'[g] # owner[g] => Nobody \in {owner[g], owner'[g]}

Spec == Init /\ [][Next]_owner
=============================================================================

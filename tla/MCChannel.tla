----------------------------- MODULE MCChannel -----------------------------
(* Small sets of workers for Channel.                                       *)
EXTENDS Channel, TLC

CONSTANTS k1, k2, eager, waiting

Asking(op, k) == [op |-> op, key |-> k, weight |-> IF op = "put" THEN 1 ELSE 2]
MayAsk(w, op, k, sync) == [worker |-> w, request |-> Asking(op, k), sync |-> sync]

MCRequests ==
  {Asking(op, k) : op \in {"put", "put_nowait", "get", "get_nowait", "get_batch"},
                   k \in {k1, k2}}

(* eager puts under one key and takes under both with asynchronous           *)
(* operations; waiting awaits each of its operations.                        *)
MCDisciplined ==
  {MayAsk(eager, "put", k1, FALSE), MayAsk(eager, "get", k1, FALSE),
   MayAsk(eager, "get_batch", k2, FALSE),
   MayAsk(waiting, "put", k2, TRUE), MayAsk(waiting, "get", k1, TRUE),
   MayAsk(waiting, "get_nowait", k2, TRUE), MayAsk(waiting, "put_nowait", k1, TRUE)}

ASSUME DisciplineAssumption == Disciplined
=============================================================================

--------------------------- MODULE MCChannelQueue ---------------------------
(* Small channels for ChannelQueue.                                         *)
EXTENDS ChannelQueue, TLC

CONSTANT k1

Asking(op, k, w) == [op |-> op, key |-> k, weight |-> w]

(* One key, items of weight 1 and 2, batches of 0 (the default), 1 and 2.   *)
MCWeighted ==
  {Asking("put", k1, 1), Asking("put", k1, 2), Asking("put_nowait", k1, 1),
   Asking("get", k1, 0), Asking("get_nowait", k1, 0),
   Asking("get_batch", k1, 0), Asking("get_batch", k1, 1), Asking("get_batch", k1, 2)}
=============================================================================

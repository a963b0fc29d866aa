---------------------------- MODULE BoundedQueue ----------------------------
(***************************************************************************)
(* What the callers of a channel may rely on (Channel's docstring in       *)
(* rlinf/scheduler/channel/channel.py): for each key a FIFO queue of at    *)
(* most MaxSize items.  A call takes effect in atomic steps between its    *)
(* start and its return; there are no futures and no event loop.           *)
(***************************************************************************)
EXTENDS Naturals, SequencesExt, Sums

CONSTANTS Calls, Keys, Requests, MaxSize, None

VARIABLES
  request,   (* what each call asks                                         *)
  pc,        (* "idle", "running", or how the call returned                 *)
  held,      (* the items in its hands                                      *)
  queue      (* the items of each key                                       *)

vars == <<request, pc, held, queue>>

Key(c) == request[c].key
Weight(i) == request[i].weight
TotalWeight(items) == SumOf([n \in DOMAIN items |-> Weight(items[n])])
Full(k) == MaxSize > 0 /\ Len(queue[k]) = MaxSize

Init ==
  /\ request = [c \in Calls |-> None]
  /\ pc = [c \in Calls |-> "idle"]
  /\ held = [c \in Calls |-> <<>>]
  /\ queue = [k \in Keys |-> <<>>]

Call(c, r) ==
  /\ request[c] = None
  /\ request' = [request EXCEPT ![c] = r]
  /\ pc' = [pc EXCEPT ![c] = "running"]
  /\ held' = [held EXCEPT ![c] = IF r.op \in {"put", "put_nowait"} THEN <<c>> ELSE <<>>]
  /\ UNCHANGED queue

Asks(c, op) == pc[c] = "running" /\ request[c].op = op

Return(c, how) == pc' = [pc EXCEPT ![c] = how] /\ UNCHANGED request

Put(c) ==
  /\ Asks(c, "put") \/ Asks(c, "put_nowait")
  /\ ~Full(Key(c))
  /\ queue' = [queue EXCEPT ![Key(c)] = @ \o held[c]]
  /\ held' = [held EXCEPT ![c] = <<>>]
  /\ Return(c, "done")

Get(c) ==
  /\ Asks(c, "get") \/ Asks(c, "get_nowait")
  /\ queue[Key(c)] # <<>>
  /\ held' = [held EXCEPT ![c] = <<Head(queue[Key(c)])>>]
  /\ queue' = [queue EXCEPT ![Key(c)] = Tail(@)]
  /\ Return(c, "done")

Refuse(c) ==
  /\ \/ Asks(c, "put_nowait") /\ Full(Key(c)) /\ Return(c, "QueueFull")
     \/ Asks(c, "get_nowait") /\ queue[Key(c)] = <<>> /\ Return(c, "QueueEmpty")
  /\ UNCHANGED <<held, queue>>

(* A batch collects items from the front, in one or more steps.             *)
Collect(c) ==
  /\ Asks(c, "get_batch")
  /\ \E n \in 0..Len(queue[Key(c)]) :
       /\ held' = [held EXCEPT ![c] = @ \o SubSeq(queue[Key(c)], 1, n)]
       /\ queue' = [queue EXCEPT ![Key(c)] = SubSeq(@, n + 1, Len(@))]
  /\ TotalWeight(held'[c]) <= Weight(c)
  /\ Return(c, "done") \/ UNCHANGED <<pc, request>>

Next ==
  \E c \in Calls :
    \/ \E r \in Requests : Call(c, r)
    \/ Put(c) \/ Get(c) \/ Refuse(c) \/ Collect(c)

Spec == Init /\ [][Next]_vars

(* A put that could put, and a get that could get, eventually does.         *)
Served == \A c \in Calls : WF_vars(Put(c)) /\ WF_vars(Get(c))
=============================================================================

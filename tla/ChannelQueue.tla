---------------------------- MODULE ChannelQueue ----------------------------
(***************************************************************************)
(* The queues of a channel: PeekQueue, and the methods of ChannelWorker    *)
(* that put into and get from them                                         *)
(* (rlinf/scheduler/channel/channel_worker.py).                            *)
(*                                                                         *)
(* A ChannelWorker is one asyncio actor; each call is a coroutine that     *)
(* runs until it awaits a future of PeekQueue, an asyncio.Queue.  `ready`  *)
(* is the FIFO of its event loop, and every action after Call runs the     *)
(* call at its head up to the call's next await or its return.  Calls are  *)
(* numbered in the order they arrive; the item of a put is known by the    *)
(* number of its call.                                                     *)
(***************************************************************************)
EXTENDS Naturals, FiniteSets, SequencesExt, Sums

CONSTANTS
  Calls,     (* numbers of the calls made to the actor                      *)
  Keys,      (* keys of the channel                                         *)
  Requests,  (* what may be asked: records of op, key and weight, which is  *)
             (* the item's weight or get_batch's target_weight              *)
  MaxSize,   (* maxsize of the queues, 0 for unbounded                      *)
  None       (* Python's None                                               *)

Ops == {"put", "put_nowait", "get", "get_nowait", "get_batch"}

ASSUME CallsAssumption == Calls \subseteq Nat /\ IsFiniteSet(Calls)
ASSUME RequestsAssumption == Requests \subseteq [op : Ops, key : Keys, weight : Nat]
ASSUME MaxSizeAssumption == MaxSize \in Nat
ASSUME NoneAssumption == None \notin Requests

VARIABLES
  request,   (* what each call asks                                         *)
  pc,        (* where its coroutine is                                      *)
  held,      (* the items in its hands: received and not yet put, or taken  *)
  queue,     (* _queue of the PeekQueue of each key                         *)
  getters,   (* _getters: calls that wait for an item, as get or as peek    *)
  putters,   (* _putters: calls that wait for room                          *)
  ready      (* the event loop's FIFO                                       *)

vars == <<request, pc, held, queue, getters, putters, ready>>

(* "idle": not made yet; "running": has not returned; then how it returned. *)
PC == {"idle", "running", "done", "QueueFull", "QueueEmpty"}

Puts == {"put", "put_nowait"}
Key(c) == request[c].key
Weight(i) == request[i].weight
TotalWeight(items) == SumOf([n \in DOMAIN items |-> Weight(items[n])])

Init ==
  /\ request = [c \in Calls |-> None]
  /\ pc = [c \in Calls |-> "idle"]
  /\ held = [c \in Calls |-> <<>>]
  /\ queue = [k \in Keys |-> <<>>]
  /\ getters = [k \in Keys |-> <<>>]
  /\ putters = [k \in Keys |-> <<>>]
  /\ ready = <<>>

(* A remote call through Ray: its arguments, the item too, come with it.    *)
Call(c, r) ==
  /\ request[c] = None
  /\ \A b \in Calls : b < c => request[b] # None
  /\ request' = [request EXCEPT ![c] = r]
  /\ pc' = [pc EXCEPT ![c] = "running"]
  /\ held' = [held EXCEPT ![c] = IF r.op \in Puts THEN <<c>> ELSE <<>>]
  /\ ready' = Append(ready, c)
  /\ UNCHANGED <<queue, getters, putters>>

-----------------------------------------------------------------------------
(* The event loop.                                                          *)

Running(c, ops) == ready # <<>> /\ Head(ready) = c /\ request[c].op \in ops

Return(c, how) == pc' = [pc EXCEPT ![c] = how]

FirstOf(s, n) == SubSeq(s, 1, IF n < Len(s) THEN n ELSE Len(s))
After(s, n) == SubSeq(s, n + 1, Len(s))

(* asyncio.Queue._wakeup_next, n times: the futures leave the queue's deque *)
(* and their coroutines join the event loop.                                *)
WakeUp(sleepers, k, n) ==
  /\ sleepers' = [sleepers EXCEPT ![k] = After(@, n)]
  /\ ready' = Tail(ready) \o FirstOf(sleepers[k], n)

(* A coroutine that awaits a future of key k.                               *)
Sleep(sleepers, k, c) == sleepers' = [sleepers EXCEPT ![k] = Append(@, c)]

Full(k) == MaxSize > 0 /\ Len(queue[k]) >= MaxSize

(* Mutant: a put does not look at the room.                                 *)
PutItemUnchecked(c, m) ==
  /\ queue' = [queue EXCEPT ![Key(m)] = Append(@, m)]
  /\ held' = [held EXCEPT ![c] = <<>>]
  /\ WakeUp(getters, Key(m), 1)
  /\ Return(c, "done")
  /\ UNCHANGED putters

(* ChannelWorker.put and put_via_ray with item m in hand, from the start or *)
(* from asyncio.Queue.put's await: the room is checked again either way.    *)
PutItem(c, m) ==
  LET k == Key(m)
  IN \/ /\ ~Full(k)
        /\ queue' = [queue EXCEPT ![k] = Append(@, m)]
        /\ held' = [held EXCEPT ![c] = <<>>]
        /\ WakeUp(getters, k, 1)
        /\ Return(c, "done")
        /\ UNCHANGED putters
     \/ /\ Full(k)
        /\ IF request[c].op = "put"
           THEN Sleep(putters, k, c) /\ UNCHANGED pc
           ELSE Return(c, "QueueFull") /\ UNCHANGED putters
        /\ held' = [held EXCEPT ![c] = <<m>>]
        /\ ready' = Tail(ready)
        /\ UNCHANGED <<queue, getters>>

Put(c) ==
  /\ Running(c, Puts)
  /\ PutItem(c, c)
  /\ UNCHANGED request

(* Mutant: the item is peeked and not taken.                                *)
PeekItems(c, k, n) ==
  /\ held' = [held EXCEPT ![c] = @ \o FirstOf(queue[k], n)]
  /\ WakeUp(putters, k, n)
  /\ UNCHANGED queue

(* Mutant: the items are popped and no put is woken.                        *)
PopItems(c, k, n) ==
  /\ held' = [held EXCEPT ![c] = @ \o FirstOf(queue[k], n)]
  /\ queue' = [queue EXCEPT ![k] = After(@, n)]
  /\ ready' = Tail(ready)
  /\ UNCHANGED putters

(* The first n items go to call c, and each makes room for one put.         *)
TakeItems(c, k, n) ==
  /\ held' = [held EXCEPT ![c] = @ \o FirstOf(queue[k], n)]
  /\ queue' = [queue EXCEPT ![k] = After(@, n)]
  /\ WakeUp(putters, k, n)

(* ChannelWorker.get and get_via_ray.                                       *)
Get(c) ==
  /\ Running(c, {"get", "get_nowait"})
  /\ LET k == Key(c)
     IN \/ /\ queue[k] # <<>>
           /\ TakeItems(c, k, 1)
           /\ Return(c, "done")
           /\ UNCHANGED getters
        \/ /\ queue[k] = <<>>
           /\ IF request[c].op = "get"
              THEN Sleep(getters, k, c) /\ UNCHANGED pc
              ELSE Return(c, "QueueEmpty") /\ UNCHANGED getters
           /\ ready' = Tail(ready)
           /\ UNCHANGED <<held, queue, putters>>
  /\ UNCHANGED request

(* Mutant: the weight of the next item is not looked at.                    *)
BatchUntilReached(c) ==
  LET q == queue[Key(c)]
      Batch(n) == held[c] \o FirstOf(q, n)
  IN Max({n \in 0..Len(q) :
            \A i \in 2..n : TotalWeight(Batch(i - 1)) < Weight(c)})

(* How many items get_batch's loop takes before it stops or has to wait:    *)
(* peek and get do not suspend while there are items.                       *)
BatchSize(c) ==
  LET q == queue[Key(c)]
      Batch(n) == held[c] \o FirstOf(q, n)
  IN Max({n \in 0..Len(q) :
            /\ \A i \in 1..n : TotalWeight(Batch(i)) <= Weight(c)
            /\ \A i \in 2..n : TotalWeight(Batch(i - 1)) < Weight(c)})

(* ChannelWorker.get_batch and get_batch_via_ray, to the return or to the   *)
(* await of the next peek.                                                  *)
GetBatch(c) ==
  /\ Running(c, {"get_batch"})
  /\ LET k == Key(c)
         n == BatchSize(c)
         overweight == n < Len(queue[k])
         reached == n > 0 /\ TotalWeight(held[c] \o queue[k]) >= Weight(c)
     IN /\ TakeItems(c, k, n)
        /\ IF overweight \/ reached
           THEN Return(c, "done") /\ UNCHANGED getters
           ELSE Sleep(getters, k, c) /\ UNCHANGED pc
  /\ UNCHANGED request

EventLoop == \E c \in Calls : Put(c) \/ Get(c) \/ GetBatch(c)

Next == EventLoop \/ \E c \in Calls, r \in Requests : Call(c, r)

Spec == Init /\ [][Next]_vars

(* The event loop runs what is due.  Nobody is obliged to call.             *)
FairSpec == Spec /\ WF_vars(EventLoop)

-----------------------------------------------------------------------------
TypeOK ==
  /\ request \in [Calls -> Requests \cup {None}]
  /\ pc \in [Calls -> PC]
  /\ held \in [Calls -> Seq(Calls)]
  /\ queue \in [Keys -> Seq(Calls)]
  /\ getters \in [Keys -> Seq(Calls)]
  /\ putters \in [Keys -> Seq(Calls)]
  /\ ready \in Seq(Calls)
  /\ MaxSize > 0 => \A k \in Keys : Len(queue[k]) <= MaxSize

(* Every item that was put is in exactly one place: with the call that puts *)
(* it, in the queue of its key, or with the one call that took it.          *)
NothingLostOrDoubled ==
  /\ TypeOK
  /\ \A i \in Calls :
      request[i] # None /\ request[i].op \in Puts =>
        Cardinality({p \in Calls \X (1..Cardinality(Calls)) :
                       p[2] \in DOMAIN held[p[1]] /\ held[p[1]][p[2]] = i})
          + Cardinality({n \in DOMAIN queue[Key(i)] : queue[Key(i)][n] = i}) = 1

(* get_batch never exceeds its target_weight, however many times it was put *)
(* to sleep between a peek and the next, while others took items; and it    *)
(* returns less than the target only when the next item would exceed it.    *)
BatchContract ==
  [][\A c \in Calls :
       pc[c] = "running" /\ pc'[c] = "done" /\ request[c].op = "get_batch" =>
         LET k == Key(c)
             total == TotalWeight(held[c]')
         IN /\ total <= Weight(c)
            /\ \/ total = Weight(c)
               \/ queue'[k] # <<>> /\ total + Weight(Head(queue'[k])) > Weight(c)]_vars

(* A get_batch that left an item, too heavy for it, with which it had been  *)
(* woken: it wakes nobody in its place.                                     *)
BrokeOff(k) ==
  \E c \in Calls :
    /\ pc[c] = "done" /\ request[c].op = "get_batch" /\ Key(c) = k
    /\ held[c] = <<>> \/ TotalWeight(held[c]) < Weight(c)

(* Once everybody woken has run, no put sleeps beside room: calls that take *)
(* the room of a woken put, or a batch that frees several places, do not    *)
(* leave it behind. And no get sleeps beside items, as none ever does at a  *)
(* queue of asyncio, unless some batch of its key broke off.                *)
NobodySleepsInVain ==
  ready = <<>> =>
    \A k \in Keys :
      /\ putters[k] # <<>> => Full(k)
      /\ queue[k] # <<>> /\ ~BrokeOff(k) =>
           \A n \in DOMAIN getters[k] : request[getters[k][n]].op # "get"

-----------------------------------------------------------------------------
(* What a caller sees: a monitor around a bounded FIFO for each key.        *)
Monitor == INSTANCE BoundedQueue

(* The event loop, its futures and wake-ups implement the monitor.          *)
ImplementsBoundedQueue == Monitor!Spec

(* And a call that the monitor could serve, forever, is served, unless some *)
(* batch breaks off.                                                        *)
ServedUnlessStarved ==
  [](\A k \in Keys : ~BrokeOff(k)) => Monitor!Served
=============================================================================

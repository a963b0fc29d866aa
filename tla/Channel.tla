------------------------------ MODULE Channel ------------------------------
(***************************************************************************)
(* Channel inside workers (rlinf/scheduler/channel/channel.py): put, get   *)
(* and get_batch of several workers on one channel actor, with the op      *)
(* queues of AsyncChannelWork, the answers sorted out by                   *)
(* AsyncChannelCommWork (rlinf/scheduler/collective/async_work.py), and    *)
(* the collective send and recv in between, FIFO from one process to       *)
(* another.  The actor's queues and event loop are ChannelQueue's.         *)
(*                                                                         *)
(* An operation, its remote call, its item and its query_id have one       *)
(* number, given in the order the operations begin.                        *)
(***************************************************************************)
EXTENDS ChannelQueue

CONSTANTS
  Workers,   (* workers connected to the channel                            *)
  Offers     (* what a worker may begin: records of worker, request and     *)
             (* sync, TRUE when it waits for the result at once             *)

(* Only asynchronous operations outlive the call that begins them, and the  *)
(* _nowait operations have no asynchronous form.                            *)
ASSUME OffersAssumption ==
  /\ Offers \subseteq [worker : Workers, request : Requests, sync : BOOLEAN]
  /\ \A o \in Offers : o.request.op \in {"put_nowait", "get_nowait"} => o.sync
  /\ None \notin Workers /\ None \notin Calls /\ None \notin Seq(Calls)

VARIABLES
  caller,     (* the worker of each operation                               *)
  blocked,    (* the operation each worker waits for                        *)
  opQueue,    (* channel_op_queue_map of each worker, by key                *)
  executing,  (* the operation process_work of each worker and key awaits   *)
  unsent,     (* items in each worker's send work queue                     *)
  toChannel,  (* items on their way to the actor                            *)
  toWorker,   (* answers on their way to each worker                        *)
  recvs,      (* operations whose recv each worker has posted, in order     *)
  got         (* the data each get returns                                  *)

workerVars == <<caller, blocked, opQueue, executing, unsent, toChannel,
                toWorker, recvs, got>>
channelVars == <<vars, workerVars>>

(* The habits with which a worker does not mix up its operations: it awaits *)
(* each of its gets at once, or none; it awaits each of its puts, or they   *)
(* are all under one key.                                                   *)
Disciplined ==
  \A o, p \in Offers :
    o.worker = p.worker =>
      /\ o.request.op \notin Puts /\ p.request.op \notin Puts =>
           o.sync = p.sync
      /\ o.request.op \in Puts /\ p.request.op \in Puts =>
           (o.sync /\ p.sync) \/ o.request.key = p.request.key

IsPut(c) == request[c].op \in Puts
Returned(c) == pc[c] \notin {"idle", "running"}

ChannelInit ==
  /\ Init
  /\ caller = [c \in Calls |-> None]
  /\ blocked = [w \in Workers |-> None]
  /\ opQueue = [w \in Workers |-> [k \in Keys |-> <<>>]]
  /\ executing = [w \in Workers |-> [k \in Keys |-> None]]
  /\ unsent = [w \in Workers |-> <<>>]
  /\ toChannel = [w \in Workers |-> <<>>]
  /\ toWorker = [w \in Workers |-> <<>>]
  /\ recvs = [w \in Workers |-> <<>>]
  /\ got = [c \in Calls |-> None]

-----------------------------------------------------------------------------
(* The worker's own thread.                                                 *)

(* Channel.put, put_nowait, get, get_nowait or get_batch: the operation is  *)
(* queued, then the item is sent, or the recv of the answer posted.         *)
Begin(c, w, r, sync) ==
  /\ blocked[w] = None
  /\ request[c] = None /\ \A b \in Calls : b < c => request[b] # None
  /\ request' = [request EXCEPT ![c] = r]
  /\ caller' = [caller EXCEPT ![c] = w]
  /\ blocked' = [blocked EXCEPT ![w] = IF sync THEN c ELSE None]
  /\ opQueue' = [opQueue EXCEPT ![w][r.key] = Append(@, c)]
  /\ IF r.op \in Puts
     THEN unsent' = [unsent EXCEPT ![w] = Append(@, c)] /\ UNCHANGED recvs
     ELSE recvs' = [recvs EXCEPT ![w] = Append(@, c)] /\ UNCHANGED unsent
  /\ UNCHANGED <<pc, held, queue, getters, putters, ready, executing,
                 toChannel, toWorker, got>>

(* The reply of the remote call has reached the operation's future.         *)
Replied(c) == Returned(c) /\ executing[caller[c]][request[c].key] # c

(* A synchronous operation is over: get_nowait waits for its data alone,    *)
(* the puts for the reply alone.                                            *)
End(w) ==
  /\ blocked[w] # None
  /\ LET c == blocked[w]
     IN /\ request[c].op # "get_nowait" => Replied(c)
        /\ ~IsPut(c) => got[c] # None
  /\ blocked' = [blocked EXCEPT ![w] = None]
  /\ UNCHANGED <<vars, caller, opQueue, executing, unsent, toChannel,
                 toWorker, recvs, got>>

-----------------------------------------------------------------------------
(* The worker's communication threads.                                      *)

(* process_work takes the next operation of its key and calls the actor.    *)
Execute(w, k) ==
  /\ executing[w][k] = None /\ opQueue[w][k] # <<>>
  /\ LET c == Head(opQueue[w][k])
     IN /\ executing' = [executing EXCEPT ![w][k] = c]
        /\ pc' = [pc EXCEPT ![c] = "running"]
        /\ ready' = Append(ready, c)
  /\ opQueue' = [opQueue EXCEPT ![w][k] = Tail(@)]
  /\ UNCHANGED <<request, held, queue, getters, putters, caller, blocked,
                 unsent, toChannel, toWorker, recvs, got>>

(* The actor's reply sets the operation's future.                           *)
Reply(w, k) ==
  /\ executing[w][k] # None /\ Returned(executing[w][k])
  /\ executing' = [executing EXCEPT ![w][k] = None]
  /\ UNCHANGED <<vars, caller, blocked, opQueue, unsent, toChannel,
                 toWorker, recvs, got>>

(* Mutant: the item is sent when the put has been replied to.               *)
SendOnReply(w) ==
  /\ unsent[w] # <<>> /\ Replied(Head(unsent[w]))
  /\ toChannel' = [toChannel EXCEPT ![w] = Append(@, Head(unsent[w]))]
  /\ unsent' = [unsent EXCEPT ![w] = Tail(@)]
  /\ UNCHANGED <<vars, caller, blocked, opQueue, executing, toWorker,
                 recvs, got>>

(* Mutant: the newest item is sent first.                                   *)
SendNewest(w) ==
  /\ unsent[w] # <<>>
  /\ toChannel' = [toChannel EXCEPT ![w] = Append(@, Last(unsent[w]))]
  /\ unsent' = [unsent EXCEPT ![w] = Front(@)]
  /\ UNCHANGED <<vars, caller, blocked, opQueue, executing, toWorker,
                 recvs, got>>

Send(w) ==
  /\ unsent[w] # <<>>
  /\ toChannel' = [toChannel EXCEPT ![w] = Append(@, Head(unsent[w]))]
  /\ unsent' = [unsent EXCEPT ![w] = Tail(@)]
  /\ UNCHANGED <<vars, caller, blocked, opQueue, executing, toWorker,
                 recvs, got>>

(* Mutant: the data is for the operation that posted the recv.              *)
DeliverToPoster(w) ==
  /\ recvs[w] # <<>> /\ toWorker[w] # <<>>
  /\ got' = [got EXCEPT ![Head(recvs[w])] = Head(toWorker[w]).items]
  /\ recvs' = [recvs EXCEPT ![w] = Tail(@)]
  /\ toWorker' = [toWorker EXCEPT ![w] = Tail(@)]
  /\ UNCHANGED <<vars, caller, blocked, opQueue, executing, unsent, toChannel>>

(* A posted recv gets the next answer.  AsyncChannelCommWork stores it for  *)
(* the query it answers; a synchronous get returns it whatever it answers.  *)
Deliver(w) ==
  /\ recvs[w] # <<>> /\ toWorker[w] # <<>>
  /\ LET poster == Head(recvs[w])
         answer == Head(toWorker[w])
         to == IF poster = blocked[w] THEN poster ELSE answer.query
     IN got' = IF to = None THEN got ELSE [got EXCEPT ![to] = answer.items]
  /\ recvs' = [recvs EXCEPT ![w] = Tail(@)]
  /\ toWorker' = [toWorker EXCEPT ![w] = Tail(@)]
  /\ UNCHANGED <<vars, caller, blocked, opQueue, executing, unsent, toChannel>>

-----------------------------------------------------------------------------
(* The actor.                                                               *)

(* src_addr *)
Source(c) == caller[c]

(* ChannelWorker.put: it starts with a recv that blocks the whole event     *)
(* loop until an item of its caller, the next one, is there.                *)
ActorPut(c) ==
  /\ Running(c, Puts)
  /\ LET w == Source(c)
     IN \/ /\ held[c] = <<>> /\ toChannel[w] # <<>>
           /\ PutItem(c, Head(toChannel[w]))
           /\ toChannel' = [toChannel EXCEPT ![w] = Tail(@)]
        \/ /\ held[c] # <<>>
           /\ PutItem(c, Head(held[c]))
           /\ UNCHANGED toChannel
  /\ UNCHANGED <<request, caller, blocked, opQueue, executing, unsent,
                 toWorker, recvs, got>>

(* Mutant: the answer does not say which query it is for.                   *)
AnswerUnlabelled(c) == [query |-> None, items |-> held'[c]]

Answer(c) ==
  [query |-> IF pc'[c] = "QueueEmpty" THEN None ELSE c, items |-> held'[c]]

(* ChannelWorker.get and get_batch: they end with the send of an answer     *)
(* that bears the query_id, unless a get_nowait found nothing.              *)
ActorGet(c) ==
  /\ Get(c) \/ GetBatch(c)
  /\ toWorker' = IF pc'[c] = "running" THEN toWorker
                 ELSE [toWorker EXCEPT ![caller[c]] = Append(@, Answer(c))]
  /\ UNCHANGED <<caller, blocked, opQueue, executing, unsent, toChannel,
                 recvs, got>>

ActorLoop == \E c \in Calls : ActorPut(c) \/ ActorGet(c)

Communication(w) ==
  \/ Send(w) \/ Deliver(w)
  \/ \E k \in Keys : Execute(w, k) \/ Reply(w, k)

ChannelNext ==
  \/ ActorLoop
  \/ \E c \in Calls, o \in Offers : Begin(c, o.worker, o.request, o.sync)
  \/ \E w \in Workers : End(w) \/ Communication(w)

ChannelSpec == ChannelInit /\ [][ChannelNext]_channelVars

(* The actor runs what is due, and so do the communication threads: each    *)
(* thread, and each key's coroutine, has a loop of its own.                 *)
Fairness ==
  /\ WF_channelVars(ActorLoop)
  /\ \A w \in Workers :
       /\ WF_channelVars(Send(w)) /\ WF_channelVars(Deliver(w))
       /\ \A k \in Keys :
            WF_channelVars(Execute(w, k)) /\ WF_channelVars(Reply(w, k))

ChannelFairSpec == ChannelSpec /\ Fairness

-----------------------------------------------------------------------------
ChannelTypeOK ==
  /\ TypeOK
  /\ caller \in [Calls -> Workers \cup {None}]
  /\ blocked \in [Workers -> Calls \cup {None}]
  /\ opQueue \in [Workers -> [Keys -> Seq(Calls)]]
  /\ executing \in [Workers -> [Keys -> Calls \cup {None}]]
  /\ unsent \in [Workers -> Seq(Calls)]
  /\ toChannel \in [Workers -> Seq(Calls)]
  /\ toWorker \in [Workers -> Seq([query : Calls \cup {None}, items : Seq(Calls)])]
  /\ recvs \in [Workers -> Seq(Calls)]
  /\ got \in [Calls -> Seq(Calls) \cup {None}]

Begun(c) == request[c] # None

(* Each call handles its own items, though the answers of different keys,   *)
(* and the items that puts wait for, overtake each other: what a get        *)
(* returns is what the actor took for it, and a put that raised QueueFull   *)
(* is the one whose item was refused, so no item of a plain put is dropped. *)
EachCallItsOwn ==
  /\ ChannelTypeOK
  /\ \A c \in Calls : got[c] # None => Returned(c) /\ got[c] = held[c]
  /\ \A c \in Calls : pc[c] = "QueueFull" => held[c] = <<c>>

(* A get whose item has left the queue has its data once no answer is on    *)
(* its way: no answer is spent on another operation.                        *)
NoAnswerAstray ==
  \A c \in Calls :
    Begun(c) /\ ~IsPut(c) /\ Returned(c) /\ toWorker[caller[c]] = <<>>
      => got[c] # None

(* The item is in a queue or has been taken from it.                        *)
Accepted(i) ==
  \/ \E k \in Keys : \E n \in DOMAIN queue[k] : queue[k][n] = i
  \/ \E c \in Calls : Begun(c) /\ ~IsPut(c) /\ \E n \in DOMAIN held[c] : held[c][n] = i

(* The items one worker puts under one key are accepted in that order.      *)
PutsInOrder ==
  \A b, c \in Calls :
    /\ b < c /\ Begun(b) /\ Begun(c) /\ caller[b] = caller[c]
    /\ request[b].op = "put" /\ request[c].op = "put"
    /\ request[b].key = request[c].key
    /\ Accepted(c)
    => Accepted(b)

(* The recv inside the actor's put never stops the event loop for good:     *)
(* the item it waits for is on its way, whoever is blocked meanwhile.       *)
EventLoopNotStuck == ready # <<>> ~> ready = <<>>
=============================================================================

----------------------------- MODULE DeviceLock -----------------------------
(***************************************************************************)
(* The accelerator lock of the scheduler: WorkerDeviceLock and             *)
(* DeviceLockManager (rlinf/scheduler/manager/lock_manager.py), and the    *)
(* worker side handle DeviceLock (rlinf/scheduler/worker/lock.py).         *)
(*                                                                         *)
(* The manager is one asyncio actor.  Its event loop is the variable       *)
(* `ready`, the FIFO of callbacks that are due: a remote call that has     *)
(* arrived, a child task of asyncio.gather that starts, or a coroutine     *)
(* whose future was resolved.  Every action below either belongs to a      *)
(* worker, or runs the head of `ready` up to its next suspension point.    *)
(***************************************************************************)
EXTENDS Naturals, FiniteSets, SequencesExt

CONSTANTS
  Workers,   (* worker addresses                                            *)
  Devices,   (* accelerator ids of the cluster                              *)
  Accel,     (* Accel[w]: the list worker.global_accelerator_ids            *)
  Mortal,    (* the workers that may be killed (WorkerGroup._close)         *)
  None       (* Python's None                                               *)

ASSUME NoneAssumption == None \notin Workers
ASSUME AccelAssumption ==
  /\ Accel \in [Workers -> Seq(Devices)]
  /\ \A w \in Workers : \A i, j \in 1..Len(Accel[w]) :
       Accel[w][i] = Accel[w][j] => i = j
ASSUME MortalAssumption == Mortal \subseteq Workers

VARIABLES
  locked,    (* _locked of each device's WorkerDeviceLock                   *)
  owner,     (* _worker_address of each device's WorkerDeviceLock           *)
  waiters,   (* _waiters of each device: records of a worker and whether    *)
             (* its future is done                                          *)
  ready,     (* the event loop's FIFO of due callbacks                      *)
  pc,        (* where each worker is                                        *)
  children,  (* devices whose gather child of this worker has not returned  *)
  raised,    (* set of the errors raised so far (history)                   *)
  arrival    (* workers in the order of their standing requests (history)   *)

vars == <<locked, owner, waiters, ready, pc, children, raised, arrival>>
lockVars == <<locked, owner, waiters>>

DevicesOf(w) == {Accel[w][i] : i \in 1..Len(Accel[w])}

(* "out": not using the devices; "asking": the acquire call is on its way;  *)
(* "gathering": the manager awaits the locks; "holding": inside the `with`; *)
(* "leaving", "freeing": the same for release; "failed": its call raised;   *)
(* "dead": killed.                                                          *)
PC == {"out", "asking", "gathering", "holding", "leaving", "freeing",
       "failed", "dead"}

Ops == {"acquire_devices", "release_devices", "acquire", "release", "resume"}

Callback(op, w, d) == [op |-> op, w |-> w, d |-> d]

(* asyncio.gather starts one child task per device, in the list's order.    *)
Gather(op, w) == [i \in 1..Len(Accel[w]) |-> Callback(op, w, Accel[w][i])]

Goto(w, from, to) ==
  /\ pc[w] = from
  /\ pc' = [pc EXCEPT ![w] = to]

Init ==
  /\ locked = [d \in Devices |-> FALSE]
  /\ owner = [d \in Devices |-> None]
  /\ waiters = [d \in Devices |-> <<>>]
  /\ ready = <<>>
  /\ pc = [w \in Workers |-> "out"]
  /\ children = [w \in Workers |-> {}]
  /\ raised = {}
  /\ arrival = <<>>

-----------------------------------------------------------------------------
(* Workers.  Every call through the proxy blocks its worker (ray.get), so a *)
(* worker has one call outstanding at a time, and `with` never nests.       *)

(* DeviceLock.__enter__ : the call reaches the manager's event loop.        *)
Ask(w) ==
  /\ Goto(w, "out", "asking")
  /\ ready' = Append(ready, Callback("acquire_devices", w, None))
  /\ arrival' = Append(arrival, w)
  /\ UNCHANGED <<lockVars, children, raised>>

(* The reply of acquire_devices: every child of the gather has returned.    *)
Enter(w) ==
  /\ children[w] = {}
  /\ Goto(w, "gathering", "holding")
  /\ UNCHANGED <<lockVars, ready, children, raised, arrival>>

(* DeviceLock.__exit__ *)
Leave(w) ==
  /\ Goto(w, "holding", "leaving")
  /\ ready' = Append(ready, Callback("release_devices", w, None))
  /\ \E i \in DOMAIN arrival : arrival[i] = w /\ arrival' = RemoveAt(arrival, i)
  /\ UNCHANGED <<lockVars, children, raised>>

(* The reply of release_devices.                                            *)
Left(w) ==
  /\ children[w] = {}
  /\ Goto(w, "freeing", "out")
  /\ UNCHANGED <<lockVars, ready, children, raised, arrival>>

(* ray.kill: the worker process is gone, the calls it made are not.         *)
Kill(w) ==
  /\ w \in Mortal /\ pc[w] # "dead"
  /\ pc' = [pc EXCEPT ![w] = "dead"]
  /\ UNCHANGED <<lockVars, ready, children, raised, arrival>>

-----------------------------------------------------------------------------
(* The event loop.                                                          *)

Due(op, w, d) == ready # <<>> /\ Head(ready) = Callback(op, w, d)

(* A worker that was killed in the meantime gets no reply.                  *)
Await(w, at) == pc' = [pc EXCEPT ![w] = IF @ = "dead" THEN @ ELSE at]

(* Mutant: the first lock is awaited directly, the others gathered later.   *)
AcquireFirstThenGather(w) ==
  /\ Due("acquire_devices", w, None)
  /\ LET tasks == Gather("acquire", w)
     IN ready' = IF tasks = <<>> THEN Tail(ready)
                 ELSE <<Head(tasks)>> \o Tail(ready) \o Tail(tasks)
  /\ children' = [children EXCEPT ![w] = DevicesOf(w)]
  /\ Await(w, "gathering")
  /\ UNCHANGED <<lockVars, raised, arrival>>

(* DeviceLockManager.acquire_devices, up to its await.                      *)
AcquireDevices(w) ==
  /\ Due("acquire_devices", w, None)
  /\ ready' = Tail(ready) \o Gather("acquire", w)
  /\ children' = [children EXCEPT ![w] = DevicesOf(w)]
  /\ Await(w, "gathering")
  /\ UNCHANGED <<lockVars, raised, arrival>>

(* DeviceLockManager.release_devices, up to its await.                      *)
ReleaseDevices(w) ==
  /\ Due("release_devices", w, None)
  /\ ready' = Tail(ready) \o Gather("release", w)
  /\ children' = [children EXCEPT ![w] = DevicesOf(w)]
  /\ Await(w, "freeing")
  /\ UNCHANGED <<lockVars, raised, arrival>>

(* An exception in a child is raised by the worker's call through the proxy.*)
Raise(w, error) ==
  /\ raised' = raised \cup {error}
  /\ Await(w, "failed")

ChildReturns(w, d) == children' = [children EXCEPT ![w] = @ \ {d}]

(* Mutant: a newcomer looks at the flag only and barges in.                 *)
BargeIn(d) == ~locked[d]

(* Mutant: a newcomer looks at the waiters only.                            *)
IgnoreFlag(d) == waiters[d] = <<>>

(* Nobody is to be served before a newcomer: no future in _waiters (none is *)
(* ever cancelled, nothing cancels the manager's tasks).                    *)
FreeForAll(d) == ~locked[d] /\ waiters[d] = <<>>

(* Mutant: the accelerator id is recorded where the address belongs.        *)
TakeLockForDevice(w, d) ==
  /\ locked' = [locked EXCEPT ![d] = TRUE]
  /\ owner' = [owner EXCEPT ![d] = d]

TakeLock(w, d) ==
  /\ locked' = [locked EXCEPT ![d] = TRUE]
  /\ owner' = [owner EXCEPT ![d] = w]

(* WorkerDeviceLock.acquire, up to its return or its await.                 *)
Acquire(w, d) ==
  /\ Due("acquire", w, d)
  /\ ready' = Tail(ready)
  /\ \/ /\ owner[d] = w
        /\ ChildReturns(w, d)
        /\ UNCHANGED lockVars
     \/ /\ owner[d] # w /\ FreeForAll(d)
        /\ TakeLock(w, d)
        /\ ChildReturns(w, d)
        /\ UNCHANGED waiters
     \/ /\ owner[d] # w /\ ~FreeForAll(d)
        /\ waiters' = [waiters EXCEPT ![d] = Append(@, [w |-> w, done |-> FALSE])]
        /\ UNCHANGED <<locked, owner, children>>
  /\ UNCHANGED <<pc, raised, arrival>>

(* The rest of WorkerDeviceLock.acquire, once its future is done.           *)
Resume(w, d) ==
  /\ Due("resume", w, d)
  /\ ready' = Tail(ready)
  /\ \E i \in DOMAIN waiters[d] :
       /\ waiters[d][i] = [w |-> w, done |-> TRUE]
       /\ waiters' = [waiters EXCEPT ![d] = RemoveAt(@, i)]
  /\ IF owner[d] = None
     THEN TakeLock(w, d) /\ UNCHANGED <<pc, raised>>
     ELSE /\ locked' = [locked EXCEPT ![d] = TRUE]
          /\ Raise(w, "AssertionError")
          /\ UNCHANGED owner
  /\ ChildReturns(w, d)
  /\ UNCHANGED arrival

(* asyncio.Lock._wake_up_first: resolve the first future unless it is done. *)
WakeUpFirst(d) ==
  IF waiters[d] # <<>> /\ ~Head(waiters[d]).done
  THEN /\ waiters' = [waiters EXCEPT ![d][1] = [w |-> @.w, done |-> TRUE]]
       /\ ready' = Append(Tail(ready), Callback("resume", Head(waiters[d]).w, d))
  ELSE ready' = Tail(ready) /\ UNCHANGED waiters

(* Mutant: a released lock wakes nobody.                                    *)
ReleaseQuietly(w, d) ==
  /\ Due("release", w, d)
  /\ locked' = [locked EXCEPT ![d] = FALSE]
  /\ owner' = [owner EXCEPT ![d] = None]
  /\ ready' = Tail(ready)
  /\ ChildReturns(w, d)
  /\ UNCHANGED <<waiters, pc, raised, arrival>>

(* WorkerDeviceLock.release.                                                *)
Release(w, d) ==
  /\ Due("release", w, d)
  /\ IF locked[d] /\ owner[d] \in {None, w}
     THEN /\ locked' = [locked EXCEPT ![d] = FALSE]
          /\ owner' = [owner EXCEPT ![d] = None]
          /\ WakeUpFirst(d)
          /\ UNCHANGED <<pc, raised>>
     ELSE /\ Raise(w, "RuntimeError")
          /\ ready' = Tail(ready)
          /\ UNCHANGED lockVars
  /\ ChildReturns(w, d)
  /\ UNCHANGED arrival

EventLoop ==
  \E w \in Workers :
    \/ AcquireDevices(w) \/ ReleaseDevices(w)
    \/ \E d \in Devices : Acquire(w, d) \/ Resume(w, d) \/ Release(w, d)

Worker(w) == Ask(w) \/ Enter(w) \/ Leave(w) \/ Left(w) \/ Kill(w)

Next == EventLoop \/ \E w \in Workers : Worker(w)

Spec == Init /\ [][Next]_vars

(* The event loop runs what is due, replies arrive, and the code inside     *)
(* `with self.device_lock` ends (it loads weights or runs one batch).       *)
Fairness ==
  /\ WF_vars(EventLoop)
  /\ \A w \in Workers : WF_vars(Enter(w)) /\ WF_vars(Leave(w)) /\ WF_vars(Left(w))

FairSpec == Spec /\ Fairness

-----------------------------------------------------------------------------
TypeOK ==
  /\ locked \in [Devices -> BOOLEAN]
  /\ owner \in [Devices -> Workers \cup {None}]
  /\ waiters \in [Devices -> Seq([w : Workers, done : BOOLEAN])]
  /\ ready \in Seq([op : Ops, w : Workers, d : Devices \cup {None}])
  /\ pc \in [Workers -> PC]
  /\ children \in [Workers -> SUBSET Devices]
  /\ raised \subseteq {"AssertionError", "RuntimeError"}
  /\ arrival \in Seq(Workers)

(* Only one worker at a time is inside `with self.device_lock` on any       *)
(* accelerator, however the calls of the workers interleave in the          *)
(* manager's event loop (DeviceLock's class docstring).                     *)
MutualExclusion ==
  \A v, w \in Workers :
    v # w /\ pc[v] = "holding" /\ pc[w] = "holding"
      => DevicesOf(v) \cap DevicesOf(w) = {}

(* The assertion of WorkerDeviceLock.acquire and the two RuntimeErrors of   *)
(* WorkerDeviceLock.release are never raised for workers that bracket their *)
(* use with `with self.device_lock`, even when workers are killed.          *)
NothingRaised == raised = {}

(* The line at a device: its owner, then those that wait.                   *)
Line(d) ==
  (IF owner[d] = None THEN <<>> ELSE <<owner[d]>>)
    \o [i \in DOMAIN waiters[d] |-> waiters[d][i].w]

Ahead(v, w, d) ==
  \E i, j \in DOMAIN Line(d) : i < j /\ Line(d)[i] = v /\ Line(d)[j] = w

(* Two workers stand in the same order in the lines of all the devices they *)
(* share, whatever the order of the devices in their requests: the gathers  *)
(* of two requests never interleave, so no two requests can each hold what  *)
(* the other one waits for.                                                 *)
SameOrderEverywhere ==
  \A v, w \in Workers : \A d, e \in Devices :
    v # w /\ Ahead(v, w, d) => ~Ahead(w, v, e)

(* When workers may be killed, a worker that asks gets its devices, or is   *)
(* killed itself, or stands behind a killed worker whose locks nobody       *)
(* releases: unlike ports, device locks are not reclaimed from the dead.    *)
BlockedOnlyByTheDead ==
  \A w \in Workers :
    pc[w] = "asking" ~>
      \/ pc[w] \in {"holding", "dead"}
      \/ \E i, j \in DOMAIN arrival :
           i < j /\ arrival[j] = w /\ pc[arrival[i]] = "dead"

-----------------------------------------------------------------------------
(* The inductive invariant behind MutualExclusion and NothingRaised.        *)

ChildOps == {"acquire", "release", "resume"}

(* Where a worker is while a callback on its behalf is due.                 *)
Stage(op) ==
  CASE op = "acquire_devices" -> "asking"
    [] op = "release_devices" -> "leaving"
    [] op = "release" -> "freeing"
    [] OTHER -> "gathering"

(* A due callback belongs to the one call its worker has outstanding; two   *)
(* of one worker are children of one gather, for different devices.         *)
ReadyInv ==
  /\ \A i \in DOMAIN ready :
       /\ pc[ready[i].w] \in {Stage(ready[i].op), "dead"}
       /\ ready[i].op \in ChildOps => ready[i].d \in children[ready[i].w]
  /\ \A i, j \in DOMAIN ready :
       i # j /\ ready[i].w = ready[j].w =>
         /\ ready[i].op \in ChildOps
         /\ ready[i].d # ready[j].d

(* Only the first waiter is woken, when the lock is free, and its           *)
(* resumption is due.                                                       *)
WokenInv ==
  \A d \in Devices : \A k \in DOMAIN waiters[d] :
    waiters[d][k].done =>
      /\ k = 1 /\ ~locked[d]
      /\ \E i \in DOMAIN ready : ready[i] = Callback("resume", waiters[d][k].w, d)

(* A waiter that sleeps does so for its own gather, and nothing else is due *)
(* for it at that device.                                                   *)
AsleepInv ==
  \A d \in Devices : \A k \in DOMAIN waiters[d] :
    LET v == waiters[d][k].w
    IN ~waiters[d][k].done =>
         /\ pc[v] \in {"gathering", "dead"}
         /\ d \in children[v]
         /\ \A i \in DOMAIN ready :
              ready[i].w = v => ready[i].op \in ChildOps /\ ready[i].d # d

(* A worker waits at most once at a device.                                 *)
WaitOnceInv ==
  \A d \in Devices : \A k, l \in DOMAIN waiters[d] :
    waiters[d][k].w = waiters[d][l].w => k = l

ResumeInv ==
  \A i \in DOMAIN ready :
    ready[i].op = "resume" =>
      /\ waiters[ready[i].d] # <<>>
      /\ waiters[ready[i].d][1] = [w |-> ready[i].w, done |-> TRUE]

(* Who owns a device: the worker that holds it, or has been granted it, or  *)
(* is giving it back.                                                       *)
OwnerInv ==
  /\ \A d \in Devices : locked[d] <=> owner[d] # None
  /\ \A w \in Workers :
       /\ children[w] \subseteq DevicesOf(w)
       /\ pc[w] \in {"holding", "leaving"} =>
            \A d \in DevicesOf(w) : owner[d] = w
       /\ pc[w] = "gathering" =>
            \A d \in DevicesOf(w) \ children[w] : owner[d] = w
  /\ \A i \in DOMAIN ready :
       /\ ready[i].op = "release_devices" =>
            \A d \in DevicesOf(ready[i].w) : owner[d] = ready[i].w
       /\ ready[i].op = "release" => owner[ready[i].d] = ready[i].w

(* Each worker has one call in the manager's event loop, each waiter one    *)
(* place in line, and each device the owner its worker believes it has:     *)
(* what makes mutual exclusion survive every interleaving.                  *)
IInv ==
  /\ TypeOK /\ ReadyInv /\ ResumeInv /\ OwnerInv /\ NothingRaised
  /\ WokenInv /\ AsleepInv /\ WaitOnceInv
  /\ \A w \in Workers : pc[w] # "failed"

-----------------------------------------------------------------------------
(* What the lock promises: workers that ask are served first come, first    *)
(* served, unless their devices are disjoint; the dead keep their place.    *)
Phase(w) ==
  CASE pc[w] \in {"asking", "gathering"} -> "waiting"
    [] pc[w] \in {"holding", "dead"} -> pc[w]
    [] OTHER -> "idle"

Promise == INSTANCE DeviceMutex WITH
             phase <- [w \in Workers |-> Phase(w)],
             line <- arrival,
             Needs <- [w \in Workers |-> DevicesOf(w)]

(* Every step of the lock manager and its event loop is a step of first     *)
(* come, first served access to sets of devices, or changes nothing that a  *)
(* worker can see; and whoever is granted by that rule does get in.         *)
ImplementsDeviceMutex == Promise!FairSpec
=============================================================================

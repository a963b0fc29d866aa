---------------------------- MODULE OnlineRouter ----------------------------
(***************************************************************************)
(* OnlineRouterWorker (rlinf/workers/rollout/server/online_router_worker   *)
(* .py): HTTP requests that are forwarded to the rollout engine, and the   *)
(* weight synchronisations of CodingOnlineRLRunner._sync_weights           *)
(* (rlinf/runners/coding_online_rl_runner.py), all on one event loop.      *)
(*                                                                         *)
(* `ready` is the FIFO of that loop: calls that have arrived, and          *)
(* coroutines whose event, lock or answer has come.  An action of the loop *)
(* runs its head up to the next await.                                     *)
(***************************************************************************)
EXTENDS Naturals, FiniteSets, SequencesExt

CONSTANTS
  Requests,   (* clients, each with at most one request at a time           *)
  MaxCalls,   (* bound: calls of sync_model_start and _end outstanding      *)
  Lost        (* a future that nobody will resolve                          *)

ASSUME LostAssumption == Lost \notin Requests
ASSUME MaxCallsAssumption == MaxCalls \in Nat

Syncs == {"sync_model_start", "sync_model_end"}

VARIABLES
  ready,        (* the event loop                                           *)
  request,      (* where each client's request is                           *)
  active,       (* keys of _active_requests                                 *)
  syncing,      (* _sync_in_progress                                        *)
  oldComplete,  (* _old_requests_complete                                   *)
  newAllowed,   (* _new_requests_blocked, which is set when they are not    *)
  oldWaiters, newWaiters,   (* requests that wait for the two events        *)
  locked, lockWaiters,      (* _sync_model_lock                             *)
  awaited,      (* unresolved futures the gather of sync_model_start awaits *)
  runner,       (* "training" or "loading": weights are being loaded        *)
  raised        (* assertions that failed                                   *)

requestVars == <<request, active>>
eventVars == <<syncing, oldComplete, newAllowed, oldWaiters, newWaiters>>
lockVars == <<locked, lockWaiters, awaited>>
vars == <<ready, requestVars, eventVars, lockVars, runner, raised>>

Due(op, who) == [op |-> op, who |-> who]

Init ==
  /\ ready = <<>>
  /\ request = [r \in Requests |-> "out"]
  /\ active = {}
  /\ syncing = FALSE /\ oldComplete = FALSE /\ newAllowed = TRUE
  /\ oldWaiters = <<>> /\ newWaiters = <<>>
  /\ locked = FALSE /\ lockWaiters = <<>> /\ awaited = {}
  /\ runner = "training"
  /\ raised = {}

-----------------------------------------------------------------------------
(* Clients, engine and runner.                                              *)

(* A request arrives.                                                       *)
Arrive(r) ==
  /\ request[r] = "out"
  /\ request' = [request EXCEPT ![r] = "arrived"]
  /\ ready' = Append(ready, Due("complete", r))
  /\ UNCHANGED <<active, eventVars, lockVars, runner, raised>>

(* The engine's answer, or its error.                                       *)
Answer(r) ==
  /\ request[r] = "generating"
  /\ request' = [request EXCEPT ![r] = "answered"]
  /\ \E op \in {"answer", "error"} : ready' = Append(ready, Due(op, r))
  /\ UNCHANGED <<active, eventVars, lockVars, runner, raised>>

Outstanding ==
  Len(lockWaiters) + (IF locked THEN 1 ELSE 0)
    + Cardinality({i \in DOMAIN ready : ready[i].op \in Syncs})

(* _sync_weights: it calls sync_model_start and, without waiting for it,    *)
(* has the engine load the weights.                                         *)
StartSync ==
  /\ runner = "training" /\ Outstanding + 2 <= MaxCalls
  /\ ready' = Append(ready, Due("sync_model_start", "runner"))
  /\ runner' = "loading"
  /\ UNCHANGED <<requestVars, eventVars, lockVars, raised>>

(* The weights are loaded; sync_model_end is called and not waited for.     *)
EndSync ==
  /\ runner = "loading"
  /\ ready' = Append(ready, Due("sync_model_end", "runner"))
  /\ runner' = "training"
  /\ UNCHANGED <<requestVars, eventVars, lockVars, raised>>

-----------------------------------------------------------------------------
(* The event loop: requests.                                                *)

Runs(op, who) == ready # <<>> /\ Head(ready) = Due(op, who)
Wakes(op, sleepers) == [i \in DOMAIN sleepers |-> Due(op, sleepers[i])]

(* Forward the request to the engine.  One without `stop` has no sampling   *)
(* parameters: it fails before it awaits anything.                          *)
Forward(r) ==
  /\ \/ /\ request' = [request EXCEPT ![r] = "generating"]
        /\ active' = active \cup {r}
     \/ /\ request' = [request EXCEPT ![r] = "out"]
        /\ UNCHANGED active
  /\ UNCHANGED eventVars

Sleep(r, where) ==
  /\ request' = [request EXCEPT ![r] = where]
  /\ UNCHANGED <<active, syncing, oldComplete, newAllowed>>

WaitForNew(r) ==
  \/ newAllowed /\ Forward(r)
  \/ /\ ~newAllowed /\ Sleep(r, "new")
     /\ newWaiters' = Append(newWaiters, r)
     /\ UNCHANGED oldWaiters

(* Mutant: once the old requests are complete a request goes ahead.         *)
ForwardAfterOld(r) ==
  \/ ~syncing /\ Forward(r)
  \/ syncing /\ oldComplete /\ Forward(r)
  \/ /\ syncing /\ ~oldComplete /\ Sleep(r, "old")
     /\ oldWaiters' = Append(oldWaiters, r)
     /\ UNCHANGED newWaiters

WaitForOld(r) ==
  \/ ~syncing /\ Forward(r)
  \/ syncing /\ oldComplete /\ WaitForNew(r)
  \/ /\ syncing /\ ~oldComplete /\ Sleep(r, "old")
     /\ oldWaiters' = Append(oldWaiters, r)
     /\ UNCHANGED newWaiters

(* _handle_complete, from its start or from one of its waits.               *)
HandleComplete(r) ==
  /\ \/ Runs("complete", r) /\ WaitForOld(r)
     \/ Runs("old_complete", r) /\ WaitForNew(r)
     \/ Runs("new_allowed", r) /\ Forward(r)
  /\ ready' = Tail(ready)
  /\ UNCHANGED <<lockVars, runner, raised>>

Leave(r) ==
  /\ request' = [request EXCEPT ![r] = "out"]
  /\ active' = active \ {r}

(* Mutant: the gather is told only if all requests have gone.               *)
ResolveLast(r) ==
  /\ awaited' = awaited \ {r}
  /\ ready' = Tail(ready) \o
       IF r \in awaited /\ active = {r} THEN <<Due("gathered", "runner")>> ELSE <<>>

(* future.set_result, and the gather once all its futures are resolved.     *)
Resolve(r) ==
  /\ awaited' = awaited \ {r}
  /\ ready' = Tail(ready) \o
       IF awaited = {r} THEN <<Due("gathered", "runner")>> ELSE <<>>

(* The answer: the future is resolved and the request leaves.               *)
Answered(r) ==
  /\ Runs("answer", r)
  /\ Leave(r) /\ Resolve(r)
  /\ UNCHANGED <<eventVars, locked, lockWaiters, runner, raised>>

(* The error: the request leaves, its future is never resolved.             *)
Failed(r) ==
  /\ Runs("error", r)
  /\ Leave(r)
  /\ awaited' = IF r \in awaited THEN (awaited \ {r}) \cup {Lost} ELSE awaited
  /\ ready' = Tail(ready)
  /\ UNCHANGED <<eventVars, locked, lockWaiters, runner, raised>>

-----------------------------------------------------------------------------
(* The event loop: synchronisations, one at a time under _sync_model_lock.  *)

(* Mutant: a newcomer looks at the flag only.                               *)
LockFree == ~locked

(* asyncio.Lock: free, and nobody is to be served before a newcomer.        *)
MayTakeLock == ~locked /\ lockWaiters = <<>>

(* A call runs if it gets the lock at once, or has been woken for it.       *)
GetsLock(op) ==
  \/ Runs(op, "runner") /\ MayTakeLock /\ lockWaiters' = lockWaiters
  \/ Runs("lock", op) /\ lockWaiters' = Tail(lockWaiters)

(* release, at the end of `async with`: the next one in line is woken.      *)
ReleaseLock(waiters) ==
  /\ locked' = FALSE
  /\ ready' = Tail(ready) \o waiters \o
       IF lockWaiters' = <<>> THEN <<>> ELSE <<Due("lock", Head(lockWaiters'))>>

WaitForLock ==
  /\ \E op \in Syncs :
       /\ Runs(op, "runner") /\ ~MayTakeLock
       /\ lockWaiters' = Append(lockWaiters, op)
  /\ ready' = Tail(ready)
  /\ UNCHANGED <<requestVars, eventVars, locked, awaited, runner, raised>>

(* All the old requests are complete.                                       *)
OldRequestsComplete ==
  /\ oldComplete' = TRUE
  /\ oldWaiters' = <<>>
  /\ ReleaseLock(Wakes("old_complete", oldWaiters))

Fails(error) ==
  /\ raised' = raised \cup {error}
  /\ ReleaseLock(<<>>)
  /\ UNCHANGED <<eventVars, awaited>>

(* sync_model_start, up to its gather or its end.                           *)
SyncModelStart ==
  /\ GetsLock("sync_model_start")
  /\ \/ syncing /\ Fails("already syncing")
     \/ /\ ~syncing
        /\ syncing' = TRUE /\ newAllowed' = FALSE
        /\ \/ active = {} /\ OldRequestsComplete /\ UNCHANGED awaited
           \/ /\ active # {}
              /\ awaited' = active /\ locked' = TRUE
              /\ ready' = Tail(ready)
              /\ UNCHANGED <<oldComplete, oldWaiters>>
        /\ UNCHANGED <<newWaiters, raised>>
  /\ UNCHANGED <<requestVars, runner>>

(* The rest of sync_model_start, after its gather.                          *)
Gathered ==
  /\ Runs("gathered", "runner")
  /\ lockWaiters' = lockWaiters
  /\ OldRequestsComplete
  /\ UNCHANGED <<requestVars, syncing, newAllowed, newWaiters, awaited, runner, raised>>

(* sync_model_end.                                                          *)
SyncModelEnd ==
  /\ GetsLock("sync_model_end")
  /\ \/ ~syncing /\ Fails("not syncing")
     \/ /\ syncing
        /\ syncing' = FALSE /\ oldComplete' = FALSE /\ newAllowed' = TRUE
        /\ newWaiters' = <<>>
        /\ ReleaseLock(Wakes("new_allowed", newWaiters))
        /\ UNCHANGED <<oldWaiters, awaited, raised>>
  /\ UNCHANGED <<requestVars, runner>>

EventLoop ==
  \/ WaitForLock \/ SyncModelStart \/ Gathered \/ SyncModelEnd
  \/ \E r \in Requests : HandleComplete(r) \/ Answered(r) \/ Failed(r)

Next ==
  \/ EventLoop \/ StartSync \/ EndSync
  \/ \E r \in Requests : Arrive(r) \/ Answer(r)

Spec == Init /\ [][Next]_vars

(* The event loop goes on, the engine answers, the weights get loaded.      *)
FairSpec ==
  /\ Spec /\ WF_vars(EventLoop) /\ WF_vars(EndSync)
  /\ \A r \in Requests : WF_vars(Answer(r))

-----------------------------------------------------------------------------
Dues == [op : Syncs \cup {"complete", "old_complete", "new_allowed",
                         "answer", "error", "lock", "gathered"},
         who : Requests \cup Syncs \cup {"runner"}]

TypeOK ==
  /\ ready \in Seq(Dues)
  /\ request \in [Requests -> {"out", "arrived", "old", "new", "generating", "answered"}]
  /\ active \subseteq Requests
  /\ syncing \in BOOLEAN /\ oldComplete \in BOOLEAN /\ newAllowed \in BOOLEAN
  /\ oldWaiters \in Seq(Requests) /\ newWaiters \in Seq(Requests)
  /\ locked \in BOOLEAN /\ lockWaiters \in Seq(Syncs)
  /\ awaited \subseteq Requests \cup {Lost}
  /\ runner \in {"training", "loading"}
  /\ raised \subseteq {"already syncing", "not syncing"}

(* The assertions of sync_model_start and sync_model_end hold although the  *)
(* runner waits for neither: the lock serves them in the order of the calls.*)
NothingRaised == raised = {}

GateState == IF ~syncing THEN "open" ELSE IF oldComplete THEN "closed" ELSE "closing"
Passing == {r \in Requests : \E i \in DOMAIN ready : ready[i] = Due("new_allowed", r)}

Gate == INSTANCE ModelGate WITH
          inside <- active, old <- awaited \ {Lost}, gate <- GateState, passing <- Passing

(* The two events and the check at a request's start make a gate: while it  *)
(* is shut nobody enters but who was woken when it last opened, and it is   *)
(* shut for good only when the requests it found inside have left.          *)
ImplementsModelGate == Gate!Spec

(* Every request is forwarded or fails, unless some synchronisation waits   *)
(* for a request that failed: its future is never resolved, and the router  *)
(* stays shut.                                                              *)
EveryRequestServed ==
  \A r \in Requests : request[r] = "arrived" ~> request[r] = "out" \/ Lost \in awaited

(* What the runner's comment says of its weight synchronisation ("old       *)
(* requests are finished and new requests are paused"): no request is being *)
(* generated while the engine loads weights.                                *)
LoadedWhilePaused ==
  runner = "loading" => \A r \in Requests : request[r] # "generating"
=============================================================================

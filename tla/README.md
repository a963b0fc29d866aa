# Verification of the coordination in RLinf

RLinf (this repository is its human-in-the-loop fork) trains models by
reinforcement learning on a Ray cluster. Workers of several kinds, such as actors,
rollout engines, inference engines, environments and reward models, run as Ray
actors. They exchange data through channels and collective sends, share
accelerators, and, in AUTO placement mode, let GPUs and unfinished sequences move
from one component to another while a training step runs. That coordination, the
library `rlinf/scheduler` and the protocols of the workers built on it, is what
this project models. The numerical work (models, losses, simulators, inference
engines) has no protocol of its own and stays out.

Paths below are relative to `src/rlinf/` unless they start with `src/`.
`PROJECT.json` gives, for each definition, the lines it translates.

## 1. Inventory

| Component | Code | State it keeps | Operations | Modelled |
|---|---|---|---|---|
| Device lock | `scheduler/manager/lock_manager.py` 1-134, `scheduler/worker/lock.py` 1-74 | per accelerator: `_locked`, `_waiters`, `_worker_address` | `acquire_devices`, `release_devices`, `with device_lock` | `DeviceLock` |
| GPU scheduler | `scheduler/dynamic_scheduler/*.py` | per component manager: instances, GPUs, offset; a copy of the instance counts; available GPUs; reports | `pre_process`, `main_loop`, release, allocate, finalize | `GpuScheduler` |
| Rollout migration | `RolloutManager` of the same, `workers/rollout/utils.py`, `workers/rollout/sglang/sglang_worker.py`, `data/io_struct.py` `SeqGroupInfo` | sequence groups, and where each instance has them | report, migrate out, migrate in, finish | `RolloutMigration` |
| Inference batching | `workers/actor/megatron_actor_worker.py` `run_inference`, `get_dynamic_batch_as_much` | per rank: results held, a get that is out, how much of its share is done | fill, agree, infer | `DynamicInference` |
| Online router | `workers/rollout/server/online_router_worker.py`, `CodingOnlineRLRunner._sync_weights` | active requests, two events, a lock | complete, sync start, sync end | `OnlineRouter` |
| Port locks | `lock_manager.py` `PortLockManager`, `Worker.acquire_free_port` | port -> worker | acquire, release daemon | `PortLock` |
| Channel | `scheduler/channel/*.py`, `scheduler/collective/async_work.py` | per key: a `PeekQueue` with getters and putters; per worker: op queues by key, posted recvs, answers by query id | `put`, `put_nowait`, `get`, `get_nowait`, `get_batch`, in a worker or through Ray | partly: `ChannelQueue`, `Channel` |
| Communication queues | `scheduler/collective/collective_group.py`, `scheduler/manager/coll_manager.py` | per group: two work queues with a thread each, a process group, its port | send, recv, the meeting of the two workers | partly: `CommGroup` |
| Asynchronous embodied pipeline | `runners/async_embodied_runner.py`, `workers/env/async_env_worker.py`, `workers/rollout/hf/async_huggingface_worker.py`, `data/io_struct.py` `AsyncEmbodiedRolloutBuffer` | three loops over channels, queues of record fields, `should_stop` | interact, generate, send data, train, stop | partly: `AsyncPipeline` |
| Replay buffer | `data/replay_buffer.py` | storage, position, size | add batch, ready, sample | partly: `ReplayBuffer` |
| Human intervention | `envs/common/keyboard`, `envs/common/wrappers` | pressed keys, time of the last intervention | press, release, act | only what reaches the records: `AsyncPipeline` |
| Registry and proxies | `scheduler/manager/worker_manager.py`, `manager.py` | tree of workers and groups | register, look up, wait | in guards of `CommGroup` |
| Workers, groups, handles | `scheduler/worker/worker.py`, `worker_group.py` | handles to Ray actors | launch, call, wait, close | kill and launch, in `DeviceLock`, `PortLock`, `CommGroup` |
| Cluster, placement, hardware | `scheduler/cluster`, `placement`, `hardware`, `utils/placement.py` | configuration | computed once at the start | as constants and assumptions |
| Runners | `runners/*.py` | step counters | sequential drivers | the part that starts a step or a synchronisation |
| Engines, models, environments, data | `hybrid_engines`, `models`, `algorithms`, `envs`, `data` | tensors | numerical | no |

**How they interact.** Every manager (locks, registry, collectives) is one Ray
actor that all workers call through a proxy. A channel is one Ray actor too: the
*call* of a `put` goes to it through Ray, while its *item* goes through the
collective send of the worker; the two are joined only by the order in which they
arrive. Answers of `get` come back the same way, with a query id. Underneath,
two workers meet once over a locked port and then share one connection
between the main thread and the threads of their queues. The
scheduler's three component managers are objects of one process; they talk
to the actor and to the rollout instances through channels, in request and
response pairs. The embodied pipeline is three long-running loops joined by
channels, and the online router one event loop between clients and an engine.

**What is hard.** Nearly all of these are asyncio programs: a method runs until it
awaits something, and every other call may run before it continues. So the
questions are about what was read before an await and used after it, whom a
released lock or a freed place wakes, which of two things sent separately is
matched with which, whether processes that each decide on their own when to stop
stop together, and whether coroutines that wait for each other can
close a cycle. None of that is reached by tests that call the methods one at a
time. `PROJECT.json` lists each place with the properties that cover it.

**What makes each component correct.**

* Device lock: exclusion on every accelerator; no deadlock whatever the order in
  which workers name their accelerators; first come, first served; no lost
  wake-up; no internal assertion fails.
* GPU scheduler: no GPU is used by two components, every GPU is accounted for,
  unfinished sequences always have an instance with room, every step ends.
* Migration: no group is lost, put out twice, or generated again; an instance
  that is released is idle.
* Inference batching: the ranks enter the same collectives, every result is
  inferred once.
* Online router: nobody enters while it is shut, it shuts when the old requests
  have left, every request is answered.
* Port locks: a worker that Ray lists, under a name not used before, keeps the
  locks of its ports, whatever the daemon frees of others. (That a port belongs to
  one living worker is not so, see section 6.)
* Channel: nothing lost or doubled, bounded, FIFO per worker and key, each get
  gets its own answer, `get_batch` keeps its weight limit, nobody sleeps beside
  what it waits for, the event loop is never stuck.
* Communication queues: messages arrive whole and in the order of the calls,
  whichever thread sends them; the peer finds its master.
* Pipeline: actions meet the step they were chosen for, a record is of one step,
  the runner's stop ends all loops. Replay buffer: it holds the last rows.

## 2. Modules

    DeviceMutex           what a user of the device lock relies on
      DeviceLock          the lock manager's event loop, implements DeviceMutex
        MCDeviceLock, DeviceLockProofs
    BoundedQueue          what a user of a channel actor relies on
      ChannelQueue        the actor's queues and event loop, implements BoundedQueue
        MCChannelQueue
        Channel           extends it: workers, op queues, messages around the actor
          MCChannel, ChannelProofs
    GpuPool               a GPU changes hands only by way of nobody
      GpuScheduler        the scheduler with the components, implements GpuPool
        GpuSchedulerProofs
    GroupPool             what a step owes to its sequence groups
      RolloutMigration    manager, instances and their channels, implements GroupPool
        MCRolloutMigration, RolloutMigrationProofs
    DynamicInference      ranks that share out results
      MCDynamicInference, DynamicInferenceProofs
    ModelGate             a gate that closes behind what is inside
      OnlineRouter        the router's event loop, implements ModelGate
        OnlineRouterProofs
    PortLock              the ports of a node
    MessageLink           one direction between two workers
      CommGroup           two workers, EXTENDS PortLock, implements two MessageLinks
        MCCommGroup, CommGroupProofs
    ReplayBuffer          the ring of rows
      AsyncPipeline       environment, policy, buffer and runner around it
        AsyncPipelineProofs
    Sums                  the sum of a sequence of numbers, as a function to prove about

A definition whose comment begins with "Mutant" is no part of a model. It is a
plausible mistake in the definition below it, kept to show that a property can
fail: with it in place of that definition TLC finds the property violated. The
pairs are in `PROJECT.json`.

### DeviceLock

`ready` is the event loop of `DeviceLockManager`: the callbacks that are due, in
order. `acquire_devices` runs when its call is due and starts one child task for
each accelerator (`asyncio.gather`); each child runs `WorkerDeviceLock.acquire`
up to its return or its await (`Acquire`), and from there once its future is done
(`Resume`). `Release` is `WorkerDeviceLock.release`, which clears `_locked` and
wakes the first waiter; between the two a lock is free but has waiters, and
`FreeForAll` is the condition of `asyncio.Lock.acquire` that keeps newcomers out.
Workers ask, enter, leave and may be killed (`WorkerGroup._close`) at any time,
with their calls still in the manager; a worker launched again under the address
of one that was killed is left out, and with it the branch that grants an owner what it
has (`lock_manager.py:39`), which is in `Acquire` and never taken: a worker asks again
after its release only. `raised` and `arrival` are history.

What asyncio itself does (waking the first waiter, gathering) is modelled from
CPython's `asyncio.Lock` and `gather`, since they are not in the repository.

### BoundedQueue, ChannelQueue and Channel

`ChannelQueue` is the channel actor seen through Ray: five kinds of calls,
coroutines that sleep among the `getters` or `putters` of a key and the event
loop `ready`. One action is one run of a coroutine up to its next suspension;
`get_batch` takes as many items as its loop takes without suspending
(`BatchSize`). `PeekQueue.peek` sleeps among the getters, as in the code.
An item is known by the number of the call that put it. A batch whose target is
reached by nothing at all (`target_weight` is 0 unless given, `channel.py:584`), or
which is woken for an item too heavy for it, returns without taking an item
and wakes nobody; `BrokeOff` remembers that.

`Channel` extends it and puts workers around it: `ChannelNext` has the
actor's steps with the messages they take and send (`ActorPut`, `ActorGet`), and
no `Call`. `Begin` is the part of an operation that runs
on the worker's own thread: it queues the remote call in `opQueue` (one queue
and one coroutine for each key, `AsyncChannelWork`), and queues the item for
sending or posts the recv of the answer. `Execute` and `Reply` are the coroutine of a
key, `Send` and `Deliver` the communication threads. `ActorPut` is the
recv inside `ChannelWorker.put`: it blocks the *whole* event loop until an item of the
calling worker is there, and takes whichever is next. `Deliver` is
`AsyncChannelCommWork`: an answer is stored for the query it names, except when
a synchronous get takes it, which does not look at the query. That messages
of one worker arrive whole and in order is what `CommGroup` shows.

### GpuPool and GpuScheduler

A global step of AUTO mode. With the pre-process policy the actor's GPUs are
first lent to extra rollout instances and returned when half of the sequences are
done (`KeepLending`, `ReturnActorGpus`). Then `main_loop` runs one round per
training iteration: wait for the actor's message, let rollout release instances
(`ReportRollout`, then `FinishRollout` or `MigrateRollout`), let inference
release (`ReleaseInference`), let the actor take what it can use
(`AllocateActor`). In the last round everything is finished and the actor returns to
its first size (`SkipRollout`, `SkipInference`, `FinalizeActor`).

`manager` holds the counters of the three `ComponentManager`s, `instance_num`
and `available_gpu_num` those of `_DynamicSchedulerState`. The world around is in
`running`, `started`, `inferenceDone` and `actor`; `request` and `response` are
the queues between the scheduler and the actor. Which GPUs a component holds
(`ActorHolds`, `RolloutHolds`, `InferenceHolds`) follows from how the placement
lays them out: the actor's ranks grow from 0, rollout instances are released from the lowest
id, inference is at the end.

The messages to and from the rollout instances are one action here each (a
report, a migration or a finish); `RolloutMigration` has them one by one.

### GroupPool and RolloutMigration

The other half of the same round. `manager` names the gather that
`RolloutManager` waits in (`SendReport`, `Decide`, `MigrateIn`, `Finished`,
`Finalize`). An instance is two coroutines of its `SGLangWorker` that share a
`RunningStatusManager`: `rollout()` (`Begin`, `TasksReturn`, `HandleReturned`,
`Notified`, `ReportOffloaded`) and `main_loop()` of its
`RolloutScalingScheduler` (`Report`, `MigrateOut`, `ReceiveGroups`,
`WaitForFinish`, `EndWait`). Each action is what runs between two awaits.
`event` is `exit_rollout_iter`; `completed` and `abortedSeqs` are `SeqGroupInfo`'s
counts, and the engine (`Generate`) completes one sequence at a time. `MigrateIn`
computes who gets which of the aborted groups as
`_assign_sequences_sequential` does: every receiver up to the expected number
of running tasks, the last one all that is left. `AssignSequences` says it of the
boundaries between the shares, `migrate_out_batches_index` as the loop comes to
each receiver, so that no recursion is needed. How many instances a round
releases is any number here; `GpuScheduler` says which. The policies are fixed
from the start but part of the state, so that one run covers both.

`GroupPool` only knows how many sequences of each group are complete and what
has been put out. That a step may end only with everything out is part of it.

### DynamicInference

One state machine per data-parallel rank (its io rank). In a call, a rank
fills up to the least number of the call (`MinLen`: one in pipeline mode, the
whole batch in collocated mode): `Ask` and `Take` are the get that is posted and
found answered. From there (`Filled`) it takes what comes, up to `MaxLen` or
until its time is over. `EnterReduce` and `AllReduceMin` are the `all_reduce(MIN)`, which happens when
all ranks have entered it; a rank compares the result with its previous
number and either polls again or goes on to `Infer`, which may wait for all ranks
when Megatron's timers have a barrier (`timed`). What a rank holds beyond
the agreed number, and a get that is out, goes with it into the next call.

### ModelGate and OnlineRouter

`ready` is the loop that the router's HTTP handlers, its synchronisation calls
and the answers of the engine share. `HandleComplete` runs a request from its
start or from one of its two waits; `SyncModelStart` and `Gathered` are the
two parts of `sync_model_start`, with the gather over the futures of active
requests (`awaited`); a failed request leaves `Lost` in it, a future nobody will
resolve. `MayTakeLock` is `asyncio.Lock` again. `StartSync` and `EndSync` are the
runner, which waits for neither. `ModelGate` is a gate with an inside:
it shuts for newcomers at once, and is closed when those it found inside have left.

### PortLock, MessageLink and CommGroup

`PortLock` is the port manager of a node: `AcquireFreePort` by a worker, and the
daemon in two steps with the lock released between (`CheckWorkersAlive`,
`FreePorts`). The daemon may take for dead a worker that lives (`MayLookDead`), for three
reasons. A name may be launched again (`Relaunch`), and asking Ray for an actor by
the name may find the old one. An earlier run on the Ray cluster may have used the
name. A child, a `Worker` that its parent makes in a process of its own
(`hybrid_engines/sglang/common/sgl_scheduler.py:235`), is no actor, so
Ray lists none; it locks a port when it starts all the same
(`_setup_worker_info`). The latter two are the constant `Doubtful`. Which ports
are bound is left out: `find_free_port` offers those that are not, the model
any, so that a freed port may be found again although its owner listens at it.

`CommGroup` is a group of two workers, with three threads in each: the main thread, whose
synchronous calls spin on `done` and then run in place (`SyncCall`, `SpinEnds`),
and one per queue (`RunQueue`: `Block`, `TakeWork`). A work starts with
`_init_p2p_process_group` under the group's `_lock` (`Initialize`: get the
information of the group, get and publish a port or poll for it, join, forget
the port), then sends or receives two parts, a type and an object
(`SendPart`, `RecvPart`). A send that raises ends its queue's thread
(`WorkRaises`). `Restart` kills both workers and launches them again at any point
of that. Sends are buffered. Not modelled: `send_tensor` and `recv_tensor`, which
send no type; the paths for tensors of an accelerator; a synchronous send that
raises (the exception is the caller's); a restart of one worker alone.

`MessageLink` is what `Channel` takes for granted of one direction: a FIFO of
whole messages, the n-th recv gets the n-th.

### ReplayBuffer and AsyncPipeline

`ReplayBuffer` is the ring of `SACReplayBuffer`: `InsertBatch` around its end, and
`BatchTooLarge`, the other path, which raises. `AsyncPipeline` EXTENDS it
and drives it. `Interact` is the environment's loop (`StartEpoch`, `GoOn`,
`EnvInteractStep`), `Generate` the policy's, which answers each output with an
action, and queues what it knows of the step: log-probabilities and inputs of the
last result, flags, rewards and transition of the output (`AddAll`), with the
differences the tail of an epoch makes (`LastResult`, `Remember`). `SendData` is
the task of a stage that makes records of the heads of all queues. `Run` is the
runner, from training to the stops. Data are known by the step they are of, so
that a record tells which step each of its fields is from.

## 3. Runs

Every run but the two that expect a violation explores the whole reachable
state space of its instance.

| Run | Instance | Shows |
|---|---|---|
| `device_lock` | 4 workers, 3 devices: two workers name the same pair in opposite orders, one shares a device with both, one has none; one may be killed anywhere | `MutualExclusion`, `NothingRaised`, one order in all lines (`SameOrderEverywhere`), the inductive invariant `IInv`, whoever asks is granted unless it stands behind the dead (`BlockedOnlyByTheDead`), the refinement of `DeviceMutex` |
| `gpu_lend` | 8 GPUs, both policies, 4 iterations, 32 sequences | `IInv`, no GPU shared, room after every migration, refinement of `GpuPool`, every step ends |
| `gpu_no_wait` | 8 GPUs, no policy, 3 iterations, 24 sequences | no GPU shared with *work*, no assertion fails |
| `rollout_migration` | 3 instances with one group of two sequences each, 3 iterations, both policies or none | no group lost, doubled or generated again (`ImplementsGroupPool`), released instances are idle, steps end, which assertion can fail and when |
| `channel_queue` | any 5 calls on one key of size 2, items of weight 1 and 2, batches with target 0 (the default), 1 and 2 | one place for each item and call, `NobodySleepsInVain`, `BatchContract`, refinement of `BoundedQueue`, `ServedUnlessStarved` |
| `channel` | 2 workers with the habits of `Disciplined`, 4 operations, 2 keys of size 1 | each call gets its own, no answer astray, puts keep their order, the event loop never stays stuck |
| `online_router` | 2 clients without end of requests, up to 4 synchronisation calls outstanding | the assertions of `sync_model_start` and `_end` hold, refinement of `ModelGate`, requests are served unless one failed |
| `router_unpaused` | 1 client, 2 calls outstanding | violation, see section 6 |
| `comm_group` | two sends one way, or one each way, or one send and a restart; each call synchronous or not; 3 ports; beside them, but for one each way, a child whose port the daemon may free | refinement of `MessageLink` both ways, `PortsExclusive`, the peer joins its master, synchronous calls return |
| `async_pipeline` | 2 stages, epochs of 2 steps, 3 epochs, 2 training steps, buffers of 2 (too small for a batch) and 3 rows | actions for their step, records of one step, the buffer's contents, the run ends unless stopped at a bad moment |
| `dynamic_inference` | 2 ranks with a share of 4; collocated with every split, pipeline mode with at most 2 results a call; with and without timers | ranks leave each call together, each result inferred once, inference ends; deadlock is checked |
| `inference_uneven` | the same in pipeline mode with 4 results a call | violation, see section 6 |

**Bounds and why they suffice.** For the lock there is none: workers ask again and again.
Three devices with lists that overlap in every way (equal, reversed, partly,
empty) are needed for a cycle of waits and are enough for one: a cycle needs two
workers and two devices. For a queue, three calls are needed for a wake-up
that is taken by another call (a sleeper, the one that wakes it and the one that
arrives between); five leave room for a second sleeper. In `channel`, a
put and a get under two keys, from a worker that does not wait and one that does,
are needed for calls and items, or queries and answers, to be paired wrongly;
that takes four operations. The GPU instances are chosen so that the actor passes through
several sizes with gaps between them, a migration leaves an instance partly
filled, and the scheduler meets an iteration without any GPU to give; global
steps repeat without limit, so the return of lent GPUs is part of it.

A migration needs an instance that leaves and two that receive for the last
receiver to differ from the others, a group of two to be aborted half complete, and
three iterations for a group to be moved twice; steps repeat without limit, so
what a step leaves in an instance meets the next. A request that is overtaken
by a synchronisation needs a second request that keeps the first one waiting;
four outstanding calls are two whole synchronisations, so that one can begin while
the one before still waits for the lock. Two works that may interleave need two
calls; a stale port needs one restart. For a port to be freed and given again a
child and the master are enough; one call each way leaves the child out (`others` of
`Load`) to save interleavings, as ports and messages meet in the first call only.
In the pipeline a third epoch shows that a
shift between two fields does not only look constant, and a buffer of three
rows takes batches of two around its end. In `dynamic_inference` a rank must
be able to carry results over a call and the share to run out in the middle of one; that is so
with 4. The mismatch of `inference_uneven` needs three results in a call.

Deadlock is checked in `gpu_lend`, `gpu_no_wait` and `dynamic_inference`, in which the
system never stops. The other cfgs say `CHECK_DEADLOCK FALSE`: the channel,
communication and pipeline runs end when all calls or steps are made, a killed worker may
stop the others at the lock, a lost future stops the router, and a failed
assertion a migration. That they stop nowhere else is what their liveness
properties say.

**Fairness.** Each fairness condition is a loop of the code that goes on as long as
something is due: the event loops of the manager, of the channel and of the
router (`WF_vars(EventLoop)`); the communication threads and the coroutine of each key
(`Send`, `Deliver`, `Execute`, `Reply`); every thread of a worker in
`CommGroup` (`Threaded`); a worker that has been granted its
devices enters, and leaves its `with` (`Enter`, `Leave`, `Left`): the code inside
loads weights or runs a batch, and does not ask for the lock again. In
`GpuScheduler` the scheduler and the actor go on
when they can (`SchedulerNext`, `ActorNext`), rollout completes sequences while
it has instances, inference finishes when its input is consumed, and the runner
starts the next step. In `RolloutMigration` the manager, both coroutines of each
instance and its engine go on, and calls of `rollout()` arrive; in
`DynamicInference` results arrive, the channel answers, ranks and the collective
go on; in `OnlineRouter` the engine answers and weights get loaded. Nobody is
obliged to ask, to call, to send a request, to be killed or to look for the dead.

Strong fairness is used once: `SF_vars(Run)` of `AsyncPipeline`. The environment
can be told to stop only while it is at an `await`, which it reaches and leaves
again in every chunk; a call that Ray has delivered runs at one of them.

## 4. Proofs

TLC checks the instances above; the theorems hold for all values of the
constants under the stated assumptions.

**`DeviceLockProofs`**: any sets of workers
and devices, any list of distinct accelerators for each worker
(`AccelAssumption`), any set of workers that may be killed.

* `Invariance`: `Spec => []IInv`.
* `Exclusion`: `MutualExclusion`; `NoErrors`: the assertion and the
  `RuntimeError`s are unreachable; `TypeCorrect`.

Exclusion is not inductive: it speaks of workers inside their `with` block, while what
keeps them apart is in the manager. `IInv` relates the two. A worker
has one call in the manager at a time, and the callbacks on its behalf are the
children of one gather (`ReadyInv`); a waiter whose future is done is the first
in line, its lock is free, and its resumption is due (`WokenInv`, `ResumeInv`),
so a newcomer that respects `FreeForAll` cannot take its place; a worker that
holds, or has been given a part of, its devices owns them (`OwnerInv`). From
that the assertion in `acquire`, that nobody owns the lock a waiter resumes
with, follows.

* `OrderInvariance` (`QInv`), and `SameOrder`: `SameOrderEverywhere`.
* `MutexImplemented`: the safety part of `ImplementsDeviceMutex`.

`SameOrderEverywhere` speaks of the lines of waiters only. What makes it hold
is that a call stands somewhere at each of its devices from the moment its
gather has run: it owns the device, waits there, or its child is still due in
`ready`, behind all that was due before (`PlaceInv`). `OrderInv` compares two calls
that compete: the one that arrived earlier is `Further` at every device they
share. A release hands a device to the head of the line, which is the earliest
that stands there. The refinement follows: who enters owns all its
devices, so nobody who arrived earlier and competes with it is still in line.

**`GpuSchedulerProofs`**: any sizes, numbers of iterations and policies that the
code accepts. `SizeAssumption` and `PolicyAssumption` are types;
`BatchAssumption` and `ActorAssumption` are asserted by
`workers/actor/megatron_actor_worker.py` (lines 1083-1109) and the managers;
`LendAssumption` by the placement and `RolloutManager`.

* `Invariance` (`IInv`), `TypeCorrect`, `Conserved` (`Conservation`),
  `Homes` (`TasksHaveAHome`), `SizesValid` (`ActorSizeValid`); the last three
  are parts of `IInv`, which the runs check.
* `NotShared`: with the wait policy, `GpusNotShared`. `WorkNotShared`: with
  any policy, `NotSharedWithWork`.
* `PoolImplemented`: with the wait policy, `ImplementsPool`.
* `Unraised`: `NothingRaised`. `RoomLeft`: with the pre-process policy, the
  action property `MigrationLeavesRoom`.

The chain is: the counters of a manager agree (`ManagersAgree`) and the
scheduler state is a faithful copy of them (`StateAgrees`); every GPU is counted
once (`Conservation`), so the actor's size plus what the others keep fits
the cluster; releases come in rank order, so *how many* GPUs the actor has tells
*which*; with the wait policy inference is released only after rollout
(`StateAgrees`), so the released GPUs are a prefix of the cluster, and the
actor's interval meets nobody else's. `Handshake` and `WorldAgrees` tie the
actor's world size to its manager through the message that may be under way.
The arithmetic core is that a growth to a valid size within what may be released
needs no more instances than that (`CeilDiv`).

**`RolloutMigrationProofs`**: any numbers of instances, groups in a batch,
sequences in a group, training iterations and lent instances, with the groups
divided evenly among the iterations (`SizeAssumption`: the actor's
`BatchResizingIterator` fails on a batch that is not a whole number of shares).

* `Invariance`: `Spec => []IInv`.
* `AssertionsHoldAlways`: `AssertionsHold`; `ReleasedIsIdleAlways`:
  `ReleasedIsIdle`.
* `PoolImplemented`: `ImplementsGroupPool`.

`AssertionsHold` is about answers the manager has gathered, so `IInv` has to say
what may be under way with an instance in each phase of the manager
(`ProtocolAt`). There is one exchange with an instance at a time: the request is
still queued (`Told`), perhaps behind groups it is to receive, or served, or
answered; between rounds it is `Silent`. An instance that is released is
`AtRest`. What makes that last is in `rollout()` (`RolloutAt`): it goes to offload
only when it was asked to finish and has drained (`Ended`), because the
notification that ends it (`event`) is set by the finish alone or
together with groups to run. `OnePlace` says that a group is at one instance and in
one of four places there (not begun, running, aborted and waiting to be fetched,
or in a migration request), and not yet put out. `MigrateIn` is the step where
this is not obvious: what is gathered is the concatenation of the aborted groups
(`FlattenIs`), and the shares of the receivers overlap nowhere, since the
boundaries rise (`Boundaries`, `PartIs`). `PolicyOK` and `PolicyAt` follow the
two policies; with the pre-process policy all instances have begun before the
first migration, because the reports sum up to all tasks while none is larger than a batch
(`AllReported`). The step ends with all groups put out because the last share of
the actor completes their number and none is put out twice (`LastUpdate`, by the
pigeonhole principle). The sums and the concatenation are recursive functions;
`SumIsTotal` and `FlattenIs` get their values by a least counterexample.

**`OnlineRouterProofs`**: any set of requests, any number of calls outstanding.

* `InvThm`, `RouterTypeThm`, and `ImplementsModelGateThm`: the router refines
  `ModelGate`, safety in full. `NothingRaisedThm`: `NothingRaised`.

The refinement needs to know who may run next. `Inv` says that what is due in the
loop agrees with where each request, the lock and the gather are, that each is
due once, and that the two events and the flag agree with each other and with
whether a synchronisation holds the lock. Then each action of the loop is a step of the
gate or leaves it alone: `HandleComplete` enters, sleeps or is turned away,
`Gathered` closes the gate because no future it awaited is left, `SyncModelEnd`
opens it to those it wakes. That `Lost` is no request (`LostAssumption`) is
what keeps a gather with a failed request from ending. For `NothingRaised`
the calls in line for the lock, and after them those still due in the loop, run
one after the other from the flag's value to what the runner did last (`InTurn`):
starts and ends alternate, so whoever gets the lock finds the flag as it should.

**`CommGroupProofs`**: any workers, ports and loads, any number of restarts.

* `PortsExclusiveThm`: of two living workers with the same port, one has lost its
  lock on it, and its name is one that the daemon may take for dead (a child's, one
  used before, one launched again); so a worker that Ray lists under a new name
  shares no port that it was given first. From `PortInv`: such a worker's ports are
  locked under its name, and the daemon takes only the other names for dead. Any
  set of workers may be `Doubtful`.
* `JoinsItsMasterThm`: the peer joins at a port its master holds, or one left
  published. From `MeetInv`: a port is published only while a thread of the master
  joins or resets (`InMeeting`), and what is published is the master's own port, or
  what a killed master left.
* `MessageLinkThm`: `ImplementsMessageLink`. However the calls of send and recv are
  mixed, synchronous and not, messages arrive whole and in the order of the
  calls, both ways, also with works that raise and across restarts.
* `CommTypeThm`: types.

The link rests on `LinkInv`. For each kind of work (`Lane`), the number of works done, the
busy thread's, those in the queue and the main thread's follow each other, and the flag is
set only when the queue is empty and its thread blocked, so that main, which
spins on it, never works beside the queue's thread. What is on the
wire (`Flow`) are then the next parts of 1, 2, 3, ..., from the half message the
receiver is in to the half message the sender is in. A part sent extends that row at its
end, a part received takes its head, and the complete messages of it
(`MessagesAre`) are the numbers after those received up to those sent.

**`DynamicInferenceProofs`**: any number of ranks, any share, any configuration
with a split that does not exceed the share.

* `InvThm`, and `StopTogetherThm`: the ranks leave every call after the same number
  of all-reduces if calls of pipeline mode take at most two results
  (`Modest`), and in collocated mode always.

`Inv` compares two ranks at a time. In the same call they have inferred the
same number of results and compare the next minimum with the same number
(`SameCall`); a rank that is a call behind is about to infer what the other has
inferred (`Behind`). The two limits of a call are a result apart at most
(`Limits`), so what a rank carries into a call is no more than the call's least
number (`Within`), all start the loop from that number (`FirstRound`), and all
go on or stop at the same minimum.

* `EachResultOnceThm`: `EachResultOnce`, with any number of results a call and
  without `Modest`.

For each result `PlacesInv` counts the places it is in: the channel, an answered
get, the results a rank carries, its kept batch, the output. One that has arrived is in
exactly one, one that has not is in none; and what the ranks have inferred is as
many results as they count, all different (`Inferred`).

**`AsyncPipelineProofs`**: any number of stages, steps and epochs, any capacity.

* `LatestRowsThm`: `BufferHoldsLatest`. `RingInv` says of each place of the ring
  how long ago it was written (`Age`), across the wrap.
* `ActionsForTheStepThm`: `ActionsForTheStep`. `TurnInv` lists the four ways
  the environment's and the policy's loops can stand to each other (`Gap`), and
  what is then in the two channels: they are never more than a chunk apart.
* `RecordsOfOneStepThm`: `RecordsOfOneStep`. `RecordsInv` says what each
  queue of record fields holds: the entries from the number of records
  already made to the number of those added so far (`Count`, `Entry`), which for the
  flags is one more with every epoch.

**`ChannelProofs`**: any finite set of calls, any requests, keys and capacity.
First the queues (`ChannelQueue`):

* `InvThm`: `Inv`. `NothingLostOrDoubledThm`: `NothingLostOrDoubled`.
  `NobodySleepsInVainThm`: `NobodySleepsInVain`. `BatchContractThm`:
  `BatchContract`. `QueueImplemented`: `ImplementsBoundedQueue`.

`Inv` also has the types. A call is due, asleep at one future, or returned (`Loop`); an
item is in one hand or in one place of its key's queue (`Places`, `Hands`);
and for every key, if a put sleeps, the puts that are due can take all the room
there is (`RoomOK`), and if a get sleeps and no batch of the key broke off, the
gets that are due can take all the items (`ItemsOK`). The last two count: each
step that makes room or brings an item wakes a sleeper if there is one, and each
step that is due uses up at most what it counts for. `BatchContract` is about sums of weights; what
`BatchSize` takes is compared with the first item that would exceed the target by
the sums' monotonicity, proved from the recursive function `SumOf` by a least
counterexample.

Then the workers around them (`Channel`), any number of them, with any operations:

* `ChannelInvariance`: `ChannelInv`. `EachCallItsOwnThm`: `EachCallItsOwn`.
  `NoAnswerAstrayThm`: `NoAnswerAstray`. `PutsInOrderThm`: `PutsInOrder`.

`Channel` assumes of the operations that only `put`, `get` and `get_batch` have an
asynchronous form (`OffersAssumption`). The hypothesis of the theorems is
`Disciplined`, the habits of the workers: each awaits all of its gets or none, and awaits each of
its puts or puts under one key. `channel.py` does not check this, and without it
`EachCallItsOwn` and `PutsInOrder` fail (section 6). `ChannelInv` joins the places an operation and its item
pass through. The operations of a worker under one key run one by one in the
order of their numbers (`OpsOK`). Items not yet received are exactly those on the worker's
side or on their way, in that order too (`SendsOK`). So the item that has come
first is that of the put that runs (`ItemIsOwn`): an earlier one
would belong to a put that has not returned, which is under the same key and
runs before, or is awaited like this one, and a worker awaits one operation at
a time (`BlockedOK`). A worker that awaits its gets (`Waits`) has at
most one recv posted and one answer under way, both of the same get
(`RecvsOK`, `AnswersOK`); the answers of one that does not all bear their query, since
only a `get_nowait` is answered without one. `ItemsStored` says that the items in
the queues and in the hands of gets are those of the puts that are done, which is what
`PutsInOrder` needs.

## 5. Only model-checked

* Liveness (`BlockedOnlyByTheDead`, `EventLoopNotStuck`, `ServedUnlessStarved`,
  `StepEnds`, `EveryRequestServed`, `SyncCallsReturn`, `RunEnds`,
  `InferenceEnds`) and the fairness part of the refinements: temporal reasoning with
  `ENABLED` is beyond the proof system used.

## 6. Where the code and its documentation disagree

Two runs expect a violation.

1. `router_unpaused`: `_sync_weights` calls `sync_model_start()` and loads
   weights without waiting for it, while its comment
   (`runners/coding_online_rl_runner.py:259`) says that the old requests are
   finished by then.
2. `inference_uneven`: `get_dynamic_batch_as_much`
   (`workers/actor/megatron_actor_worker.py:363`) compares the first minimum with this
   rank's own number, not, as its comment says (line 361), with the last minimum. With three or
   more results a call in pipeline mode, a rank that carries two leaves at a
   minimum of two, while one that carried none enters another all-reduce.

Seen while modelling, and built into the models and the exceptions that their
properties name:

* Without `use_wait_before_last_iter_policy`, inference may finish
  between rollout's report and its own turn. Its GPUs are released while idle
  rollout instances keep theirs, and the actor's world size reaches over GPUs
  from which those have not offloaded (`manager.py:762`): `GpusNotShared` fails
  in `GpuNoWait.cfg`. `NotSharedWithWork` bounds the damage.
* Without the pre-process policy a report may precede an instance's first batch,
  and groups migrated into the instance fail the assertion at the start of its
  `rollout()` (`AssertionsHold`).
* `get_batch` peeks among the getters. Woken for an item that is too heavy, it
  returns without taking it and wakes nobody; another get sleeps on beside the
  item (`channel_worker.py:471`; `ServedUnlessStarved` excepts it).
* With other habits than those of `Disciplined` a worker can mix up items: a synchronous
  `get` beside an outstanding asynchronous one of another key takes the first
  answer (`channel.py:515`), and asynchronous puts under two keys, or a
  `put_nowait` after an asynchronous put of another key, can receive each other's items
  (`channel_worker.py:368`). An item bears its key, so it is filed where it belongs,
  but a `put_nowait` can return or raise for another item (`EachCallItsOwn` fails with four
  operations), and a full queue under one key can hold up an item that was put earlier
  under the other, so that a later one overtakes it (`PutsInOrder` fails with five). The
  repository has such a use: `generate_and_send` (`sglang_worker.py:491`) puts
  the results of concurrent requests, each under a key of its own. It uses each key
  once, so no order is lost, but a request may end while its result is still held up. The
  models and proofs of `Channel` do not cover it.
* A failing request's future is never resolved, and the next synchronisation
  that saw it waits for ever with the lock held; a request without `stop` fails
  on an unbound variable (`online_router_worker.py:148-153`). A request woken
  when the gate opened may enter after it has begun to close again.
* A work that raises ends its queue's thread with `done` false; a port left
  published by a killed master sends the next peer there.
* `acquire_free_port` gives ports "without causing conflicts within the node"
  (`worker.py:747`), and the daemon frees them "when it finds a worker is no longer
  alive" (`lock_manager.py:173`). But `check_worker_alive` answers False for a name
  without a Ray actor (`worker.py:848`), so within a minute the daemon frees the
  port of every living child, and it may free that of a worker whose name was used
  before. In the instance of `CommGroup.cfg` the child and the master come to own
  one port. `PortsExclusive` states what remains. A port of a child is in danger only
  until it is bound, or if it never is.
* The flags of a record are of an earlier step, by one more step with
  every epoch, since an epoch queues one entry more of them; the human's action of
  an epoch's last step is lost (`RecordsOfOneStep` states both). The keyboard
  wrapper reports under `intervention_action`, which the workers do not look for.
* The policy loop, told to stop at a bad moment, leaves the environment or a
  stage's task waiting (`illTimed`). A batch that would fill the replay buffer
  raises in a task nobody awaits.
* Device locks of killed workers are not reclaimed, unlike ports, unless a worker is
  launched again under the same address: it owns what the dead one held
  (`lock_manager.py:39`). `DeviceLock` does not launch any.
* A batch size that the number of ranks does not divide leaves results that no rank takes
  (`Share` is rounded down).

## 7. Not modelled, and why

* `LocalChannel` (one process): two direct calls on one queue, no concurrency
  beyond `PeekQueue`'s. Key replicas of distributed channels choose an actor per
  key; each is a `ChannelQueue`. The memory cleaner only frees memory.
* The registry: names and calls that poll until an entry is there, which the
  models have as guards. That a lookup of a relaunched worker returns its first
  entry has no consequence inside the modelled parts.
* Placement: which ranks belong to whom is computed once from the configuration;
  `GpuScheduler` assumes what its assertions check. Configuration
  (`config.py`) is validation of values, without state.
* Keyboard and intervention window: wall-clock time against a window in one
  thread; the result never reaches the records (section 6).
* Replay buffers made from demonstrations, `clear`, `split_to_dict` and `save`:
  direct assignments by a single caller. Evaluation and weight transfer of the
  pipeline run between its steps.
* Accelerator ids that are not in the cluster (an `IndexError` in
  `acquire_devices`): the ids a worker passes are its own.
* Failures of Ray itself (lost calls, restarts of the managers): the code has no
  handling for them; `max_restarts` is never set.
* Numerical code, engines, simulators, data sets, logging and metrics, which are
  most of the repository's lines: models, algorithms and environments are
  functions of tensors that one process calls in sequence.

## 8. Plan

Every component with a protocol of its own has a module, and every safety invariant,
every action property and the safety part of every refinement a theorem. What is
left are larger models: several environment workers of the pipeline, groups of
more than two workers (broadcast), a restart of one worker alone.

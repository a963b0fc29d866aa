---------------------------- MODULE GpuScheduler ----------------------------
(* The dynamic scheduler (rlinf/scheduler/dynamic_scheduler): during one     *)
(* global step it takes GPUs from the rollout and inference components as    *)
(* their work runs out and gives them to the actor, which trains in          *)
(* NMinibatches iterations and asks for its new size after each of them.     *)
(* The components are placed in the order actor -> rollout -> inference, so  *)
(* the actor grows over the GPUs of the rollout instances of lowest id.      *)
(* The sequence groups and the messages of a migration are left out: a       *)
(* migration or a finish is one action, taken when the instances it waits    *)
(* for can have answered.                                                    *)
EXTENDS Integers, Sequences, FiniteSets

CONSTANTS
  ActorDp, ActorMP,          \* the actor's initial instances; GPUs of one
  RolloutDp, RolloutMP,      \* the same for rollout, lent GPUs included
  InferenceDp, InferenceMP,  \* the same for inference; no instance: no such component
  NMinibatches,              \* algorithm.n_minibatches
  GroupSize,                 \* algorithm.group_size
  BatchSize,                 \* data.rollout_batch_size
  MaxRunning,                \* rollout.max_running_requests
  UsePreProcess,             \* cluster.use_pre_process_policy
  UseWait                    \* cluster.use_wait_before_last_iter_policy

Components == {"actor", "rollout", "inference"}
ActorGpus == ActorDp * ActorMP
RolloutGpus == RolloutDp * RolloutMP
InferenceGpus == InferenceDp * InferenceMP
RolloutBase == IF UsePreProcess THEN 0 ELSE ActorGpus
ClusterGpus == RolloutBase + RolloutGpus + InferenceGpus
TotalTasks == GroupSize * BatchSize

(* The sizes the actor may take: each splits a training iteration's batch    *)
(* into whole groups.                                                        *)
ValidDpSizes ==
  {d \in 1 .. ClusterGpus \div ActorMP :
     (TotalTasks \div NMinibatches) % (d * GroupSize) = 0}

(* What the code asserts of a configuration it accepts: the actor can take   *)
(* the whole cluster, and the GPUs it lends are whole rollout instances and  *)
(* not all of them.                                                          *)
ASSUME SizeAssumption ==
  /\ {ActorDp, ActorMP, RolloutDp, RolloutMP, InferenceMP} \subseteq Nat \ {0}
  /\ {NMinibatches, GroupSize, BatchSize, MaxRunning} \subseteq Nat \ {0}
  /\ InferenceDp \in Nat
ASSUME PolicyAssumption == UsePreProcess \in BOOLEAN /\ UseWait \in BOOLEAN
ASSUME BatchAssumption == TotalTasks % NMinibatches = 0
ASSUME ActorAssumption ==
  /\ ActorDp \in ValidDpSizes
  /\ \E d \in ValidDpSizes : d * ActorMP = ClusterGpus
ASSUME LendAssumption ==
  UsePreProcess => /\ ActorGpus % RolloutMP = 0
                   /\ ActorGpus < RolloutGpus
                   /\ TotalTasks \div 2 > 0

VARIABLES
  phase,              \* where the scheduler's coroutine is
  train_iter,         \* of main_loop
  manager,            \* component -> its ComponentManager's counters
  available_gpu_num,  \* of _DynamicSchedulerState
  instance_num,       \* its components_instance_num
  reported,           \* the RolloutManager's running_tasks
  running,            \* the sequences rollout has still to complete
  started,            \* every rollout instance has taken its batch
  inferenceDone,      \* inference has offloaded and said so
  actor,              \* what the actor does, its iteration, its world size
  request,            \* the actor's request queue: a world size, or 0 for None
  response            \* the number of messages in its response queue

scheduler == <<phase, train_iter, manager, available_gpu_num, instance_num, reported>>
environment == <<running, started, inferenceDone>>
vars == <<scheduler, environment, actor, request, response>>

Initial(c) == CASE c = "actor"     -> [inst |-> ActorDp, gpu |-> ActorGpus, offset |-> 0]
                [] c = "rollout"   -> [inst |-> RolloutDp, gpu |-> RolloutGpus, offset |-> 0]
                [] c = "inference" -> [inst |-> InferenceDp, gpu |-> InferenceGpus, offset |-> 0]

ModelParallelSize(c) == CASE c = "actor"     -> ActorMP
                          [] c = "rollout"   -> RolloutMP
                          [] c = "inference" -> InferenceMP

(* Mutant of Released: the instances are not taken off.                      *)
ReleasedGpusOnly(c, n) == [inst   |-> manager[c].inst,
                           gpu    |-> manager[c].gpu - n * ModelParallelSize(c),
                           offset |-> manager[c].offset + n]

(* ComponentManager.update                                                   *)
Released(c, n) == [inst   |-> manager[c].inst - n,
                   gpu    |-> manager[c].gpu - n * ModelParallelSize(c),
                   offset |-> manager[c].offset + n]
Grown(c, n) == [inst   |-> manager[c].inst + n,
                gpu    |-> (manager[c].inst + n) * ModelParallelSize(c),
                offset |-> manager[c].offset - n]

Init ==
  /\ phase = "idle" /\ train_iter = 0
  /\ manager = [c \in Components |-> Initial(c)]
  /\ available_gpu_num = 0
  /\ instance_num = [c \in Components |-> manager[c].inst]
  /\ reported = 0 /\ running = 0 /\ started = TRUE /\ inferenceDone = TRUE
  /\ actor = [doing |-> "finished", iter |-> 0, world |-> ActorGpus]
  /\ request = <<>> /\ response = 0

-----------------------------------------------------------------------------
(* The runner's global step and the components.                              *)

(* The runner starts the scheduler, rollout, inference and the actor; the    *)
(* scheduler starts with the reset of the rollout manager.                   *)
StartStep ==
  /\ phase = "idle" /\ actor.doing = "finished"
  /\ phase' = "lend"
  /\ manager' = [manager EXCEPT !["rollout"] = Initial("rollout")]
  /\ reported' = TotalTasks
  /\ running' = TotalTasks /\ started' = FALSE
  /\ inferenceDone' = (InferenceDp = 0)
  /\ actor' = [doing |-> "starting", iter |-> 0, world |-> actor.world]
  /\ UNCHANGED <<train_iter, available_gpu_num, instance_num, request, response>>

RolloutStarts ==
  /\ ~started
  /\ started' = TRUE
  /\ UNCHANGED <<scheduler, running, inferenceDone, actor, request, response>>

(* Sequences complete, on the instances that are left; an instance that has  *)
(* not started holds at least one.                                           *)
RolloutCompletes ==
  /\ manager["rollout"].inst > 0
  /\ \E n \in (IF started THEN 0 ELSE 1) .. running - 1 : running' = n
  /\ UNCHANGED <<scheduler, started, inferenceDone, actor, request, response>>

(* run_inference has consumed every result and the worker has offloaded      *)
(* (scheduler_offload_sync).                                                 *)
InferenceFinishes ==
  /\ ~inferenceDone /\ running = 0
  /\ inferenceDone' = TRUE
  /\ UNCHANGED <<scheduler, running, started, actor, request, response>>

(* scheduler_pre_process: with the policy the actor first waits to be told.  *)
ActorStarts ==
  /\ actor.doing = "starting"
  /\ UsePreProcess => request # <<>>
  /\ request' = IF UsePreProcess THEN Tail(request) ELSE request
  /\ actor' = [doing |-> "training", iter |-> actor.iter, world |-> actor.world]
  /\ UNCHANGED <<scheduler, environment, response>>

(* An iteration needs its share of the step's results.                       *)
ActorTrains ==
  /\ actor.doing = "training"
  /\ running * NMinibatches <= TotalTasks * (NMinibatches - 1 - actor.iter)
  /\ response' = response + 1
  /\ actor' = [doing |-> "syncing", iter |-> actor.iter, world |-> actor.world]
  /\ UNCHANGED <<scheduler, environment, request>>

(* scheduler_scale_sync: the answer is None or a new world size.             *)
ActorResumes ==
  /\ actor.doing = "syncing" /\ request # <<>>
  /\ request' = Tail(request)
  /\ actor' = [doing |-> IF actor.iter + 1 = NMinibatches THEN "finished" ELSE "training",
               iter  |-> actor.iter + 1,
               world |-> IF Head(request) = 0 THEN actor.world ELSE Head(request)]
  /\ UNCHANGED <<scheduler, environment, response>>

-----------------------------------------------------------------------------
(* SchedulerWorker.pre_process.                                              *)

(* RolloutManager.report: an instance that has not started counts nothing.   *)
Reports == IF started THEN {running} ELSE 0 .. running - 1

(* Mutant of LendingDone: only a report of exactly half ends the lending.    *)
LendingDoneExactly == started /\ running = TotalTasks \div 2

(* RolloutManager.pre_process_impl: ask for reports until every instance has *)
(* started and half of the sequences are done, then migrate away from the    *)
(* instances on the actor's GPUs.                                            *)
LendingDone == started /\ running <= TotalTasks \div 2

KeepLending ==
  /\ phase = "lend" /\ UsePreProcess /\ ~LendingDone
  /\ reported' \in Reports
  /\ UNCHANGED <<phase, train_iter, manager, available_gpu_num, instance_num,
                 environment, actor, request, response>>

ReturnActorGpus ==
  /\ phase = "lend" /\ UsePreProcess /\ LendingDone
  /\ reported' \in Reports
  /\ manager' = [manager EXCEPT !["rollout"] = Released("rollout", ActorGpus \div RolloutMP)]
  /\ phase' = "reset"
  /\ UNCHANGED <<train_iter, available_gpu_num, instance_num, environment,
                 actor, request, response>>

LendNothing ==
  /\ phase = "lend" /\ ~UsePreProcess
  /\ phase' = "reset"
  /\ UNCHANGED <<train_iter, manager, available_gpu_num, instance_num, reported,
                 environment, actor, request, response>>

(* The other managers are reset, the actor is told to start, and the         *)
(* scheduler state is reset.                                                 *)
ResetManagers ==
  /\ phase = "reset"
  /\ manager' = [manager EXCEPT !["actor"] = Initial("actor"),
                                !["inference"] = Initial("inference")]
  /\ request' = IF UsePreProcess THEN Append(request, 0) ELSE request
  /\ available_gpu_num' = 0
  /\ instance_num' = [c \in Components |-> manager'[c].inst]
  /\ train_iter' = 0
  /\ phase' = "await_actor"
  /\ UNCHANGED <<reported, environment, actor, response>>

-----------------------------------------------------------------------------
(* SchedulerWorker.main_loop.                                                *)

WaitForActorUpdate ==
  /\ phase = "await_actor" /\ response > 0
  /\ response' = response - 1
  /\ phase' = "rollout"
  /\ UNCHANGED <<train_iter, manager, available_gpu_num, instance_num, reported,
                 environment, actor, request>>

LastIteration == train_iter = NMinibatches - 1

(* Mutant of Settle: the state forgets what the actor took.                  *)
SettleReleases(c, m, released, incremental) ==
  /\ manager' = [manager EXCEPT ![c] = m]
  /\ available_gpu_num' = available_gpu_num + released
  /\ instance_num' = [instance_num EXCEPT ![c] = m.inst]

(* _DynamicSchedulerState.update, after c's manager became m.                *)
Settle(c, m, released, incremental) ==
  /\ manager' = [manager EXCEPT ![c] = m]
  /\ available_gpu_num' = available_gpu_num + released - incremental
  /\ instance_num' = [instance_num EXCEPT ![c] = m.inst]

ReleaseAll(c) == Settle(c, Released(c, manager[c].inst),
                        manager[c].inst * ModelParallelSize(c), 0)
ReleaseNothing(c) == Settle(c, manager[c], 0, 0)

(* The smallest n with n * b >= a.                                           *)
CeilDiv(a, b) == (a + b - 1) \div b

(* Mutant of SizesWithin: whatever the actor could use.                      *)
SizesAbove(inst, limit) == {d \in ValidDpSizes : d > inst}

(* The largest growth of the actor, in GPUs, to a valid size above inst that *)
(* takes at most limit GPUs.                                                 *)
SizesWithin(inst, limit) ==
  {d \in ValidDpSizes : d > inst /\ (d - inst) * ActorMP <= limit}
Largest(S) == CHOOSE d \in S : \A e \in S : e <= d
Growth(inst, limit) == IF SizesWithin(inst, limit) = {} THEN 0
                       ELSE (Largest(SizesWithin(inst, limit)) - inst) * ActorMP

(* Mutant of ReleasableNum: a partly filled instance is not counted.         *)
ReleasableRoundedDown ==
  LET needed == reported \div MaxRunning
  IN IF needed > manager["rollout"].inst THEN 0 ELSE manager["rollout"].inst - needed

(* RolloutManager.migrate_policy and find_release_instance_num_needed        *)
ReleasableNum ==
  IF manager["rollout"].inst <= 1 THEN 0
  ELSE LET needed == CeilDiv(reported, MaxRunning)
       IN IF needed > manager["rollout"].inst THEN 0 ELSE manager["rollout"].inst - needed
ReleaseNum ==
  CeilDiv(Growth(instance_num["actor"], ReleasableNum * RolloutMP), RolloutMP)

ReportRollout ==
  /\ phase = "rollout" /\ ~LastIteration /\ manager["rollout"].inst > 0
  /\ reported' \in Reports
  /\ phase' = "decide"
  /\ UNCHANGED <<train_iter, manager, available_gpu_num, instance_num, environment,
                 actor, request, response>>

FinishWanted == reported = 0 \/ (UseWait /\ train_iter = NMinibatches - 2)

(* Finish or Wait_For_Finish: the instances answer when nothing runs.        *)
FinishRollout ==
  /\ phase = "decide" /\ FinishWanted
  /\ running = 0
  /\ ReleaseAll("rollout")
  /\ phase' = "inference"
  /\ UNCHANGED <<train_iter, reported, environment, actor, request, response>>

MigrateRollout ==
  /\ phase = "decide" /\ ~FinishWanted
  /\ Settle("rollout", Released("rollout", ReleaseNum), ReleaseNum * RolloutMP, 0)
  /\ phase' = "inference"
  /\ UNCHANGED <<train_iter, reported, environment, actor, request, response>>

(* Nothing is left, or the last iteration: main_loop_finalize finishes what  *)
(* is left and reports no release.                                           *)
SkipRollout ==
  /\ phase = "rollout" /\ (LastIteration \/ manager["rollout"].inst = 0)
  /\ IF LastIteration /\ manager["rollout"].inst > 0
     THEN /\ running = 0
          /\ Settle("rollout", Released("rollout", manager["rollout"].inst), 0, 0)
     ELSE ReleaseNothing("rollout")
  /\ phase' = "inference"
  /\ UNCHANGED <<train_iter, reported, environment, actor, request, response>>

(* Mutant of NeedWaitForFinish: wait once some rollout instances are gone.   *)
NeedWaitOnceReleased == train_iter = NMinibatches - 2 \/ instance_num["rollout"] < RolloutDp

(* InferenceManager.release_resource                                         *)
NeedWaitForFinish == train_iter = NMinibatches - 2 \/ instance_num["rollout"] = 0

ReleaseInference ==
  /\ phase = "inference" /\ ~LastIteration /\ manager["inference"].inst > 0
  /\ IF UseWait
     THEN IF NeedWaitForFinish THEN inferenceDone /\ ReleaseAll("inference")
                               ELSE ReleaseNothing("inference")
     ELSE IF inferenceDone THEN ReleaseAll("inference") ELSE ReleaseNothing("inference")
  /\ phase' = "actor"
  /\ UNCHANGED <<train_iter, reported, environment, actor, request, response>>

(* No inference component, nothing left of it, or the last iteration, whose  *)
(* main_loop_finalize awaits the inference worker.                           *)
SkipInference ==
  /\ phase = "inference" /\ (LastIteration \/ manager["inference"].inst = 0)
  /\ LastIteration /\ InferenceDp > 0 => inferenceDone
  /\ phase' = "actor"
  /\ UNCHANGED <<train_iter, manager, available_gpu_num, instance_num, reported,
                 environment, actor, request, response>>

(* ActorManager.try_allocate                                                 *)
Incremental == IF available_gpu_num < ActorMP THEN 0
               ELSE Growth(manager["actor"].inst, available_gpu_num)

(* ActorManager.scale                                                        *)
Scaled(new) ==
  IF new > manager["actor"].gpu
  THEN Grown("actor", new \div ActorMP - manager["actor"].inst)
  ELSE IF new < manager["actor"].gpu
       THEN Released("actor", manager["actor"].inst - new \div ActorMP)
       ELSE manager["actor"]

ScaleActor(new, incremental) ==
  /\ request' = Append(request, IF new = manager["actor"].gpu THEN 0 ELSE new)
  /\ Settle("actor", Scaled(new), 0, incremental)

AllocateActor ==
  /\ phase = "actor" /\ ~LastIteration
  /\ ScaleActor(manager["actor"].gpu + Incremental, Incremental)
  /\ train_iter' = train_iter + 1
  /\ phase' = "await_actor"
  /\ UNCHANGED <<reported, environment, actor, response>>

(* Mutant of FinalizeActor: the actor keeps its size for the next step.      *)
FinalizeUnscaled ==
  /\ phase = "actor" /\ LastIteration
  /\ ScaleActor(manager["actor"].gpu, 0)
  /\ phase' = "idle"
  /\ UNCHANGED <<train_iter, reported, environment, actor, response>>

FinalizeActor ==
  /\ phase = "actor" /\ LastIteration
  /\ ScaleActor(ActorGpus, 0)
  /\ phase' = "idle"
  /\ UNCHANGED <<train_iter, reported, environment, actor, response>>

-----------------------------------------------------------------------------
SchedulerNext ==
  \/ KeepLending \/ ReturnActorGpus \/ LendNothing \/ ResetManagers
  \/ WaitForActorUpdate
  \/ ReportRollout \/ FinishRollout \/ MigrateRollout \/ SkipRollout
  \/ ReleaseInference \/ SkipInference
  \/ AllocateActor \/ FinalizeActor
ActorNext == ActorStarts \/ ActorTrains \/ ActorResumes
Next == StartStep \/ RolloutStarts \/ RolloutCompletes \/ InferenceFinishes
        \/ ActorNext \/ SchedulerNext

Spec == Init /\ [][Next]_vars

(* Each coroutine and worker goes on when it can.                            *)
FairSpec == Spec /\ WF_vars(StartStep) /\ WF_vars(RolloutStarts)
                 /\ WF_vars(RolloutCompletes) /\ WF_vars(InferenceFinishes)
                 /\ WF_vars(ActorNext) /\ WF_vars(SchedulerNext)

-----------------------------------------------------------------------------
(* Properties.                                                               *)

TypeOK ==
  /\ phase \in {"idle", "lend", "reset", "await_actor", "rollout", "decide",
                "inference", "actor"}
  /\ train_iter \in 0 .. NMinibatches - 1
  /\ manager \in [Components -> [inst : Nat, gpu : Nat, offset : Int]]
  /\ available_gpu_num \in Int
  /\ instance_num \in [Components -> Nat]
  /\ reported \in 0 .. TotalTasks /\ running \in 0 .. TotalTasks
  /\ started \in BOOLEAN /\ inferenceDone \in BOOLEAN
  /\ actor \in [doing : {"starting", "training", "syncing", "finished"},
                iter : 0 .. NMinibatches, world : Nat]
  /\ request \in Seq(Nat) /\ response \in Nat

(* The GPUs each component occupies: the actor its first ranks while it      *)
(* trains, a rollout instance its own until it has offloaded, inference its  *)
(* own until it has said it offloaded.                                       *)
ActorHolds == IF actor.doing \in {"training", "syncing"} THEN 0 .. actor.world - 1 ELSE {}
RolloutHolds ==
  RolloutBase + manager["rollout"].offset * RolloutMP .. RolloutBase + RolloutGpus - 1
InferenceHolds == IF inferenceDone THEN {} ELSE ClusterGpus - InferenceGpus .. ClusterGpus - 1

(* The last iteration only finishes the components; what it frees is not     *)
(* counted.                                                                  *)
Counted ==
  \/ phase \in {"await_actor", "rollout", "decide"}
  \/ phase \in {"inference", "actor"} /\ ~LastIteration

(* Until the last iteration is finalized, every GPU of the cluster is        *)
(* counted exactly once: with a component or as available.                   *)
Conservation ==
  Counted => /\ available_gpu_num >= 0
             /\ available_gpu_num + manager["actor"].gpu + manager["rollout"].gpu
                  + manager["inference"].gpu = ClusterGpus

(* The actor never trains on a GPU that a rollout instance or the inference  *)
(* worker has not given up. It needs the wait policy: without it inference   *)
(* may finish after rollout has reported sequences running, and the actor    *)
(* takes the GPUs of rollout instances that idle.                            *)
GpusNotShared == ActorHolds \cap (RolloutHolds \cup InferenceHolds) = {}

(* Under every policy: the actor never trains on a GPU of the inference      *)
(* worker before it has offloaded, nor on one of a rollout instance while    *)
(* sequences are still being generated.                                      *)
NotSharedWithWork ==
  /\ ActorHolds \cap InferenceHolds = {}
  /\ running > 0 => ActorHolds \cap RolloutHolds = {}

(* Sequences that are still to be generated have an instance to run on,      *)
(* whatever was released.                                                    *)
TasksHaveAHome == running > 0 /\ phase # "idle" => manager["rollout"].inst > 0

(* The actor's size is always one its resharding was prepared for, and it    *)
(* ends every global step at the size it started with, so that its other     *)
(* GPUs can be lent again.                                                   *)
ActorSizeValid ==
  /\ \E d \in ValidDpSizes : actor.world = d * ActorMP
  /\ actor.doing \in {"starting", "finished"} => actor.world = ActorGpus

(* No assertion of the managers fails: a migration leaves an instance and    *)
(* releases no more than the policy allows; a GPU is available for the actor *)
(* only while there is a larger valid size.                                  *)
NothingRaised ==
  /\ phase = "decide" /\ ~FinishWanted /\ ReleasableNum > 0 =>
       /\ instance_num["actor"] \in ValidDpSizes
       /\ ReleaseNum <= ReleasableNum
       /\ ReleaseNum < manager["rollout"].inst
  /\ phase = "actor" /\ ~LastIteration /\ available_gpu_num >= ActorMP =>
       /\ manager["actor"].inst \in ValidDpSizes
       /\ manager["actor"].inst # Largest(ValidDpSizes)
       /\ Incremental <= available_gpu_num
       /\ manager["actor"].gpu + Incremental <= ClusterGpus

(* A migration that the policy decides leaves enough instances to run all    *)
(* the unfinished sequences at once.                                         *)
MigrationLeavesRoom ==
  [][phase = "decide" /\ manager["rollout"].inst' < manager["rollout"].inst
       => running <= manager["rollout"].inst' * MaxRunning]_vars

(* Every global step that starts ends: the waits of the scheduler, the actor *)
(* and inference for each other never close a cycle.                         *)
StepEnds == phase # "idle" ~> phase = "idle" /\ actor.doing = "finished"

(* The pool a GPU is drawn from: it passes from one component to another     *)
(* only by way of nobody holding it.                                         *)
Owner(g) == LET holders == {c \in Components : \/ c = "actor" /\ g \in ActorHolds
                                               \/ c = "rollout" /\ g \in RolloutHolds
                                               \/ c = "inference" /\ g \in InferenceHolds}
            IN IF holders = {} THEN "nobody" ELSE
               IF Cardinality(holders) = 1 THEN CHOOSE c \in holders : TRUE ELSE "several"
Pool == INSTANCE GpuPool WITH Gpus <- 0 .. ClusterGpus - 1,
                              owner <- [g \in 0 .. ClusterGpus - 1 |-> Owner(g)]
ImplementsPool == Pool!Spec

-----------------------------------------------------------------------------
(* The inductive invariant that the proofs in GpuSchedulerProofs rest on.    *)

InMainLoop == phase \in {"await_actor", "rollout", "decide", "inference", "actor"}
Finalizing == phase \in {"inference", "actor"} /\ LastIteration

(* Each manager's counters agree with each other; rollout loses its          *)
(* instances of lowest id first, inference all or none.                      *)
ManagersAgree ==
  /\ manager["actor"].inst \in ValidDpSizes
  /\ manager["actor"].gpu = manager["actor"].inst * ActorMP
  /\ manager["rollout"].offset \in Nat
  /\ manager["rollout"].inst + manager["rollout"].offset = RolloutDp
  /\ manager["rollout"].gpu = manager["rollout"].inst * RolloutMP
  /\ manager["inference"].inst \in {0, InferenceDp}
  /\ manager["inference"].gpu = manager["inference"].inst * InferenceMP

(* The scheduler state is not stale, and inference is released only after it *)
(* has offloaded and, with the wait policy, after rollout.                   *)
StateAgrees ==
  /\ InferenceDp = 0 => inferenceDone
  /\ InferenceDp > 0 /\ inferenceDone => running = 0
  /\ InMainLoop => /\ instance_num = [c \in Components |-> manager[c].inst]
                   /\ manager["inference"].inst = 0 => inferenceDone
                   /\ UseWait /\ InferenceDp > 0 /\ manager["inference"].inst = 0
                        => manager["rollout"].inst = 0

(* What is known of the GPUs at each place of the scheduler.                 *)
PhaseFacts ==
  /\ phase \in {"idle", "lend", "reset"} => manager["actor"].gpu = ActorGpus
  /\ phase = "idle" /\ actor.doing # "finished" =>
       manager["rollout"].inst = 0 /\ inferenceDone
  /\ phase = "lend" => manager["rollout"].offset = 0
  /\ phase = "reset" =>
       ActorGpus + manager["rollout"].gpu + InferenceGpus = ClusterGpus
  /\ phase = "decide" => ~LastIteration /\ manager["rollout"].inst > 0
  /\ phase = "inference" /\ UseWait /\ train_iter = NMinibatches - 2 =>
       manager["rollout"].inst = 0
  /\ Finalizing => /\ manager["rollout"].inst = 0
                   /\ manager["inference"].inst > 0 =>
                        manager["actor"].gpu + InferenceGpus <= ClusterGpus
                   /\ phase = "actor" => inferenceDone

(* Reports are not out of date in the wrong direction.                       *)
ReportsBound ==
  /\ UsePreProcess /\ (InMainLoop \/ phase = "reset") => started
  /\ UsePreProcess /\ phase = "decide" => running <= reported

(* The scheduler and the actor answer each other in turn.                    *)
Waiting(doing, requests, responses, iter) ==
  /\ actor.doing = doing /\ Len(request) = requests
  /\ response = responses /\ actor.iter = iter
Handshake ==
  /\ phase = "idle" => \/ Waiting("finished", 0, 0, actor.iter)
                       \/ Waiting("syncing", 1, 0, NMinibatches - 1)
  /\ phase \in {"lend", "reset"} =>
       \/ Waiting("starting", 0, 0, 0)
       \/ ~UsePreProcess /\ (Waiting("training", 0, 0, 0) \/ Waiting("syncing", 0, 1, 0))
  /\ phase = "await_actor" =>
       \/ Waiting("starting", IF UsePreProcess THEN 1 ELSE 0, 0, train_iter)
       \/ Waiting("training", 0, 0, train_iter)
       \/ Waiting("syncing", 0, 1, train_iter)
       \/ Waiting("syncing", 1, 0, train_iter - 1)
  /\ InMainLoop /\ phase # "await_actor" => Waiting("syncing", 0, 0, train_iter)

(* The actor's world size is what its manager counts, once it has taken the  *)
(* answer that is on its way.                                                *)
WorldAgrees ==
  /\ actor.world = manager["actor"].gpu \/ Len(request) = 1
  /\ Len(request) = 1 => \/ request[1] = 0 /\ actor.world = manager["actor"].gpu
                         \/ request[1] = manager["actor"].gpu
  /\ actor.doing = "starting" => actor.world = manager["actor"].gpu
  /\ InMainLoop => actor.world <= manager["actor"].gpu

IInv == /\ TypeOK /\ ManagersAgree /\ StateAgrees /\ PhaseFacts /\ Conservation
        /\ ReportsBound /\ Handshake /\ WorldAgrees /\ ActorSizeValid
        /\ TasksHaveAHome
=============================================================================

--------------------------- MODULE AsyncPipeline ----------------------------
(***************************************************************************)
(* The asynchronous embodied pipeline: AsyncEnvWorker.interact and         *)
(* AsyncMultiStepRolloutWorker.generate play ping-pong over two channels,  *)
(* one asyncio task per pipeline stage (AsyncEmbodiedRolloutBuffer.run)    *)
(* puts records together from queues that generate fills at different      *)
(* paces, the actor's task adds them to its replay buffer, and             *)
(* AsyncEmbodiedRunner.run trains, then stops them one after the other.    *)
(* One worker each.  Observations, actions, rewards and flags are known by *)
(* the step of the environment they belong to: step k of a stage is the    *)
(* one between its observations k - 1 and k.                               *)
(***************************************************************************)
EXTENDS ReplayBuffer

CONSTANTS
  StageNum,       (* pipeline stages                                        *)
  NChunkSteps,    (* steps of an epoch                                      *)
  Capacities,     (* of the replay buffer: one of these                     *)
  MinBufferSize,  (* rows that training waits for                           *)
  MaxSteps,       (* steps of training                                      *)
  MaxEpochs       (* bound: the environment is slow to begin the last of    *)
                  (* these, and begins it when it has been told to stop     *)

ASSUME PipelineAssumption ==
  /\ {StageNum, NChunkSteps, MinBufferSize, MaxSteps, MaxEpochs} \subseteq Nat \ {0}
  /\ Capacities \subseteq Nat \ {0}

Stages == 1 .. StageNum

VARIABLES
  env,           (* interact: epoch, chunk and stage, and where it is       *)
  envStop,       (* its should_stop                                         *)
  envChannel,    (* environment outputs under way to the policy             *)
  policy,        (* generate: epoch, chunk and stage, or that it has left   *)
  policyStop,    (* its should_stop, and its buffers'                       *)
  lastResults,   (* per stage, the step the last result is for, and the     *)
                 (* step whose human actions were put into it; or None      *)
  lastObs,       (* per stage, the last observation, or None                *)
  rolloutChannel,(* actions under way to the environment                    *)
  queues,        (* per stage, the queues of AsyncEmbodiedRolloutBuffer     *)
  tasks,         (* stages whose buffer task runs                           *)
  records,       (* per stage, the records its task has sent                *)
  replayChannel, (* records under way to the actor                          *)
  runner,        (* what the runner is at                                   *)
  trainStep,
  illTimed       (* the policy was told to stop too early or too late       *)

envVars == <<env, envStop>>
policyVars == <<policy, policyStop, lastResults, lastObs>>
channelVars == <<envChannel, rolloutChannel>>
recordVars == <<queues, tasks, records>>
runnerVars == <<runner, trainStep, illTimed>>
vars == <<envVars, policyVars, channelVars, recordVars, replayChannel, runnerVars, bufferVars>>

None == -1
NoResult == [step |-> None, human |-> None]
Fields == {"logprobs", "flags", "rewards", "transitions", "inputs"}

Init ==
  /\ env = [epoch |-> 0, chunk |-> 1, stage |-> 1, at |-> "starting"]
  /\ envStop = FALSE /\ policyStop = FALSE
  /\ envChannel = <<>> /\ rolloutChannel = <<>> /\ replayChannel = <<>>
  /\ policy = [epoch |-> 1, chunk |-> 1, stage |-> 1, at |-> "running"]
  /\ lastResults = [s \in Stages |-> NoResult] /\ lastObs = [s \in Stages |-> None]
  /\ queues = [s \in Stages |-> [f \in Fields |-> <<>>]]
  /\ tasks = Stages /\ records = [s \in Stages |-> <<>>]
  /\ runner = "training" /\ trainStep = 0 /\ illTimed = FALSE
  /\ InitBuffer(Capacities)

(* The steps of the epochs before.                                          *)
Before(epoch) == (epoch - 1) * NChunkSteps

-----------------------------------------------------------------------------
(* AsyncEnvWorker.                                                          *)

Output(s, step, rewarded) == [stage |-> s, step |-> step, rewarded |-> rewarded]

(* An epoch begins with an output of each stage that has no rewards, only   *)
(* the flags of the last step once more.                                    *)
StartEpoch ==
  /\ env.at = "starting" /\ ~envStop
  /\ env' = [epoch |-> env.epoch + 1, chunk |-> 1, stage |-> 1, at |-> "awaiting"]
  /\ envChannel' = envChannel \o
       [s \in Stages |-> Output(s, Before(env'.epoch), FALSE)]
  /\ UNCHANGED <<envStop, rolloutChannel>>

LeaveInteract ==
  /\ env.at = "starting" /\ envStop
  /\ env' = [env EXCEPT !.at = "left"]
  /\ UNCHANGED <<envStop, channelVars>>

(* `await asyncio.sleep(0)` is where the worker can be told to stop: from   *)
(* there on it blocks until actions come.                                   *)
GoOn ==
  /\ env.at = "awaiting"
  /\ env.epoch < MaxEpochs \/ env.chunk > 1 \/ env.stage > 1 \/ envStop
  /\ env' = [env EXCEPT !.at = "blocked"]
  /\ UNCHANGED <<envStop, channelVars>>

EnvInteractStep ==
  /\ env.at = "blocked" /\ rolloutChannel # <<>>
  /\ rolloutChannel' = Tail(rolloutChannel)
  /\ envChannel' = Append(envChannel,
       Output(env.stage, Before(env.epoch) + env.chunk, TRUE))
  /\ env' = IF env.stage < StageNum
            THEN [env EXCEPT !.stage = @ + 1, !.at = "awaiting"]
            ELSE IF env.chunk < NChunkSteps
                 THEN [env EXCEPT !.stage = 1, !.chunk = @ + 1, !.at = "awaiting"]
                 ELSE [env EXCEPT !.at = "starting"]
  /\ UNCHANGED envStop

Interact ==
  /\ StartEpoch \/ LeaveInteract \/ GoOn \/ EnvInteractStep
  /\ UNCHANGED <<policyVars, recordVars, replayChannel, runnerVars, bufferVars>>

-----------------------------------------------------------------------------
(* AsyncMultiStepRolloutWorker: each output is dealt with up to the next    *)
(* await, that of the next one.                                             *)

(* update_intervene_actions: the actions of the human in the step that      *)
(* ended replace those of the policy.                                       *)
UpdateInterveneActions(result, out) ==
  IF result = NoResult THEN result ELSE [result EXCEPT !.human = out.step]

(* The tail of an epoch takes the last result as it is.                     *)
LastResult(out) ==
  IF policy.chunk > NChunkSteps THEN lastResults[out.stage]
  ELSE UpdateInterveneActions(lastResults[out.stage], out)

(* Mutant: the result of this step is added in place of the last one.       *)
AddThisResult(q, result, out) ==
  [q EXCEPT !.logprobs = Append(@, out.step + 1),
            !.inputs = Append(@, [step |-> out.step + 1, human |-> None])]

AddResult(q, result, out) ==
  IF result = NoResult THEN q
  ELSE [q EXCEPT !.logprobs = Append(@, result.step), !.inputs = Append(@, result)]

AddTransition(q, obs, out) ==
  IF obs = None THEN q
  ELSE [q EXCEPT !.transitions = Append(@, [obs |-> obs, next_obs |-> out.step])]

AddFlagsAndRewards(q, out) ==
  [q EXCEPT !.flags = Append(@, out.step),
            !.rewards = IF out.rewarded THEN Append(@, out.step) ELSE @]

AddAll(out) ==
  queues' = [queues EXCEPT ![policy.stage] =
    AddTransition(AddResult(AddFlagsAndRewards(@, out), LastResult(out), out),
                  lastObs[policy.stage], out)]

(* Mutant: actions are sent at the tail of an epoch as well.                *)
SendAlways(out) ==
  rolloutChannel' = Append(rolloutChannel, [stage |-> policy.stage, step |-> out.step + 1])

SendChunkActions(out) ==
  IF policy.chunk > NChunkSteps THEN UNCHANGED rolloutChannel
  ELSE rolloutChannel' =
         Append(rolloutChannel, [stage |-> policy.stage, step |-> out.step + 1])

(* Results and observations are forgotten between epochs.                   *)
Remember(out) ==
  IF policy.chunk > NChunkSteps
  THEN /\ lastResults' = [lastResults EXCEPT ![policy.stage] = NoResult]
       /\ lastObs' = [lastObs EXCEPT ![policy.stage] = None]
  ELSE /\ lastResults' = [lastResults EXCEPT ![policy.stage] =
                            [step |-> out.step + 1, human |-> None]]
       /\ lastObs' = [lastObs EXCEPT ![policy.stage] = out.step]

(* The next output awaited; after the tail, another epoch or the end.       *)
Proceed ==
  policy' =
    IF policy.stage < StageNum THEN [policy EXCEPT !.stage = @ + 1]
    ELSE IF policy.chunk <= NChunkSteps THEN [policy EXCEPT !.stage = 1, !.chunk = @ + 1]
    ELSE [epoch |-> policy.epoch + 1, chunk |-> 1, stage |-> 1,
          at |-> IF policyStop THEN "left" ELSE "running"]

Generate ==
  /\ policy.at = "running" /\ envChannel # <<>>
  /\ envChannel' = Tail(envChannel)
  /\ LET out == Head(envChannel) IN AddAll(out) /\ SendChunkActions(out) /\ Remember(out)
  /\ Proceed
  /\ UNCHANGED <<envVars, policyStop, tasks, records, replayChannel, runnerVars, bufferVars>>

-----------------------------------------------------------------------------
(* AsyncEmbodiedRolloutBuffer.run: send_data awaits one of each, and the    *)
(* flag is looked at when a record has been sent.                           *)

(* Mutant: the flag is not looked at.                                       *)
KeepSending(s) == UNCHANGED tasks

EndOrContinue(s) == tasks' = IF policyStop THEN tasks \ {s} ELSE tasks

SendData(s) ==
  /\ s \in tasks /\ \A f \in Fields : queues[s][f] # <<>>
  /\ LET record == [f \in Fields |-> Head(queues[s][f])] IN
       /\ records' = [records EXCEPT ![s] = Append(@, record)]
       /\ replayChannel' = Append(replayChannel, <<s, Len(records'[s])>>)
  /\ queues' = [queues EXCEPT ![s] = [f \in Fields |-> Tail(@[f])]]
  /\ EndOrContinue(s)
  /\ UNCHANGED <<envVars, policyVars, channelVars, runnerVars, bufferVars>>

(* SACReplayBuffer.run, in the actor: as many records as there are senders  *)
(* make a batch.                                                            *)
ReplayBufferRun ==
  /\ Len(replayChannel) >= StageNum
  /\ AddRolloutBatch(SubSeq(replayChannel, 1, StageNum))
  /\ replayChannel' = SubSeq(replayChannel, StageNum + 1, Len(replayChannel))
  /\ UNCHANGED <<envVars, policyVars, channelVars, recordVars, runnerVars>>

-----------------------------------------------------------------------------
(* AsyncEmbodiedRunner.                                                     *)

RunTraining ==
  /\ runner = "training" /\ trainStep < MaxSteps /\ IsReady(MinBufferSize)
  /\ trainStep' = trainStep + 1
  /\ runner' = IF trainStep' < MaxSteps THEN "training" ELSE "stopping env"
  /\ UNCHANGED <<illTimed, envVars, policyVars>>

StopEnv ==
  /\ runner = "stopping env" /\ env.at = "awaiting"
  /\ runner' = "stopping policy" /\ envStop' = TRUE
  /\ UNCHANGED <<trainStep, illTimed, env, policyVars>>

(* The policy is where the environment is in its last epoch, and has an     *)
(* output of every stage to come.                                           *)
WellTimed ==
  policy.epoch = env.epoch /\ (policy.chunk <= NChunkSteps \/ policy.stage = 1)

StopPolicy ==
  /\ runner = "stopping policy"
  /\ runner' = "waiting" /\ policyStop' = TRUE /\ illTimed' = ~WellTimed
  /\ UNCHANGED <<trainStep, policy, lastResults, lastObs, envVars>>

Finish ==
  /\ runner = "waiting"
  /\ tasks = {} /\ env.at = "left" /\ policy.at = "left"
  /\ runner' = "finished"
  /\ UNCHANGED <<trainStep, illTimed, envVars, policyVars>>

Run ==
  /\ RunTraining \/ StopEnv \/ StopPolicy \/ Finish
  /\ UNCHANGED <<channelVars, recordVars, replayChannel, bufferVars>>

-----------------------------------------------------------------------------
Next ==
  \/ Interact \/ Generate \/ ReplayBufferRun \/ Run
  \/ \E s \in Stages : SendData(s)

Spec == Init /\ [][Next]_vars

(* Workers and tasks run on; a worker that is told to stop is told so at    *)
(* some await that it passes.                                               *)
FairSpec ==
  /\ Spec
  /\ WF_vars(Interact) /\ WF_vars(Generate) /\ WF_vars(ReplayBufferRun) /\ SF_vars(Run)
  /\ \A s \in Stages : WF_vars(SendData(s))

-----------------------------------------------------------------------------
(* The actions that the environment takes were chosen for the stage and the *)
(* step it takes them in, although all stages share one channel and neither *)
(* side says which stage it means.                                          *)
ActionsForTheStep ==
  env.at = "blocked" /\ rolloutChannel # <<>> =>
    Head(rolloutChannel) = [stage |-> env.stage, step |-> Before(env.epoch) + env.chunk]

(* The n-th record of a stage holds the log-probabilities, the rewards, the *)
(* transition and the action of its n-th step, though they come from queues *)
(* that are filled at three moments, and the action is the human's where    *)
(* the human acted -- but in the last step of an epoch, where the policy's  *)
(* is recorded. The flags (terminations, truncations) are an exception: an  *)
(* epoch queues one entry of them more than of the rest, so they are of an  *)
(* earlier step, one step earlier again with every NChunkSteps + 1 records. *)
RecordsOfOneStep ==
  \A s \in Stages : \A n \in DOMAIN records[s] :
    LET r == records[s][n] IN
      /\ r.logprobs = n /\ r.rewards = n
      /\ r.transitions = [obs |-> n - 1, next_obs |-> n]
      /\ r.inputs = [step |-> n, human |-> IF n % NChunkSteps = 0 THEN None ELSE n]
      /\ r.flags = n - 1 - (n - 1) \div (NChunkSteps + 1)

(* A run ends: training gets its data, and environment, policy and the      *)
(* buffers' tasks all leave when they are told to stop -- unless a batch    *)
(* does not fit into the replay buffer, or the policy hears of the stop     *)
(* before it is in the environment's last epoch or when it has had the last *)
(* output of some stage.                                                    *)
RunEnds == <>(runner = "finished" \/ failed \/ illTimed)
=============================================================================

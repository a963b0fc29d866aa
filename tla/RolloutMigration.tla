-------------------------- MODULE RolloutMigration --------------------------
(***************************************************************************)
(* How sequence groups move between rollout instances in AUTO mode: the    *)
(* RolloutManager (rlinf/scheduler/dynamic_scheduler/manager.py) that asks *)
(* the instances for reports, migrates groups out of some and into others  *)
(* and finishes instances; and in each instance the two coroutines of its  *)
(* SGLangWorker, rollout() and RolloutScalingScheduler.main_loop(), which  *)
(* share a RunningStatusManager (rlinf/workers/rollout/utils.py).          *)
(*                                                                         *)
(* How many instances a round releases is GpuScheduler's subject: here any *)
(* number that leaves one.  An instance's channel is a pair of FIFOs.  A   *)
(* coroutine runs from one await to the next in one action.                *)
(***************************************************************************)
EXTENDS Naturals, FiniteSets, SequencesExt, Sums

CONSTANTS
  InstanceNum,   (* rollout instances at the start of a step                *)
  LendNum,       (* those on the actor's GPUs (pre-process policy)          *)
  Share,         (* groups in each instance's first batch                   *)
  GroupSize,     (* sequences in a group                                    *)
  NMinibatches,  (* training iterations of a step                           *)
  Policies       (* what use_pre_process_policy and                         *)
                 (* use_wait_before_last_iter_policy may be                 *)

ASSUME SizeAssumption ==
  /\ {InstanceNum, Share, GroupSize, NMinibatches} \subseteq Nat \ {0}
  /\ LendNum \in 1..(InstanceNum - 1)
  /\ (InstanceNum * Share) % NMinibatches = 0
  /\ Policies \subseteq [preProcess : BOOLEAN, wait : BOOLEAN]

Instances == 0..(InstanceNum - 1)
Groups == 1..(InstanceNum * Share)
Batch(i) == (i * Share + 1)..((i + 1) * Share)
TotalTasks == InstanceNum * Share * GroupSize

VARIABLES
  (* The groups: SeqGroupInfo.                                              *)
  completed,   (* num_completed                                             *)
  abortedSeqs, (* num_aborted                                               *)
  output,      (* the groups put to the output channel                      *)
  (* Each instance.                                                         *)
  rollout,     (* where its rollout() is                                    *)
  returned,    (* groups whose tasks asyncio.wait returned, not handled yet *)
  serving,     (* what its main_loop is doing                               *)
  running,     (* _running_seq_group                                        *)
  aborted,     (* _aborted_seq_group                                        *)
  done,        (* _done_seq_group                                           *)
  event,       (* exit_rollout_iter                                         *)
  requests,    (* request queue                                             *)
  responses,   (* response queue                                            *)
  (* The manager.                                                           *)
  manager,     (* what it waits for                                         *)
  train_iter,  (* the training iteration                                    *)
  offset,      (* current_instance_offset                                   *)
  leaving,     (* how many instances it is releasing                        *)
  reports,     (* reports of the instances, as long as migrate_in needs them*)
  policy,      (* the configured policies                                   *)
  raised       (* assertions that failed                                    *)

groupVars == <<completed, abortedSeqs, output>>
instanceVars == <<rollout, returned, serving, running, aborted, done, event>>
channelVars == <<requests, responses>>
managerVars == <<manager, train_iter, offset, leaving, reports, policy>>
vars == <<groupVars, instanceVars, channelVars, managerVars, raised>>

NoReport == [total |-> 0, running |-> 0]
Request(action, data) == [action |-> action, data |-> data]

Init ==
  /\ completed = [g \in Groups |-> 0]
  /\ abortedSeqs = [g \in Groups |-> 0]
  /\ output = <<>>
  /\ rollout = [i \in Instances |-> "out"]
  /\ returned = [i \in Instances |-> {}]
  /\ serving = [i \in Instances |-> "get"]
  /\ running = [i \in Instances |-> {}]
  /\ aborted = [i \in Instances |-> <<>>]
  /\ done = [i \in Instances |-> {}]
  /\ event = [i \in Instances |-> FALSE]
  /\ requests = [i \in Instances |-> <<>>]
  /\ responses = [i \in Instances |-> <<>>]
  /\ manager = "idle" /\ train_iter = 0 /\ offset = 0 /\ leaving = 0
  /\ reports = [i \in Instances |-> NoReport]
  /\ policy \in Policies
  /\ raised = {}

-----------------------------------------------------------------------------
(* The runner.                                                              *)

(* ReasoningRunner.run: one turn of its loop, up to the wait for the actor; *)
(* the weights are synchronised, the calls of rollout() are under way.      *)
StartStep ==
  /\ manager = "idle" /\ raised = {}
  /\ completed' = [g \in Groups |-> 0]
  /\ abortedSeqs' = [g \in Groups |-> 0]
  /\ output' = <<>>
  /\ rollout' = [i \in Instances |-> "called"]
  /\ manager' = IF policy.preProcess THEN "pre_process" ELSE "await_actor"
  /\ train_iter' = 0 /\ offset' = 0
  /\ UNCHANGED <<returned, serving, running, aborted, done, event, channelVars,
                 leaving, reports, policy, raised>>

-----------------------------------------------------------------------------
(* RolloutManager.                                                          *)

(* _get_running_instances, and current_instance_num of them.                *)
Alive == offset..(InstanceNum - 1)
CurrentNum == InstanceNum - offset
LeavingInstances == offset..(offset + leaving - 1)

Scatter(to, request) ==
  requests' = [i \in Instances |->
                 IF i \in to THEN Append(requests[i], request[i]) ELSE requests[i]]

(* _gather_responses waits for one response of each instance.               *)
Gathered(from) == \A i \in from : responses[i] # <<>>
TakeResponses(from) ==
  responses' = [i \in Instances |-> IF i \in from THEN Tail(responses[i]) ELSE responses[i]]

(* What is gathered is what was asked for: an answer that says Offloaded has *)
(* no report and no data.                                                   *)
Expect(from, offloaded, error) ==
  raised' = raised \cup
    IF \A i \in from : (Head(responses[i]).action = "Offloaded") <=> offloaded
    THEN {} ELSE {error}

(* The actor has trained on its share of the groups put out so far.         *)
ActorUpdates ==
  /\ manager = "await_actor"
  /\ Len(output) >= (train_iter + 1) * (Cardinality(Groups) \div NMinibatches)

(* report, up to its gather; in the last round, finish.                     *)
SendReport ==
  /\ \/ manager = "pre_process"
     \/ ActorUpdates /\ train_iter < NMinibatches - 1 /\ Alive # {}
  /\ manager' = IF manager = "pre_process" THEN "pre_reporting" ELSE "reporting"
  /\ Scatter(Alive, [i \in Alive |-> Request("Report", <<>>)])
  /\ UNCHANGED <<groupVars, instanceVars, responses, train_iter, offset, leaving,
                 reports, policy, raised>>

(* Nothing left to release: release_resource returns at once.               *)
SkipRound ==
  /\ ActorUpdates /\ Alive = {}
  /\ IF train_iter < NMinibatches - 1
     THEN train_iter' = train_iter + 1 /\ UNCHANGED manager
     ELSE manager' = "idle" /\ UNCHANGED train_iter
  /\ UNCHANGED <<groupVars, instanceVars, channelVars, offset, leaving, reports,
                 policy, raised>>

(* finish, up to its gather.                                                *)
Finish(action, n) ==
  /\ manager' = "finishing" /\ leaving' = n
  /\ LET to == offset..(offset + n - 1)
     IN Scatter(to, [i \in to |-> Request(action, <<>>)])

(* migrate and migrate_out, up to its gather.                               *)
Migrate(n) ==
  /\ manager' = "migrating" /\ leaving' = n
  /\ LET to == offset..(offset + n - 1)
     IN Scatter(to, [i \in to |-> Request("Migrate_Out", <<>>)])

NewReports == [i \in Instances |-> IF i \in Alive THEN Head(responses[i]).report ELSE NoReport]
ReportedTotal(rs) == SumOf([n \in 1..InstanceNum |-> rs[n - 1].total])
ReportedRunning(rs) == SumOf([n \in 1..InstanceNum |-> rs[n - 1].running])

(* Mutant: the pre-process policy does not ask whether all have reported.   *)
LendingDoneAnyTotal(rs) == ReportedRunning(rs) <= TotalTasks \div 2

(* pre_process_impl's condition.                                            *)
LendingDone(rs) ==
  /\ ReportedTotal(rs) = TotalTasks
  /\ ReportedRunning(rs) <= TotalTasks \div 2

(* The reports are in: pre_process_impl or release_resource goes on.        *)
Decide ==
  /\ manager \in {"pre_reporting", "reporting"} /\ Gathered(Alive)
  /\ TakeResponses(Alive)
  /\ Expect(Alive, FALSE, "no report")
  /\ \/ /\ manager = "pre_reporting"
        /\ IF LendingDone(NewReports) THEN Migrate(LendNum)
           ELSE manager' = "pre_process" /\ UNCHANGED <<requests, leaving>>
        /\ UNCHANGED train_iter
     \/ /\ manager = "reporting"
        /\ \/ /\ ReportedRunning(NewReports) = 0
              /\ Finish("Finish", CurrentNum) /\ UNCHANGED train_iter
           \/ /\ ReportedRunning(NewReports) > 0
              /\ policy.wait /\ train_iter = NMinibatches - 2
              /\ Finish("Wait_For_Finish", CurrentNum) /\ UNCHANGED train_iter
           \/ /\ ReportedRunning(NewReports) > 0
              /\ ~(policy.wait /\ train_iter = NMinibatches - 2)
              /\ \/ \E n \in 1..(CurrentNum - 1) :
                      Migrate(n) /\ UNCHANGED train_iter
                 \/ /\ manager' = "await_actor" /\ train_iter' = train_iter + 1
                    /\ UNCHANGED <<requests, leaving>>
  /\ reports' = IF manager' = "migrating" THEN NewReports ELSE reports
  /\ UNCHANGED <<groupVars, instanceVars, offset, policy>>

(* The tasks of receiver i once it has taken the batches after m, up to n.  *)
Load(i, batches, m, n) ==
  reports[i].running + SumOf([j \in 1..(n - m) |-> abortedSeqs[batches[m + j]]])

(* _assign_sequences_sequential: index[i] is migrate_out_batches_index when *)
(* the loop over the receivers, from first on, comes to i. Each takes       *)
(* batches until its running tasks reach what is expected, the last one     *)
(* takes what is left.                                                      *)
AssignSequences(index, first, batches) ==
  LET expected == ReportedRunning(reports) \div (InstanceNum - first)
  IN /\ index[first] = 0 /\ index[InstanceNum] = Len(batches)
     /\ \A i \in first..(InstanceNum - 2) :
          /\ index[i] <= index[i + 1]
          /\ \A n \in index[i]..(index[i + 1] - 1) : Load(i, batches, index[i], n) < expected
          /\ \/ index[i + 1] = Len(batches)
             \/ Load(i, batches, index[i], index[i + 1]) >= expected

(* migrate, from the answers of migrate_out on: migrate_in, and finish up   *)
(* to its gather.                                                           *)
MigrateIn ==
  /\ manager = "migrating" /\ Gathered(LeavingInstances)
  /\ TakeResponses(LeavingInstances)
  /\ Expect(LeavingInstances, FALSE, "no data")
  /\ LET first == offset + leaving
         batches == FlattenSeq([k \in 1..leaving |->
                                  Head(responses[offset + k - 1]).data])
     IN \E index \in [first..InstanceNum -> 0..Len(batches)] :
          /\ AssignSequences(index, first, batches)
          /\ LET assigned(i) == SubSeq(batches, index[i] + 1, index[i + 1])
                 into == {i \in Alive \ LeavingInstances : assigned(i) # <<>>}
                 to == into \cup LeavingInstances
             IN Scatter(to, [i \in to |->
                  IF i \in into THEN Request("Migrate_In", assigned(i))
                  ELSE Request("Finish", <<>>)])
  /\ manager' = "finishing"
  /\ reports' = [i \in Instances |-> NoReport]
  /\ UNCHANGED <<groupVars, instanceVars, train_iter, offset, leaving, policy>>

(* finish, once its instances are offloaded; then the caller goes on.       *)
Finished ==
  /\ manager = "finishing" /\ Gathered(LeavingInstances)
  /\ TakeResponses(LeavingInstances)
  /\ Expect(LeavingInstances, TRUE, "not Offloaded")
  /\ offset' = offset + leaving
  /\ leaving' = 0
  /\ LET lent == policy.preProcess /\ offset = 0 /\ train_iter = 0
         last == train_iter = NMinibatches - 1
     IN /\ manager' = IF last /\ ~lent THEN "idle" ELSE "await_actor"
        /\ train_iter' = IF lent \/ last THEN train_iter ELSE train_iter + 1
  /\ UNCHANGED <<groupVars, instanceVars, requests, reports, policy>>

(* main_loop_finalize: all the instances that are left finish.              *)
Finalize ==
  /\ ActorUpdates /\ train_iter = NMinibatches - 1 /\ Alive # {}
  /\ Finish("Finish", CurrentNum)
  /\ UNCHANGED <<groupVars, instanceVars, responses, train_iter, offset, reports,
                 policy, raised>>

ManagerNext ==
  SendReport \/ SkipRound \/ Decide \/ MigrateIn \/ Finished \/ Finalize

-----------------------------------------------------------------------------
(* An instance: SGLangWorker.rollout.                                       *)

RunningSeqs(g) == GroupSize - completed[g] - abortedSeqs[g]

(* rollout() begins: nothing may be left from before.                       *)
Begin(i) ==
  /\ rollout[i] = "called"
  /\ IF running[i] = {} /\ aborted[i] = <<>> /\ done[i] = {}
     THEN /\ rollout' = [rollout EXCEPT ![i] = "waiting_tasks"]
          /\ running' = [running EXCEPT ![i] = Batch(i)]
          /\ UNCHANGED raised
     ELSE /\ rollout' = [rollout EXCEPT ![i] = "failed"]
          /\ raised' = raised \cup {"residual"}
          /\ UNCHANGED running
  /\ UNCHANGED <<groupVars, returned, serving, aborted, done, event, channelVars,
                 managerVars>>

(* The engine completes a sequence.                                         *)
Generate(i, g) ==
  /\ g \in running[i] /\ RunningSeqs(g) > 0
  /\ completed' = [completed EXCEPT ![g] = @ + 1]
  /\ UNCHANGED <<abortedSeqs, output, instanceVars, channelVars, managerVars, raised>>

(* asyncio.wait returns the tasks that are done, at least one.              *)
TasksReturn(i) ==
  /\ rollout[i] = "waiting_tasks"
  /\ LET finished == {g \in running[i] : RunningSeqs(g) = 0}
     IN /\ finished # {}
        /\ returned' = [returned EXCEPT ![i] = finished]
  /\ rollout' = [rollout EXCEPT ![i] = "handling"]
  /\ UNCHANGED <<groupVars, serving, running, aborted, done, event, channelVars,
                 managerVars, raised>>

(* Mutant: a group is put out as soon as no sequence of it is running.      *)
AllReturned(g) == RunningSeqs(g) = 0

(* all_completed *)
AllCompleted(g) == completed[g] = GroupSize

(* The next returned group is put out and marked done, or marked aborted;   *)
(* after the last, rollout() waits for tasks, or for a notification.        *)
HandleReturned(i, g) ==
  /\ rollout[i] = "handling" /\ g \in returned[i]
  /\ returned' = [returned EXCEPT ![i] = @ \ {g}]
  /\ running' = [running EXCEPT ![i] = @ \ {g}]
  /\ IF AllCompleted(g)
     THEN /\ output' = Append(output, g)
          /\ done' = [done EXCEPT ![i] = @ \cup {g}]
          /\ UNCHANGED aborted
     ELSE /\ aborted' = [aborted EXCEPT ![i] = Append(@, g)]
          /\ UNCHANGED <<output, done>>
  /\ rollout' = [rollout EXCEPT ![i] =
       IF returned'[i] # {} THEN "handling"
       ELSE IF running'[i] # {} THEN "waiting_tasks" ELSE "waiting_event"]
  /\ UNCHANGED <<completed, abortedSeqs, serving, event, channelVars, managerVars, raised>>

(* wait_notification returns; with nothing to run, rollout() clears the     *)
(* status and offloads the engine.                                          *)
Notified(i) ==
  /\ rollout[i] = "waiting_event" /\ event[i]
  /\ event' = [event EXCEPT ![i] = FALSE]
  /\ IF running[i] # {}
     THEN /\ rollout' = [rollout EXCEPT ![i] = "waiting_tasks"]
          /\ UNCHANGED <<aborted, done>>
     ELSE /\ rollout' = [rollout EXCEPT ![i] = "offloading"]
          /\ aborted' = [aborted EXCEPT ![i] = <<>>]
          /\ done' = [done EXCEPT ![i] = {}]
  /\ UNCHANGED <<groupVars, returned, serving, running, channelVars, managerVars, raised>>

Respond(i, action, report, data) ==
  responses' = [responses EXCEPT ![i] =
                  Append(@, [action |-> action, report |-> report, data |-> data])]

(* report_offloaded, after offload_engine.                                  *)
ReportOffloaded(i) ==
  /\ rollout[i] = "offloading"
  /\ rollout' = [rollout EXCEPT ![i] = "out"]
  /\ Respond(i, "Offloaded", NoReport, <<>>)
  /\ UNCHANGED <<groupVars, returned, serving, running, aborted, done, event,
                 requests, managerVars, raised>>

-----------------------------------------------------------------------------
(* An instance: RolloutScalingScheduler.main_loop.                          *)

Asked(i, action) ==
  /\ serving[i] = "get" /\ requests[i] # <<>>
  /\ Head(requests[i]).action = action
  /\ requests' = [requests EXCEPT ![i] = Tail(@)]

(* _report: the aborted groups count nowhere.                               *)
Report(i) ==
  /\ Asked(i, "Report")
  /\ Respond(i, "Default",
       [total |-> GroupSize * (Cardinality(running[i]) + Cardinality(done[i])),
        running |-> SumOf([g \in Groups |-> IF g \in running[i] THEN RunningSeqs(g) ELSE 0])],
       <<>>)
  /\ UNCHANGED <<groupVars, instanceVars, managerVars, raised>>

(* abort_generation: every sequence that is running comes back aborted.     *)
MigrateOut(i) ==
  /\ Asked(i, "Migrate_Out")
  /\ abortedSeqs' = [g \in Groups |-> IF g \in running[i] THEN GroupSize - completed[g]
                                      ELSE abortedSeqs[g]]
  /\ serving' = [serving EXCEPT ![i] = "Migrate_Out"]
  /\ UNCHANGED <<completed, output, rollout, returned, running, aborted, done, event,
                 responses, managerVars, raised>>

(* Mutant: rollout() is not notified.                                       *)
NoNotify(i) == UNCHANGED event

(* Mutant: rollout() is notified whatever it is doing.                      *)
NotifyAlways(i) == event' = [event EXCEPT ![i] = TRUE]

(* notify, if rollout() has nothing to run and so waits for it.             *)
NotifyIfIdle(i) ==
  IF running[i] = {} THEN event' = [event EXCEPT ![i] = TRUE] ELSE UNCHANGED event

(* _migrate_in: the aborted sequences are generated on, except for those    *)
(* that had reached max_new_tokens, which are complete.                     *)
TakeGroups(i, groups) ==
  /\ running' = [running EXCEPT ![i] = @ \cup groups]
  /\ \E enough \in [groups -> 0..GroupSize] :
       /\ \A g \in groups : enough[g] <= abortedSeqs[g]
       /\ completed' = [g \in Groups |-> IF g \in groups THEN completed[g] + enough[g]
                                         ELSE completed[g]]
  /\ abortedSeqs' = [g \in Groups |-> IF g \in groups THEN 0 ELSE abortedSeqs[g]]

ReceiveGroups(i) ==
  /\ Asked(i, "Migrate_In")
  /\ NotifyIfIdle(i)
  /\ TakeGroups(i, ToSet(Head(requests[i]).data))
  /\ UNCHANGED <<output, rollout, returned, serving, aborted, done, responses,
                 managerVars, raised>>

(* Wait_For_Finish and Finish are served alike.                             *)
WaitForFinish(i) ==
  /\ Asked(i, "Finish") \/ Asked(i, "Wait_For_Finish")
  /\ serving' = [serving EXCEPT ![i] = "Finish"]
  /\ UNCHANGED <<groupVars, rollout, returned, running, aborted, done, event,
                 responses, managerVars, raised>>

(* _wait_until_no_running_task                                              *)
Drained(i) == running[i] = {}

(* _migrate_out and _wait_for_finish, once nothing is running.              *)
EndWait(i) ==
  /\ serving[i] # "get" /\ Drained(i)
  /\ serving' = [serving EXCEPT ![i] = "get"]
  /\ IF serving[i] = "Migrate_Out"
     THEN Respond(i, "Default", NoReport, aborted[i]) /\ UNCHANGED event
     ELSE event' = [event EXCEPT ![i] = TRUE] /\ UNCHANGED responses
  /\ UNCHANGED <<groupVars, rollout, returned, running, aborted, done, requests,
                 managerVars, raised>>

RolloutNext(i) ==
  \/ TasksReturn(i) \/ Notified(i) \/ ReportOffloaded(i)
  \/ \E g \in Groups : HandleReturned(i, g)

MainLoop(i) ==
  Report(i) \/ MigrateOut(i) \/ ReceiveGroups(i) \/ WaitForFinish(i) \/ EndWait(i)

Engine(i) == \E g \in Groups : Generate(i, g)

Next ==
  \/ StartStep \/ ManagerNext
  \/ \E i \in Instances : Begin(i) \/ RolloutNext(i) \/ MainLoop(i) \/ Engine(i)

Spec == Init /\ [][Next]_vars

(* The manager, the two coroutines of each instance and its engine go on    *)
(* when they can, and the calls of rollout() arrive.                        *)
FairSpec ==
  /\ Spec /\ WF_vars(ManagerNext)
  /\ \A i \in Instances : /\ WF_vars(Begin(i)) /\ WF_vars(RolloutNext(i))
                          /\ WF_vars(MainLoop(i)) /\ WF_vars(Engine(i))

-----------------------------------------------------------------------------
(* The residual assertion of rollout() can only fail without the            *)
(* pre-process policy, which alone waits until every instance has its       *)
(* batch; the manager's assertions about the answers it gathers never do.   *)
AssertionsHold == raised \subseteq (IF policy.preProcess THEN {} ELSE {"residual"})

(* An instance that the manager has counted as released holds no group, has *)
(* offloaded its engine and is told nothing more in this step.              *)
ReleasedIsIdle ==
  manager # "idle" =>
    \A i \in 0..(offset - 1) :
      /\ running[i] = {} /\ rollout[i] = "out" /\ requests[i] = <<>>

(* Every step ends with all groups put out, however the groups were moved,  *)
(* unless an assertion fails.                                               *)
StepEnds ==
  manager # "idle" ~>
    raised # {} \/ (manager = "idle" /\ ToSet(output) = Groups)

Pool == INSTANCE GroupPool WITH open <- manager # "idle"

(* Moving groups loses none, puts out none twice or before its time, and    *)
(* does not generate a complete sequence again.                             *)
ImplementsGroupPool == Pool!Spec
=============================================================================

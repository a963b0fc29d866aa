-------------------------- MODULE DynamicInference --------------------------
(***************************************************************************)
(* MegatronActor.run_inference: the data-parallel ranks of the inference   *)
(* component share out one global step's results. Each rank takes results  *)
(* from one channel, as they come, and agrees with the others by           *)
(* all_reduce(MIN) on how many to infer in a call of                       *)
(* get_dynamic_batch_as_much; what it holds beyond that, and a get that    *)
(* has not been answered, it carries into its next call. A rank stands for *)
(* the io rank of its model-parallel group, whose others are told what to  *)
(* do. A result is known by its number. All counters are bounded by the    *)
(* step's share.                                                           *)
(***************************************************************************)
EXTENDS Integers, Sequences, FiniteSets, SequencesExt

CONSTANTS
  Ranks,       (* data-parallel ranks                                       *)
  Share,       (* rollout_batch_size // data_parallel_world_size            *)
  Modes        (* [pipeline, split, timed]: is_pipeline, inference_split,   *)
               (* and whether Megatron's timers meet before a forward pass  *)

ASSUME ShareAssumption ==
  /\ IsFiniteSet(Ranks) /\ Ranks # {}
  /\ Share \in Nat \ {0}
  /\ \A m \in Modes : m.pipeline \in BOOLEAN /\ m.split \in 1 .. Share

Results == 1 .. Share * Cardinality(Ranks)
None == 0

VARIABLES
  mode,      (* the configuration                                           *)
  arrived,   (* how many results the channel has been given                 *)
  input,     (* those of them that nobody has got                           *)
  getters,   (* ranks whose get waits at the channel, in order              *)
  answer,    (* rank -> the result its get was answered with, or None       *)
  rank,      (* rank -> the state of its run_inference                      *)
  output     (* result -> how often it was put into the output channel      *)

channelVars == <<arrived, input, getters, answer>>
vars == <<mode, channelVars, rank, output>>

Smaller(a, b) == IF a < b THEN a ELSE b
Remaining(r) == Share - rank[r].total

(* Mutant of MaxLen: the share that is left does not limit a call.           *)
MaxLenOfSplit(r) == Share \div mode.split

(* max_result_len and min_result_len of a call                               *)
MaxLen(r) == Smaller(Share \div mode.split, Remaining(r))

(* Mutant of MinLen: a call of collocated mode need not be full either.      *)
MinLenOne(r) == Smaller(1, Remaining(r))

MinLen(r) == IF mode.pipeline THEN Smaller(1, Remaining(r)) ELSE MaxLen(r)

Held(r) == Len(rank[r].results)
Asked(r) == answer[r] # None \/ \E i \in DOMAIN getters : getters[i] = r

Fresh == [at |-> "fill", call |-> 1, results |-> <<>>, len |-> 0, total |-> 0,
          collected |-> {}]

Init ==
  /\ mode \in Modes
  /\ arrived = 0 /\ input = <<>> /\ getters = <<>>
  /\ answer = [r \in Ranks |-> None]
  /\ rank = [r \in Ranks |-> Fresh]
  /\ output = [x \in Results |-> 0]

-----------------------------------------------------------------------------
(* The channel: results arrive as the rewards are computed; a get is         *)
(* answered in its turn.                                                     *)
Arrive ==
  /\ arrived < Cardinality(Results)
  /\ arrived' = arrived + 1
  /\ input' = Append(input, arrived + 1)
  /\ UNCHANGED <<mode, getters, answer, rank, output>>

Answer ==
  /\ input # <<>> /\ getters # <<>>
  /\ answer' = [answer EXCEPT ![Head(getters)] = Head(input)]
  /\ input' = Tail(input) /\ getters' = Tail(getters)
  /\ UNCHANGED <<mode, arrived, rank, output>>

-----------------------------------------------------------------------------
(* get_dynamic_batch_as_much.                                                *)

(* A get, waited for in the first loop and asynchronous in the second.       *)
Ask(r) ==
  /\ ~Asked(r)
  /\ \/ rank[r].at = "fill" /\ Held(r) < MinLen(r)
     \/ rank[r].at = "poll" /\ Held(r) < MaxLen(r)
  /\ getters' = Append(getters, r)
  /\ UNCHANGED <<mode, arrived, input, answer, rank, output>>

(* wait or done of the get that is out, a carried one included; the second   *)
(* loop may find its 0.1 s over right after it.                              *)
Take(r) ==
  /\ answer[r] # None
  /\ \/ rank[r].at = "fill" /\ Held(r) < MinLen(r) /\ rank' = [rank EXCEPT
          ![r].results = Append(@, answer[r])]
     \/ /\ rank[r].at = "poll" /\ Held(r) < MaxLen(r)
        /\ \E at \in {"poll", "reduce"} : rank' = [rank EXCEPT
             ![r].results = Append(@, answer[r]), ![r].at = at]
  /\ answer' = [answer EXCEPT ![r] = None]
  /\ UNCHANGED <<mode, arrived, input, getters, output>>

(* The least number is there; the loop starts from this rank's own number.   *)
Filled(r) ==
  /\ rank[r].at = "fill" /\ Held(r) >= MinLen(r)
  /\ rank' = [rank EXCEPT ![r].at = "poll", ![r].len = Held(r)]
  /\ UNCHANGED <<mode, channelVars, output>>

(* The time is over, or this rank holds all that it may.                     *)
EnterReduce(r) ==
  /\ rank[r].at = "poll" /\ (Asked(r) \/ Held(r) >= MaxLen(r))
  /\ rank' = [rank EXCEPT ![r].at = "reduce"]
  /\ UNCHANGED <<mode, channelVars, output>>

(* all_reduce_dp_min: the least of what every rank gives.                    *)
Least == CHOOSE n \in {Held(r) : r \in Ranks} : \A r \in Ranks : n <= Held(r)

(* Mutant of AllReduceMin: it also goes round if the least stays the same.   *)
AllReduceAgain ==
  /\ \A r \in Ranks : rank[r].at = "reduce"
  /\ rank' = [r \in Ranks |->
                [rank[r] EXCEPT !.at = IF rank[r].len <= Least THEN "poll" ELSE "infer",
                                !.len = Least]]
  /\ UNCHANGED <<mode, channelVars, output>>

(* A rank goes round the loop again if the least is more than it had.        *)
AllReduceMin ==
  /\ \A r \in Ranks : rank[r].at = "reduce"
  /\ rank' = [r \in Ranks |->
                [rank[r] EXCEPT !.at = IF rank[r].len < Least THEN "poll" ELSE "infer",
                                !.len = Least]]
  /\ UNCHANGED <<mode, channelVars, output>>

-----------------------------------------------------------------------------
(* run_inference, with the results that the call returned.                   *)

Batch(r) == Range(SubSeq(rank[r].results, 1, rank[r].len))
Clipped(r) == SubSeq(rank[r].results, rank[r].len + 1, Held(r))

(* A forward pass begins for all at once if the timers meet there.           *)
Met(r) ==
  mode.timed => \A s \in Ranks : \/ rank[s].call > rank[r].call
                                 \/ rank[s].call = rank[r].call /\ rank[s].at = "infer"

(* The results are put call by call in pipeline mode, else when the share is *)
(* done.                                                                     *)
Infer(r) ==
  LET total == rank[r].total + rank[r].len
      got == rank[r].collected \cup Batch(r)
      puts == mode.pipeline \/ total >= Share
  IN /\ rank[r].at = "infer" /\ Met(r)
     /\ rank' = [rank EXCEPT ![r] =
          [at |-> IF total >= Share THEN "done" ELSE "fill", call |-> @.call + 1,
           results |-> Clipped(r), len |-> 0, total |-> total,
           collected |-> IF puts THEN {} ELSE got]]
     /\ output' = [x \in Results |-> output[x] + (IF puts /\ x \in got THEN 1 ELSE 0)]
     /\ UNCHANGED <<mode, channelVars>>

(* The runner's next global step, when everything has been put.              *)
NextStep ==
  /\ \A r \in Ranks : rank[r].at = "done"
  /\ arrived = Cardinality(Results)
  /\ arrived' = 0
  /\ rank' = [r \in Ranks |-> Fresh]
  /\ output' = [x \in Results |-> 0]
  /\ UNCHANGED <<mode, input, getters, answer>>

RankNext(r) == Ask(r) \/ Take(r) \/ Filled(r) \/ EnterReduce(r) \/ Infer(r)
Next == Arrive \/ Answer \/ AllReduceMin \/ NextStep \/ \E r \in Ranks : RankNext(r)

Spec == Init /\ [][Next]_vars

(* Results keep coming, the channel answers, and every rank goes on when it  *)
(* can: an answer is found by done() however often the loop has looked, and  *)
(* the 0.1 s end.                                                            *)
FairSpec == Spec /\ WF_vars(Arrive) /\ WF_vars(Answer) /\ WF_vars(AllReduceMin)
                 /\ \A r \in Ranks : WF_vars(RankNext(r))

-----------------------------------------------------------------------------
(* Properties.                                                               *)

TypeOK ==
  /\ mode \in Modes /\ arrived \in 0 .. Cardinality(Results)
  /\ input \in Seq(Results) /\ getters \in Seq(Ranks)
  /\ answer \in [Ranks -> Results \cup {None}]
  /\ rank \in [Ranks -> [at : {"fill", "poll", "reduce", "infer", "done"},
                         call : 1 .. Share + 1, results : Seq(Results),
                         len : 0 .. Share, total : 0 .. Share,
                         collected : SUBSET Results]]
  /\ output \in [Results -> Nat]

(* The ranks leave a call together: none goes on to infer while another      *)
(* enters one more all-reduce of the same call, which would then meet the    *)
(* other's next call. The loop starts from each rank's own number, so this   *)
(* needs that no rank carries more than the least number of a call.          *)
StopTogether ==
  \A r, s \in Ranks : /\ rank[r].call = rank[s].call /\ rank[r].at = "infer"
                        => rank[s].at = "infer"
                      /\ rank[r].call < rank[s].call => rank[r].at = "infer"

(* Every result that arrived is in one place, once, through carried results  *)
(* and gets that outlive a call; when a rank is done it holds its share and  *)
(* nothing it would forget, so another rank finds what it still needs.       *)
Places(x) ==
  Cardinality({i \in DOMAIN input : input[i] = x})
  + Cardinality({r \in Ranks : answer[r] = x})
  + Cardinality({h \in Ranks \X (1 .. Share) :
                   h[2] <= Held(h[1]) /\ rank[h[1]].results[h[2]] = x})
  + Cardinality({r \in Ranks : x \in rank[r].collected})
  + output[x]
EachResultOnce ==
  /\ TypeOK
  /\ \A x \in Results : Places(x) = IF x <= arrived THEN 1 ELSE 0
  /\ \A r \in Ranks : rank[r].at = "done" =>
       rank[r].total = Share /\ Held(r) = 0 /\ ~Asked(r)

(* Every step's inference ends, on every rank.                               *)
InferenceEnds == arrived > 0 ~> \A r \in Ranks : rank[r].at = "done"
=============================================================================

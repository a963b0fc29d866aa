------------------------ MODULE GpuSchedulerProofs ------------------------
(* Proofs about GpuScheduler, for every placement, model-parallel size and   *)
(* policy that SizeAssumption to LendAssumption allow.                       *)
EXTENDS GpuScheduler, Integers, SequencesExt, SequenceTheorems,
        WellFoundedInduction, TLAPS, FiniteSetTheorems

-----------------------------------------------------------------------------
(* Sequences: the domain of what an operation returns, and its elements.   *)

(* A FIFO once its head has been taken.                                     *)
LEMMA TailOfSeq ==
  ASSUME NEW S, NEW s \in Seq(S), s # <<>>
  PROVE  /\ Tail(s) \in Seq(S)
         /\ Len(Tail(s)) = Len(s) - 1
         /\ DOMAIN Tail(s) = 1..(Len(s) - 1)
         /\ \A i \in DOMAIN Tail(s) : i + 1 \in DOMAIN s /\ Tail(s)[i] = s[i + 1]
         /\ 1 \in DOMAIN s /\ Head(s) = s[1] /\ Head(s) \in S
  OBVIOUS

-----------------------------------------------------------------------------
(* Arithmetic of products and quotients.                                     *)

LEMMA ProductNat == \A a, b \in Nat : a * b \in Nat
  BY SMT

LEMMA Distribute ==
  \A a, b, c \in Int : (a + b) * c = a * c + b * c /\ (a - b) * c = a * c - b * c
  BY SMT

LEMMA Monotone ==
  ASSUME NEW a \in Int, NEW b \in Int, NEW c \in Nat, a <= b
  PROVE  a * c <= b * c
<1>1. (b - a) * c \in Nat BY ProductNat, SMT
<1>2. b * c = a * c + (b - a) * c BY SMT
<1> QED BY <1>1, <1>2, SMT

LEMMA Cancel ==
  ASSUME NEW a \in Int, NEW b \in Int, NEW c \in Nat \ {0}, a * c <= b * c
  PROVE  a <= b
<1> SUFFICES ASSUME b + 1 <= a PROVE FALSE BY SMT
<1>1. (b + 1) * c <= a * c BY Monotone
<1>2. (b + 1) * c = b * c + c BY SMT
<1>3. a * c \in Int /\ b * c \in Int BY SMT
<1> QED BY <1>1, <1>2, <1>3, SMT

LEMMA Division ==
  ASSUME NEW a \in Int, NEW b \in Nat \ {0}
  PROVE  /\ a \div b \in Int
         /\ (a \div b) * b <= a
         /\ a < (a \div b) * b + b
<1>1. a = b * (a \div b) + (a % b) /\ (a % b) \in 0 .. b - 1 BY SMT
<1>2. a \div b \in Int BY SMT
<1>3. b * (a \div b) = (a \div b) * b BY <1>2, SMT
<1> QED BY <1>1, <1>2, <1>3, SMT

LEMMA Quotient ==
  ASSUME NEW a \in Int, NEW b \in Nat \ {0}
  PROVE  (a * b) \div b = a
<1> DEFINE q == (a * b) \div b
<1>1. a * b \in Int BY SMT
<1>2. q \in Int /\ q * b <= a * b /\ a * b < q * b + b BY <1>1, Division
<1> HIDE DEF q
<1>3. q <= a BY <1>2, Cancel
<1>4. SUFFICES ASSUME q + 1 <= a PROVE FALSE BY <1>2, <1>3, SMT DEF q
<1>5. (q + 1) * b <= a * b BY <1>2, <1>4, Monotone
<1>6. (q + 1) * b = q * b + b BY <1>2, SMT
<1>7. q * b \in Int BY <1>2, SMT
<1> QED BY <1>1, <1>2, <1>5, <1>6, <1>7, SMT

(* CeilDiv(a, b) is the least number of b's that make up a.                  *)
LEMMA CeilDivLeast ==
  ASSUME NEW a \in Nat, NEW b \in Nat \ {0}
  PROVE  /\ CeilDiv(a, b) \in Nat
         /\ a <= CeilDiv(a, b) * b
         /\ a > 0 => CeilDiv(a, b) > 0
         /\ \A k \in Nat : a <= k * b => CeilDiv(a, b) <= k
<1> DEFINE q == CeilDiv(a, b)
<1>1. q \in Int /\ q * b <= a + b - 1 /\ a + b - 1 < q * b + b
  <2>1. a + b - 1 \in Int BY SMT
  <2> QED BY <2>1, Division DEF CeilDiv
<1> HIDE DEF q
<1>2. q * b \in Int BY <1>1, SMT
<1>3. a <= q * b BY <1>1, <1>2, SMT
<1>4. q \in Nat
  <2> SUFFICES ASSUME q + 1 <= 0 PROVE FALSE BY <1>1, SMT
  <2>1. (q + 1) * b <= 0 * b BY <1>1, Monotone, SMT
  <2>2. (q + 1) * b = q * b + b /\ 0 * b = 0 BY <1>1, SMT
  <2> QED BY <1>3, <1>2, <2>1, <2>2, SMT
<1>5. a > 0 => q > 0
  <2> SUFFICES ASSUME a > 0, q = 0 PROVE FALSE BY <1>4, SMT
  <2>1. q * b = 0 BY SMT
  <2> QED BY <2>1, <1>3, SMT
<1>6. ASSUME NEW k \in Nat, a <= k * b PROVE q <= k
  <2> SUFFICES ASSUME k + 1 <= q PROVE FALSE BY <1>1, SMT
  <2>1. (k + 1) * b <= q * b BY <1>1, Monotone
  <2>2. (k + 1) * b = k * b + b /\ k * b \in Int BY SMT
  <2> QED BY <1>1, <1>2, <1>6, <2>1, <2>2, SMT
<1> QED BY <1>3, <1>4, <1>5, <1>6 DEF q

(* A non-empty bounded set of naturals has a largest element: the intervals  *)
(* from its elements to the bound are well-founded under strict inclusion.   *)
LEMMA LargestExists ==
  ASSUME NEW n \in Nat, NEW T, T \subseteq 0 .. n, T # {}
  PROVE  Largest(T) \in T /\ \A e \in T : e <= Largest(T)
<1> DEFINE Above == {d .. n : d \in T}
           R == StrictSubsetOrdering(0 .. n)
<1>1. IsFiniteSet(0 .. n) BY FS_Interval
<1>2. IsWellFoundedOn(R, SUBSET (0 .. n))
  BY <1>1, FS_StrictSubsetOrderingWellFounded, FS_FiniteSubsetsOfFinite
<1>3. Above \subseteq SUBSET (0 .. n) /\ Above # {}
  <2>1. \A d \in T : d .. n \subseteq 0 .. n BY SMT
  <2> QED BY <2>1, Zenon
<1> HIDE DEF R
<1>4. PICK x \in Above : \A y \in Above : ~ (<<y, x>> \in R)
  BY <1>2, <1>3, WFMin
<1>5. PICK d \in T : x = d .. n OBVIOUS
<1>6. ASSUME NEW e \in T PROVE e <= d
  <2>1. e .. n \in Above /\ <<e .. n, d .. n>> \notin R BY <1>4, <1>5
  <2>2. SUFFICES ASSUME e > d PROVE FALSE BY SMT
  <2>3. e .. n \subseteq d .. n /\ d \in d .. n /\ d \notin e .. n BY <2>2, SMT
  <2>4. <<e .. n, d .. n>> \in R BY <2>3 DEF R, StrictSubsetOrdering
  <2> QED BY <2>1, <2>4
<1>7. \E m \in T : \A e \in T : e <= m BY <1>6
<1> QED BY <1>7, Zenon DEF Largest

-----------------------------------------------------------------------------
(* The configuration.                                                        *)

LEMMA SizesNat ==
  /\ {ActorDp, ActorMP, RolloutDp, RolloutMP, InferenceMP} \subseteq Nat \ {0}
  /\ {NMinibatches, GroupSize, BatchSize, MaxRunning} \subseteq Nat \ {0}
  /\ InferenceDp \in Nat
  /\ {ActorGpus, RolloutGpus, InferenceGpus, RolloutBase, ClusterGpus, TotalTasks}
       \subseteq Nat
<1>1. ActorGpus \in Nat BY SizeAssumption, ProductNat DEF ActorGpus
<1>2. RolloutGpus \in Nat BY SizeAssumption, ProductNat DEF RolloutGpus
<1>3. InferenceGpus \in Nat BY SizeAssumption, ProductNat DEF InferenceGpus
<1>4. TotalTasks \in Nat BY SizeAssumption, ProductNat DEF TotalTasks
<1>5. RolloutBase \in Nat BY <1>1 DEF RolloutBase
<1>6. ClusterGpus \in Nat BY <1>2, <1>3, <1>5, SMT DEF ClusterGpus
<1> QED BY <1>1, <1>2, <1>3, <1>4, <1>5, <1>6, SizeAssumption

LEMMA ClusterSplit ==
  /\ ClusterGpus = RolloutBase + RolloutGpus + InferenceGpus
  /\ UsePreProcess => RolloutBase = 0 /\ ActorGpus < RolloutGpus
  /\ ~UsePreProcess => RolloutBase = ActorGpus
  BY LendAssumption DEF ClusterGpus, RolloutBase

(* The GPUs the actor lends are whole rollout instances, and fewer than all. *)
LEMMA LentInstances ==
  ASSUME UsePreProcess
  PROVE  /\ ActorGpus \div RolloutMP \in Nat
         /\ (ActorGpus \div RolloutMP) * RolloutMP = ActorGpus
         /\ ActorGpus \div RolloutMP < RolloutDp
<1> DEFINE n == ActorGpus \div RolloutMP
<1>0. ActorGpus \in Nat /\ RolloutMP \in Nat \ {0} /\ RolloutDp \in Nat BY SizesNat
<1>1. n \in Int /\ ActorGpus = RolloutMP * n + (ActorGpus % RolloutMP)
  BY <1>0, SMT
<1>2. ActorGpus % RolloutMP = 0 BY LendAssumption
<1> HIDE DEF n
<1>3. n * RolloutMP = ActorGpus BY <1>0, <1>1, <1>2, SMT
<1>4. n \in Nat
  <2>1. 0 * RolloutMP <= n * RolloutMP BY <1>0, <1>3, SMT
  <2> QED BY <1>0, <1>1, <2>1, Cancel, SMT
<1>5. n < RolloutDp
  <2> SUFFICES ASSUME RolloutDp <= n PROVE FALSE BY <1>0, <1>4, SMT
  <2>1. RolloutDp * RolloutMP <= n * RolloutMP BY <1>0, <1>4, Monotone
  <2>2. ActorGpus < RolloutDp * RolloutMP BY LendAssumption DEF RolloutGpus
  <2>3. RolloutDp * RolloutMP \in Nat BY <1>0, ProductNat
  <2> QED BY <1>0, <1>3, <2>1, <2>2, <2>3, SMT
<1> QED BY <1>3, <1>4, <1>5 DEF n

LEMMA ValidSizesBounded ==
  /\ ClusterGpus \div ActorMP \in Nat
  /\ \A d \in ValidDpSizes : d \in Nat \ {0} /\ d <= ClusterGpus \div ActorMP
<1>1. ClusterGpus \in Nat /\ ActorMP \in Nat \ {0} BY SizesNat
<1>2. ClusterGpus \div ActorMP \in Nat BY <1>1, SMT
<1> QED BY <1>2, SMT DEF ValidDpSizes

(* The largest valid size takes the whole cluster.                           *)
LEMMA LargestIsCluster ==
  /\ Largest(ValidDpSizes) \in ValidDpSizes
  /\ Largest(ValidDpSizes) * ActorMP = ClusterGpus
<1> DEFINE n == ClusterGpus \div ActorMP
<1>1. n \in Nat /\ ValidDpSizes \subseteq 0 .. n BY ValidSizesBounded, SMT
<1>2. PICK d \in ValidDpSizes : d * ActorMP = ClusterGpus BY ActorAssumption
<1>3. ActorMP \in Nat \ {0} BY SizesNat
<1>4. d \in Int BY ValidSizesBounded
<1>5. d = n BY <1>2, <1>3, <1>4, Quotient
<1> HIDE DEF n
<1>6. Largest(ValidDpSizes) \in ValidDpSizes /\ \A e \in ValidDpSizes : e <= Largest(ValidDpSizes)
  BY <1>1, <1>2, LargestExists
<1>7. Largest(ValidDpSizes) = n
  <2>1. n \in ValidDpSizes BY <1>2, <1>5
  <2>2. n <= Largest(ValidDpSizes) /\ Largest(ValidDpSizes) \in 0 .. n
    BY <1>1, <1>6, <2>1
  <2> QED BY <1>1, <2>2, SMT
<1> QED BY <1>2, <1>5, <1>6, <1>7

(* The growth of the actor is none, or leads to a larger valid size within   *)
(* the limit.                                                                *)
LEMMA GrowthValid ==
  ASSUME NEW inst \in ValidDpSizes, NEW limit \in Nat
  PROVE  \/ Growth(inst, limit) = 0
         \/ \E d \in ValidDpSizes : /\ d > inst
                                   /\ Growth(inst, limit) = (d - inst) * ActorMP
                                   /\ Growth(inst, limit) \in 1 .. limit
<1> DEFINE n == ClusterGpus \div ActorMP
           S == SizesWithin(inst, limit)
<1>1. n \in Nat BY ValidSizesBounded
<1>2. CASE S = {} BY <1>2 DEF Growth
<1>3. CASE S # {}
  <2>1. S \subseteq 0 .. n BY ValidSizesBounded, SMT DEF SizesWithin
  <2>2. Largest(S) \in S BY <1>1, <1>3, <2>1, LargestExists
  <2> DEFINE d == Largest(S)
  <2>3. d \in ValidDpSizes /\ d > inst /\ (d - inst) * ActorMP <= limit
    BY <2>2 DEF SizesWithin
  <2>4. Growth(inst, limit) = (d - inst) * ActorMP BY <1>3 DEF Growth
  <2>5. d \in Int /\ inst \in Int /\ ActorMP \in Nat \ {0} BY <2>3, ValidSizesBounded, SizesNat
  <2> HIDE DEF d
  <2>6. 1 * ActorMP <= (d - inst) * ActorMP BY <2>3, <2>5, Monotone, SMT
  <2>7. (d - inst) * ActorMP \in 1 .. limit BY <2>3, <2>5, <2>6, SMT
  <2> QED BY <2>3, <2>4, <2>7
<1> QED BY <1>2, <1>3

-----------------------------------------------------------------------------
(* The invariant is inductive.                                               *)

LEMMA TypeFacts ==
  ASSUME TypeOK
  PROVE  /\ manager["actor"].inst \in Nat /\ manager["actor"].gpu \in Nat
         /\ manager["actor"].offset \in Int
         /\ manager["rollout"].inst \in Nat /\ manager["rollout"].gpu \in Nat
         /\ manager["rollout"].offset \in Int
         /\ manager["inference"].inst \in Nat /\ manager["inference"].gpu \in Nat
         /\ manager["inference"].offset \in Int
         /\ actor.world \in Nat /\ actor.iter \in 0 .. NMinibatches
         /\ running \in Nat /\ reported \in Nat
         /\ train_iter \in Nat /\ train_iter <= NMinibatches - 1
<1>1. \A c \in Components : /\ manager[c].inst \in Nat /\ manager[c].gpu \in Nat
                            /\ manager[c].offset \in Int
  BY DEF TypeOK
<1>2. running \in Nat /\ reported \in Nat /\ train_iter \in Nat
      /\ train_iter <= NMinibatches - 1
  BY SizesNat, SMT DEF TypeOK
<1>3. actor.world \in Nat /\ actor.iter \in 0 .. NMinibatches BY DEF TypeOK
<1> QED BY <1>1, <1>2, <1>3 DEF Components

LEMMA ActorHasGpus ==
  ASSUME TypeOK, ManagersAgree
  PROVE  manager["actor"].gpu \in Nat \ {0}
<1>1. manager["actor"].inst \in Nat \ {0} /\ ActorMP \in Nat \ {0}
  BY ValidSizesBounded, SizesNat DEF ManagersAgree
<1>2. 1 * ActorMP <= manager["actor"].inst * ActorMP BY <1>1, Monotone, SMT
<1>3. manager["actor"].inst * ActorMP \in Nat BY <1>1, ProductNat
<1> QED BY <1>1, <1>2, <1>3, SMT DEF ManagersAgree

(* The actor's request queue.                                                *)
LEMMA TakeAnswer ==
  ASSUME TypeOK, request # <<>>
  PROVE  /\ Tail(request) \in Seq(Nat) /\ Len(Tail(request)) = Len(request) - 1
         /\ Len(request) \in Nat \ {0}
         /\ Head(request) = request[1] /\ Head(request) \in Nat
<1>1. request \in Seq(Nat) BY DEF TypeOK
<1>2. Len(request) \in Nat \ {0} /\ Head(request) \in Nat BY <1>1, SMT
<1> QED BY <1>1, <1>2, TailOfSeq

LEMMA GiveAnswer ==
  ASSUME TypeOK
  PROVE  /\ Len(request) \in Nat
         /\ Len(request) = 0 <=> request = <<>>
         /\ \A x \in Nat : /\ Append(request, x) \in Seq(Nat)
                          /\ Len(Append(request, x)) = Len(request) + 1
                          /\ Append(request, x)[Len(request) + 1] = x
<1>1. request \in Seq(Nat) BY DEF TypeOK
<1>2. Len(request) \in Nat /\ (Len(request) = 0 <=> request = <<>>) BY <1>1, SMT
<1>3. \A x \in Nat : /\ Append(request, x) \in Seq(Nat)
                    /\ Len(Append(request, x)) = Len(request) + 1
                    /\ Append(request, x)[Len(request) + 1] = x
  BY <1>1, SMT
<1> QED BY <1>2, <1>3

LEMMA InitInv == Init => IInv
<1> SUFFICES ASSUME Init PROVE IInv OBVIOUS
<1> USE SizesNat DEF Init
<1>1. TypeOK BY DEF TypeOK, Components, Initial
<1>2. ManagersAgree
  <2>1. /\ manager["actor"] = [inst |-> ActorDp, gpu |-> ActorGpus, offset |-> 0]
        /\ manager["rollout"] = [inst |-> RolloutDp, gpu |-> RolloutGpus, offset |-> 0]
        /\ manager["inference"] =
             [inst |-> InferenceDp, gpu |-> InferenceGpus, offset |-> 0]
    BY DEF Components, Initial
  <2> HIDE DEF Init
  <2>2. manager["actor"].inst \in ValidDpSizes BY <2>1, ActorAssumption
  <2>3. /\ manager["actor"].inst = ActorDp /\ manager["actor"].gpu = ActorGpus
        /\ manager["rollout"].inst = RolloutDp /\ manager["rollout"].gpu = RolloutGpus
        /\ manager["inference"].inst = InferenceDp
        /\ manager["inference"].gpu = InferenceGpus
        /\ manager["rollout"].offset = 0
    BY <2>1
  <2>4. /\ manager["rollout"].offset \in Nat
        /\ manager["rollout"].inst + manager["rollout"].offset = RolloutDp
        /\ manager["inference"].inst \in {0, InferenceDp}
    BY <2>3, SizesNat, SMT
  <2> QED BY <2>2, <2>3, <2>4, Zenon
    DEF ManagersAgree, ActorGpus, RolloutGpus, InferenceGpus
<1>3. StateAgrees /\ PhaseFacts /\ Conservation
  BY DEF StateAgrees, PhaseFacts, Conservation, InMainLoop, Counted, Finalizing, Components, Initial
<1>4. ReportsBound /\ Handshake
  BY DEF ReportsBound, Handshake, InMainLoop, Waiting
<1>5. WorldAgrees
  BY DEF WorldAgrees, InMainLoop, Components, Initial
<1>6. ActorSizeValid BY ActorAssumption DEF ActorSizeValid, ActorGpus
<1>7. TasksHaveAHome BY DEF TasksHaveAHome
<1> QED BY <1>1, <1>2, <1>3, <1>4, <1>5, <1>6, <1>7 DEF IInv
(* The components of a global step leave the scheduler's state alone.         *)
LEMMA RolloutStartsInv == IInv /\ RolloutStarts => IInv'
<1> SUFFICES ASSUME IInv, RolloutStarts PROVE IInv' OBVIOUS
<1>1. TypeOK' BY DEF IInv, TypeOK, RolloutStarts, scheduler
<1>2. ManagersAgree' BY DEF IInv, ManagersAgree, RolloutStarts, scheduler
<1>3. StateAgrees' BY DEF IInv, StateAgrees, InMainLoop, RolloutStarts, scheduler
<1>4. PhaseFacts' BY DEF IInv, PhaseFacts, Finalizing, LastIteration, RolloutStarts,
    scheduler
<1>5. Conservation' BY DEF IInv, Conservation, Counted, LastIteration, RolloutStarts,
    scheduler
<1>6. ReportsBound' BY DEF IInv, ReportsBound, InMainLoop, RolloutStarts, scheduler
<1>7. Handshake' BY DEF IInv, Handshake, Waiting, InMainLoop, RolloutStarts, scheduler
<1>8. WorldAgrees' BY DEF IInv, WorldAgrees, InMainLoop, RolloutStarts, scheduler
<1>9. ActorSizeValid' BY DEF IInv, ActorSizeValid, RolloutStarts, scheduler
<1>10. TasksHaveAHome' BY DEF IInv, TasksHaveAHome, RolloutStarts, scheduler
<1> QED BY <1>1, <1>2, <1>3, <1>4, <1>5, <1>6, <1>7, <1>8, <1>9, <1>10
  DEF IInv


LEMMA RolloutCompletesInv == IInv /\ RolloutCompletes => IInv'
<1> SUFFICES ASSUME IInv, RolloutCompletes PROVE IInv' OBVIOUS
<1>0. PICK n \in (IF started THEN 0 ELSE 1) .. running - 1 : running' = n
  BY DEF RolloutCompletes
<1>a. running' \in 0 .. TotalTasks /\ running' <= running
  <2>1. n \in Int /\ 0 <= n /\ n <= running - 1 BY <1>0, TypeFacts, SMT DEF IInv
  <2>2. running \in 0 .. TotalTasks BY DEF IInv, TypeOK
  <2> QED BY <1>0, <2>1, <2>2, SizesNat, SMT
<1>1. TypeOK' BY <1>a DEF IInv, TypeOK, RolloutCompletes, scheduler
<1>2. ManagersAgree' BY DEF IInv, ManagersAgree, RolloutCompletes, scheduler
<1>3. StateAgrees' BY DEF IInv, StateAgrees, InMainLoop, RolloutCompletes, scheduler
<1>4. PhaseFacts' BY DEF IInv, PhaseFacts, Finalizing, LastIteration,
    RolloutCompletes, scheduler
<1>5. Conservation' BY DEF IInv, Conservation, Counted, LastIteration,
    RolloutCompletes, scheduler
<1>6. ReportsBound' BY <1>a, TypeFacts DEF IInv, ReportsBound, InMainLoop,
    RolloutCompletes, scheduler
<1>7. Handshake' BY DEF IInv, Handshake, Waiting, InMainLoop, RolloutCompletes,
    scheduler
<1>8. WorldAgrees' BY DEF IInv, WorldAgrees, InMainLoop, RolloutCompletes, scheduler
<1>9. ActorSizeValid' BY DEF IInv, ActorSizeValid, RolloutCompletes, scheduler
<1>10. TasksHaveAHome' BY DEF IInv, TasksHaveAHome, RolloutCompletes, scheduler
<1> QED BY <1>1, <1>2, <1>3, <1>4, <1>5, <1>6, <1>7, <1>8, <1>9, <1>10
  DEF IInv


LEMMA InferenceFinishesInv == IInv /\ InferenceFinishes => IInv'
<1> SUFFICES ASSUME IInv, InferenceFinishes PROVE IInv' OBVIOUS
<1>1. TypeOK' BY DEF IInv, TypeOK, InferenceFinishes, scheduler
<1>2. ManagersAgree' BY DEF IInv, ManagersAgree, InferenceFinishes, scheduler
<1>3. StateAgrees' BY DEF IInv, StateAgrees, InMainLoop, InferenceFinishes, scheduler
<1>4. PhaseFacts' BY DEF IInv, PhaseFacts, Finalizing, LastIteration,
    InferenceFinishes, scheduler
<1>5. Conservation' BY DEF IInv, Conservation, Counted, LastIteration,
    InferenceFinishes, scheduler
<1>6. ReportsBound' BY DEF IInv, ReportsBound, InMainLoop, InferenceFinishes,
    scheduler
<1>7. Handshake' BY DEF IInv, Handshake, Waiting, InMainLoop, InferenceFinishes,
    scheduler
<1>8. WorldAgrees' BY DEF IInv, WorldAgrees, InMainLoop, InferenceFinishes, scheduler
<1>9. ActorSizeValid' BY DEF IInv, ActorSizeValid, InferenceFinishes, scheduler
<1>10. TasksHaveAHome' BY DEF IInv, TasksHaveAHome, InferenceFinishes, scheduler
<1> QED BY <1>1, <1>2, <1>3, <1>4, <1>5, <1>6, <1>7, <1>8, <1>9, <1>10
  DEF IInv

(* A global step starts where the last one ended: the actor has its initial  *)
(* size.                                                                     *)
LEMMA StartStepInv == IInv /\ StartStep => IInv'
<1> SUFFICES ASSUME IInv, StartStep PROVE IInv' OBVIOUS
<1>m. /\ manager' \in [Components -> [inst : Nat, gpu : Nat, offset : Int]]
      /\ manager'["actor"] = manager["actor"]
      /\ manager'["inference"] = manager["inference"]
      /\ manager'["rollout"] = [inst |-> RolloutDp, gpu |-> RolloutGpus, offset |-> 0]
  <2>1. Initial("rollout") = [inst |-> RolloutDp, gpu |-> RolloutGpus, offset |-> 0]
    BY DEF Initial
  <2>2. Initial("rollout") \in [inst : Nat, gpu : Nat, offset : Int] BY <2>1, SizesNat
  <2> QED BY <2>1, <2>2 DEF StartStep, IInv, TypeOK, Components
<1>w. /\ Len(request) = 0 /\ actor.world = manager["actor"].gpu
      /\ actor'.world = actor.world /\ actor'.world \in Nat
  BY TypeFacts DEF StartStep, IInv, Handshake, Waiting, WorldAgrees
<1>a. actor' \in [doing : {"starting", "training", "syncing", "finished"},
                   iter : 0 .. NMinibatches, world : Nat]
  BY <1>w, SizesNat DEF StartStep
<1>t. reported' \in 0 .. TotalTasks /\ running' \in 0 .. TotalTasks
  BY SizesNat, SMT DEF StartStep
<1>1. TypeOK' BY <1>m, <1>a, <1>t DEF IInv, TypeOK, StartStep
<1>2. ManagersAgree' BY <1>m, SizesNat, SMT DEF IInv, ManagersAgree, RolloutGpus
<1>3. StateAgrees'
  <2>1. (InferenceDp = 0) \/ (InferenceDp > 0 /\ InferenceDp # 0) BY SizesNat, SMT
  <2>2. inferenceDone' = (InferenceDp = 0) /\ phase' = "lend" BY DEF StartStep
  <2>3. InferenceDp = 0 => ~(InferenceDp > 0) BY SizesNat, SMT
  <2> QED BY <2>1, <2>2, <2>3, Zenon DEF StateAgrees, InMainLoop
<1>4. PhaseFacts' BY <1>m DEF IInv, PhaseFacts, Finalizing, LastIteration, StartStep
<1>5. Conservation' BY DEF IInv, Conservation, Counted, LastIteration, StartStep
<1>6. ReportsBound' BY SizesNat DEF IInv, ReportsBound, InMainLoop, StartStep
<1>7. Handshake' BY TypeFacts, SizesNat DEF IInv, Handshake, Waiting, InMainLoop,
    StartStep
<1>8. WorldAgrees' BY <1>m, <1>w DEF WorldAgrees, InMainLoop, StartStep
<1>9. ActorSizeValid' BY DEF IInv, ActorSizeValid, StartStep
<1>10. TasksHaveAHome' BY <1>m, SizesNat DEF TasksHaveAHome
<1> QED BY <1>1, <1>2, <1>3, <1>4, <1>5, <1>6, <1>7, <1>8, <1>9, <1>10
  DEF IInv

(* The actor takes the answers it waits for.                                 *)
LEMMA ActorStartsInv == IInv /\ ActorStarts => IInv'
<1> SUFFICES ASSUME IInv, ActorStarts PROVE IInv' OBVIOUS
<1>h. Handshake /\ WorldAgrees /\ TypeOK BY DEF IInv
<1>a. /\ actor'.doing = "training" /\ actor'.iter = actor.iter
      /\ actor'.world = actor.world
      /\ actor' \in [doing : {"starting", "training", "syncing", "finished"},
                   iter : 0 .. NMinibatches, world : Nat]
  BY <1>h, TypeFacts DEF ActorStarts
<1>q. /\ request' \in Seq(Nat) /\ Len(request') = 0
      /\ phase \in {"lend", "reset", "await_actor"} /\ response = 0 /\ actor.iter \in {0, train_iter}
      /\ phase \in {"lend", "reset"} => ~UsePreProcess /\ actor.iter = 0
      /\ phase = "await_actor" => actor.iter = train_iter
  <2>1. /\ phase \in {"lend", "reset", "await_actor"} /\ response = 0
        /\ phase \in {"lend", "reset"} => actor.iter = 0 /\ Len(request) = 0
        /\ phase = "await_actor" => /\ actor.iter = train_iter
                                    /\ Len(request) = IF UsePreProcess THEN 1 ELSE 0
    BY <1>h DEF Handshake, Waiting, InMainLoop, ActorStarts, TypeOK
  <2>2. CASE UsePreProcess
    <3>1. request # <<>> /\ request' = Tail(request) BY <2>2 DEF ActorStarts
    <3> QED BY <2>1, <2>2, <3>1, <1>h, TakeAnswer, GiveAnswer
  <2>3. CASE ~UsePreProcess
    BY <2>1, <2>3, <1>h DEF ActorStarts, TypeOK
  <2> QED BY <2>1, <2>2, <2>3
<1>1. TypeOK' BY <1>a, <1>q DEF IInv, TypeOK, ActorStarts, scheduler, environment
<1>2. ManagersAgree' BY DEF IInv, ManagersAgree, ActorStarts, scheduler, environment
<1>3. StateAgrees' BY DEF IInv, StateAgrees, InMainLoop, ActorStarts, scheduler,
    environment
<1>4. PhaseFacts' BY <1>a, <1>q DEF IInv, PhaseFacts, Finalizing, LastIteration,
    ActorStarts, scheduler, environment
<1>5. Conservation' BY DEF IInv, Conservation, Counted, LastIteration, ActorStarts,
    scheduler, environment
<1>6. ReportsBound' BY DEF IInv, ReportsBound, InMainLoop, ActorStarts, scheduler,
    environment
<1>7. Handshake' BY <1>a, <1>q DEF IInv, Handshake, Waiting, InMainLoop, ActorStarts,
    scheduler, environment
<1>8. WorldAgrees'
  <2>1. manager' = manager /\ phase' = phase BY DEF ActorStarts, scheduler
  <2>2. actor'.world = manager["actor"].gpu
    <3>1. actor.doing = "starting" BY DEF ActorStarts
    <3> QED BY <3>1, <1>a, <1>h DEF WorldAgrees
  <2>3. Len(request') # 1 BY <1>q
  <2>4. manager["actor"].gpu <= manager["actor"].gpu BY <1>h, TypeFacts, SMT
  <2> QED BY <2>1, <2>2, <2>3, <2>4, Zenon DEF WorldAgrees, InMainLoop
<1>9. ActorSizeValid' BY <1>a DEF IInv, ActorSizeValid, ActorStarts, scheduler,
    environment
<1>10. TasksHaveAHome' BY DEF IInv, TasksHaveAHome, ActorStarts, scheduler,
    environment
<1> QED BY <1>1, <1>2, <1>3, <1>4, <1>5, <1>6, <1>7, <1>8, <1>9, <1>10
  DEF IInv


LEMMA ActorTrainsInv == IInv /\ ActorTrains => IInv'
<1> SUFFICES ASSUME IInv, ActorTrains PROVE IInv' OBVIOUS
<1>h. Handshake /\ WorldAgrees /\ TypeOK BY DEF IInv
<1>a. /\ actor'.doing = "syncing" /\ actor'.iter = actor.iter
      /\ actor'.world = actor.world
      /\ actor' \in [doing : {"starting", "training", "syncing", "finished"},
                   iter : 0 .. NMinibatches, world : Nat]
  BY <1>h, TypeFacts DEF ActorTrains
<1>q. /\ phase \in {"lend", "reset", "await_actor"} /\ response = 0 /\ response' = 1
      /\ Len(request) = 0
      /\ phase \in {"lend", "reset"} => ~UsePreProcess /\ actor.iter = 0
      /\ phase = "await_actor" => actor.iter = train_iter
  BY <1>h DEF Handshake, Waiting, InMainLoop, ActorTrains, TypeOK
<1>1. TypeOK' BY <1>a, <1>q DEF IInv, TypeOK, ActorTrains, scheduler, environment
<1>2. ManagersAgree' BY DEF IInv, ManagersAgree, ActorTrains, scheduler, environment
<1>3. StateAgrees' BY DEF IInv, StateAgrees, InMainLoop, ActorTrains, scheduler,
    environment
<1>4. PhaseFacts' BY <1>a, <1>q DEF IInv, PhaseFacts, Finalizing, LastIteration,
    ActorTrains, scheduler, environment
<1>5. Conservation' BY DEF IInv, Conservation, Counted, LastIteration, ActorTrains,
    scheduler, environment
<1>6. ReportsBound' BY DEF IInv, ReportsBound, InMainLoop, ActorTrains, scheduler,
    environment
<1>7. Handshake' BY <1>a, <1>q DEF IInv, Handshake, Waiting, InMainLoop, ActorTrains,
    scheduler, environment
<1>8. WorldAgrees' BY <1>a, <1>q DEF IInv, WorldAgrees, InMainLoop, ActorTrains,
    scheduler, environment
<1>9. ActorSizeValid' BY <1>a DEF IInv, ActorSizeValid, ActorTrains, scheduler,
    environment
<1>10. TasksHaveAHome' BY DEF IInv, TasksHaveAHome, ActorTrains, scheduler,
    environment
<1> QED BY <1>1, <1>2, <1>3, <1>4, <1>5, <1>6, <1>7, <1>8, <1>9, <1>10
  DEF IInv


LEMMA ActorResumesInv == IInv /\ ActorResumes => IInv'
<1> SUFFICES ASSUME IInv, ActorResumes PROVE IInv' OBVIOUS
<1>h. Handshake /\ WorldAgrees /\ TypeOK /\ ManagersAgree /\ PhaseFacts BY DEF IInv
<1>q. /\ phase \in {"idle", "await_actor"} /\ response = 0
      /\ Len(request) = 1
      /\ phase = "idle" => actor.iter + 1 = NMinibatches
      /\ phase = "await_actor" => actor.iter = train_iter - 1
  <2>1. request # <<>> /\ Len(request) # 0 BY <1>h, GiveAnswer DEF ActorResumes
  <2>2. /\ phase \in {"idle", "await_actor"} /\ response = 0 /\ Len(request) = 1
        /\ phase = "idle" => actor.iter = NMinibatches - 1
        /\ phase = "await_actor" => actor.iter = train_iter - 1
    BY <1>h, <2>1 DEF Handshake, Waiting, InMainLoop, ActorResumes, TypeOK
  <2> QED BY <2>2, SizesNat, SMT
<1>r. request' \in Seq(Nat) /\ Len(request') = 0 /\ Head(request) = request[1]
  BY <1>h, <1>q, TakeAnswer, GiveAnswer DEF ActorResumes
<1>w. actor'.world = manager["actor"].gpu
  <2>1. actor'.world = IF request[1] = 0 THEN actor.world ELSE request[1]
    BY <1>r DEF ActorResumes
  <2> QED BY <2>1, <1>h, <1>q, ActorHasGpus DEF WorldAgrees
<1>i. /\ actor'.iter = actor.iter + 1 /\ actor'.iter \in 0 .. NMinibatches
      /\ phase = "idle" => actor'.doing = "finished"
      /\ phase = "await_actor" => actor'.doing = "training" /\ actor'.iter = train_iter
  <2>1. /\ actor'.iter = actor.iter + 1
        /\ actor'.doing = IF actor.iter + 1 = NMinibatches THEN "finished" ELSE "training"
    BY DEF ActorResumes
  <2>2. /\ actor.iter \in 0 .. NMinibatches /\ NMinibatches \in Nat \ {0}
        /\ train_iter \in Nat /\ train_iter <= NMinibatches - 1
    BY <1>h, TypeFacts, SizesNat
  <2> QED BY <1>q, <2>1, <2>2, SMT
<1>a. actor' \in [doing : {"starting", "training", "syncing", "finished"},
                   iter : 0 .. NMinibatches, world : Nat]
  <2>1. actor' = [doing |-> actor'.doing, iter |-> actor'.iter, world |-> actor'.world]
    BY DEF ActorResumes
  <2>2. actor'.doing \in {"finished", "training"} BY <1>i, <1>q
  <2>3. actor'.world \in Nat BY <1>w, <1>h, TypeFacts
  <2> QED BY <2>1, <2>2, <2>3, <1>i
<1>1. TypeOK' BY <1>a, <1>q, <1>r DEF IInv, TypeOK, ActorResumes, scheduler,
    environment
<1>2. ManagersAgree' BY DEF IInv, ManagersAgree, ActorResumes, scheduler, environment
<1>3. StateAgrees' BY DEF IInv, StateAgrees, InMainLoop, ActorResumes, scheduler,
    environment
<1>4. PhaseFacts' BY <1>i, <1>q DEF IInv, PhaseFacts, Finalizing, LastIteration,
    ActorResumes, scheduler, environment
<1>5. Conservation' BY DEF IInv, Conservation, Counted, LastIteration, ActorResumes,
    scheduler, environment
<1>6. ReportsBound' BY DEF IInv, ReportsBound, InMainLoop, ActorResumes, scheduler,
    environment
<1>7. Handshake' BY <1>i, <1>q, <1>r DEF IInv, Handshake, Waiting, InMainLoop,
    ActorResumes, scheduler, environment
<1>8. WorldAgrees'
  <2>1. manager' = manager /\ phase' = phase BY DEF ActorResumes, scheduler
  <2>2. actor'.world = manager["actor"].gpu BY <1>w
  <2>3. Len(request') # 1 BY <1>r
  <2>4. manager["actor"].gpu <= manager["actor"].gpu BY <1>h, TypeFacts, SMT
  <2> QED BY <2>1, <2>2, <2>3, <2>4, Zenon DEF WorldAgrees, InMainLoop
<1>9. ActorSizeValid' BY <1>w, <1>q, <1>i, <1>h DEF ActorSizeValid, ManagersAgree,
    PhaseFacts, ActorResumes, scheduler
<1>10. TasksHaveAHome' BY DEF IInv, TasksHaveAHome, ActorResumes, scheduler,
    environment
<1> QED BY <1>1, <1>2, <1>3, <1>4, <1>5, <1>6, <1>7, <1>8, <1>9, <1>10
  DEF IInv

-----------------------------------------------------------------------------
(* The scheduler's own steps.                                                *)

LEMMA ReportsType ==
  ASSUME TypeOK
  PROVE  /\ \A x \in Reports : x \in 0 .. TotalTasks
         /\ started => Reports = {running}
<1>1. running \in 0 .. TotalTasks /\ TotalTasks \in Nat BY SizesNat DEF TypeOK
<1>2. CASE started BY <1>1, <1>2 DEF Reports
<1>3. CASE ~started
  <2>1. Reports = 0 .. running - 1 BY <1>3 DEF Reports
  <2> QED BY <1>1, <1>3, <2>1, SMT
<1> QED BY <1>2, <1>3


LEMMA KeepLendingInv == IInv /\ KeepLending => IInv'
<1> SUFFICES ASSUME IInv, KeepLending PROVE IInv' OBVIOUS
<1>r. reported' \in 0 .. TotalTasks BY ReportsType DEF IInv, KeepLending
<1>1. TypeOK' BY <1>r DEF IInv, TypeOK, KeepLending, environment
<1>2. ManagersAgree' BY DEF IInv, ManagersAgree, KeepLending, environment
<1>3. StateAgrees' BY DEF IInv, StateAgrees, InMainLoop, KeepLending, environment
<1>4. PhaseFacts' BY DEF IInv, PhaseFacts, Finalizing, LastIteration, KeepLending,
    environment
<1>5. Conservation' BY DEF IInv, Conservation, Counted, LastIteration, KeepLending,
    environment
<1>6. ReportsBound' BY DEF IInv, ReportsBound, InMainLoop, KeepLending, environment
<1>7. Handshake' BY DEF IInv, Handshake, Waiting, InMainLoop, KeepLending, environment
<1>8. WorldAgrees' BY DEF IInv, WorldAgrees, InMainLoop, KeepLending, environment
<1>9. ActorSizeValid' BY DEF IInv, ActorSizeValid, KeepLending, environment
<1>10. TasksHaveAHome' BY DEF IInv, TasksHaveAHome, KeepLending, environment
<1> QED BY <1>1, <1>2, <1>3, <1>4, <1>5, <1>6, <1>7, <1>8, <1>9, <1>10
  DEF IInv


LEMMA ReportRolloutInv == IInv /\ ReportRollout => IInv'
<1> SUFFICES ASSUME IInv, ReportRollout PROVE IInv' OBVIOUS
<1>r. reported' \in 0 .. TotalTasks /\ (started => reported' = running)
  BY ReportsType DEF IInv, ReportRollout
<1>1. TypeOK' BY <1>r DEF IInv, TypeOK, ReportRollout, environment
<1>2. ManagersAgree' BY DEF IInv, ManagersAgree, ReportRollout, environment
<1>3. StateAgrees' BY DEF IInv, StateAgrees, InMainLoop, ReportRollout, environment
<1>4. PhaseFacts' BY TypeFacts DEF IInv, PhaseFacts, Finalizing, LastIteration,
    ReportRollout, environment
<1>5. Conservation' BY DEF IInv, Conservation, Counted, LastIteration, ReportRollout,
    environment
<1>6. ReportsBound' BY <1>r, TypeFacts DEF IInv, ReportsBound, InMainLoop,
    ReportRollout, environment
<1>7. Handshake' BY DEF IInv, Handshake, Waiting, InMainLoop, ReportRollout,
    environment
<1>8. WorldAgrees' BY DEF IInv, WorldAgrees, InMainLoop, ReportRollout, environment
<1>9. ActorSizeValid' BY DEF IInv, ActorSizeValid, ReportRollout, environment
<1>10. TasksHaveAHome' BY DEF IInv, TasksHaveAHome, ReportRollout, environment
<1> QED BY <1>1, <1>2, <1>3, <1>4, <1>5, <1>6, <1>7, <1>8, <1>9, <1>10
  DEF IInv


LEMMA LendNothingInv == IInv /\ LendNothing => IInv'
<1> SUFFICES ASSUME IInv, LendNothing PROVE IInv' OBVIOUS
<1>1. TypeOK' BY DEF IInv, TypeOK, LendNothing, environment
<1>2. ManagersAgree' BY DEF IInv, ManagersAgree, LendNothing, environment
<1>3. StateAgrees' BY DEF IInv, StateAgrees, InMainLoop, LendNothing, environment
<1>4. PhaseFacts'
  <2>1. manager["rollout"].gpu = RolloutGpus
    <3>1. manager["rollout"].inst = RolloutDp
      BY TypeFacts, SizesNat, SMT DEF IInv, ManagersAgree, PhaseFacts, LendNothing
    <3> QED BY <3>1 DEF IInv, ManagersAgree, RolloutGpus
  <2>2. ActorGpus + RolloutGpus + InferenceGpus = ClusterGpus BY ClusterSplit DEF LendNothing
  <2> QED BY <2>1, <2>2 DEF IInv, PhaseFacts, Finalizing, LastIteration, LendNothing
<1>5. Conservation' BY DEF IInv, Conservation, Counted, LastIteration, LendNothing,
    environment
<1>6. ReportsBound' BY DEF IInv, ReportsBound, InMainLoop, LendNothing, environment
<1>7. Handshake' BY DEF IInv, Handshake, Waiting, InMainLoop, LendNothing, environment
<1>8. WorldAgrees' BY DEF IInv, WorldAgrees, InMainLoop, LendNothing, environment
<1>9. ActorSizeValid' BY DEF IInv, ActorSizeValid, LendNothing, environment
<1>10. TasksHaveAHome' BY DEF IInv, TasksHaveAHome, LendNothing, environment
<1> QED BY <1>1, <1>2, <1>3, <1>4, <1>5, <1>6, <1>7, <1>8, <1>9, <1>10
  DEF IInv


LEMMA WaitForActorUpdateInv == IInv /\ WaitForActorUpdate => IInv'
<1> SUFFICES ASSUME IInv, WaitForActorUpdate PROVE IInv' OBVIOUS
<1>q. response = 1 /\ response' = 0 /\ Waiting("syncing", 0, 1, train_iter)
  BY DEF IInv, TypeOK, Handshake, Waiting, WaitForActorUpdate
<1>1. TypeOK' BY <1>q DEF IInv, TypeOK, WaitForActorUpdate, environment
<1>2. ManagersAgree' BY DEF IInv, ManagersAgree, WaitForActorUpdate, environment
<1>3. StateAgrees' BY DEF IInv, StateAgrees, InMainLoop, WaitForActorUpdate,
    environment
<1>4. PhaseFacts' BY DEF IInv, PhaseFacts, Finalizing, LastIteration,
    WaitForActorUpdate, environment
<1>5. Conservation' BY DEF IInv, Conservation, Counted, LastIteration,
    WaitForActorUpdate, environment
<1>6. ReportsBound' BY DEF IInv, ReportsBound, InMainLoop, WaitForActorUpdate,
    environment
<1>7. Handshake' BY <1>q DEF IInv, Handshake, Waiting, InMainLoop, WaitForActorUpdate,
    environment
<1>8. WorldAgrees' BY DEF IInv, WorldAgrees, InMainLoop, WaitForActorUpdate,
    environment
<1>9. ActorSizeValid' BY DEF IInv, ActorSizeValid, WaitForActorUpdate, environment
<1>10. TasksHaveAHome' BY DEF IInv, TasksHaveAHome, WaitForActorUpdate, environment
<1> QED BY <1>1, <1>2, <1>3, <1>4, <1>5, <1>6, <1>7, <1>8, <1>9, <1>10
  DEF IInv


LEMMA SkipInferenceInv == IInv /\ SkipInference => IInv'
<1> SUFFICES ASSUME IInv, SkipInference PROVE IInv' OBVIOUS
<1>1. TypeOK' BY DEF IInv, TypeOK, SkipInference, environment
<1>2. ManagersAgree' BY DEF IInv, ManagersAgree, SkipInference, environment
<1>3. StateAgrees' BY DEF IInv, StateAgrees, InMainLoop, SkipInference, environment
<1>4. PhaseFacts'
  <2>1. LastIteration => inferenceDone
    <3>1. InferenceDp = 0 \/ InferenceDp > 0 BY SizesNat, SMT
    <3> QED BY <3>1 DEF IInv, StateAgrees, SkipInference
  <2>2. /\ phase = "inference" /\ phase' = "actor" /\ manager' = manager
        /\ LastIteration' <=> LastIteration
    BY DEF SkipInference, LastIteration
  <2> QED BY <2>1, <2>2 DEF IInv, PhaseFacts, Finalizing, SkipInference, environment
<1>5. Conservation' BY DEF IInv, Conservation, Counted, LastIteration, SkipInference,
    environment
<1>6. ReportsBound' BY DEF IInv, ReportsBound, InMainLoop, SkipInference, environment
<1>7. Handshake' BY DEF IInv, Handshake, Waiting, InMainLoop, SkipInference,
    environment
<1>8. WorldAgrees' BY DEF IInv, WorldAgrees, InMainLoop, SkipInference, environment
<1>9. ActorSizeValid' BY DEF IInv, ActorSizeValid, SkipInference, environment
<1>10. TasksHaveAHome' BY DEF IInv, TasksHaveAHome, SkipInference, environment
<1> QED BY <1>1, <1>2, <1>3, <1>4, <1>5, <1>6, <1>7, <1>8, <1>9, <1>10
  DEF IInv

-----------------------------------------------------------------------------
(* The steps that move GPUs.                                                 *)

(* Rollout gives up its n instances of lowest id.                            *)
LEMMA RolloutReleased ==
  ASSUME TypeOK, ManagersAgree
  PROVE  \A n \in 0 .. manager["rollout"].inst :
           /\ Released("rollout", n) \in [inst : Nat, gpu : Nat, offset : Int]
           /\ Released("rollout", n).inst = manager["rollout"].inst - n
           /\ Released("rollout", n).gpu = Released("rollout", n).inst * RolloutMP
           /\ Released("rollout", n).gpu = manager["rollout"].gpu - n * RolloutMP
           /\ Released("rollout", n).offset = manager["rollout"].offset + n
<1> TAKE n \in 0 .. manager["rollout"].inst
<1> DEFINE m == manager["rollout"]
<1>1. /\ m.inst \in Nat /\ m.gpu \in Nat /\ m.offset \in Int
      /\ m.gpu = m.inst * RolloutMP
      /\ n \in Nat /\ n <= m.inst /\ RolloutMP \in Nat \ {0}
  BY TypeFacts, SizesNat DEF ManagersAgree
<1>2. Released("rollout", n) = [inst   |-> m.inst - n,
                               gpu    |-> m.gpu - n * RolloutMP,
                               offset |-> m.offset + n]
  BY DEF Released, ModelParallelSize
<1> HIDE DEF m
<1>3. m.inst - n \in Nat /\ m.offset + n \in Int BY <1>1, SMT
<1>4. m.gpu - n * RolloutMP = (m.inst - n) * RolloutMP BY <1>1, Distribute
<1>5. (m.inst - n) * RolloutMP \in Nat BY <1>1, <1>3, ProductNat
<1>6. Released("rollout", n) \in [inst : Nat, gpu : Nat, offset : Int]
  BY <1>2, <1>3, <1>4, <1>5
<1> QED BY <1>2, <1>4, <1>6 DEF m

(* What a step leaves that makes rollout's manager release n instances.      *)
RolloutLost(n) ==
  /\ manager' \in [Components -> [inst : Nat, gpu : Nat, offset : Int]]
  /\ manager'["actor"] = manager["actor"]
  /\ manager'["inference"] = manager["inference"]
  /\ manager'["rollout"].inst = manager["rollout"].inst - n
  /\ manager'["rollout"].gpu = manager'["rollout"].inst * RolloutMP
  /\ manager'["rollout"].gpu = manager["rollout"].gpu - n * RolloutMP
  /\ manager'["rollout"].offset = manager["rollout"].offset + n
  /\ manager'["rollout"].inst \in Nat /\ manager'["rollout"].gpu \in Nat
  /\ manager'["rollout"].offset \in Nat

LEMMA ReleaseRollout ==
  ASSUME TypeOK, ManagersAgree
  PROVE  \A n \in 0 .. manager["rollout"].inst :
           manager' = [manager EXCEPT !["rollout"] = Released("rollout", n)]
             => RolloutLost(n) /\ ManagersAgree'
<1> SUFFICES ASSUME NEW n \in 0 .. manager["rollout"].inst,
                    manager' = [manager EXCEPT !["rollout"] = Released("rollout", n)]
             PROVE  RolloutLost(n) /\ ManagersAgree'
  OBVIOUS
<1>1. /\ manager' \in [Components -> [inst : Nat, gpu : Nat, offset : Int]]
      /\ manager'["actor"] = manager["actor"]
      /\ manager'["inference"] = manager["inference"]
      /\ manager'["rollout"] = Released("rollout", n)
  BY RolloutReleased DEF TypeOK, Components
<1>2. manager["rollout"].offset \in Nat /\ n \in Nat BY TypeFacts DEF ManagersAgree
<1>3. manager'["rollout"].inst \in Nat /\ manager'["rollout"].gpu \in Nat
  BY <1>1 DEF Components
<1>4. RolloutLost(n) BY <1>1, <1>2, <1>3, RolloutReleased DEF RolloutLost
<1>5. manager'["rollout"].inst + manager'["rollout"].offset = RolloutDp
  BY <1>1, <1>2, RolloutReleased, TypeFacts, SizesNat DEF ManagersAgree
<1> QED BY <1>4, <1>5 DEF ManagersAgree, RolloutLost

LEMMA ReturnActorGpusInv == IInv /\ ReturnActorGpus => IInv'
<1> SUFFICES ASSUME IInv, ReturnActorGpus PROVE IInv' OBVIOUS
<1> DEFINE n == ActorGpus \div RolloutMP
<1>h. TypeOK /\ ManagersAgree BY DEF IInv
<1>l. /\ UsePreProcess /\ started
      /\ manager["rollout"].inst = RolloutDp /\ manager["rollout"].gpu = RolloutGpus
  <2>1. manager["rollout"].offset = 0 BY DEF IInv, PhaseFacts, ReturnActorGpus
  <2>2. manager["rollout"].inst = RolloutDp
    BY <1>h, <2>1, TypeFacts, SizesNat, SMT DEF ManagersAgree
  <2> QED BY <1>h, <2>2 DEF ManagersAgree, RolloutGpus, ReturnActorGpus, LendingDone
<1>n. /\ n \in 0 .. manager["rollout"].inst /\ n < manager["rollout"].inst
      /\ n * RolloutMP = ActorGpus
  BY <1>l, LentInstances, SizesNat
<1>t. reported' \in 0 .. TotalTasks BY <1>h, ReportsType DEF ReturnActorGpus
<1>m. RolloutLost(n) /\ ManagersAgree'
  BY <1>h, <1>n, ReleaseRollout DEF ReturnActorGpus
<1> HIDE DEF n
<1>1. TypeOK' BY <1>h, <1>m, <1>t DEF TypeOK, RolloutLost, ReturnActorGpus, environment
<1>3. StateAgrees' /\ Conservation'
  BY DEF IInv, StateAgrees, Conservation, Counted, InMainLoop, ReturnActorGpus, environment
<1>4. PhaseFacts'
  <2>1. ActorGpus + manager'["rollout"].gpu + InferenceGpus = ClusterGpus
    BY <1>l, <1>n, <1>m, ClusterSplit, SizesNat DEF RolloutLost
  <2>2. manager'["actor"].gpu = ActorGpus
    BY <1>m DEF IInv, PhaseFacts, ReturnActorGpus, RolloutLost
  <2> QED BY <2>1, <2>2 DEF PhaseFacts, Finalizing, ReturnActorGpus
<1>6. ReportsBound' BY <1>l DEF ReportsBound, ReturnActorGpus, environment
<1>7. Handshake' BY DEF IInv, Handshake, Waiting, InMainLoop, ReturnActorGpus
<1>8. WorldAgrees' BY <1>m DEF IInv, WorldAgrees, InMainLoop, ReturnActorGpus, RolloutLost
<1>9. ActorSizeValid' BY DEF IInv, ActorSizeValid, ReturnActorGpus
<1>10. TasksHaveAHome'
  BY <1>m, <1>n, TypeFacts, <1>h DEF TasksHaveAHome, RolloutLost
<1> QED BY <1>m, <1>1, <1>3, <1>4, <1>6, <1>7, <1>8, <1>9, <1>10 DEF IInv

(* What a migration releases: no more than the policy allows, and not the    *)
(* last instance while sequences are running.                                *)
LEMMA MigrationBound ==
  ASSUME TypeOK, ManagersAgree, instance_num["actor"] = manager["actor"].inst
  PROVE  /\ ReleasableNum \in Nat /\ ReleaseNum \in Nat
         /\ ReleaseNum <= ReleasableNum /\ ReleasableNum <= manager["rollout"].inst
         /\ reported > 0 /\ manager["rollout"].inst > 0 =>
              ReleasableNum < manager["rollout"].inst
         /\ ReleasableNum > 0 =>
              reported <= (manager["rollout"].inst - ReleasableNum) * MaxRunning
<1> DEFINE needed == CeilDiv(reported, MaxRunning)
           inst == manager["rollout"].inst
           g == Growth(instance_num["actor"], ReleasableNum * RolloutMP)
<1>0. reported \in Nat /\ inst \in Nat /\ MaxRunning \in Nat \ {0} /\ RolloutMP \in Nat \ {0}
  BY TypeFacts, SizesNat
<1>1. /\ needed \in Nat /\ reported <= needed * MaxRunning
      /\ reported > 0 => needed > 0
  BY <1>0, CeilDivLeast
<1>2. ReleasableNum = IF inst <= 1 THEN 0
                      ELSE IF needed > inst THEN 0 ELSE inst - needed
  BY DEF ReleasableNum
<1>n. ReleaseNum = CeilDiv(g, RolloutMP) BY DEF ReleaseNum
<1> HIDE DEF needed, inst
<1>3. /\ ReleasableNum \in Nat /\ ReleasableNum <= inst
      /\ reported > 0 /\ inst > 0 => ReleasableNum < inst
      /\ ReleasableNum > 0 => inst - ReleasableNum = needed
  BY <1>0, <1>1, <1>2, SMT
<1>4. ReleasableNum * RolloutMP \in Nat BY <1>0, <1>3, ProductNat
<1>5. instance_num["actor"] \in ValidDpSizes BY DEF ManagersAgree
<1>6. g \in Nat /\ g <= ReleasableNum * RolloutMP
  BY <1>4, <1>5, GrowthValid
<1> HIDE DEF g
<1>7. ReleaseNum \in Nat /\ ReleaseNum <= ReleasableNum
  BY <1>0, <1>3, <1>6, <1>n, CeilDivLeast
<1> QED BY <1>1, <1>3, <1>7 DEF inst

(* The scheduler state after rollout's manager released n instances, of      *)
(* which it reports the GPUs or none.                                        *)
RolloutSettled(n, gpus) ==
  /\ RolloutLost(n) /\ ManagersAgree'
  /\ available_gpu_num' = available_gpu_num + gpus /\ available_gpu_num' \in Int
  /\ instance_num' \in [Components -> Nat]
  /\ instance_num' = [c \in Components |-> manager'[c].inst]

LEMMA SettleRollout ==
  ASSUME TypeOK, ManagersAgree, StateAgrees, InMainLoop
  PROVE  \A n \in 0 .. manager["rollout"].inst, gpus \in Int :
           Settle("rollout", Released("rollout", n), gpus, 0) => RolloutSettled(n, gpus)
<1> SUFFICES ASSUME NEW n \in 0 .. manager["rollout"].inst, NEW gpus \in Int,
                    Settle("rollout", Released("rollout", n), gpus, 0)
             PROVE  RolloutSettled(n, gpus)
  OBVIOUS
<1>1. manager' = [manager EXCEPT !["rollout"] = Released("rollout", n)] BY DEF Settle
<1>2. RolloutLost(n) /\ ManagersAgree' BY <1>1, ReleaseRollout
<1>3. available_gpu_num' = available_gpu_num + gpus /\ available_gpu_num' \in Int
  <2>1. available_gpu_num' = available_gpu_num + gpus - 0 BY DEF Settle
  <2>2. available_gpu_num \in Int BY DEF TypeOK
  <2> QED BY <2>1, <2>2, SMT
<1>4. /\ instance_num' = [c \in Components |-> manager'[c].inst]
      /\ instance_num' \in [Components -> Nat]
  <2>1. instance_num = [c \in Components |-> manager[c].inst] BY DEF StateAgrees
  <2>2. instance_num' = [instance_num EXCEPT !["rollout"] = Released("rollout", n).inst]
    BY DEF Settle
  <2>3. manager'["rollout"] = Released("rollout", n) BY <1>1 DEF TypeOK, Components
  <2>4. instance_num' = [c \in Components |-> manager'[c].inst]
    BY <2>1, <2>2, <2>3, <1>2 DEF RolloutLost, Components
  <2>5. \A c \in Components : manager'[c].inst \in Nat BY <1>2 DEF RolloutLost
  <2> QED BY <2>4, <2>5
<1> QED BY <1>2, <1>3, <1>4 DEF RolloutSettled

(* The GPUs that rollout loses become available.                             *)
LEMMA RolloutConserves ==
  ASSUME TypeOK, Conservation, Counted
  PROVE  \A n \in Nat : RolloutSettled(n, n * RolloutMP) => Conservation'
<1> SUFFICES ASSUME NEW n \in Nat, RolloutSettled(n, n * RolloutMP) PROVE Conservation'
  OBVIOUS
<1> DEFINE p == n * RolloutMP
<1>1. p \in Nat BY SizesNat, ProductNat
<1>2. /\ manager'["actor"].gpu = manager["actor"].gpu
      /\ manager'["inference"].gpu = manager["inference"].gpu
      /\ manager'["rollout"].gpu = manager["rollout"].gpu - p
      /\ available_gpu_num' = available_gpu_num + p
  BY DEF RolloutSettled, RolloutLost
<1>3. /\ manager["actor"].gpu \in Nat /\ manager["rollout"].gpu \in Nat
      /\ manager["inference"].gpu \in Nat /\ available_gpu_num \in Int
  BY TypeFacts DEF TypeOK
<1>4. /\ available_gpu_num >= 0
      /\ available_gpu_num + manager["actor"].gpu + manager["rollout"].gpu
           + manager["inference"].gpu = ClusterGpus
  BY DEF Conservation
<1> HIDE DEF p
<1>5. /\ available_gpu_num' >= 0
      /\ available_gpu_num' + manager'["actor"].gpu + manager'["rollout"].gpu
           + manager'["inference"].gpu = ClusterGpus
  BY <1>1, <1>2, <1>3, <1>4, SizesNat, SMT
<1> QED BY <1>5 DEF Conservation

LEMMA FinishRolloutInv == IInv /\ FinishRollout => IInv'
<1> SUFFICES ASSUME IInv, FinishRollout PROVE IInv' OBVIOUS
<1> DEFINE n == manager["rollout"].inst
<1>h. TypeOK /\ ManagersAgree /\ StateAgrees /\ InMainLoop /\ Counted
  BY DEF IInv, FinishRollout, InMainLoop, Counted
<1>n. n \in 0 .. n /\ n \in Nat /\ n * RolloutMP \in Int BY <1>h, TypeFacts, SizesNat, SMT
<1>m. RolloutSettled(n, n * RolloutMP)
  <2>1. Settle("rollout", Released("rollout", n), n * RolloutMP, 0)
    BY DEF FinishRollout, ReleaseAll, ModelParallelSize
  <2> HIDE DEF n
  <2> QED BY <1>h, <1>n, <2>1, SettleRollout DEF n
<1>r. manager'["rollout"].inst = 0 BY <1>m, <1>n, SMT DEF RolloutSettled, RolloutLost
<1>s. /\ ~LastIteration' /\ train_iter' = train_iter /\ phase' = "inference"
      /\ InMainLoop' /\ phase = "decide"
  BY DEF FinishRollout, InMainLoop, IInv, PhaseFacts, LastIteration
<1>1. TypeOK'
  BY <1>h, <1>m, <1>s DEF TypeOK, RolloutSettled, RolloutLost, FinishRollout, environment
<1>2. ManagersAgree' BY <1>m DEF RolloutSettled
<1>3. StateAgrees'
  <2>1. manager'["inference"] = manager["inference"]
    BY <1>m DEF RolloutSettled, RolloutLost
  <2>2. instance_num' = [c \in Components |-> manager'[c].inst] BY <1>m DEF RolloutSettled
  <2> QED BY <1>h, <1>r, <2>1, <2>2 DEF StateAgrees, FinishRollout, environment
<1>4. PhaseFacts' BY <1>r, <1>s DEF PhaseFacts, Finalizing
<1>5. Conservation' BY <1>h, <1>n, <1>m, RolloutConserves DEF IInv
<1>6. ReportsBound' BY <1>s, <1>h DEF IInv, ReportsBound, FinishRollout, environment
<1>7. Handshake' BY <1>s, <1>h DEF IInv, Handshake, Waiting, FinishRollout
<1>8. WorldAgrees'
  BY <1>m, <1>s, <1>h DEF IInv, WorldAgrees, FinishRollout, RolloutSettled, RolloutLost
<1>9. ActorSizeValid' BY DEF IInv, ActorSizeValid, FinishRollout
<1>10. TasksHaveAHome' BY <1>h, TypeFacts DEF TasksHaveAHome, FinishRollout, environment
<1> QED BY <1>1, <1>2, <1>3, <1>4, <1>5, <1>6, <1>7, <1>8, <1>9, <1>10 DEF IInv

(* A migration takes place only when sequences are running, so it leaves     *)
(* them an instance; those that it leaves have room for all of them.         *)
LEMMA MigrateFacts ==
  ASSUME IInv, MigrateRollout
  PROVE  /\ ReleaseNum \in Nat /\ RolloutSettled(ReleaseNum, ReleaseNum * RolloutMP)
         /\ manager'["rollout"].inst > 0
         /\ ReleaseNum > 0 => reported <= manager'["rollout"].inst * MaxRunning
<1> DEFINE n == ReleaseNum
           inst == manager["rollout"].inst
           r == ReleasableNum
<1>h. TypeOK /\ ManagersAgree /\ StateAgrees /\ InMainLoop
  BY DEF IInv, MigrateRollout, InMainLoop
<1>0. reported > 0 /\ inst > 0
  <2>1. reported \in Nat /\ reported # 0 BY <1>h, TypeFacts DEF MigrateRollout, FinishWanted
  <2>2. inst > 0 BY DEF IInv, PhaseFacts, MigrateRollout
  <2> QED BY <2>1, <2>2, SMT
<1>1. instance_num["actor"] = manager["actor"].inst
  BY <1>h DEF StateAgrees, Components
<1>2. /\ r \in Nat /\ n \in Nat /\ n <= r /\ r < inst /\ inst \in Nat
      /\ r > 0 => reported <= (inst - r) * MaxRunning
  BY <1>h, <1>0, <1>1, MigrationBound, TypeFacts
<1>m. RolloutSettled(n, n * RolloutMP)
  <2>1. Settle("rollout", Released("rollout", n), n * RolloutMP, 0) BY DEF MigrateRollout
  <2> HIDE DEF n, inst
  <2>2. n \in 0 .. inst BY <1>2, SMT
  <2>3. n * RolloutMP \in Int BY <1>2, SizesNat, SMT
  <2> QED BY <1>h, <2>1, <2>2, <2>3, SettleRollout DEF inst
<1>3. manager'["rollout"].inst = inst - n BY <1>m DEF RolloutSettled, RolloutLost
<1> HIDE DEF n, inst, r
<1>4. inst - n > 0 BY <1>2, SMT
<1>5. ASSUME n > 0 PROVE reported <= (inst - n) * MaxRunning
  <2>1. MaxRunning \in Nat /\ inst - r \in Int /\ inst - n \in Int /\ inst - r <= inst - n
    BY <1>2, SizesNat, SMT
  <2>2. (inst - r) * MaxRunning <= (inst - n) * MaxRunning BY <2>1, Monotone
  <2>3. reported <= (inst - r) * MaxRunning BY <1>2, <1>5, SMT
  <2>4. reported \in Nat /\ (inst - r) * MaxRunning \in Int /\ (inst - n) * MaxRunning \in Int
    BY <2>1, <1>h, TypeFacts, SMT
  <2> QED BY <2>2, <2>3, <2>4, SMT
<1> QED BY <1>2, <1>m, <1>3, <1>4, <1>5 DEF n

LEMMA MigrateRolloutInv == IInv /\ MigrateRollout => IInv'
<1> SUFFICES ASSUME IInv, MigrateRollout PROVE IInv' OBVIOUS
<1> DEFINE n == ReleaseNum
<1>h. TypeOK /\ ManagersAgree /\ StateAgrees /\ InMainLoop /\ Counted
  BY DEF IInv, MigrateRollout, InMainLoop, Counted
<1>m. n \in Nat /\ RolloutSettled(n, n * RolloutMP) /\ manager'["rollout"].inst > 0
  BY MigrateFacts
<1> HIDE DEF n
<1>s. /\ ~LastIteration' /\ train_iter' = train_iter /\ phase' = "inference"
      /\ InMainLoop' /\ phase = "decide" /\ manager["rollout"].inst > 0
      /\ UseWait => train_iter # NMinibatches - 2
  BY DEF MigrateRollout, FinishWanted, InMainLoop, IInv, PhaseFacts, LastIteration
<1>1. TypeOK'
  BY <1>h, <1>m, <1>s DEF TypeOK, RolloutSettled, RolloutLost, MigrateRollout, environment
<1>2. ManagersAgree' BY <1>m DEF RolloutSettled
<1>3. StateAgrees'
  <2>1. manager'["inference"] = manager["inference"]
    BY <1>m DEF RolloutSettled, RolloutLost
  <2>2. instance_num' = [c \in Components |-> manager'[c].inst] BY <1>m DEF RolloutSettled
  <2>3. manager["rollout"].inst # 0 BY <1>s, <1>h, TypeFacts, SMT
  <2> QED BY <1>h, <2>1, <2>2, <2>3 DEF StateAgrees, MigrateRollout, environment
<1>4. PhaseFacts' BY <1>s DEF PhaseFacts, Finalizing
<1>5. Conservation' BY <1>h, <1>m, RolloutConserves DEF IInv
<1>6. ReportsBound' BY <1>s, <1>h DEF IInv, ReportsBound, MigrateRollout, environment
<1>7. Handshake' BY <1>s, <1>h DEF IInv, Handshake, Waiting, MigrateRollout
<1>8. WorldAgrees'
  BY <1>m, <1>s, <1>h DEF IInv, WorldAgrees, MigrateRollout, RolloutSettled, RolloutLost
<1>9. ActorSizeValid' BY DEF IInv, ActorSizeValid, MigrateRollout
<1>10. TasksHaveAHome' BY <1>m DEF TasksHaveAHome
<1> QED BY <1>1, <1>2, <1>3, <1>4, <1>5, <1>6, <1>7, <1>8, <1>9, <1>10 DEF IInv

LEMMA SkipRolloutInv == IInv /\ SkipRollout => IInv'
<1> SUFFICES ASSUME IInv, SkipRollout PROVE IInv' OBVIOUS
<1> DEFINE n == manager["rollout"].inst
<1>h. /\ TypeOK /\ ManagersAgree /\ StateAgrees /\ InMainLoop /\ Counted /\ InMainLoop'
      /\ phase = "rollout" /\ phase' = "inference" /\ train_iter' = train_iter
  BY DEF IInv, SkipRollout, InMainLoop, Counted
<1>n. n \in 0 .. n /\ n \in Nat /\ 0 \in Int BY <1>h, TypeFacts, SMT
<1>m. RolloutSettled(n, 0)
  <2>1. CASE LastIteration /\ n > 0
    <3>1. Settle("rollout", Released("rollout", n), 0, 0) BY <2>1 DEF SkipRollout
    <3> HIDE DEF n
    <3> QED BY <1>h, <1>n, <3>1, SettleRollout DEF n
  <2>2. CASE ~(LastIteration /\ n > 0)
    <3>1. Settle("rollout", manager["rollout"], 0, 0) BY <2>2 DEF SkipRollout, ReleaseNothing
    <3>2. n = 0 BY <2>2, <1>n, SMT DEF SkipRollout
    <3>3. manager["rollout"] = Released("rollout", n)
      <4>1. manager["rollout"] \in [inst : Nat, gpu : Nat, offset : Int]
        BY <1>h DEF TypeOK, Components
      <4>2. Released("rollout", n) = [inst   |-> manager["rollout"].inst - n,
                                     gpu    |-> manager["rollout"].gpu - n * RolloutMP,
                                     offset |-> manager["rollout"].offset + n]
        BY DEF Released, ModelParallelSize
      <4>3. n * RolloutMP = 0 BY <3>2, SizesNat, SMT
      <4>4. /\ manager["rollout"].inst - n = manager["rollout"].inst
            /\ manager["rollout"].gpu - n * RolloutMP = manager["rollout"].gpu
            /\ manager["rollout"].offset + n = manager["rollout"].offset
        BY <3>2, <4>3, <1>h, TypeFacts, SMT
      <4> QED BY <4>1, <4>2, <4>4
    <3>4. Settle("rollout", Released("rollout", n), 0, 0) BY <3>1, <3>3
    <3> HIDE DEF n
    <3> QED BY <1>h, <1>n, <3>4, SettleRollout DEF n
  <2> QED BY <2>1, <2>2
<1>r. manager'["rollout"].inst = 0 BY <1>m, <1>n, SMT DEF RolloutSettled, RolloutLost
<1>1. TypeOK'
  BY <1>h, <1>m DEF TypeOK, RolloutSettled, RolloutLost, SkipRollout, environment
<1>2. ManagersAgree' BY <1>m DEF RolloutSettled
<1>3. StateAgrees'
  <2>1. manager'["inference"] = manager["inference"]
    BY <1>m DEF RolloutSettled, RolloutLost
  <2>2. instance_num' = [c \in Components |-> manager'[c].inst] BY <1>m DEF RolloutSettled
  <2> QED BY <1>h, <1>r, <2>1, <2>2 DEF StateAgrees, SkipRollout, environment
<1>c. /\ available_gpu_num >= 0 /\ available_gpu_num \in Int
      /\ available_gpu_num + manager["actor"].gpu + manager["rollout"].gpu
           + manager["inference"].gpu = ClusterGpus
  BY <1>h DEF IInv, Conservation, TypeOK
<1>4. PhaseFacts'
  <2>1. ASSUME manager["inference"].inst > 0
        PROVE  manager["actor"].gpu + InferenceGpus <= ClusterGpus
    <3>1. manager["inference"].gpu = InferenceGpus
      BY <2>1, <1>h DEF ManagersAgree, InferenceGpus
    <3> QED BY <3>1, <1>c, <1>h, TypeFacts, SizesNat, SMT
  <2>2. /\ manager'["inference"] = manager["inference"]
        /\ manager'["actor"] = manager["actor"]
    BY <1>m DEF RolloutSettled, RolloutLost
  <2> QED BY <2>1, <2>2, <1>r, <1>h DEF PhaseFacts, Finalizing
<1>5. Conservation'
  <2>1. SUFFICES ASSUME ~LastIteration PROVE Conservation'
    BY <1>h DEF Conservation, Counted, LastIteration
  <2>2. n = 0 BY <2>1, <1>n DEF SkipRollout
  <2>3. RolloutSettled(0, 0 * RolloutMP)
    <3>1. 0 * RolloutMP = 0 BY SizesNat, SMT
    <3> QED BY <1>m, <2>2, <3>1
  <2> QED BY <1>h, <2>3, RolloutConserves DEF IInv
<1>6. ReportsBound' BY <1>h DEF IInv, ReportsBound, SkipRollout, environment
<1>7. Handshake' BY <1>h DEF IInv, Handshake, Waiting, SkipRollout
<1>8. WorldAgrees'
  BY <1>m, <1>h DEF IInv, WorldAgrees, SkipRollout, RolloutSettled, RolloutLost
<1>9. ActorSizeValid' BY DEF IInv, ActorSizeValid, SkipRollout
<1>10. TasksHaveAHome'
  <2>1. running' = running BY DEF SkipRollout, environment
  <2>2. n > 0 => running = 0 BY <1>n DEF SkipRollout
  <2>3. running > 0 => n > 0 BY <1>h DEF IInv, TasksHaveAHome
  <2>4. ~(running > 0) BY <2>2, <2>3, <1>h, TypeFacts, SMT
  <2> QED BY <2>1, <2>4 DEF TasksHaveAHome
<1> QED BY <1>1, <1>2, <1>3, <1>4, <1>5, <1>6, <1>7, <1>8, <1>9, <1>10 DEF IInv

LEMMA ResetManagersInv == IInv /\ ResetManagers => IInv'
<1> SUFFICES ASSUME IInv, ResetManagers PROVE IInv' OBVIOUS
<1>h. TypeOK /\ ManagersAgree /\ StateAgrees /\ PhaseFacts /\ Handshake /\ WorldAgrees
  BY DEF IInv
<1>m. /\ manager' \in [Components -> [inst : Nat, gpu : Nat, offset : Int]]
      /\ manager'["actor"] = [inst |-> ActorDp, gpu |-> ActorGpus, offset |-> 0]
      /\ manager'["rollout"] = manager["rollout"]
      /\ manager'["inference"] = [inst |-> InferenceDp, gpu |-> InferenceGpus, offset |-> 0]
  <2>1. /\ Initial("actor") = [inst |-> ActorDp, gpu |-> ActorGpus, offset |-> 0]
        /\ Initial("inference") = [inst |-> InferenceDp, gpu |-> InferenceGpus, offset |-> 0]
    BY DEF Initial
  <2>2. /\ Initial("actor") \in [inst : Nat, gpu : Nat, offset : Int]
        /\ Initial("inference") \in [inst : Nat, gpu : Nat, offset : Int]
    BY <2>1, SizesNat
  <2> QED BY <1>h, <2>1, <2>2 DEF ResetManagers, TypeOK, Components
<1>s. /\ phase = "reset" /\ phase' = "await_actor" /\ train_iter' = 0 /\ InMainLoop'
      /\ available_gpu_num' = 0
      /\ instance_num' = [c \in Components |-> manager'[c].inst]
      /\ instance_num' \in [Components -> Nat]
      /\ 0 \in 0 .. NMinibatches - 1
  <2>1. \A c \in Components : manager'[c].inst \in Nat BY <1>m
  <2>2. 0 \in 0 .. NMinibatches - 1 BY SizesNat, SMT
  <2>3. instance_num' = [c \in Components |-> manager'[c].inst] BY DEF ResetManagers
  <2> QED BY <2>1, <2>2, <2>3 DEF ResetManagers, InMainLoop
<1>q. /\ Len(request) = 0 /\ actor.iter = 0
      /\ UsePreProcess => actor.doing = "starting"
      /\ actor.world = manager["actor"].gpu /\ manager["actor"].gpu = ActorGpus
  <2>1. /\ Len(request) = 0 /\ actor.iter = 0
        /\ UsePreProcess => actor.doing = "starting"
    BY <1>h, <1>s DEF Handshake, Waiting
  <2>2. actor.world = manager["actor"].gpu BY <1>h, <2>1 DEF WorldAgrees
  <2> QED BY <1>h, <1>s, <2>1, <2>2 DEF PhaseFacts
<1>r. /\ request' \in Seq(Nat)
      /\ UsePreProcess => Len(request') = 1 /\ request'[1] = 0
      /\ ~UsePreProcess => request' = request /\ Len(request') = 0
  <2>1. CASE UsePreProcess
    <3>1. request' = Append(request, 0) BY <2>1 DEF ResetManagers
    <3>2. Len(request) + 1 = 1 BY <1>q
    <3> QED BY <2>1, <3>1, <3>2, <1>h, GiveAnswer
  <2>2. CASE ~UsePreProcess BY <2>2, <1>h, <1>q DEF ResetManagers, TypeOK
  <2> QED BY <2>1, <2>2
<1>u. UNCHANGED <<reported, environment, actor, response>> BY DEF ResetManagers
<1>1. TypeOK'
  <2>1. /\ phase' \in {"idle", "lend", "reset", "await_actor", "rollout", "decide",
                       "inference", "actor"}
        /\ train_iter' \in 0 .. NMinibatches - 1 /\ available_gpu_num' \in Int
    BY <1>s
  <2> QED BY <1>h, <1>m, <1>r, <1>s, <1>u, <2>1 DEF TypeOK, environment
<1>2. ManagersAgree'
  BY <1>h, <1>m, ActorAssumption DEF ManagersAgree, ActorGpus, InferenceGpus
<1>3. StateAgrees'
  <2>1. InferenceDp = 0 \/ InferenceDp # 0 OBVIOUS
  <2>2. InferenceDp > 0 => InferenceDp # 0 BY SizesNat, SMT
  <2>3. manager'["inference"].inst = InferenceDp BY <1>m
  <2> QED BY <1>h, <1>s, <2>1, <2>2, <2>3 DEF StateAgrees, ResetManagers, environment
<1>4. PhaseFacts' BY <1>s DEF PhaseFacts, Finalizing
<1>5. Conservation'
  <2>1. ActorGpus + manager["rollout"].gpu + InferenceGpus = ClusterGpus
    BY <1>h, <1>s DEF PhaseFacts
  <2> QED BY <1>m, <1>s, <2>1, <1>h, TypeFacts, SizesNat DEF Conservation
<1>6. ReportsBound' BY <1>s DEF IInv, ReportsBound, ResetManagers, environment
<1>7. Handshake'
  <2>1. \/ Waiting("starting", 0, 0, 0)
        \/ ~UsePreProcess /\ (Waiting("training", 0, 0, 0) \/ Waiting("syncing", 0, 1, 0))
    BY <1>h, <1>s DEF Handshake
  <2>2. actor' = actor /\ response' = response BY DEF ResetManagers
  <2> QED BY <1>r, <1>s, <2>1, <2>2 DEF Handshake, Waiting
<1>8. WorldAgrees'
  <2>1. actor' = actor BY DEF ResetManagers
  <2>2. actor.world <= ActorGpus BY <1>q, SizesNat, SMT
  <2>3. manager'["actor"].gpu = ActorGpus BY <1>m
  <2>4. Len(request') = 1 => request'[1] = 0
    BY <1>r
  <2> QED BY <1>q, <2>1, <2>2, <2>3, <2>4 DEF WorldAgrees
<1>9. ActorSizeValid' BY DEF IInv, ActorSizeValid, ResetManagers
<1>10. TasksHaveAHome' BY <1>m, <1>s DEF IInv, TasksHaveAHome, ResetManagers, environment
<1> QED BY <1>1, <1>2, <1>3, <1>4, <1>5, <1>6, <1>7, <1>8, <1>9, <1>10 DEF IInv

(* Inference keeps its GPUs, or loses all of them after it has offloaded     *)
(* and, with the wait policy, after rollout has lost its last.               *)
LEMMA ReleaseInferenceInv == IInv /\ ReleaseInference => IInv'
<1> SUFFICES ASSUME IInv, ReleaseInference PROVE IInv' OBVIOUS
<1> DEFINE i == manager["inference"]
<1>h. /\ TypeOK /\ ManagersAgree /\ StateAgrees /\ InMainLoop /\ Counted /\ InMainLoop'
      /\ phase = "inference" /\ phase' = "actor" /\ train_iter' = train_iter
      /\ ~LastIteration /\ ~LastIteration' /\ i.inst > 0
  BY DEF IInv, ReleaseInference, InMainLoop, Counted, LastIteration
<1>i. /\ i \in [inst : Nat, gpu : Nat, offset : Int]
      /\ i.gpu = i.inst * InferenceMP /\ InferenceMP \in Nat \ {0}
      /\ available_gpu_num \in Int
  BY <1>h, SizesNat DEF TypeOK, Components, ManagersAgree
<1>j. i.inst \in Nat /\ i.gpu \in Nat /\ i.offset \in Int BY <1>i
<1>a. \/ /\ Settle("inference", i, 0, 0)
      \/ /\ Settle("inference", Released("inference", i.inst), i.inst * InferenceMP, 0)
         /\ inferenceDone /\ (UseWait => NeedWaitForFinish)
  BY DEF ReleaseInference, ReleaseAll, ReleaseNothing, ModelParallelSize
<1>b. Released("inference", i.inst) = [inst |-> 0, gpu |-> 0, offset |-> i.offset + i.inst]
  <2>1. Released("inference", i.inst) = [inst   |-> i.inst - i.inst,
                                        gpu    |-> i.gpu - i.inst * InferenceMP,
                                        offset |-> i.offset + i.inst]
    BY DEF Released, ModelParallelSize
  <2> HIDE DEF i
  <2>2. i.inst - i.inst = 0 /\ i.gpu - i.inst * InferenceMP = 0 BY <1>i, <1>j, SMT
  <2> QED BY <2>1, <2>2
<1>m. /\ manager' \in [Components -> [inst : Nat, gpu : Nat, offset : Int]]
      /\ manager'["actor"] = manager["actor"] /\ manager'["rollout"] = manager["rollout"]
      /\ instance_num' = [c \in Components |-> manager'[c].inst]
      /\ instance_num' \in [Components -> Nat]
      /\ \/ manager'["inference"] = i /\ available_gpu_num' = available_gpu_num
         \/ /\ manager'["inference"].inst = 0 /\ manager'["inference"].gpu = 0
            /\ available_gpu_num' = available_gpu_num + i.gpu
            /\ inferenceDone /\ (UseWait => NeedWaitForFinish)
  <2>0. /\ instance_num = [c \in Components |-> manager[c].inst]
        /\ manager \in [Components -> [inst : Nat, gpu : Nat, offset : Int]]
    BY <1>h DEF StateAgrees, TypeOK
  <2>1. ASSUME NEW m \in [inst : Nat, gpu : Nat, offset : Int], NEW rel \in Nat,
               Settle("inference", m, rel, 0)
        PROVE  /\ manager' \in [Components -> [inst : Nat, gpu : Nat, offset : Int]]
               /\ manager'["actor"] = manager["actor"] /\ manager'["rollout"] = manager["rollout"]
               /\ manager'["inference"] = m
               /\ available_gpu_num' = available_gpu_num + rel
               /\ instance_num' = [c \in Components |-> manager'[c].inst]
               /\ instance_num' \in [Components -> Nat]
    <3>1. /\ manager' = [manager EXCEPT !["inference"] = m]
          /\ available_gpu_num' = available_gpu_num + rel - 0
          /\ instance_num' = [instance_num EXCEPT !["inference"] = m.inst]
      BY <2>1 DEF Settle
    <3>2. /\ manager' \in [Components -> [inst : Nat, gpu : Nat, offset : Int]]
          /\ manager'["actor"] = manager["actor"] /\ manager'["rollout"] = manager["rollout"]
          /\ manager'["inference"] = m
      BY <2>0, <3>1 DEF Components
    <3>3. available_gpu_num' = available_gpu_num + rel BY <1>i, <3>1, SMT
    <3>4. instance_num' = [c \in Components |-> manager'[c].inst]
      BY <2>0, <3>1, <3>2 DEF Components
    <3>5. instance_num' \in [Components -> Nat] BY <3>2, <3>4
    <3> QED BY <3>2, <3>3, <3>4, <3>5
  <2>2. CASE Settle("inference", i, 0, 0)
    <3>1. available_gpu_num + 0 = available_gpu_num BY <1>i, SMT
    <3> QED BY <2>1, <2>2, <1>i, <3>1
  <2>3. CASE /\ Settle("inference", Released("inference", i.inst), i.inst * InferenceMP, 0)
             /\ inferenceDone /\ (UseWait => NeedWaitForFinish)
    <3>1. i.offset + i.inst \in Int BY <1>j, SMT
    <3>2. Released("inference", i.inst) \in [inst : Nat, gpu : Nat, offset : Int]
      BY <1>b, <3>1
    <3>3. Released("inference", i.inst).inst = 0 /\ Released("inference", i.inst).gpu = 0
      BY <1>b
    <3>4. i.inst * InferenceMP \in Nat /\ i.inst * InferenceMP = i.gpu BY <1>i, <1>j
    <3> QED BY <2>1, <2>3, <3>2, <3>3, <3>4
  <2> QED BY <1>a, <2>2, <2>3
<1>k. UseWait /\ NeedWaitForFinish => manager["rollout"].inst = 0
  <2>1. instance_num["rollout"] = manager["rollout"].inst BY <1>h DEF StateAgrees, Components
  <2> QED BY <1>h, <2>1 DEF IInv, PhaseFacts, NeedWaitForFinish
<1>u. UNCHANGED <<train_iter, reported, environment, actor, request, response>>
  BY DEF ReleaseInference
<1>1. TypeOK'
  <2>1. available_gpu_num' \in Int BY <1>m, <1>i, <1>j, SMT
  <2> QED BY <1>h, <1>m, <1>u, <2>1 DEF TypeOK, environment
<1>2. ManagersAgree'
  <2>1. 0 * InferenceMP = 0 BY SizesNat, SMT
  <2>2. /\ manager'["inference"].inst \in {0, InferenceDp}
        /\ manager'["inference"].gpu = manager'["inference"].inst * InferenceMP
    BY <1>h, <1>m, <2>1 DEF ManagersAgree
  <2> QED BY <1>h, <1>m, <2>2 DEF ManagersAgree
<1>3. StateAgrees'
  <2>1. i.inst # 0 BY <1>h, <1>j, SMT
  <2>2. manager'["inference"].inst = 0 => inferenceDone /\ (UseWait => manager["rollout"].inst = 0)
    BY <1>m, <1>k, <2>1
  <2> QED BY <1>h, <1>m, <1>u, <2>2 DEF StateAgrees, environment
<1>4. PhaseFacts' BY <1>h DEF PhaseFacts, Finalizing
<1>5. Conservation'
  <2>1. /\ available_gpu_num >= 0
        /\ available_gpu_num + manager["actor"].gpu + manager["rollout"].gpu + i.gpu
             = ClusterGpus
    BY <1>h DEF IInv, Conservation
  <2>2. \/ manager'["inference"].gpu = i.gpu /\ available_gpu_num' = available_gpu_num
        \/ manager'["inference"].gpu = 0 /\ available_gpu_num' = available_gpu_num + i.gpu
    BY <1>m
  <2>3. /\ manager["actor"].gpu \in Nat /\ manager["rollout"].gpu \in Nat
        /\ manager'["actor"].gpu = manager["actor"].gpu
        /\ manager'["rollout"].gpu = manager["rollout"].gpu
    BY <1>h, <1>m, TypeFacts
  <2> HIDE DEF i
  <2>4. /\ available_gpu_num' >= 0
        /\ available_gpu_num' + manager'["actor"].gpu + manager'["rollout"].gpu
             + manager'["inference"].gpu = ClusterGpus
    BY <2>1, <2>2, <2>3, <1>i, <1>j, SizesNat, SMT
  <2> QED BY <2>4 DEF Conservation
<1>6. ReportsBound' BY <1>h, <1>u DEF IInv, ReportsBound, environment
<1>7. Handshake' BY <1>h, <1>u DEF IInv, Handshake, Waiting
<1>8. WorldAgrees' BY <1>h, <1>m, <1>u DEF IInv, WorldAgrees
<1>9. ActorSizeValid' BY <1>u DEF IInv, ActorSizeValid
<1>10. TasksHaveAHome' BY <1>h, <1>m, <1>u DEF IInv, TasksHaveAHome, environment
<1> QED BY <1>1, <1>2, <1>3, <1>4, <1>5, <1>6, <1>7, <1>8, <1>9, <1>10 DEF IInv

-----------------------------------------------------------------------------
(* The actor's new size.                                                     *)

(* The actor's counters once it has the size of d instances.                 *)
ActorSettled(d, incremental) ==
  /\ manager' \in [Components -> [inst : Nat, gpu : Nat, offset : Int]]
  /\ manager'["actor"].inst = d /\ manager'["actor"].gpu = d * ActorMP
  /\ manager'["rollout"] = manager["rollout"]
  /\ manager'["inference"] = manager["inference"]
  /\ available_gpu_num' = available_gpu_num - incremental /\ available_gpu_num' \in Int
  /\ instance_num' = [c \in Components |-> manager'[c].inst]
  /\ instance_num' \in [Components -> Nat]
  /\ request' \in Seq(Nat) /\ Len(request') = Len(request) + 1
  /\ \/ request'[Len(request) + 1] = d * ActorMP
     \/ request'[Len(request) + 1] = 0 /\ manager["actor"].gpu = d * ActorMP

LEMMA ScaledIs ==
  ASSUME TypeOK, ManagersAgree
  PROVE  \A d \in ValidDpSizes :
           /\ d * ActorMP \in Nat /\ d \in Nat
           /\ Scaled(d * ActorMP) \in [inst : Nat, gpu : Nat, offset : Int]
           /\ Scaled(d * ActorMP).inst = d /\ Scaled(d * ActorMP).gpu = d * ActorMP
<1> TAKE d \in ValidDpSizes
<1> DEFINE a == manager["actor"]
<1>1. /\ d \in Nat \ {0} /\ a.inst \in Nat \ {0} /\ ActorMP \in Nat \ {0} /\ a.offset \in Int
      /\ a.gpu = a.inst * ActorMP /\ a \in [inst : Nat, gpu : Nat, offset : Int]
  BY ValidSizesBounded, SizesNat, TypeFacts DEF ManagersAgree, TypeOK, Components
<1>2. d * ActorMP \in Nat /\ a.gpu \in Nat BY <1>1, ProductNat
<1>3. (d * ActorMP) \div ActorMP = d BY <1>1, Quotient
<1>g. Grown("actor", d - a.inst) = [inst   |-> a.inst + (d - a.inst),
                                   gpu    |-> (a.inst + (d - a.inst)) * ActorMP,
                                   offset |-> a.offset - (d - a.inst)]
  BY DEF Grown, ModelParallelSize
<1>r. Released("actor", a.inst - d) = [inst   |-> a.inst - (a.inst - d),
                                      gpu    |-> a.gpu - (a.inst - d) * ActorMP,
                                      offset |-> a.offset + (a.inst - d)]
  BY DEF Released, ModelParallelSize
<1>s. Scaled(d * ActorMP) =
        IF d * ActorMP > a.gpu THEN Grown("actor", d - a.inst)
        ELSE IF d * ActorMP < a.gpu THEN Released("actor", a.inst - d) ELSE a
  BY <1>3 DEF Scaled
<1> HIDE DEF a
<1>4. CASE d * ActorMP > a.gpu
  <2>1. a.inst + (d - a.inst) = d /\ a.offset - (d - a.inst) \in Int BY <1>1, SMT
  <2>2. Scaled(d * ActorMP) = Grown("actor", d - a.inst) BY <1>4, <1>s
  <2> QED BY <1>1, <1>2, <1>g, <2>1, <2>2
<1>5. CASE ~(d * ActorMP > a.gpu) /\ d * ActorMP < a.gpu
  <2>1. a.inst - (a.inst - d) = d /\ a.offset + (a.inst - d) \in Int BY <1>1, SMT
  <2>2. (a.inst - d) * ActorMP = a.inst * ActorMP - d * ActorMP BY <1>1, Distribute
  <2>3. a.gpu - (a.inst - d) * ActorMP = d * ActorMP BY <1>1, <1>2, <2>2, SMT
  <2>4. Scaled(d * ActorMP) = Released("actor", a.inst - d) BY <1>5, <1>s
  <2> QED BY <1>1, <1>2, <1>r, <2>1, <2>3, <2>4
<1>6. CASE ~(d * ActorMP > a.gpu) /\ ~(d * ActorMP < a.gpu)
  <2>1. d * ActorMP = a.gpu BY <1>2, <1>6, SMT
  <2>2. d <= a.inst /\ a.inst <= d
    <3>1. d * ActorMP <= a.inst * ActorMP /\ a.inst * ActorMP <= d * ActorMP
      BY <1>1, <1>2, <2>1, SMT
    <3> QED BY <1>1, <3>1, Cancel
  <2>3. d = a.inst BY <1>1, <2>2, SMT
  <2>4. Scaled(d * ActorMP) = a BY <1>6, <1>s
  <2> QED BY <1>1, <1>2, <2>1, <2>3, <2>4
<1> QED BY <1>4, <1>5, <1>6

LEMMA SettleActor ==
  ASSUME TypeOK, ManagersAgree, StateAgrees, InMainLoop
  PROVE  \A d \in ValidDpSizes, incremental \in Int :
           ScaleActor(d * ActorMP, incremental) => ActorSettled(d, incremental)
<1> SUFFICES ASSUME NEW d \in ValidDpSizes, NEW incremental \in Int,
                    ScaleActor(d * ActorMP, incremental)
             PROVE  ActorSettled(d, incremental)
  OBVIOUS
<1> DEFINE m == Scaled(d * ActorMP)
<1>1. /\ d * ActorMP \in Nat /\ m \in [inst : Nat, gpu : Nat, offset : Int]
      /\ m.inst = d /\ m.gpu = d * ActorMP /\ d \in Nat
  BY ScaledIs
<1>2. /\ manager' = [manager EXCEPT !["actor"] = m]
      /\ available_gpu_num' = available_gpu_num + 0 - incremental
      /\ instance_num' = [instance_num EXCEPT !["actor"] = m.inst]
      /\ request' = Append(request, IF d * ActorMP = manager["actor"].gpu THEN 0
                                                                         ELSE d * ActorMP)
  BY DEF ScaleActor, Settle
<1>0. /\ instance_num = [c \in Components |-> manager[c].inst]
      /\ manager \in [Components -> [inst : Nat, gpu : Nat, offset : Int]]
      /\ available_gpu_num \in Int
  BY DEF StateAgrees, TypeOK
<1> HIDE DEF m
<1>3. /\ manager' \in [Components -> [inst : Nat, gpu : Nat, offset : Int]]
      /\ manager'["rollout"] = manager["rollout"]
      /\ manager'["inference"] = manager["inference"]
      /\ manager'["actor"] = m
  BY <1>0, <1>1, <1>2 DEF Components
<1>4. available_gpu_num' = available_gpu_num - incremental /\ available_gpu_num' \in Int
  BY <1>0, <1>2, SMT
<1>5. instance_num' = [c \in Components |-> manager'[c].inst]
  BY <1>0, <1>2, <1>3 DEF Components
<1>6. instance_num' \in [Components -> Nat] BY <1>3, <1>5
<1>7. /\ request' \in Seq(Nat) /\ Len(request') = Len(request) + 1
      /\ \/ request'[Len(request) + 1] = d * ActorMP
         \/ request'[Len(request) + 1] = 0 /\ manager["actor"].gpu = d * ActorMP
  <2>1. CASE d * ActorMP = manager["actor"].gpu
    <3>1. request' = Append(request, 0) BY <1>2, <2>1
    <3> QED BY <2>1, <3>1, GiveAnswer
  <2>2. CASE d * ActorMP # manager["actor"].gpu
    <3>1. request' = Append(request, d * ActorMP) BY <1>2, <2>2
    <3> QED BY <1>1, <3>1, GiveAnswer
  <2> QED BY <2>1, <2>2
<1> QED BY <1>1, <1>3, <1>4, <1>5, <1>6, <1>7 DEF ActorSettled

(* What the actor is given: nothing, or what leads to a larger valid size    *)
(* within the available GPUs.                                                *)
LEMMA AllocationFacts ==
  ASSUME TypeOK, ManagersAgree, available_gpu_num >= 0
  PROVE  /\ Incremental \in Nat /\ Incremental <= available_gpu_num
         /\ \E d \in ValidDpSizes : /\ manager["actor"].gpu + Incremental = d * ActorMP
                                   /\ d >= manager["actor"].inst
<1> DEFINE inst == manager["actor"].inst
<1>1. /\ inst \in ValidDpSizes /\ available_gpu_num \in Nat
      /\ manager["actor"].gpu = inst * ActorMP /\ inst \in Nat /\ ActorMP \in Nat
  <2>1. available_gpu_num \in Int BY DEF TypeOK
  <2>2. available_gpu_num \in Nat BY <2>1, SMT
  <2> QED BY <2>2, TypeFacts, SizesNat DEF ManagersAgree
<1>2. CASE Incremental = 0
  <2>1. manager["actor"].gpu + 0 = inst * ActorMP /\ inst >= inst /\ 0 <= available_gpu_num
    BY <1>1, ProductNat, SMT
  <2> QED BY <1>1, <1>2, <2>1
<1>3. CASE Incremental # 0
  <2>1. Incremental = Growth(inst, available_gpu_num) BY <1>3 DEF Incremental
  <2> HIDE DEF inst
  <2>2. PICK d \in ValidDpSizes : /\ d > inst
                                  /\ Incremental = (d - inst) * ActorMP
                                  /\ Incremental \in 1 .. available_gpu_num
    BY <1>1, <1>3, <2>1, GrowthValid
  <2>3. d \in Nat BY ValidSizesBounded
  <2>4. (d - inst) * ActorMP = d * ActorMP - inst * ActorMP BY <1>1, <2>3, Distribute
  <2>5. inst * ActorMP \in Nat /\ d * ActorMP \in Nat BY <1>1, <2>3, ProductNat
  <2>6. manager["actor"].gpu + Incremental = d * ActorMP BY <1>1, <2>2, <2>4, <2>5, SMT
  <2>7. Incremental \in Nat /\ Incremental <= available_gpu_num /\ d >= inst
    BY <1>1, <2>2, <2>3, SMT
  <2> QED BY <2>6, <2>7 DEF inst
<1> QED BY <1>2, <1>3

LEMMA AllocateActorInv == IInv /\ AllocateActor => IInv'
<1> SUFFICES ASSUME IInv, AllocateActor PROVE IInv' OBVIOUS
<1> DEFINE inc == Incremental
<1>h. /\ TypeOK /\ ManagersAgree /\ StateAgrees /\ InMainLoop /\ Counted /\ InMainLoop'
      /\ Conservation /\ Handshake /\ WorldAgrees
      /\ phase = "actor" /\ phase' = "await_actor" /\ train_iter' = train_iter + 1
      /\ ~LastIteration
  BY DEF IInv, AllocateActor, InMainLoop, Counted
<1>c. /\ available_gpu_num >= 0
      /\ available_gpu_num + manager["actor"].gpu + manager["rollout"].gpu
           + manager["inference"].gpu = ClusterGpus
  BY <1>h DEF Conservation
<1>i. inc \in Nat /\ inc <= available_gpu_num BY <1>h, <1>c, AllocationFacts
<1>d. PICK d \in ValidDpSizes : /\ manager["actor"].gpu + inc = d * ActorMP
                                /\ d >= manager["actor"].inst
  BY <1>h, <1>c, AllocationFacts
<1>m. ActorSettled(d, inc)
  <2>1. ScaleActor(manager["actor"].gpu + inc, inc) BY DEF AllocateActor
  <2>2. ScaleActor(d * ActorMP, inc) BY <1>d, <2>1
  <2> HIDE DEF inc
  <2> QED BY <1>h, <1>i, <2>2, SettleActor
<1>u. UNCHANGED <<reported, environment, actor, response>> BY DEF AllocateActor
<1>q. Waiting("syncing", 0, 0, train_iter) BY <1>h DEF Handshake
<1> HIDE DEF inc
<1>t. train_iter' \in 0 .. NMinibatches - 1 /\ train_iter' - 1 = train_iter
  BY <1>h, TypeFacts, SizesNat, SMT DEF LastIteration
<1>g. /\ manager["actor"].gpu \in Nat /\ manager["rollout"].gpu \in Nat
      /\ manager["inference"].gpu \in Nat /\ available_gpu_num \in Int /\ actor.world \in Nat
  BY <1>h, TypeFacts DEF TypeOK
<1>1. TypeOK' BY <1>h, <1>m, <1>t, <1>u DEF TypeOK, ActorSettled, environment
<1>2. ManagersAgree' BY <1>h, <1>m DEF ManagersAgree, ActorSettled
<1>3. StateAgrees' BY <1>h, <1>m, <1>u DEF StateAgrees, ActorSettled, environment
<1>4. PhaseFacts' BY <1>h DEF PhaseFacts, Finalizing
<1>5. Conservation'
  <2>1. /\ manager'["actor"].gpu = manager["actor"].gpu + inc
        /\ manager'["rollout"].gpu = manager["rollout"].gpu
        /\ manager'["inference"].gpu = manager["inference"].gpu
        /\ available_gpu_num' = available_gpu_num - inc
    BY <1>d, <1>m DEF ActorSettled
  <2>2. /\ available_gpu_num' >= 0
        /\ available_gpu_num' + manager'["actor"].gpu + manager'["rollout"].gpu
             + manager'["inference"].gpu = ClusterGpus
    BY <2>1, <1>c, <1>g, <1>i, SizesNat, SMT
  <2> QED BY <2>2 DEF Conservation
<1>6. ReportsBound' BY <1>h, <1>u DEF IInv, ReportsBound, environment
<1>r. /\ Len(request') = 1
      /\ \/ request'[1] = d * ActorMP
         \/ request'[1] = 0 /\ manager["actor"].gpu = d * ActorMP
  <2>1. Len(request) = 0 /\ Len(request) + 1 = 1 BY <1>q DEF Waiting
  <2> QED BY <1>m, <2>1 DEF ActorSettled
<1>7. Handshake' BY <1>h, <1>q, <1>r, <1>t, <1>u DEF Handshake, Waiting
<1>8. WorldAgrees'
  <2>1. actor.world = manager["actor"].gpu BY <1>h, <1>q DEF WorldAgrees, Waiting
  <2>2. actor.world <= d * ActorMP BY <2>1, <1>d, <1>g, <1>i, SMT
  <2>3. actor' = actor /\ manager'["actor"].gpu = d * ActorMP /\ actor.doing = "syncing"
    BY <1>m, <1>u, <1>q DEF ActorSettled, Waiting
  <2>4. \/ request'[1] = 0 /\ actor.world = manager'["actor"].gpu
        \/ request'[1] = manager'["actor"].gpu
    BY <1>r, <2>1, <2>3
  <2> QED BY <1>r, <2>2, <2>3, <2>4, Zenon DEF WorldAgrees
<1>9. ActorSizeValid' BY <1>u DEF IInv, ActorSizeValid
<1>10. TasksHaveAHome' BY <1>h, <1>m, <1>u DEF IInv, TasksHaveAHome, ActorSettled, environment
<1> QED BY <1>1, <1>2, <1>3, <1>4, <1>5, <1>6, <1>7, <1>8, <1>9, <1>10 DEF IInv

LEMMA FinalizeActorInv == IInv /\ FinalizeActor => IInv'
<1> SUFFICES ASSUME IInv, FinalizeActor PROVE IInv' OBVIOUS
<1>h. /\ TypeOK /\ ManagersAgree /\ StateAgrees /\ InMainLoop
      /\ PhaseFacts /\ Handshake /\ WorldAgrees
      /\ phase = "actor" /\ phase' = "idle" /\ train_iter' = train_iter
      /\ LastIteration /\ LastIteration' /\ Finalizing
  BY DEF IInv, FinalizeActor, InMainLoop, LastIteration, Finalizing
<1>m. ActorSettled(ActorDp, 0)
  <2>1. ScaleActor(ActorDp * ActorMP, 0) BY DEF FinalizeActor, ActorGpus
  <2> QED BY <1>h, <2>1, SettleActor, ActorAssumption
<1>u. UNCHANGED <<reported, environment, actor, response>> BY DEF FinalizeActor
<1>q. Waiting("syncing", 0, 0, train_iter) BY <1>h DEF Handshake
<1>r. /\ Len(request') = 1
      /\ \/ request'[1] = ActorGpus
         \/ request'[1] = 0 /\ manager["actor"].gpu = ActorGpus
  <2>1. Len(request) = 0 /\ Len(request) + 1 = 1 BY <1>q DEF Waiting
  <2> QED BY <1>m, <2>1 DEF ActorSettled, ActorGpus
<1>1. TypeOK' BY <1>h, <1>m, <1>u DEF TypeOK, ActorSettled, environment
<1>2. ManagersAgree' BY <1>h, <1>m, ActorAssumption DEF ManagersAgree, ActorSettled
<1>3. StateAgrees' BY <1>h, <1>u DEF StateAgrees, InMainLoop, environment
<1>4. PhaseFacts'
  <2>1. manager'["actor"].gpu = ActorGpus BY <1>m DEF ActorSettled, ActorGpus
  <2>2. manager'["rollout"].inst = 0 /\ inferenceDone'
    BY <1>h, <1>m, <1>u DEF PhaseFacts, ActorSettled, environment
  <2> QED BY <1>h, <2>1, <2>2 DEF PhaseFacts, Finalizing
<1>5. Conservation' BY <1>h DEF Conservation, Counted
<1>6. ReportsBound' BY <1>h DEF ReportsBound, InMainLoop
<1>7. Handshake' BY <1>h, <1>q, <1>r, <1>u DEF Handshake, Waiting, InMainLoop, LastIteration
<1>8. WorldAgrees'
  <2>1. actor.world = manager["actor"].gpu BY <1>h, <1>q DEF WorldAgrees, Waiting
  <2>2. actor' = actor /\ manager'["actor"].gpu = ActorGpus /\ actor.doing = "syncing"
    BY <1>m, <1>u, <1>q DEF ActorSettled, ActorGpus, Waiting
  <2> QED BY <1>r, <1>h, <2>1, <2>2 DEF WorldAgrees, InMainLoop
<1>9. ActorSizeValid' BY <1>u DEF IInv, ActorSizeValid
<1>10. TasksHaveAHome' BY <1>h DEF TasksHaveAHome
<1> QED BY <1>1, <1>2, <1>3, <1>4, <1>5, <1>6, <1>7, <1>8, <1>9, <1>10 DEF IInv

-----------------------------------------------------------------------------
(* The theorems.                                                             *)

LEMMA NextInv == IInv /\ [Next]_vars => IInv'
<1> SUFFICES ASSUME IInv, [Next]_vars PROVE IInv' OBVIOUS
<1>1. CASE UNCHANGED vars
  <2> USE <1>1 DEF vars, scheduler, environment, IInv
  <2>1. TypeOK' BY DEF TypeOK
  <2>2. ManagersAgree' BY DEF ManagersAgree
  <2>3. StateAgrees' BY DEF StateAgrees, InMainLoop
  <2>4. PhaseFacts' BY DEF PhaseFacts, Finalizing, LastIteration
  <2>5. Conservation' BY DEF Conservation, Counted, LastIteration
  <2>6. ReportsBound' BY DEF ReportsBound, InMainLoop
  <2>7. Handshake' BY DEF Handshake, Waiting, InMainLoop
  <2>8. WorldAgrees' BY DEF WorldAgrees, InMainLoop
  <2>9. ActorSizeValid' BY DEF ActorSizeValid
  <2>10. TasksHaveAHome' BY DEF TasksHaveAHome
  <2> QED BY <2>1, <2>2, <2>3, <2>4, <2>5, <2>6, <2>7, <2>8, <2>9, <2>10
<1>2. CASE Next
  <2>1. CASE StartStep BY <2>1, StartStepInv
  <2>2. CASE RolloutStarts BY <2>2, RolloutStartsInv
  <2>3. CASE RolloutCompletes BY <2>3, RolloutCompletesInv
  <2>4. CASE InferenceFinishes BY <2>4, InferenceFinishesInv
  <2>5. CASE ActorNext
    BY <2>5, ActorStartsInv, ActorTrainsInv, ActorResumesInv DEF ActorNext
  <2>6. CASE SchedulerNext
    <3>1. CASE KeepLending BY <3>1, KeepLendingInv
    <3>2. CASE ReturnActorGpus BY <3>2, ReturnActorGpusInv
    <3>3. CASE LendNothing BY <3>3, LendNothingInv
    <3>4. CASE ResetManagers BY <3>4, ResetManagersInv
    <3>5. CASE WaitForActorUpdate BY <3>5, WaitForActorUpdateInv
    <3>6. CASE ReportRollout BY <3>6, ReportRolloutInv
    <3>7. CASE FinishRollout BY <3>7, FinishRolloutInv
    <3>8. CASE MigrateRollout BY <3>8, MigrateRolloutInv
    <3>9. CASE SkipRollout BY <3>9, SkipRolloutInv
    <3>10. CASE ReleaseInference BY <3>10, ReleaseInferenceInv
    <3>11. CASE SkipInference BY <3>11, SkipInferenceInv
    <3>12. CASE AllocateActor BY <3>12, AllocateActorInv
    <3>13. CASE FinalizeActor BY <3>13, FinalizeActorInv
    <3> QED BY <2>6, <3>1, <3>2, <3>3, <3>4, <3>5, <3>6, <3>7, <3>8, <3>9, <3>10, <3>11,
               <3>12, <3>13 DEF SchedulerNext
  <2> QED BY <1>2, <2>1, <2>2, <2>3, <2>4, <2>5, <2>6 DEF Next
<1> QED BY <1>1, <1>2

(* The scheduler's counters, its state and the actor agree in the ways the   *)
(* inductive invariant states, whatever the placement and the policies.      *)
THEOREM Invariance == Spec => []IInv
<1>1. Init => IInv BY InitInv
<1>2. IInv /\ [Next]_vars => IInv' BY NextInv
<1> QED BY <1>1, <1>2, PTL DEF Spec

(* Every variable keeps its type; the counters never become negative.        *)
THEOREM TypeCorrect == Spec => []TypeOK
<1>1. IInv => TypeOK BY DEF IInv
<1> QED BY <1>1, Invariance, PTL

(* No GPU is lost or counted twice by the managers and the scheduler state   *)
(* before a global step is finalized.                                        *)
THEOREM Conserved == Spec => []Conservation
<1>1. IInv => Conservation BY DEF IInv
<1> QED BY <1>1, Invariance, PTL

(* What is released never takes the last rollout instance from sequences     *)
(* that are still to be generated.                                           *)
THEOREM Homes == Spec => []TasksHaveAHome
<1>1. IInv => TasksHaveAHome BY DEF IInv
<1> QED BY <1>1, Invariance, PTL

(* The actor's size is always a valid one, and its initial one between the   *)
(* global steps.                                                             *)
THEOREM SizesValid == Spec => []ActorSizeValid
<1>1. IInv => ActorSizeValid BY DEF IInv
<1> QED BY <1>1, Invariance, PTL

(* Where the actor's ranks end and where those of the others begin.          *)
LEMMA Ranks ==
  ASSUME IInv, actor.doing \in {"training", "syncing"}
  PROVE  /\ ~inferenceDone => actor.world <= ClusterGpus - InferenceGpus
         /\ \/ manager["rollout"].offset * RolloutMP = RolloutGpus
            \/ actor.world <= RolloutBase + manager["rollout"].offset * RolloutMP
            \/ inferenceDone /\ ~UseWait /\ running = 0
<1> DEFINE a == manager["actor"]
           r == manager["rollout"]
           i == manager["inference"]
<1>h. /\ TypeOK /\ ManagersAgree /\ StateAgrees /\ PhaseFacts /\ Conservation
      /\ Handshake /\ WorldAgrees
  BY DEF IInv
<1>t. /\ a.gpu \in Nat /\ r.gpu \in Nat /\ i.gpu \in Nat /\ actor.world \in Nat
      /\ r.inst \in Nat /\ r.offset \in Nat /\ i.inst \in Nat /\ available_gpu_num \in Int
      /\ r.inst + r.offset = RolloutDp /\ r.gpu = r.inst * RolloutMP
      /\ i.inst \in {0, InferenceDp} /\ i.gpu = i.inst * InferenceMP
  BY <1>h, TypeFacts DEF ManagersAgree, TypeOK
<1>n. /\ RolloutMP \in Nat /\ RolloutDp \in Nat /\ InferenceDp \in Nat
      /\ ClusterGpus \in Nat /\ RolloutBase \in Nat /\ RolloutGpus \in Nat
      /\ InferenceGpus \in Nat /\ ActorGpus \in Nat
      /\ ClusterGpus = RolloutBase + RolloutGpus + InferenceGpus
  BY SizesNat, ClusterSplit
<1>p. r.gpu + r.offset * RolloutMP = RolloutGpus /\ r.offset * RolloutMP \in Nat
  <2> HIDE DEF r
  <2>1. (r.inst + r.offset) * RolloutMP = r.inst * RolloutMP + r.offset * RolloutMP
    BY <1>t, <1>n, Distribute
  <2>2. r.offset * RolloutMP \in Nat BY <1>t, <1>n, ProductNat
  <2> QED BY <1>t, <2>1, <2>2 DEF RolloutGpus
<1>z. r.inst = 0 => r.offset * RolloutMP = RolloutGpus
  <2>1. r.inst = 0 => r.offset = RolloutDp BY <1>t, <1>n, SMT
  <2> QED BY <2>1 DEF RolloutGpus
(* a placement without policies: nothing is lent before the main loop        *)
<1>1. CASE phase \in {"lend", "reset"}
  <2>1. ~UsePreProcess BY <1>1, <1>h DEF Handshake, Waiting
  <2>2. RolloutBase = ActorGpus BY <2>1, ClusterSplit
  <2>3. Len(request) = 0 BY <2>1, <1>1, <1>h DEF Handshake, Waiting
  <2>4. actor.world = ActorGpus BY <2>3, <1>1, <1>h DEF WorldAgrees, PhaseFacts
  <2> HIDE DEF r
  <2>5. /\ actor.world <= ClusterGpus - InferenceGpus
        /\ actor.world <= RolloutBase + r.offset * RolloutMP
    BY <2>2, <2>4, <1>n, <1>p, SMT
  <2> QED BY <2>5 DEF r
<1>2. CASE phase = "idle"
  <2>1. r.inst = 0 /\ inferenceDone BY <1>2, <1>h DEF PhaseFacts
  <2> QED BY <2>1, <1>z
<1>3. CASE InMainLoop /\ Counted
  <2>1. /\ available_gpu_num >= 0
        /\ available_gpu_num + a.gpu + r.gpu + i.gpu = ClusterGpus
        /\ actor.world <= a.gpu
    BY <1>3, <1>h DEF Conservation, WorldAgrees
  <2>2. i.inst = InferenceDp => i.gpu = InferenceGpus BY <1>t DEF InferenceGpus
  <2>3. i.inst = InferenceDp \/ (i.inst = 0 /\ InferenceDp # 0) BY <1>t
  <2>4. CASE i.inst = InferenceDp
    <3> HIDE DEF a, r, i
    <3>1. /\ actor.world <= ClusterGpus - InferenceGpus
          /\ actor.world <= RolloutBase + r.offset * RolloutMP
      BY <2>1, <2>2, <2>4, <1>t, <1>n, <1>p, SMT
    <3> QED BY <3>1 DEF r
  <2>5. CASE i.inst = 0 /\ InferenceDp # 0
    <3>1. InferenceDp > 0 BY <2>5, <1>n, SMT
    <3>2. inferenceDone /\ (UseWait => r.inst = 0) BY <3>1, <2>5, <1>3, <1>h DEF StateAgrees
    <3>3. running = 0 BY <3>1, <3>2, <1>h DEF StateAgrees
    <3> QED BY <3>2, <3>3, <1>z
  <2> QED BY <2>3, <2>4, <2>5
<1>4. CASE Finalizing
  <2>1. /\ r.inst = 0
        /\ i.inst > 0 => a.gpu + InferenceGpus <= ClusterGpus
        /\ InMainLoop /\ actor.world <= a.gpu
    BY <1>4, <1>h DEF PhaseFacts, Finalizing, InMainLoop, WorldAgrees
  <2>2. ~inferenceDone => i.inst # 0 BY <2>1, <1>h DEF StateAgrees
  <2> HIDE DEF a, i
  <2>3. ~inferenceDone => actor.world <= ClusterGpus - InferenceGpus
    BY <2>1, <2>2, <1>t, <1>n, SMT
  <2> QED BY <2>1, <2>3, <1>z
<1>5. \/ phase \in {"lend", "reset"} \/ phase = "idle"
      \/ (InMainLoop /\ Counted) \/ Finalizing
  BY <1>h DEF TypeOK, InMainLoop, Counted, Finalizing
<1> QED BY <1>1, <1>2, <1>3, <1>4, <1>5

LEMMA RanksApart ==
  ASSUME IInv
  PROVE  /\ ActorHolds \cap InferenceHolds = {}
         /\ running > 0 \/ UseWait => ActorHolds \cap RolloutHolds = {}
<1>1. CASE actor.doing \notin {"training", "syncing"} BY <1>1 DEF ActorHolds
<1>2. CASE actor.doing \in {"training", "syncing"}
  <2> DEFINE o == manager["rollout"].offset * RolloutMP
             w == actor.world
  <2>1. /\ ~inferenceDone => w <= ClusterGpus - InferenceGpus
        /\ \/ o = RolloutGpus
           \/ w <= RolloutBase + o
           \/ inferenceDone /\ ~UseWait /\ running = 0
    BY <1>2, Ranks
  <2>2. /\ ActorHolds = 0 .. w - 1
        /\ RolloutHolds = RolloutBase + o .. RolloutBase + RolloutGpus - 1
        /\ InferenceHolds = IF inferenceDone THEN {}
                            ELSE ClusterGpus - InferenceGpus .. ClusterGpus - 1
    BY <1>2 DEF ActorHolds, RolloutHolds, InferenceHolds
  <2>3. /\ w \in Nat /\ o \in Int /\ RolloutBase \in Nat /\ RolloutGpus \in Nat
        /\ ClusterGpus \in Nat /\ InferenceGpus \in Nat /\ running \in Nat
    BY TypeFacts, SizesNat DEF IInv
  <2> HIDE DEF o, w
  <2>4. ~inferenceDone => (0 .. w - 1) \cap (ClusterGpus - InferenceGpus .. ClusterGpus - 1) = {}
    BY <2>1, <2>3, SMT
  <2>5. o = RolloutGpus \/ w <= RolloutBase + o =>
          (0 .. w - 1) \cap (RolloutBase + o .. RolloutBase + RolloutGpus - 1) = {}
    BY <2>3, SMT
  <2>6. running > 0 => running # 0 BY <2>3, SMT
  <2> QED BY <2>1, <2>2, <2>4, <2>5, <2>6
<1> QED BY <1>1, <1>2

(* With the wait policy the actor never trains on a GPU that a rollout       *)
(* instance or the inference worker still occupies.                          *)
THEOREM NotShared == Spec => [](UseWait => GpusNotShared)
<1>1. IInv => (UseWait => GpusNotShared)
  <2> SUFFICES ASSUME UseWait, IInv PROVE GpusNotShared OBVIOUS
  <2>1. ActorHolds \cap InferenceHolds = {} /\ ActorHolds \cap RolloutHolds = {}
    BY RanksApart
  <2> QED BY <2>1 DEF GpusNotShared
<1> QED BY <1>1, Invariance, PTL

(* Whatever the policies, the actor never trains on a GPU where sequences    *)
(* are still being generated, nor on one inference has not offloaded from.   *)
THEOREM WorkNotShared == Spec => []NotSharedWithWork
<1>1. IInv => NotSharedWithWork BY RanksApart DEF NotSharedWithWork
<1> QED BY <1>1, Invariance, PTL

(* The managers' assertions hold: a migration leaves an instance, a size of  *)
(* the actor is valid and no more than the cluster.                          *)
THEOREM Unraised == Spec => []NothingRaised
<1>1. IInv => NothingRaised
  <2> SUFFICES ASSUME IInv PROVE NothingRaised OBVIOUS
  <2> DEFINE a == manager["actor"]
  <2>h. TypeOK /\ ManagersAgree /\ StateAgrees BY DEF IInv
  <2>1. ASSUME phase = "decide", ~FinishWanted
        PROVE  /\ instance_num["actor"] \in ValidDpSizes
               /\ ReleaseNum <= ReleasableNum
               /\ ReleaseNum < manager["rollout"].inst
    <3>1. instance_num["actor"] = a.inst /\ a.inst \in ValidDpSizes
      BY <2>1, <2>h DEF StateAgrees, InMainLoop, Components, ManagersAgree
    <3>2. reported \in Nat /\ reported # 0 BY <2>1, <2>h, TypeFacts DEF FinishWanted
    <3>3. reported > 0 BY <3>2, SMT
    <3>4. manager["rollout"].inst > 0 /\ manager["rollout"].inst \in Nat
      BY <2>1, <2>h, TypeFacts DEF IInv, PhaseFacts
    <3>5. /\ ReleasableNum \in Nat /\ ReleaseNum \in Nat /\ ReleaseNum <= ReleasableNum
          /\ ReleasableNum < manager["rollout"].inst
      BY <2>h, <3>1, <3>3, <3>4, MigrationBound
    <3>6. ReleaseNum < manager["rollout"].inst BY <3>4, <3>5, SMT
    <3> QED BY <3>1, <3>5, <3>6
  <2>2. ASSUME phase = "actor", ~LastIteration, available_gpu_num >= ActorMP
        PROVE  /\ a.inst \in ValidDpSizes /\ a.inst # Largest(ValidDpSizes)
               /\ Incremental <= available_gpu_num
               /\ a.gpu + Incremental <= ClusterGpus
    <3>1. /\ available_gpu_num >= 0
          /\ available_gpu_num + a.gpu + manager["rollout"].gpu + manager["inference"].gpu
               = ClusterGpus
      BY <2>2 DEF IInv, Conservation, Counted
    <3>2. /\ a.gpu \in Nat /\ manager["rollout"].gpu \in Nat /\ manager["inference"].gpu \in Nat
          /\ available_gpu_num \in Int /\ ActorMP \in Nat \ {0} /\ ClusterGpus \in Nat
          /\ a.inst \in ValidDpSizes /\ a.gpu = a.inst * ActorMP
      BY <2>h, TypeFacts, SizesNat DEF TypeOK, ManagersAgree
    <3>3. Incremental \in Nat /\ Incremental <= available_gpu_num
      BY <2>h, <3>1, AllocationFacts
    <3> HIDE DEF a
    <3>4. a.gpu < ClusterGpus BY <2>2, <3>1, <3>2, SMT
    <3>5. a.gpu + Incremental <= ClusterGpus BY <3>1, <3>2, <3>3, SMT
    <3>6. a.inst # Largest(ValidDpSizes)
      <4> SUFFICES ASSUME a.inst = Largest(ValidDpSizes) PROVE FALSE OBVIOUS
      <4>1. a.gpu = ClusterGpus BY <3>2, LargestIsCluster
      <4> QED BY <4>1, <3>2, <3>4, SMT
    <3> QED BY <3>2, <3>3, <3>5, <3>6
  <2> QED BY <2>1, <2>2 DEF NothingRaised
<1> QED BY <1>1, Invariance, PTL

(* With the pre-process policy, where no report is early, the instances that *)
(* a migration leaves have room for all the unfinished sequences.            *)
THEOREM RoomLeft == ASSUME UsePreProcess PROVE Spec => MigrationLeavesRoom
<1>1. IInv /\ [Next]_vars =>
        [phase = "decide" /\ manager["rollout"].inst' < manager["rollout"].inst
           => running <= manager["rollout"].inst' * MaxRunning]_vars
  <2> SUFFICES ASSUME IInv, Next, phase = "decide",
                      manager'["rollout"].inst < manager["rollout"].inst
               PROVE  running <= manager'["rollout"].inst * MaxRunning
    OBVIOUS
  <2>h. TypeOK BY DEF IInv
  <2>t. manager["rollout"].inst \in Nat /\ running \in Nat /\ reported \in Nat /\ MaxRunning \in Nat
    BY <2>h, TypeFacts, SizesNat
  <2>0. manager' # manager
    <3>1. ~(manager["rollout"].inst < manager["rollout"].inst) BY <2>t, SMT
    <3> QED BY <3>1
  <2>1. FinishRollout \/ MigrateRollout
    BY <2>0 DEF Next, ActorNext, SchedulerNext, StartStep, RolloutStarts, RolloutCompletes,
       InferenceFinishes, ActorStarts, ActorTrains, ActorResumes, KeepLending,
       ReturnActorGpus, LendNothing, ResetManagers, WaitForActorUpdate, ReportRollout,
       SkipRollout, ReleaseInference, SkipInference, AllocateActor, FinalizeActor, scheduler
  <2>2. CASE FinishRollout
    <3>1. IInv' BY <2>2, FinishRolloutInv
    <3>2. manager'["rollout"].inst \in Nat BY <3>1 DEF IInv, TypeOK, Components
    <3>3. 0 <= manager'["rollout"].inst * MaxRunning BY <2>t, <3>2, ProductNat, SMT
    <3> QED BY <2>2, <3>3 DEF FinishRollout
  <2>3. CASE MigrateRollout
    <3>1. /\ ReleaseNum \in Nat
          /\ manager'["rollout"].inst = manager["rollout"].inst - ReleaseNum
          /\ ReleaseNum > 0 => reported <= manager'["rollout"].inst * MaxRunning
      BY <2>3, MigrateFacts DEF RolloutSettled, RolloutLost
    <3>2. ReleaseNum > 0 BY <2>t, <3>1, SMT
    <3>3. running <= reported BY DEF IInv, ReportsBound
    <3>4. manager'["rollout"].inst * MaxRunning \in Int BY <2>t, <3>1, SMT
    <3> QED BY <2>t, <3>1, <3>2, <3>3, <3>4, SMT
  <2> QED BY <2>1, <2>2, <2>3
<1> QED BY <1>1, Invariance, PTL DEF MigrationLeavesRoom, Spec

-----------------------------------------------------------------------------
(* The pool of GPUs that the scheduler implements.                           *)

(* No two components hold the same GPU; rollout's and inference's are never  *)
(* the same ones.                                                            *)
RolloutRanks == RolloutBase .. RolloutBase + RolloutGpus - 1
InferenceRanks == ClusterGpus - InferenceGpus .. ClusterGpus - 1
HoldersApart ==
  /\ ActorHolds \cap RolloutHolds = {} /\ ActorHolds \cap InferenceHolds = {}
  /\ RolloutHolds \subseteq RolloutRanks /\ InferenceHolds \subseteq InferenceRanks

LEMMA RanksSplit == RolloutRanks \cap InferenceRanks = {}
<1>1. /\ ClusterGpus = RolloutBase + RolloutGpus + InferenceGpus
      /\ RolloutBase \in Nat /\ RolloutGpus \in Nat /\ InferenceGpus \in Nat
  BY ClusterSplit, SizesNat
<1> QED BY <1>1, SMT DEF RolloutRanks, InferenceRanks

LEMMA ApartInv == ASSUME UseWait PROVE IInv => HoldersApart
<1> SUFFICES ASSUME IInv PROVE HoldersApart OBVIOUS
<1> DEFINE o == manager["rollout"].offset
<1>1. ActorHolds \cap RolloutHolds = {} /\ ActorHolds \cap InferenceHolds = {}
  BY RanksApart
<1>2. o \in Nat /\ RolloutMP \in Nat /\ RolloutBase \in Nat /\ RolloutGpus \in Nat
  BY SizesNat DEF IInv, ManagersAgree
<1>3. o * RolloutMP \in Nat BY <1>2, ProductNat
<1>4. RolloutHolds = RolloutBase + o * RolloutMP .. RolloutBase + RolloutGpus - 1
  BY DEF RolloutHolds
<1> HIDE DEF o
<1>5. RolloutHolds \subseteq RolloutRanks BY <1>2, <1>3, <1>4, SMT DEF RolloutRanks
<1> QED BY <1>1, <1>5 DEF HoldersApart, InferenceHolds, InferenceRanks

(* The owner of a GPU, given what each component holds.                      *)
OwnerOf(A, R, I, g) ==
  LET holders == {c \in Components : \/ c = "actor" /\ g \in A
                                     \/ c = "rollout" /\ g \in R
                                     \/ c = "inference" /\ g \in I}
  IN IF holders = {} THEN "nobody" ELSE
     IF Cardinality(holders) = 1 THEN CHOOSE c \in holders : TRUE ELSE "several"

LEMMA OwnerIs ==
  ASSUME NEW A, NEW R, NEW I, NEW g,
         A \cap R = {}, A \cap I = {}, R \cap I = {}
  PROVE  OwnerOf(A, R, I, g) = IF g \in A THEN "actor" ELSE IF g \in R THEN "rollout"
                               ELSE IF g \in I THEN "inference" ELSE "nobody"
<1> DEFINE holders == {c \in Components : \/ c = "actor" /\ g \in A
                                          \/ c = "rollout" /\ g \in R
                                          \/ c = "inference" /\ g \in I}
<1>1. OwnerOf(A, R, I, g) = IF holders = {} THEN "nobody" ELSE
        IF Cardinality(holders) = 1 THEN CHOOSE c \in holders : TRUE ELSE "several"
  BY DEF OwnerOf
<1>2. ASSUME NEW c, holders = {c} PROVE OwnerOf(A, R, I, g) = c
  <2>1. Cardinality({c}) = 1 BY FS_Singleton
  <2>2. (CHOOSE d \in {c} : TRUE) = c OBVIOUS
  <2>3. {c} # {} OBVIOUS
  <2> QED BY <1>1, <1>2, <2>1, <2>2, <2>3
<1>3. CASE g \in A
  <2>1. holders = {"actor"} BY <1>3 DEF Components
  <2> QED BY <1>2, <1>3, <2>1
<1>4. CASE g \in R
  <2>1. holders = {"rollout"} /\ g \notin A BY <1>4 DEF Components
  <2> QED BY <1>2, <1>4, <2>1
<1>5. CASE g \in I
  <2>1. holders = {"inference"} /\ g \notin A /\ g \notin R BY <1>5 DEF Components
  <2> QED BY <1>2, <1>5, <2>1
<1>6. CASE g \notin A /\ g \notin R /\ g \notin I
  <2>1. holders = {} BY <1>6
  <2> QED BY <1>1, <1>6, <2>1
<1> QED BY <1>3, <1>4, <1>5, <1>6

(* Every owner is a component or nobody.                                     *)
LEMMA OwnerType ==
  ASSUME NEW A, NEW R, NEW I, NEW g,
         A \cap R = {}, A \cap I = {}, R \cap I = {}
  PROVE  OwnerOf(A, R, I, g) \in Components \cup {"nobody"}
BY OwnerIs DEF Components

(* A component that gains GPUs does so while the others keep theirs; rollout *)
(* and inference gain only while the actor holds none.                       *)
GainsAlone ==
  /\ \/ ActorHolds' \subseteq ActorHolds
     \/ RolloutHolds' = RolloutHolds /\ InferenceHolds' = InferenceHolds
  /\ RolloutHolds' \subseteq RolloutHolds \/ ActorHolds = {}
  /\ InferenceHolds' \subseteq InferenceHolds \/ ActorHolds = {}

(* Rollout's instances of lowest id leave first.                             *)
LEMMA RolloutShrinks ==
  ASSUME TypeOK, ManagersAgree, NEW n \in 0 .. manager["rollout"].inst,
         manager' = [manager EXCEPT !["rollout"] = Released("rollout", n)]
  PROVE  RolloutHolds' \subseteq RolloutHolds
<1> DEFINE o == manager["rollout"].offset
           p == manager'["rollout"].offset
<1>1. p = o + n BY ReleaseRollout DEF RolloutLost
<1>2. o \in Nat /\ n \in Nat /\ RolloutMP \in Nat /\ RolloutBase \in Nat /\ RolloutGpus \in Nat
  BY SizesNat, TypeFacts DEF ManagersAgree
<1>3. /\ RolloutHolds = RolloutBase + o * RolloutMP .. RolloutBase + RolloutGpus - 1
      /\ RolloutHolds' = RolloutBase + p * RolloutMP .. RolloutBase + RolloutGpus - 1
  BY DEF RolloutHolds
<1> HIDE DEF o, p
<1>4. o * RolloutMP <= p * RolloutMP BY <1>1, <1>2, Monotone, SMT
<1>5. o * RolloutMP \in Int /\ p * RolloutMP \in Int BY <1>1, <1>2, SMT
<1> QED BY <1>2, <1>3, <1>4, <1>5, SMT

(* A step of the scheduler leaves the actor's GPUs and inference's alone.    *)
LEMMA SchedulerGains == IInv /\ SchedulerNext => GainsAlone
<1> SUFFICES ASSUME IInv, SchedulerNext PROVE GainsAlone OBVIOUS
<1>h. TypeOK /\ ManagersAgree BY DEF IInv
<1>1. actor' = actor /\ inferenceDone' = inferenceDone
  BY DEF SchedulerNext, KeepLending, ReturnActorGpus, LendNothing, ResetManagers,
     WaitForActorUpdate, ReportRollout, FinishRollout, MigrateRollout, SkipRollout,
     ReleaseInference, SkipInference, AllocateActor, FinalizeActor, environment
<1>2. ActorHolds' = ActorHolds /\ InferenceHolds' = InferenceHolds
  BY <1>1 DEF ActorHolds, InferenceHolds
<1>3. ASSUME manager'["rollout"] = manager["rollout"] PROVE RolloutHolds' = RolloutHolds
  BY <1>3 DEF RolloutHolds
<1>4. ASSUME NEW c \in Components, NEW m, NEW released, NEW incremental, c # "rollout",
             Settle(c, m, released, incremental)
      PROVE  manager'["rollout"] = manager["rollout"]
  BY <1>h, <1>4 DEF Settle, TypeOK, Components
<1>5. ASSUME NEW n \in 0 .. manager["rollout"].inst, NEW released, NEW incremental,
             Settle("rollout", Released("rollout", n), released, incremental)
      PROVE  RolloutHolds' \subseteq RolloutHolds
  <2>1. manager' = [manager EXCEPT !["rollout"] = Released("rollout", n)] BY <1>5 DEF Settle
  <2> QED BY <1>h, <2>1, RolloutShrinks
<1>6. manager["rollout"].inst \in 0 .. manager["rollout"].inst BY <1>h, TypeFacts, SMT
<1>7. RolloutHolds' \subseteq RolloutHolds
  <2>1. CASE KeepLending \/ LendNothing \/ WaitForActorUpdate \/ ReportRollout \/ SkipInference
    BY <2>1, <1>3 DEF KeepLending, LendNothing, WaitForActorUpdate, ReportRollout, SkipInference
  <2>2. CASE ReturnActorGpus
    <3> DEFINE n == ActorGpus \div RolloutMP
    <3>1. manager["rollout"].offset = 0 /\ UsePreProcess
      BY <2>2 DEF IInv, PhaseFacts, ReturnActorGpus
    <3>2. manager["rollout"].inst = RolloutDp
      BY <1>h, <3>1, TypeFacts, SizesNat, SMT DEF ManagersAgree
    <3>3. n \in Nat /\ n < RolloutDp /\ RolloutDp \in Nat BY <3>1, LentInstances, SizesNat
    <3>4. manager' = [manager EXCEPT !["rollout"] = Released("rollout", n)]
      BY <2>2 DEF ReturnActorGpus
    <3> HIDE DEF n
    <3>5. n \in 0 .. manager["rollout"].inst BY <3>2, <3>3, SMT
    <3> QED BY <1>h, <3>4, <3>5, RolloutShrinks
  <2>3. CASE ResetManagers
    <3>1. manager'["rollout"] = manager["rollout"]
      BY <2>3, <1>h DEF ResetManagers, TypeOK, Components
    <3> QED BY <3>1, <1>3
  <2>4. CASE FinishRollout
    BY <2>4, <1>5, <1>6 DEF FinishRollout, ReleaseAll
  <2>5. CASE MigrateRollout
    <3>1. ReleaseNum \in Nat /\ manager'["rollout"].inst > 0
          /\ manager'["rollout"].inst = manager["rollout"].inst - ReleaseNum
      BY <2>5, MigrateFacts DEF RolloutSettled, RolloutLost
    <3>2. ReleaseNum \in 0 .. manager["rollout"].inst BY <3>1, <1>h, TypeFacts, SMT
    <3> QED BY <2>5, <3>2, <1>5 DEF MigrateRollout
  <2>6. CASE SkipRollout
    <3>1. \/ Settle("rollout", Released("rollout", manager["rollout"].inst), 0, 0)
          \/ Settle("rollout", manager["rollout"], 0, 0)
      BY <2>6 DEF SkipRollout, ReleaseNothing
    <3>2. CASE Settle("rollout", manager["rollout"], 0, 0)
      <4>1. manager'["rollout"] = manager["rollout"]
        BY <3>2, <1>h DEF Settle, TypeOK, Components
      <4> QED BY <4>1, <1>3
    <3> QED BY <3>1, <3>2, <1>5, <1>6
  <2>7. CASE ReleaseInference
    <3>1. manager'["rollout"] = manager["rollout"]
      BY <2>7, <1>4 DEF ReleaseInference, ReleaseAll, ReleaseNothing, Components
    <3> QED BY <3>1, <1>3
  <2>8. CASE AllocateActor \/ FinalizeActor
    <3>1. manager'["rollout"] = manager["rollout"]
      BY <2>8, <1>4 DEF AllocateActor, FinalizeActor, ScaleActor, Components
    <3> QED BY <3>1, <1>3
  <2> QED BY <2>1, <2>2, <2>3, <2>4, <2>5, <2>6, <2>7, <2>8 DEF SchedulerNext
<1> QED BY <1>2, <1>7 DEF GainsAlone

(* Only a global step that starts gives rollout and inference GPUs, and the  *)
(* actor is then finished; only the actor's own steps give it GPUs.          *)
LEMMA NextGains == IInv /\ Next => GainsAlone
<1> SUFFICES ASSUME IInv, Next PROVE GainsAlone OBVIOUS
<1>1. CASE StartStep
  BY <1>1 DEF StartStep, GainsAlone, ActorHolds
<1>2. CASE RolloutStarts \/ RolloutCompletes
  BY <1>2 DEF RolloutStarts, RolloutCompletes, GainsAlone, ActorHolds, RolloutHolds,
     InferenceHolds, scheduler
<1>3. CASE InferenceFinishes
  <2>1. actor' = actor /\ manager' = manager /\ inferenceDone'
    BY <1>3 DEF InferenceFinishes, scheduler
  <2>2. ActorHolds' = ActorHolds /\ RolloutHolds' = RolloutHolds /\ InferenceHolds' = {}
    BY <2>1 DEF ActorHolds, RolloutHolds, InferenceHolds
  <2> QED BY <2>2 DEF GainsAlone
<1>4. CASE ActorNext
  <2>1. manager' = manager /\ inferenceDone' = inferenceDone
    BY <1>4 DEF ActorNext, ActorStarts, ActorTrains, ActorResumes, scheduler, environment
  <2>2. RolloutHolds' = RolloutHolds /\ InferenceHolds' = InferenceHolds
    BY <2>1 DEF RolloutHolds, InferenceHolds
  <2> QED BY <2>2 DEF GainsAlone
<1>5. CASE SchedulerNext BY <1>5, SchedulerGains
<1> QED BY <1>1, <1>2, <1>3, <1>4, <1>5 DEF Next

(* A GPU that changes hands goes through nobody's.                           *)
LEMMA HandOver ==
  ASSUME HoldersApart, HoldersApart', GainsAlone,
         NEW g, Owner(g)' # Owner(g)
  PROVE  "nobody" \in {Owner(g), Owner(g)'}
<1>1. RolloutHolds \cap InferenceHolds = {} /\ RolloutHolds' \cap InferenceHolds' = {}
      /\ RolloutHolds \cap InferenceHolds' = {} /\ RolloutHolds' \cap InferenceHolds = {}
  <2>1. /\ RolloutHolds \subseteq RolloutRanks /\ InferenceHolds \subseteq InferenceRanks
        /\ RolloutHolds' \subseteq RolloutRanks /\ InferenceHolds' \subseteq InferenceRanks
    BY DEF HoldersApart, RolloutRanks, InferenceRanks
  <2> QED BY <2>1, RanksSplit
<1>2. Owner(g) = IF g \in ActorHolds THEN "actor" ELSE IF g \in RolloutHolds THEN "rollout"
                 ELSE IF g \in InferenceHolds THEN "inference" ELSE "nobody"
  <2>1. Owner(g) = OwnerOf(ActorHolds, RolloutHolds, InferenceHolds, g) BY DEF Owner, OwnerOf
  <2> QED BY <1>1, <2>1, OwnerIs DEF HoldersApart
<1>3. Owner(g)' = IF g \in ActorHolds' THEN "actor" ELSE IF g \in RolloutHolds' THEN "rollout"
                  ELSE IF g \in InferenceHolds' THEN "inference" ELSE "nobody"
  <2>1. Owner(g)' = OwnerOf(ActorHolds', RolloutHolds', InferenceHolds', g)
    BY DEF Owner, OwnerOf
  <2> QED BY <1>1, <2>1, OwnerIs DEF HoldersApart
<1> DEFINE x == Owner(g)
           y == Owner(g)'
<1>4. x # y BY DEF x, y
<1> HIDE DEF x, y
<1>5. x = "nobody" \/ y = "nobody"
  BY <1>1, <1>2, <1>3, <1>4, Zenon DEF HoldersApart, GainsAlone, x, y
<1> QED BY <1>5 DEF x, y

(* With the wait policy the scheduler implements a pool of GPUs: each has at *)
(* most one holder, and a component takes only GPUs that nobody holds.       *)
THEOREM PoolImplemented == ASSUME UseWait PROVE Spec => ImplementsPool
<1> DEFINE Gpus == 0 .. ClusterGpus - 1
           owner == [g \in Gpus |-> Owner(g)]
<1>1. HoldersApart => \A g : Owner(g) \in Components \cup {"nobody"}
  <2> SUFFICES ASSUME HoldersApart, NEW g PROVE Owner(g) \in Components \cup {"nobody"}
    OBVIOUS
  <2>1. RolloutHolds \cap InferenceHolds = {} BY RanksSplit DEF HoldersApart
  <2>2. Owner(g) = OwnerOf(ActorHolds, RolloutHolds, InferenceHolds, g) BY DEF Owner, OwnerOf
  <2> QED BY <2>1, <2>2, OwnerType DEF HoldersApart
<1>2. Init => Pool!Init
  <2>1. Init => HoldersApart BY InitInv, ApartInv
  <2> QED BY <1>1, <2>1 DEF Pool!Init, Pool!Nobody
<1>3. HoldersApart /\ HoldersApart' /\ IInv /\ [Next]_vars => [Pool!Next]_owner
  <2> SUFFICES ASSUME HoldersApart, HoldersApart', IInv, [Next]_vars
               PROVE  [Pool!Next]_owner
    OBVIOUS
  <2>1. CASE UNCHANGED vars
    <3>1. \A g : Owner(g)' = Owner(g)
      BY <2>1 DEF vars, scheduler, environment, Owner, ActorHolds, RolloutHolds, InferenceHolds
    <3> QED BY <3>1
  <2>2. CASE Next
    <3>1. GainsAlone BY <2>2, NextGains
    <3>2. \A g : Owner(g)' # Owner(g) => "nobody" \in {Owner(g), Owner(g)'}
      BY <3>1, HandOver
    <3>3. ASSUME NEW g PROVE Owner(g)' \in Components \cup {"nobody"}
      <4>1. /\ ActorHolds' \cap RolloutHolds' = {} /\ ActorHolds' \cap InferenceHolds' = {}
            /\ RolloutHolds' \subseteq RolloutRanks /\ InferenceHolds' \subseteq InferenceRanks
        BY DEF HoldersApart, RolloutRanks, InferenceRanks
      <4>2. RolloutHolds' \cap InferenceHolds' = {} BY <4>1, RanksSplit
      <4>3. Owner(g)' = OwnerOf(ActorHolds', RolloutHolds', InferenceHolds', g)
        BY DEF Owner, OwnerOf
      <4> QED BY <4>1, <4>2, <4>3, OwnerType
    <3> QED BY <3>2, <3>3 DEF Pool!Next, Pool!Nobody
  <2> QED BY <2>1, <2>2
<1> QED BY <1>2, <1>3, ApartInv, Invariance, PTL DEF Spec, ImplementsPool, Pool!Spec
=============================================================================

----------------------- MODULE RolloutMigrationProofs -----------------------
(***************************************************************************)
(* Proofs about RolloutMigration: no assertion fails that can be helped,   *)
(* what is released is idle, and no group is lost, put out twice or        *)
(* generated again, for any number of instances, groups and iterations.    *)
(***************************************************************************)
EXTENDS RolloutMigration, Integers, WellFoundedInduction, FiniteSetTheorems, TLAPS

Has(s, x) == \E n \in DOMAIN s : s[n] = x
NoRepeat(s) == \A m, n \in DOMAIN s : s[m] = s[n] => m = n

-----------------------------------------------------------------------------
(* The inductive invariant.                                                 *)

Actions == {"Report", "Finish", "Wait_For_Finish", "Migrate_Out", "Migrate_In"}
RequestType == [action : Actions, data : Seq(Groups)]
ReportType == [total : Nat, running : Nat]
ResponseType == [action : {"Default", "Offloaded"}, report : ReportType, data : Seq(Groups)]

TypeOK ==
  /\ completed \in [Groups -> 0..GroupSize] /\ abortedSeqs \in [Groups -> 0..GroupSize]
  /\ \A g \in Groups : completed[g] + abortedSeqs[g] <= GroupSize
  /\ output \in Seq(Groups)
  /\ rollout \in [Instances -> {"out", "called", "waiting_tasks", "handling",
                                "waiting_event", "offloading", "failed"}]
  /\ returned \in [Instances -> SUBSET Groups] /\ running \in [Instances -> SUBSET Groups]
  /\ done \in [Instances -> SUBSET Groups] /\ aborted \in [Instances -> Seq(Groups)]
  /\ serving \in [Instances -> {"get", "Migrate_Out", "Finish"}]
  /\ event \in [Instances -> BOOLEAN]
  /\ requests \in [Instances -> Seq(RequestType)]
  /\ responses \in [Instances -> Seq(ResponseType)]
  /\ manager \in {"idle", "pre_process", "pre_reporting", "await_actor", "reporting",
                  "migrating", "finishing"}
  /\ train_iter \in 0..(NMinibatches - 1) /\ offset \in 0..InstanceNum
  /\ leaving \in 0..(InstanceNum - offset)
  /\ leaving > 0 => manager \in {"migrating", "finishing"}
  /\ reports \in [Instances -> ReportType]
  /\ policy \in Policies
  /\ raised \subseteq {"residual"}

(* What passes between the manager and an instance.                         *)

IsLeaving(i) == offset <= i /\ i < offset + leaving
Released(i) == manager = "idle" \/ i < offset

(* Requests an instance still has to serve: groups it is to receive may be  *)
(* before the one that is answered.                                         *)
Told(q, actions) ==
  \/ Len(q) = 1 /\ q[1].action \in actions
  \/ Len(q) = 2 /\ q[1].action = "Migrate_In" /\ q[2].action \in actions

Quiet(q) == Len(q) = 0 \/ (Len(q) = 1 /\ q[1].action = "Migrate_In")

Silent(i) == serving[i] = "get" /\ Len(responses[i]) = 0
Serving(i, what) ==
  serving[i] = what /\ Len(requests[i]) = 0 /\ Len(responses[i]) = 0
Answered(i, action) ==
  /\ serving[i] = "get" /\ Len(requests[i]) = 0
  /\ Len(responses[i]) = 1 /\ responses[i][1].action = action

(* Asked for the last time and served, the instance has yet to offload.     *)
Ended(i) ==
  manager = "finishing" /\ IsLeaving(i) /\ Silent(i) /\ Len(requests[i]) = 0

Clean(i) == running[i] = {} /\ aborted[i] = <<>> /\ done[i] = {} /\ returned[i] = {}

AtRest(i) ==
  rollout[i] = "out" /\ Clean(i) /\ ~event[i] /\ Silent(i) /\ Len(requests[i]) = 0

ProtocolAt(i) ==
  /\ Released(i) => AtRest(i)
  /\ ~Released(i) /\ IsLeaving(i) /\ manager = "migrating" =>
       \/ (Silent(i) /\ Told(requests[i], {"Migrate_Out"}))
       \/ Serving(i, "Migrate_Out") \/ Answered(i, "Default")
  /\ ~Released(i) /\ IsLeaving(i) /\ manager = "finishing" =>
       \/ (Silent(i) /\ Told(requests[i], {"Finish", "Wait_For_Finish"}))
       \/ Serving(i, "Finish") \/ Ended(i) \/ Answered(i, "Offloaded")
  /\ ~Released(i) /\ manager \in {"pre_reporting", "reporting"} =>
       (Silent(i) /\ Told(requests[i], {"Report"})) \/ Answered(i, "Default")
  /\ ~Released(i) /\ ~IsLeaving(i) /\ manager \notin {"pre_reporting", "reporting"} =>
       /\ Silent(i) /\ Quiet(requests[i])
       /\ manager = "migrating" => Len(requests[i]) = 0

(* Where rollout() is, and what it has.                                     *)
RolloutAt(i) ==
  /\ rollout[i] = "out" => /\ Clean(i) /\ ~event[i]
                           /\ Released(i) \/ Answered(i, "Offloaded")
  /\ manager = "finishing" /\ Answered(i, "Offloaded") => rollout[i] = "out"
  /\ rollout[i] = "called" => returned[i] = {} /\ aborted[i] = <<>> /\ done[i] = {}
  /\ rollout[i] = "waiting_tasks" => returned[i] = {} /\ running[i] # {}
  /\ rollout[i] = "handling" => returned[i] # {} /\ returned[i] \subseteq running[i]
  /\ rollout[i] = "waiting_event" => returned[i] = {}
  /\ rollout[i] = "offloading" => Clean(i) /\ ~event[i] /\ Ended(i)
  /\ rollout[i] = "failed" => running[i] # {} /\ returned[i] = {} /\ raised # {}
  /\ event[i] => \/ Ended(i)
                 \/ running[i] # {} /\ rollout[i] \in {"called", "waiting_event", "failed"}

(* The groups it has, and those it is sent or sends back.                   *)
GroupsAt(i) ==
  /\ \A g \in returned[i] : RunningSeqs(g) = 0
  /\ \A g \in running[i] : abortedSeqs[g] > 0 => serving[i] = "Migrate_Out"
  /\ \A g \in Batch(i) : rollout[i] = "called" => abortedSeqs[g] = 0
  /\ aborted[i] # <<>> => IsLeaving(i)
  /\ manager = "migrating" /\ Answered(i, "Default") => responses[i][1].data = aborted[i]
  /\ \A n \in 1..Len(requests[i]) :
       requests[i][n].action = "Migrate_In" => requests[i][n].data # <<>>
  /\ \A g \in done[i] : Has(output, g)
  /\ NoRepeat(aborted[i])

(* As long as GPUs are lent, an instance has at most its own batch, and all *)
(* have begun with theirs when the first groups are migrated.               *)
Pre == manager \in {"pre_process", "pre_reporting"}
Lending == policy.preProcess /\ offset = 0

PolicyAt(i) ==
  /\ Pre => /\ \A n \in 1..Len(requests[i]) : requests[i][n].action = "Report"
            /\ running[i] \subseteq Batch(i) /\ done[i] \subseteq Batch(i)
            /\ rollout[i] = "called" => running[i] = {}
            /\ Len(responses[i]) > 0 =>
                 /\ responses[i][1].report.total <= GroupSize * Share
                 /\ responses[i][1].report.total > 0 => rollout[i] # "called"
  /\ policy.preProcess /\ manager # "idle" /\ ~Pre => rollout[i] # "called"

InstanceAt(i) == ProtocolAt(i) /\ RolloutAt(i) /\ GroupsAt(i) /\ PolicyAt(i)

PolicyOK ==
  /\ policy.preProcess => raised = {}
  /\ Pre => Lending /\ train_iter = 0
  /\ Lending /\ manager \notin {"idle", "pre_process", "pre_reporting"} =>
       manager \in {"migrating", "finishing"} /\ train_iter = 0 /\ leaving > 0
  /\ manager = "reporting" => train_iter < NMinibatches - 1
  /\ manager = "migrating" /\ ~Lending => train_iter < NMinibatches - 1
  /\ manager = "finishing" /\ ~Lending /\ train_iter = NMinibatches - 1 =>
       ToSet(output) = Groups /\ offset + leaving = InstanceNum

(* Group g is at instance i: in the batch rollout() is called with, running,*)
(* aborted and to be fetched by the manager, or sent to it.                 *)
Kinds == {"fresh", "running", "aborted", "sent"}
At(g, kind, i) ==
  \/ kind = "fresh" /\ rollout[i] = "called" /\ g \in Batch(i)
  \/ kind = "running" /\ g \in running[i]
  \/ kind = "aborted" /\ manager = "migrating" /\ Has(aborted[i], g)
  \/ kind = "sent" /\ \E n \in 1..Len(requests[i]) :
       requests[i][n].action = "Migrate_In" /\ Has(requests[i][n].data, g)

OnePlace ==
  /\ \A g \in Groups, i, j \in Instances, a, b \in Kinds :
       At(g, a, i) /\ At(g, b, j) => a = b /\ i = j
  /\ \A g \in Groups, i \in Instances, a \in Kinds : At(g, a, i) => ~Has(output, g)
  /\ NoRepeat(output)

IInv ==
  /\ TypeOK
  /\ \A i \in Instances : InstanceAt(i)
  /\ OnePlace
  /\ PolicyOK
(* End of invariant *)
-----------------------------------------------------------------------------
(* Sizes.                                                                   *)

LEMMA ProductNat == \A a, b \in Nat : a * b \in Nat
  BY SMT

LEMMA Monotone ==
  ASSUME NEW a \in Nat, NEW b \in Nat, NEW c \in Nat, a <= b
  PROVE  a * c <= b * c
<1>1. b - a \in Nat  OBVIOUS
<1>2. (b - a) * c \in Nat  BY ONLY <1>1, c \in Nat, ProductNat
<1>3. b * c = a * c + (b - a) * c  BY SMT
<1>4. a * c \in Nat  BY ONLY a \in Nat, c \in Nat, ProductNat
<1> QED  BY <1>2, <1>3, <1>4

LEMMA Sizes ==
  /\ InstanceNum \in Nat \ {0} /\ Share \in Nat \ {0} /\ GroupSize \in Nat \ {0}
  /\ NMinibatches \in Nat \ {0} /\ LendNum \in 1..(InstanceNum - 1)
  /\ InstanceNum * Share \in Nat
  /\ Instances = 0..(InstanceNum - 1) /\ Groups = 1..(InstanceNum * Share)
<1>1. /\ InstanceNum \in Nat \ {0} /\ Share \in Nat \ {0} /\ GroupSize \in Nat \ {0}
      /\ NMinibatches \in Nat \ {0} /\ LendNum \in 1..(InstanceNum - 1)
  BY SizeAssumption
<1> QED  BY <1>1, ProductNat DEF Instances, Groups

LEMMA GroupsFinite ==
  /\ IsFiniteSet(Groups) /\ Cardinality(Groups) = InstanceNum * Share
<1> DEFINE n == InstanceNum * Share
<1>1. n \in Nat /\ 1 <= n + 1
  BY Sizes
<1>2. Groups = 1..n
  BY Sizes
<1> HIDE DEF n
<1>3. IsFiniteSet(1..n) /\ Cardinality(1..n) = IF 1 > n THEN 0 ELSE n - 1 + 1
  BY <1>1, FS_Interval
<1>4. Cardinality(1..n) = n
  BY <1>1, <1>3
<1> QED  BY <1>2, <1>3, <1>4 DEF n

(* The first batches of the instances: of one size, and disjoint.           *)
LEMMA BatchIs ==
  ASSUME NEW i \in Instances
  PROVE  /\ Batch(i) \subseteq Groups /\ Batch(i) # {}
         /\ IsFiniteSet(Batch(i)) /\ Cardinality(Batch(i)) = Share
         /\ \A j \in Instances : j # i => Batch(i) \cap Batch(j) = {}
<1>1. i \in Nat /\ i + 1 <= InstanceNum /\ i + 1 \in Nat /\ InstanceNum \in Nat /\ Share \in Nat \ {0}
  BY Sizes
<1> DEFINE a == i * Share
           b == (i + 1) * Share
           n == InstanceNum * Share
<1>2. a \in Nat /\ b = a + Share /\ b <= n /\ n \in Nat
  <2>1. a \in Nat
    BY ONLY <1>1, ProductNat
  <2>2. b = a + Share
    BY ONLY <1>1, SMT
  <2>3. b <= n
    BY <1>1, Monotone
  <2> QED  BY <2>1, <2>2, <2>3, Sizes
<1>3. Batch(i) = (a + 1)..b /\ Groups = 1..n
  BY Sizes DEF Batch
<1>4. ASSUME NEW j \in Instances, j # i PROVE Batch(i) \cap Batch(j) = {}
  <2>1. j \in Nat /\ j + 1 \in Nat
    BY Sizes
  <2> DEFINE c == j * Share
             d == (j + 1) * Share
  <2>2. c \in Nat /\ d \in Nat /\ Batch(j) = (c + 1)..d
    <3>1. c \in Nat /\ d \in Nat
      BY ONLY <1>1, <2>1, ProductNat
    <3> QED  BY <3>1 DEF Batch
  <2>3. b <= c \/ d <= a
    <3>1. i + 1 <= j \/ j + 1 <= i
      BY <1>1, <1>4, <2>1
    <3>2. i + 1 <= j => b <= c
      BY <1>1, <2>1, Monotone
    <3>3. j + 1 <= i => d <= a
      BY <1>1, <2>1, Monotone
    <3> QED  BY <3>1, <3>2, <3>3
  <2> HIDE DEF a, b, c, d
  <2> QED  BY <1>2, <1>3, <2>2, <2>3
<1> HIDE DEF a, b, n
<1>5. IsFiniteSet((a + 1)..b) /\ Cardinality((a + 1)..b) = IF a + 1 > b THEN 0 ELSE b - (a + 1) + 1
  <2>1. a + 1 \in Int /\ b \in Int
    BY <1>1, <1>2
  <2> QED  BY <2>1, FS_Interval
<1>6. Cardinality((a + 1)..b) = Share
  BY <1>1, <1>2, <1>5
<1>7. (a + 1)..b \subseteq 1..n /\ a + 1 \in (a + 1)..b
  BY <1>1, <1>2
<1> QED  BY <1>3, <1>4, <1>5, <1>6, <1>7

-----------------------------------------------------------------------------
(* Short sequences.                                                         *)

LEMMA EmptyIs ==
  ASSUME NEW S, NEW q \in Seq(S)
  PROVE  Len(q) \in Nat /\ DOMAIN q = 1..Len(q) /\ (q = <<>> <=> Len(q) = 0)
  OBVIOUS

LEMMA AppendIs ==
  ASSUME NEW S, NEW q \in Seq(S), NEW x \in S
  PROVE  /\ Append(q, x) \in Seq(S) /\ Len(Append(q, x)) = Len(q) + 1
         /\ Append(q, x)[Len(q) + 1] = x
         /\ \A n \in 1..Len(q) : Append(q, x)[n] = q[n]
  OBVIOUS

LEMMA TailIs ==
  ASSUME NEW S, NEW q \in Seq(S), q # <<>>
  PROVE  /\ Tail(q) \in Seq(S) /\ Len(q) > 0 /\ Len(Tail(q)) = Len(q) - 1
         /\ Head(q) = q[1] /\ Head(q) \in S
         /\ \A n \in 1..(Len(q) - 1) : Tail(q)[n] = q[n + 1]
  OBVIOUS

LEMMA HasAppend ==
  ASSUME NEW S, NEW q \in Seq(S), NEW x \in S
  PROVE  /\ \A y : Has(Append(q, x), y) <=> Has(q, y) \/ y = x
         /\ NoRepeat(q) /\ ~Has(q, x) => NoRepeat(Append(q, x))
<1> DEFINE r == Append(q, x)
           n == Len(q)
<1>1. /\ n \in Nat /\ DOMAIN q = 1..n /\ DOMAIN r = 1..(n + 1) /\ r[n + 1] = x
      /\ \A k \in 1..n : r[k] = q[k]
  BY AppendIs, EmptyIs
<1> HIDE DEF r, n
<1>2. \A y : Has(r, y) <=> Has(q, y) \/ y = x
  BY <1>1 DEF Has
<1>3. ASSUME NoRepeat(q), ~Has(q, x) PROVE NoRepeat(r)
  <2>1. ASSUME NEW k \in DOMAIN r, NEW m \in DOMAIN r, r[k] = r[m] PROVE k = m
    BY <1>1, <1>3, <2>1 DEF Has, NoRepeat
  <2> QED  BY <2>1 DEF NoRepeat
<1> QED  BY <1>2, <1>3 DEF r

LEMMA HasConcat ==
  ASSUME NEW S, NEW s \in Seq(S), NEW t \in Seq(S)
  PROVE  /\ s \o t \in Seq(S)
         /\ \A y : Has(s \o t, y) <=> Has(s, y) \/ Has(t, y)
         /\ NoRepeat(s) /\ NoRepeat(t) /\ (\A y : ~(Has(s, y) /\ Has(t, y))) => NoRepeat(s \o t)
<1> DEFINE r == s \o t
           n == Len(s)
           l == Len(t)
<1>1. /\ r \in Seq(S) /\ n \in Nat /\ l \in Nat /\ DOMAIN r = 1..(n + l)
      /\ DOMAIN s = 1..n /\ DOMAIN t = 1..l
      /\ \A k \in 1..(n + l) : r[k] = IF k <= n THEN s[k] ELSE t[k - n]
  OBVIOUS
<1> HIDE DEF r, n, l
<1>2. \A k \in 1..n : k \in DOMAIN r /\ r[k] = s[k]
  BY <1>1
<1>3. ASSUME NEW k \in 1..l PROVE n + k \in DOMAIN r /\ r[n + k] = t[k]
  <2>1. n + k \in 1..(n + l) /\ ~(n + k <= n) /\ (n + k) - n = k
    BY <1>1
  <2> QED  BY <1>1, <2>1
<1>4. \A k \in DOMAIN r : (k \in DOMAIN s /\ r[k] = s[k])
                          \/ (k - n \in DOMAIN t /\ r[k] = t[k - n])
  BY <1>1
<1>5. \A y : Has(r, y) <=> Has(s, y) \/ Has(t, y)
  BY <1>1, <1>2, <1>3, <1>4 DEF Has
<1>6. ASSUME NoRepeat(s), NoRepeat(t), \A y : ~(Has(s, y) /\ Has(t, y))
      PROVE  NoRepeat(r)
  <2>1. ASSUME NEW k \in DOMAIN r, NEW m \in DOMAIN r, r[k] = r[m] PROVE k = m
    <3>1. CASE k \in DOMAIN s /\ m \in DOMAIN s /\ r[k] = s[k] /\ r[m] = s[m]
      BY <1>6, <2>1, <3>1 DEF NoRepeat
    <3>2. CASE /\ k - n \in DOMAIN t /\ m - n \in DOMAIN t
               /\ r[k] = t[k - n] /\ r[m] = t[m - n]
      <4>1. k - n = m - n
        BY <1>6, <2>1, <3>2 DEF NoRepeat
      <4> QED  BY <1>1, <4>1
    <3>3. CASE k \in DOMAIN s /\ m - n \in DOMAIN t /\ r[k] = s[k] /\ r[m] = t[m - n]
      BY <1>6, <2>1, <3>3 DEF Has
    <3>4. CASE k - n \in DOMAIN t /\ m \in DOMAIN s /\ r[k] = t[k - n] /\ r[m] = s[m]
      BY <1>6, <2>1, <3>4 DEF Has
    <3> QED  BY <1>4, <3>1, <3>2, <3>3, <3>4
  <2> QED  BY <2>1 DEF NoRepeat
<1> QED  BY <1>1, <1>5, <1>6 DEF r

-----------------------------------------------------------------------------
(* FlattenSeq, by its recursion.                                            *)

(* A set of naturals with an element has a least one.                       *)
LEMMA LeastNat ==
  ASSUME NEW S \in SUBSET Nat, S # {}
  PROVE  \E n \in S : \A m \in S : n <= m
<1>1. PICK n \in S : \A m \in S : ~(<<m, n>> \in OpToRel(<, Nat))
  BY NatLessThanWellFounded, WFMin
<1>2. ASSUME NEW m \in S PROVE n <= m
  <2>1. ~(m < n)
    BY <1>1, <1>2 DEF OpToRel
  <2> QED  BY <2>1
<1> QED  BY <1>2

Flattens(f, seqs) ==
  f = [k \in 1..Len(seqs) |-> IF k = 1 THEN seqs[k] ELSE f[k - 1] \o seqs[k]]

LEMMA FlattensExist ==
  ASSUME NEW S, NEW seqs \in Seq(S)
  PROVE  \E f : Flattens(f, seqs)
<1> DEFINE Good(t) == \E f : Flattens(f, t)
           Bad == {n \in Nat : \E t \in Seq(S) : Len(t) = n /\ ~Good(t)}
<1> HIDE DEF Good
<1> SUFFICES ASSUME ~Good(seqs) PROVE FALSE
  BY DEF Good
<1>1. Bad # {} /\ Bad \in SUBSET Nat
  OBVIOUS
<1>2. PICK n \in Bad : \A m \in Bad : n <= m
  <2> HIDE DEF Bad
  <2> QED  BY ONLY <1>1, LeastNat
<1>3. PICK t \in Seq(S) : Len(t) = n /\ ~Good(t)
  BY <1>2
<1>4. n \in Nat
  BY <1>2
<1>5. CASE n = 0
  <2> DEFINE z == [k \in 1..0 |-> 0]
  <2>1. 1..Len(t) = 1..0 /\ 1..0 = {}
    BY <1>3, <1>5
  <2>2. z = [k \in 1..Len(t) |-> IF k = 1 THEN t[k] ELSE z[k - 1] \o t[k]]
    BY <2>1
  <2> QED  BY <1>3, <2>2 DEF Good, Flattens
<1>6. CASE n # 0
  <2> DEFINE u == SubSeq(t, 1, n - 1)
  <2>1. /\ u \in Seq(S) /\ Len(u) = n - 1 /\ n - 1 \in Nat /\ ~(n <= n - 1)
        /\ \A k \in 1..(n - 1) : u[k] = t[k]
    BY <1>3, <1>4, <1>6
  <2> HIDE DEF u
  <2>2. n - 1 \notin Bad
    <3> HIDE DEF Bad
    <3> QED  BY <1>2, <2>1
  <2>3. Good(u)
    BY <2>1, <2>2
  <2>4. PICK f : f = [k \in 1..Len(u) |-> IF k = 1 THEN u[k] ELSE f[k - 1] \o u[k]]
    BY <2>3 DEF Good, Flattens
  <2> DEFINE last == IF n = 1 THEN t[n] ELSE f[n - 1] \o t[n]
             g == [k \in 1..n |-> IF k = n THEN last ELSE f[k]]
  <2>5. \A k \in 1..(n - 1) : f[k] = IF k = 1 THEN t[k] ELSE f[k - 1] \o t[k]
    <3> DEFINE h == [k \in 1..Len(u) |-> IF k = 1 THEN u[k] ELSE f[k - 1] \o u[k]]
    <3>1. \A k \in 1..Len(u) : h[k] = IF k = 1 THEN u[k] ELSE f[k - 1] \o u[k]
      OBVIOUS
    <3>2. f = h
      BY <2>4
    <3> HIDE DEF h
    <3> QED  BY <2>1, <3>1, <3>2
  <2>6. ASSUME NEW k \in 1..n PROVE g[k] = IF k = 1 THEN t[k] ELSE g[k - 1] \o t[k]
    <3>1. CASE k = n
      <4>1. k # 1 => k - 1 \in 1..n /\ k - 1 # n
        BY <1>4
      <4>2. g[k] = last /\ (k # 1 => g[k - 1] = f[k - 1])
        BY <3>1, <4>1
      <4> QED  BY <3>1, <4>2
    <3>2. CASE k # n
      <4>1. k \in 1..(n - 1) /\ (k # 1 => k - 1 \in 1..n /\ k - 1 # n)
        BY <1>4, <3>2
      <4>2. g[k] = f[k] /\ (k # 1 => g[k - 1] = f[k - 1])
        BY <3>2, <4>1
      <4> QED  BY <2>5, <4>1, <4>2
    <3> QED  BY <3>1, <3>2
  <2>7. g = [k \in 1..n |-> g[k]]
    OBVIOUS
  <2> HIDE DEF g
  <2>8. g = [k \in 1..Len(t) |-> IF k = 1 THEN t[k] ELSE g[k - 1] \o t[k]]
    BY <1>3, <2>6, <2>7
  <2> QED  BY <1>3, <2>8 DEF Good, Flattens
<1> QED  BY <1>5, <1>6

LEMMA FlattenIs ==
  ASSUME NEW S, NEW seqs \in Seq(Seq(S))
  PROVE  /\ FlattenSeq(seqs) \in Seq(S)
         /\ \A y : Has(FlattenSeq(seqs), y) <=> \E k \in 1..Len(seqs) : Has(seqs[k], y)
         /\ /\ \A k \in 1..Len(seqs) : NoRepeat(seqs[k])
            /\ \A k, m \in 1..Len(seqs) : \A y : Has(seqs[k], y) /\ Has(seqs[m], y) => k = m
            => NoRepeat(FlattenSeq(seqs))
<1> DEFINE l == Len(seqs)
           From(k, r) ==
             /\ r \in Seq(S)
             /\ \A y : Has(r, y) <=> \E m \in 1..k : Has(seqs[m], y)
             /\ /\ \A m \in 1..l : NoRepeat(seqs[m])
                /\ \A m, n \in 1..l : \A y : Has(seqs[m], y) /\ Has(seqs[n], y) => m = n
                => NoRepeat(r)
<1>1. l \in Nat /\ \A k \in 1..l : seqs[k] \in Seq(S)
  OBVIOUS
<1>2. CASE l = 0
  <2>1. FlattenSeq(seqs) = <<>>
    BY <1>2 DEF FlattenSeq
  <2>2. \A y : ~Has(<<>>, y)
    BY DEF Has
  <2>3. NoRepeat(<<>>) /\ <<>> \in Seq(S)
    BY DEF NoRepeat
  <2> QED  BY <1>2, <2>1, <2>2, <2>3
<1>3. CASE l # 0
  <2> DEFINE f == CHOOSE f : Flattens(f, seqs)
  <2>1. Flattens(f, seqs)
    <3>1. \E h : Flattens(h, seqs)
      BY FlattensExist
    <3> QED  BY ONLY <3>1
  <2>2. FlattenSeq(seqs) = f[l]
    BY <1>3 DEF FlattenSeq, Flattens
  <2> HIDE DEF f
  <2>3. \A k \in 1..l : f[k] = IF k = 1 THEN seqs[k] ELSE f[k - 1] \o seqs[k]
    <3> DEFINE h == [k \in 1..l |-> IF k = 1 THEN seqs[k] ELSE f[k - 1] \o seqs[k]]
    <3>1. \A k \in 1..l : h[k] = IF k = 1 THEN seqs[k] ELSE f[k - 1] \o seqs[k]
      OBVIOUS
    <3>2. f = h
      BY <2>1 DEF Flattens
    <3> HIDE DEF h
    <3> QED  BY <3>1, <3>2
  <2> HIDE DEF l
  <2> DEFINE Bad == {k \in 1..l : ~From(k, f[k])}
  <2>4. Bad = {}
    <3> SUFFICES ASSUME Bad # {} PROVE FALSE
      OBVIOUS
    <3>1. Bad \in SUBSET Nat
      BY <1>1
    <3>2. PICK k \in Bad : \A m \in Bad : k <= m
      <4> HIDE DEF Bad
      <4> QED  BY ONLY <3>1, Bad # {}, LeastNat
    <3>3. k \in 1..l /\ k \in Nat /\ ~From(k, f[k])
      BY <1>1, <3>2
    <3>4. k # 1 => k - 1 \in 1..l /\ ~(k <= k - 1)
      BY <1>1, <3>3
    <3>5. k # 1 => k - 1 \notin Bad
      <4> HIDE DEF Bad
      <4> QED  BY <3>2, <3>4
    <3>6. k # 1 => From(k - 1, f[k - 1])
      <4> HIDE DEF From
      <4> QED  BY <3>4, <3>5
    <3>7. CASE k = 1
      <4>1. f[k] = seqs[k]
        BY <2>3, <3>3, <3>7
      <4>2. 1..k = {k}
        BY <3>7
      <4> QED  BY <1>1, <3>3, <4>1, <4>2
    <3>8. CASE k # 1
      <4> DEFINE r == f[k - 1]
                 t == seqs[k]
      <4>1. f[k] = r \o t /\ r \in Seq(S) /\ t \in Seq(S)
        BY <1>1, <2>3, <3>3, <3>6, <3>8
      <4>2. \A y : Has(r, y) <=> \E m \in 1..(k - 1) : Has(seqs[m], y)
        BY <3>6, <3>8
      <4>3. 1..k = (1..(k - 1)) \cup {k} /\ k \notin 1..(k - 1)
        BY <3>3
      <4> HIDE DEF r
      <4>4. /\ r \o t \in Seq(S)
            /\ \A y : Has(r \o t, y) <=> Has(r, y) \/ Has(t, y)
            /\ NoRepeat(r) /\ NoRepeat(t) /\ (\A y : ~(Has(r, y) /\ Has(t, y))) => NoRepeat(r \o t)
        BY <4>1, HasConcat
      <4>5. \A y : Has(r \o t, y) <=> \E m \in 1..k : Has(seqs[m], y)
        BY <4>2, <4>3, <4>4
      <4>6. ASSUME \A m \in 1..l : NoRepeat(seqs[m]),
                   \A m, n \in 1..l : \A y : Has(seqs[m], y) /\ Has(seqs[n], y) => m = n
            PROVE  NoRepeat(r \o t)
        <5>1. NoRepeat(r) /\ NoRepeat(t)
          BY <3>3, <3>6, <3>8, <4>6 DEF r
        <5>2. \A y : ~(Has(r, y) /\ Has(t, y))
          <6>1. 1..(k - 1) \subseteq 1..l
            BY <1>1, <3>3
          <6> QED  BY <3>3, <4>2, <4>3, <4>6, <6>1
        <5> QED  BY <4>4, <5>1, <5>2
      <4>7. From(k, r \o t)
        BY <4>4, <4>5, <4>6
      <4> HIDE DEF From
      <4> QED  BY <3>3, <4>1, <4>7
    <3> QED  BY <3>7, <3>8
  <2>5. l \in 1..l
    BY <1>1, <1>3
  <2>6. From(l, f[l])
    <3> HIDE DEF From
    <3> QED  BY <2>4, <2>5
  <2> QED  BY <2>2, <2>6 DEF l
<1> QED  BY <1>2, <1>3
-----------------------------------------------------------------------------
(* Sums: the loop's running totals exist and are the only ones.             *)
Totals(f, s) ==
  f = [n \in 0..Len(s) |-> IF n = 0 THEN 0 ELSE f[n - 1] + s[n]]

LEMMA TotalsValues ==
  ASSUME NEW s \in Seq(Nat), NEW f, Totals(f, s)
  PROVE  /\ DOMAIN f = 0..Len(s) /\ f[0] = 0
         /\ \A n \in 1..Len(s) : f[n] = f[n - 1] + s[n]
<1> DEFINE g == [n \in 0..Len(s) |-> IF n = 0 THEN 0 ELSE f[n - 1] + s[n]]
<1>1. f = g
  BY DEF Totals
<1>2. g[0] = 0 /\ \A n \in 1..Len(s) : g[n] = f[n - 1] + s[n]
  OBVIOUS
<1> QED  BY <1>1, <1>2

LEMMA TotalsExtend ==
  ASSUME NEW s \in Seq(Nat), NEW x \in Nat, NEW f, Totals(f, s), f[Len(s)] \in Nat
  PROVE  \E g : /\ Totals(g, Append(s, x))
                /\ g[Len(s) + 1] = f[Len(s)] + x
<1> DEFINE l == Len(s)
           t == Append(s, x)
           g == [n \in 0..(l + 1) |-> IF n = l + 1 THEN f[l] + x ELSE f[n]]
<1>1. /\ DOMAIN f = 0..l /\ f[0] = 0
      /\ \A n \in 1..l : f[n] = f[n - 1] + s[n]
  BY TotalsValues
<1>2. /\ l \in Nat /\ Len(t) = l + 1 /\ t[l + 1] = x
      /\ \A n \in 1..l : t[n] = s[n]
  OBVIOUS
<1>3. ASSUME NEW n \in 0..(l + 1)
      PROVE  g[n] = IF n = 0 THEN 0 ELSE g[n - 1] + t[n]
  <2>1. CASE n = 0
    BY <2>1, <1>1, <1>2
  <2>2. CASE n = l + 1
    BY <2>2, <1>2
  <2>3. CASE n \in 1..l
    BY <2>3, <1>1, <1>2
  <2> QED  BY <2>1, <2>2, <2>3, <1>2
<1>4. g = [n \in 0..Len(t) |-> IF n = 0 THEN 0 ELSE g[n - 1] + t[n]]
  BY <1>2, <1>3
<1>5. g[l + 1] = f[l] + x
  BY <1>2
<1> QED  BY <1>4, <1>5 DEF Totals

LEMMA TotalsExist ==
  ASSUME NEW s \in Seq(Nat)
  PROVE  \E f : Totals(f, s) /\ f[Len(s)] \in Nat
<1> DEFINE Good(t) == \E f : Totals(f, t) /\ f[Len(t)] \in Nat
           Bad == {n \in Nat : \E t \in Seq(Nat) : Len(t) = n /\ ~Good(t)}
<1> HIDE DEF Good
<1> SUFFICES ASSUME ~Good(s) PROVE FALSE
  BY DEF Good
<1>1. Bad # {} /\ Bad \in SUBSET Nat
  OBVIOUS
<1>2. PICK n \in Bad : \A m \in Bad : n <= m
  <2> HIDE DEF Bad
  <2> QED  BY ONLY <1>1, LeastNat
<1>3. PICK t \in Seq(Nat) : Len(t) = n /\ ~Good(t)
  BY <1>2
<1>4. n \in Nat
  BY <1>2
<1>5. CASE n = 0
  <2> DEFINE z == [i \in 0..0 |-> 0]
  <2>1. z = [i \in 0..Len(t) |-> IF i = 0 THEN 0 ELSE z[i - 1] + t[i]]
    BY <1>3, <1>5
  <2>2. z[Len(t)] \in Nat
    BY <1>3, <1>5
  <2> QED  BY <1>3, <2>1, <2>2 DEF Good, Totals
<1>6. CASE n # 0
  <2> DEFINE u == SubSeq(t, 1, n - 1)
             x == t[n]
  <2>1. u \in Seq(Nat) /\ Len(u) = n - 1 /\ x \in Nat /\ n - 1 \in Nat /\ ~(n <= n - 1)
    BY <1>3, <1>4, <1>6
  <2>2. t = Append(u, x)
    BY <1>3, <1>4, <1>6
  <2> HIDE DEF u, x
  <2>3. n - 1 \notin Bad
    <3> HIDE DEF Bad
    <3> QED  BY <1>2, <2>1
  <2>4. Good(u)
    BY <2>1, <2>3
  <2>5. PICK f : Totals(f, u) /\ f[Len(u)] \in Nat
    BY <2>4 DEF Good
  <2>6. PICK g : Totals(g, t) /\ g[Len(u) + 1] = f[Len(u)] + x
    BY <2>1, <2>2, <2>5, TotalsExtend
  <2>7. Len(u) + 1 = Len(t)
    BY <2>1, <1>3, <1>4
  <2>8. g[Len(t)] \in Nat
    BY <2>1, <2>5, <2>6, <2>7
  <2> QED  BY <1>3, <2>6, <2>8 DEF Good
<1> QED  BY <1>5, <1>6

LEMMA TotalsUnique ==
  ASSUME NEW s \in Seq(Nat), NEW f, NEW g, Totals(f, s), Totals(g, s)
  PROVE  f = g
<1> DEFINE Bad == {n \in 0..Len(s) : f[n] # g[n]}
<1>1. /\ DOMAIN f = 0..Len(s) /\ f[0] = 0
      /\ \A n \in 1..Len(s) : f[n] = f[n - 1] + s[n]
  BY TotalsValues
<1>2. /\ DOMAIN g = 0..Len(s) /\ g[0] = 0
      /\ \A n \in 1..Len(s) : g[n] = g[n - 1] + s[n]
  BY TotalsValues
<1>3. Bad = {}
  <2> SUFFICES ASSUME Bad # {} PROVE FALSE
    OBVIOUS
  <2>1. Bad \in SUBSET Nat
    OBVIOUS
  <2>2. PICK n \in Bad : \A m \in Bad : n <= m
    <3> HIDE DEF Bad
    <3> QED  BY ONLY <2>1, Bad # {}, LeastNat
  <2>3. n \in 1..Len(s) /\ f[n] # g[n]
    BY <2>2, <1>1, <1>2
  <2>4. n - 1 \in 0..Len(s) /\ ~(n <= n - 1)
    BY <2>3
  <2>5. n - 1 \notin Bad
    <3> HIDE DEF Bad
    <3> QED  BY <2>2, <2>4
  <2>6. f[n - 1] = g[n - 1]
    BY <2>4, <2>5
  <2> QED  BY <2>3, <2>6, <1>1, <1>2
<1>4. f = [n \in 0..Len(s) |-> f[n]] /\ g = [n \in 0..Len(s) |-> g[n]]
  BY DEF Totals
<1>5. \A n \in 0..Len(s) : f[n] = g[n]
  BY <1>3
<1> QED  BY <1>4, <1>5

LEMMA SumIsTotal ==
  ASSUME NEW s \in Seq(Nat), NEW f, Totals(f, s)
  PROVE  SumOf(s) = f[Len(s)]
<1> DEFINE h == CHOOSE h : Totals(h, s)
<1>1. Totals(h, s)
  <2> HIDE DEF h
  <2>1. Totals(f, s)
    OBVIOUS
  <2> QED  BY <2>1 DEF h
<1>2. SumOf(s) = h[Len(s)]
  BY DEF SumOf, Totals
<1> HIDE DEF h
<1>3. h = f
  BY <1>1, TotalsUnique
<1> QED  BY <1>2, <1>3

LEMMA SumNat ==
  ASSUME NEW s \in Seq(Nat)
  PROVE  SumOf(s) \in Nat
<1>1. PICK f : Totals(f, s) /\ f[Len(s)] \in Nat
  BY TotalsExist
<1> QED  BY <1>1, SumIsTotal

(* Numbers that reach the most they can add up to are all as large as they  *)
(* can be.                                                                  *)
LEMMA SumReaches ==
  ASSUME NEW s \in Seq(Nat), NEW b \in Nat, \A n \in 1..Len(s) : s[n] <= b,
         SumOf(s) = Len(s) * b
  PROVE  \A n \in 1..Len(s) : s[n] = b
<1> DEFINE l == Len(s)
<1>1. PICK f : Totals(f, s)
  BY TotalsExist
<1>2. /\ f[0] = 0 /\ l \in Nat /\ f[l] = l * b
      /\ \A n \in 1..l : f[n] = f[n - 1] + s[n] /\ s[n] \in Nat /\ s[n] <= b
  BY <1>1, TotalsValues, SumIsTotal
<1> HIDE DEF l
<1> DEFINE Below(n) == /\ f[n] \in Nat /\ f[n] <= n * b
                       /\ (\E m \in 1..n : s[m] < b) => f[n] < n * b
           Bad == {n \in 0..l : ~Below(n)}
<1>3. Bad = {}
  <2> SUFFICES ASSUME Bad # {} PROVE FALSE
    OBVIOUS
  <2>1. Bad \in SUBSET Nat
    BY <1>2
  <2>2. PICK n \in Bad : \A m \in Bad : n <= m
    <3> HIDE DEF Bad
    <3> QED  BY ONLY <2>1, Bad # {}, LeastNat
  <2>3. n \in 0..l /\ n \in Nat /\ ~Below(n)
    BY <2>2
  <2>4. n # 0
    <3>1. 0 * b = 0
      BY SMT
    <3> QED  BY <1>2, <2>3, <3>1
  <2>5. n - 1 \in 0..l /\ ~(n <= n - 1) /\ n \in 1..l
    BY <1>2, <2>3, <2>4
  <2>6. n - 1 \notin Bad
    <3> HIDE DEF Bad
    <3> QED  BY <2>2, <2>5
  <2>7. Below(n - 1)
    <3> HIDE DEF Below
    <3> QED  BY <2>5, <2>6
  <2> DEFINE c == (n - 1) * b
             d == n * b
  <2>8. d = c + b /\ c \in Nat /\ d \in Nat
    <3>1. n - 1 \in Nat
      BY <2>3, <2>4
    <3>2. c \in Nat /\ d \in Nat
      BY ONLY <2>3, <3>1, b \in Nat, ProductNat
    <3>3. d = c + b
      BY ONLY <2>3, b \in Nat, SMT
    <3> QED  BY <3>2, <3>3
  <2>9. 1..n = (1..(n - 1)) \cup {n}
    BY <2>3, <2>4
  <2>10. f[n] = f[n - 1] + s[n] /\ s[n] \in Nat /\ s[n] <= b
    BY <1>2, <2>5
  <2>11. f[n - 1] \in Nat /\ f[n - 1] <= c /\ ((\E m \in 1..(n - 1) : s[m] < b) => f[n - 1] < c)
    BY <2>7
  <2> HIDE DEF c, d
  <2>12. f[n] \in Nat /\ f[n] <= d /\ ((\E m \in 1..n : s[m] < b) => f[n] < d)
    BY ONLY b \in Nat, <2>8, <2>9, <2>10, <2>11
  <2> QED  BY <2>3, <2>12 DEF d
<1>4. Below(l)
  <2> HIDE DEF Below
  <2> QED  BY <1>2, <1>3
<1>5. ~(\E m \in 1..l : s[m] < b)
  <2>1. l * b \in Nat
    BY ONLY <1>2, b \in Nat, ProductNat
  <2> QED  BY <1>2, <1>4, <2>1
<1> QED  BY <1>2, <1>5 DEF l

-----------------------------------------------------------------------------
(* The output channel: NMinibatches shares of it are all the groups.        *)

LEMMA HasIs ==
  ASSUME NEW S, NEW s \in Seq(S)
  PROVE  /\ \A x : x \in ToSet(s) <=> Has(s, x)
         /\ \A x : Contains(s, x) <=> Has(s, x)
         /\ ToSet(s) \subseteq S
<1>1. DOMAIN s = 1..Len(s) /\ \A n \in 1..Len(s) : s[n] \in S
  OBVIOUS
<1> QED  BY <1>1 DEF Has, ToSet, Contains

LEMMA AllPutOut ==
  ASSUME NEW s \in Seq(Groups), NoRepeat(s), Len(s) >= InstanceNum * Share
  PROVE  ToSet(s) = Groups
<1>1. SUFFICES ASSUME NEW g \in Groups, ~Has(s, g) PROVE FALSE
  BY HasIs
<1> DEFINE l == Len(s)
           n == InstanceNum * Share
           D == 1..l
           T == Groups \ {g}
<1>2. l \in Nat /\ D = DOMAIN s /\ n \in Nat /\ l >= n /\ \A k \in D : s[k] \in Groups /\ s[k] # g
  BY <1>1, Sizes DEF Has
<1>3. s = [k \in D |-> s[k]]
  OBVIOUS
<1>4. s \in [D -> T]
  BY <1>2, <1>3
<1>5. IsFiniteSet(T) /\ Cardinality(T) = n - 1
  BY <1>1, GroupsFinite, FS_RemoveElement
<1> HIDE DEF n, l, T
<1>6. IsFiniteSet(1..l) /\ Cardinality(1..l) = IF 1 > l THEN 0 ELSE l - 1 + 1
  BY <1>2, FS_Interval
<1>7. IsFiniteSet(D) /\ Cardinality(D) = l
  BY <1>2, <1>6
<1>8. Cardinality(T) < Cardinality(D)
  BY <1>2, <1>5, <1>7
<1> HIDE DEF D
<1>9. \E x, y \in D : x # y /\ s[x] = s[y]
  BY <1>4, <1>5, <1>7, <1>8, FS_PigeonHole
<1> QED  BY <1>2, <1>9 DEF NoRepeat

LEMMA LastUpdate ==
  ASSUME output \in Seq(Groups), NoRepeat(output), train_iter = NMinibatches - 1, ActorUpdates
  PROVE  ToSet(output) = Groups
<1> DEFINE n == InstanceNum * Share
           m == NMinibatches
           d == n \div m
<1>1. n \in Nat /\ m \in Nat \ {0} /\ (n % m) = 0
  BY Sizes, SizeAssumption
<1>2. Len(output) >= (m - 1 + 1) * d
  BY GroupsFinite DEF ActorUpdates
<1> HIDE DEF n, m
<1>3. m - 1 + 1 = m
  BY <1>1
<1>4. d \in Nat /\ n = m * d
  BY <1>1, SMT
<1>5. Len(output) >= n
  BY <1>2, <1>3, <1>4
<1> QED  BY <1>5, AllPutOut DEF n

(* What pre_process_impl waits for: every instance has reported its batch.  *)
LEMMA AllReported ==
  ASSUME NEW rs \in [Instances -> ReportType],
         \A i \in Instances : rs[i].total <= GroupSize * Share,
         LendingDone(rs)
  PROVE  \A i \in Instances : rs[i].total > 0
<1> DEFINE s == [n \in 1..InstanceNum |-> rs[n - 1].total]
           b == GroupSize * Share
<1>1. InstanceNum \in Nat \ {0} /\ GroupSize \in Nat \ {0} /\ Share \in Nat \ {0}
  BY Sizes
<1>2. b \in Nat /\ b > 0
  <2>1. b \in Nat
    BY ONLY <1>1, ProductNat
  <2>2. b # 0
    BY ONLY <1>1, SMT
  <2> QED  BY <2>1, <2>2
<1>3. \A n \in 1..InstanceNum : n - 1 \in Instances
  BY Sizes
<1>4. s \in Seq(Nat) /\ Len(s) = InstanceNum
  BY <1>1, <1>3 DEF ReportType
<1>5. \A n \in 1..Len(s) : s[n] <= b
  BY <1>3, <1>4
<1>6. SumOf(s) = Len(s) * b
  <2>1. InstanceNum * b = TotalTasks
    <3>1. \A x, y, z \in Nat : x * (y * z) = x * z * y
      BY SMT
    <3>2. InstanceNum \in Nat /\ GroupSize \in Nat /\ Share \in Nat
      BY <1>1
    <3> QED  BY ONLY <3>1, <3>2, Zenon DEF TotalTasks
  <2> QED  BY <1>4, <2>1 DEF LendingDone, ReportedTotal
<1>7. \A n \in 1..InstanceNum : s[n] = rs[n - 1].total
  OBVIOUS
<1> HIDE DEF s, b
<1>8. \A n \in 1..Len(s) : s[n] = b
  BY <1>2, <1>4, <1>5, <1>6, SumReaches
<1>9. ASSUME NEW i \in Instances PROVE rs[i].total > 0
  <2>1. PICK n \in 1..InstanceNum : n - 1 = i
    <3>1. i + 1 \in 1..InstanceNum /\ (i + 1) - 1 = i
      BY Sizes
    <3> QED  BY <3>1
  <2>2. s[n] = rs[i].total
    BY <1>7, <2>1
  <2> QED  BY <1>2, <1>4, <1>8, <2>1, <2>2
<1> QED  BY <1>9

-----------------------------------------------------------------------------
(* A step of one instance leaves the others as they are.                    *)

Elsewhere(i) ==
  /\ UNCHANGED <<manager, offset, leaving, policy>>
  /\ \A j \in Instances : j # i =>
       /\ rollout'[j] = rollout[j] /\ returned'[j] = returned[j]
       /\ serving'[j] = serving[j] /\ running'[j] = running[j]
       /\ aborted'[j] = aborted[j] /\ done'[j] = done[j] /\ event'[j] = event[j]
       /\ requests'[j] = requests[j] /\ responses'[j] = responses[j]
  /\ raised \subseteq raised'
  /\ \A g \in Groups : Has(output, g) => Has(output', g)
  /\ \A g \in Groups : \/ completed'[g] = completed[g] /\ abortedSeqs'[g] = abortedSeqs[g]
                       \/ \E a \in Kinds : At(g, a, i)

LEMMA LeavingWhen ==
  ASSUME TypeOK, NEW i \in Instances, IsLeaving(i)
  PROVE  manager \in {"migrating", "finishing"}
  BY Sizes DEF TypeOK, IsLeaving

LEMMA ReturnedRun ==
  ASSUME TypeOK, NEW i \in Instances, RolloutAt(i)
  PROVE  returned[i] \subseteq running[i]
  BY DEF TypeOK, RolloutAt, Clean

LEMMA Others ==
  ASSUME IInv, NEW i \in Instances, Elsewhere(i), NEW j \in Instances, j # i
  PROVE  InstanceAt(j)'
<1> DEFINE Same == /\ rollout'[j] = rollout[j] /\ returned'[j] = returned[j]
                   /\ serving'[j] = serving[j] /\ running'[j] = running[j]
                   /\ aborted'[j] = aborted[j] /\ done'[j] = done[j] /\ event'[j] = event[j]
                   /\ requests'[j] = requests[j] /\ responses'[j] = responses[j]
                   /\ UNCHANGED <<manager, offset, leaving, policy>>
<1>1. Same
  BY DEF Elsewhere
<1>2. /\ TypeOK /\ InstanceAt(j) /\ OnePlace
  BY DEF IInv
<1>3. ProtocolAt(j)'
  BY <1>1, <1>2 DEF InstanceAt, ProtocolAt, Released, AtRest, Clean, Silent, Told, Quiet,
                    Serving, Answered, Ended, IsLeaving
<1>4. RolloutAt(j)'
  <2>1. raised # {} => raised' # {}
    BY DEF Elsewhere
  <2> QED  BY <1>1, <1>2, <2>1 DEF InstanceAt, RolloutAt, Clean, Released, Answered, Ended,
                                   IsLeaving, Silent
<1>5. GroupsAt(j)'
  <2>1. ASSUME NEW g \in Groups, NEW b \in Kinds, At(g, b, j)
        PROVE  completed'[g] = completed[g] /\ abortedSeqs'[g] = abortedSeqs[g]
    BY <1>2, <2>1 DEF OnePlace, Elsewhere
  <2>2. \A g \in running[j] : g \in Groups /\ completed'[g] = completed[g] /\ abortedSeqs'[g] = abortedSeqs[g]
    <3>1. \A g \in running[j] : g \in Groups /\ At(g, "running", j)
      BY <1>2 DEF TypeOK, At
    <3> QED  BY <2>1, <3>1 DEF Kinds
  <2>3. \A g \in Batch(j) : rollout[j] = "called" => abortedSeqs'[g] = abortedSeqs[g]
    <3>1. \A g \in Batch(j) : rollout[j] = "called" => g \in Groups /\ At(g, "fresh", j)
      BY BatchIs DEF At
    <3> QED  BY <2>1, <3>1 DEF Kinds
  <2>4. returned[j] \subseteq running[j]
    BY <1>2, ReturnedRun DEF InstanceAt
  <2>5. \A g \in returned[j] : RunningSeqs(g)' = 0
    BY <1>2, <2>2, <2>4 DEF InstanceAt, GroupsAt, RunningSeqs
  <2>6. \A g \in done[j] : Has(output', g)
    <3>1. done[j] \subseteq Groups
      BY <1>2 DEF TypeOK
    <3> QED  BY <1>2, <3>1 DEF InstanceAt, GroupsAt, Elsewhere
  <2>7. GroupsAt(j)
    BY <1>2 DEF InstanceAt
  <2> QED  BY <1>1, <2>2, <2>3, <2>5, <2>6, <2>7 DEF GroupsAt, Answered, IsLeaving
<1>6. PolicyAt(j)'
  BY <1>1, <1>2 DEF InstanceAt, PolicyAt, Pre
<1> QED  BY <1>3, <1>4, <1>5, <1>6 DEF InstanceAt

(* Groups stay where they are or move, each to one place.                   *)
LEMMA Places ==
  ASSUME OnePlace, output' = output,
         \A g \in Groups :
           \/ \A a \in Kinds, i \in Instances : At(g, a, i)' => At(g, a, i)
           \/ /\ ~Has(output, g)
              /\ \E b \in Kinds, k \in Instances :
                   \A a \in Kinds, i \in Instances : At(g, a, i)' => a = b /\ i = k
  PROVE  OnePlace'
<1>1. ASSUME NEW g \in Groups
      PROVE  /\ \A i, j \in Instances, a, b \in Kinds : At(g, a, i)' /\ At(g, b, j)' => a = b /\ i = j
             /\ \A i \in Instances, a \in Kinds : At(g, a, i)' => ~Has(output, g)
  BY DEF OnePlace
<1>2. NoRepeat(output)' /\ \A g \in Groups : Has(output', g) <=> Has(output, g)
  BY DEF OnePlace
<1> QED  BY <1>1, <1>2 DEF OnePlace

(* What a step of one instance has to keep.                                 *)
LEMMA InstanceStep ==
  ASSUME IInv, NEW i \in Instances, Elsewhere(i), train_iter' = train_iter,
         TypeOK', InstanceAt(i)', OnePlace', policy.preProcess => raised' = {}
  PROVE  IInv'
<1>1. \A j \in Instances : InstanceAt(j)'
  BY Others
<1>2. ToSet(output) = Groups => ToSet(output') = Groups
  <2>1. output \in Seq(Groups) /\ output' \in Seq(Groups)
    BY DEF IInv, TypeOK
  <2>2. \A g : g \in ToSet(output) <=> Has(output, g)
    BY <2>1, HasIs
  <2>3. (\A g : g \in ToSet(output') <=> Has(output', g)) /\ ToSet(output') \subseteq Groups
    BY <2>1, HasIs
  <2> QED  BY <2>2, <2>3 DEF Elsewhere
<1>3. PolicyOK'
  BY <1>2 DEF IInv, PolicyOK, Elsewhere, Pre, Lending
<1> QED  BY <1>1, <1>3 DEF IInv

LEMMA BeginStep ==
  ASSUME IInv, NEW i \in Instances, Begin(i)
  PROVE  IInv'
<1>1. TypeOK /\ InstanceAt(i) /\ OnePlace /\ PolicyOK
  BY DEF IInv
<1>2. /\ rollout[i] = "called" /\ returned[i] = {} /\ aborted[i] = <<>> /\ done[i] = {}
      /\ ~Released(i)
  BY <1>1 DEF Begin, InstanceAt, RolloutAt, ProtocolAt, AtRest
<1>3. /\ UNCHANGED <<groupVars, returned, serving, aborted, done, event, channelVars, managerVars>>
      /\ raised \subseteq raised'
      /\ \A j \in Instances : j # i => rollout'[j] = rollout[j] /\ running'[j] = running[j]
  BY <1>1 DEF Begin, TypeOK
<1>4. Elsewhere(i)
  BY <1>3 DEF Elsewhere, groupVars, channelVars, managerVars
<1>5. Batch(i) \subseteq Groups /\ Batch(i) # {}
  BY BatchIs
<1>6. CASE running[i] = {}
  <2>1. rollout' = [rollout EXCEPT ![i] = "waiting_tasks"] /\ running' = [running EXCEPT ![i] = Batch(i)]
        /\ raised' = raised
    BY <1>2, <1>6 DEF Begin
  <2>2. rollout'[i] = "waiting_tasks" /\ running'[i] = Batch(i)
    BY <1>1, <2>1 DEF TypeOK
  <2>3. TypeOK'
    BY <1>1, <1>3, <1>5, <2>1 DEF TypeOK, groupVars, channelVars, managerVars
  <2>4. ProtocolAt(i)'
    BY <1>1, <1>2, <1>3, <2>2 DEF InstanceAt, ProtocolAt, Released, Silent, Told, Quiet, Serving,
         Answered, Ended, IsLeaving, channelVars, managerVars
  <2>5. RolloutAt(i)'
    BY <1>1, <1>2, <1>3, <1>5, <1>6, <2>2 DEF InstanceAt, RolloutAt, Released, Silent, Answered,
         Ended, IsLeaving, channelVars, managerVars
  <2>6. GroupsAt(i)'
    BY <1>1, <1>2, <1>3, <1>5, <2>2 DEF InstanceAt, GroupsAt, Answered, IsLeaving, TypeOK,
         groupVars, channelVars, managerVars
  <2>7. PolicyAt(i)'
    BY <1>1, <1>2, <1>3, <2>2 DEF InstanceAt, PolicyAt, Pre, channelVars, managerVars
  <2>8. OnePlace'
    <3>1. ASSUME NEW g \in Groups, NEW a \in Kinds, NEW j \in Instances, At(g, a, j)'
          PROVE  At(g, a, j) \/ (a = "running" /\ j = i /\ g \in Batch(i))
      BY <1>3, <2>1, <2>2, <3>1 DEF At, channelVars, managerVars
    <3>2. ASSUME NEW g \in Groups, g \in Batch(i)
          PROVE  /\ ~Has(output, g)
                 /\ \A a \in Kinds, j \in Instances : At(g, a, j)' => a = "running" /\ j = i
      <4>1. At(g, "fresh", i) /\ "fresh" \in Kinds
        BY <1>2, <3>2 DEF At, Kinds
      <4>2. \A a \in Kinds, j \in Instances : At(g, a, j) => a = "fresh" /\ j = i
        BY <1>1, <4>1 DEF OnePlace
      <4>3. \A j \in Instances : ~At(g, "fresh", j)' \/ j # i
        BY <2>2 DEF At
      <4> QED  BY <1>1, <3>1, <4>1, <4>2, <4>3 DEF OnePlace
    <3>3. output' = output
      BY <1>3 DEF groupVars
    <3>4. "running" \in Kinds
      BY DEF Kinds
    <3> QED  BY <1>1, <3>1, <3>2, <3>3, <3>4, Places
  <2>9. train_iter' = train_iter /\ (policy.preProcess => raised' = {})
    BY <1>1, <1>3, <2>1 DEF PolicyOK, managerVars
  <2> QED  BY <1>4, <2>3, <2>4, <2>5, <2>6, <2>7, <2>8, <2>9, InstanceStep DEF InstanceAt
<1>7. CASE running[i] # {}
  <2>1. rollout' = [rollout EXCEPT ![i] = "failed"] /\ running' = running
        /\ raised' = raised \cup {"residual"}
    BY <1>2, <1>7 DEF Begin
  <2>2. rollout'[i] = "failed"
    BY <1>1, <2>1 DEF TypeOK
  <2>3. TypeOK'
    BY <1>1, <1>3, <2>1 DEF TypeOK, groupVars, channelVars, managerVars
  <2>4. ProtocolAt(i)'
    BY <1>1, <1>2, <1>3, <2>2 DEF InstanceAt, ProtocolAt, Released, Silent, Told, Quiet, Serving,
         Answered, Ended, IsLeaving, channelVars, managerVars
  <2>5. RolloutAt(i)'
    BY <1>1, <1>2, <1>3, <1>7, <2>1, <2>2 DEF InstanceAt, RolloutAt, Released, Silent, Answered,
         Ended, IsLeaving, channelVars, managerVars
  <2>6. GroupsAt(i)'
    BY <1>1, <1>2, <1>3, <2>1, <2>2 DEF InstanceAt, GroupsAt, Answered, IsLeaving, TypeOK,
         groupVars, channelVars, managerVars
  <2>7. PolicyAt(i)'
    BY <1>1, <1>2, <1>3, <2>1, <2>2 DEF InstanceAt, PolicyAt, Pre, channelVars, managerVars
  <2>8. OnePlace'
    <3>1. ASSUME NEW g \in Groups, NEW a \in Kinds, NEW j \in Instances, At(g, a, j)'
          PROVE  At(g, a, j)
      BY <1>3, <2>1, <2>2, <3>1 DEF At, channelVars, managerVars
    <3>2. output' = output
      BY <1>3 DEF groupVars
    <3> QED  BY <1>1, <3>1, <3>2, Places
  <2>9. train_iter' = train_iter /\ (policy.preProcess => raised' = {})
    <3>1. ~policy.preProcess
      BY <1>1, <1>2, <1>7 DEF InstanceAt, PolicyAt, Released
    <3> QED  BY <1>3, <3>1 DEF managerVars
  <2> QED  BY <1>4, <2>3, <2>4, <2>5, <2>6, <2>7, <2>8, <2>9, InstanceStep DEF InstanceAt
<1> QED  BY <1>6, <1>7

LEMMA GenerateStep ==
  ASSUME IInv, NEW i \in Instances, NEW g \in Groups, Generate(i, g)
  PROVE  IInv'
<1>1. TypeOK /\ InstanceAt(i) /\ OnePlace /\ PolicyOK
  BY DEF IInv
<1>2. /\ UNCHANGED <<abortedSeqs, output, instanceVars, channelVars, managerVars, raised>>
      /\ g \in running[i] /\ completed' = [completed EXCEPT ![g] = @ + 1]
      /\ GroupSize - completed[g] - abortedSeqs[g] > 0
  BY DEF Generate, RunningSeqs
<1>3. Elsewhere(i)
  <2>1. At(g, "running", i) /\ "running" \in Kinds
    BY <1>2 DEF At, Kinds
  <2>2. \A h \in Groups : h # g => completed'[h] = completed[h]
    BY <1>1, <1>2 DEF TypeOK
  <2> QED  BY <1>2, <2>1, <2>2 DEF Elsewhere, instanceVars, channelVars, managerVars
<1>4. TypeOK'
  <2>1. /\ completed' \in [Groups -> 0..GroupSize]
        /\ \A h \in Groups : completed'[h] + abortedSeqs[h] <= GroupSize
    <3>1. GroupSize \in Nat
      BY Sizes
    <3>2. ASSUME NEW h \in Groups
          PROVE  /\ completed[h] \in 0..GroupSize /\ abortedSeqs[h] \in 0..GroupSize
                 /\ completed[h] + abortedSeqs[h] <= GroupSize
                 /\ completed'[h] = IF h = g THEN completed[h] + 1 ELSE completed[h]
      BY <1>1, <1>2 DEF TypeOK
    <3>3. \A h \in Groups : /\ completed'[h] \in 0..GroupSize
                            /\ completed'[h] + abortedSeqs[h] <= GroupSize
      BY <1>2, <3>1, <3>2
    <3>4. completed' = [h \in Groups |-> completed'[h]]
      BY <1>1, <1>2 DEF TypeOK
    <3> QED  BY <3>3, <3>4
  <2> QED  BY <1>1, <1>2, <2>1 DEF TypeOK, instanceVars, channelVars, managerVars
<1>5. InstanceAt(i)'
  <2>1. ProtocolAt(i)' /\ RolloutAt(i)' /\ PolicyAt(i)'
    BY <1>1, <1>2 DEF InstanceAt, ProtocolAt, RolloutAt, PolicyAt, Released, AtRest, Clean, Silent,
         Told, Quiet, Serving, Answered, Ended, IsLeaving, Pre,
         instanceVars, channelVars, managerVars
  <2>2. \A h \in returned[i] : RunningSeqs(h)' = 0
    <3>1. ASSUME NEW h \in returned[i] PROVE h \in Groups /\ RunningSeqs(h) = 0 /\ h # g
      BY <1>1, <1>2 DEF InstanceAt, GroupsAt, RunningSeqs, TypeOK
    <3> QED  BY <1>1, <1>2, <3>1 DEF RunningSeqs, TypeOK
  <2>3. GroupsAt(i)'
    BY <1>1, <1>2, <2>2 DEF InstanceAt, GroupsAt, Answered, IsLeaving,
         instanceVars, channelVars, managerVars
  <2> QED  BY <2>1, <2>3 DEF InstanceAt
<1>6. OnePlace'
  <2>1. \A h \in Groups, a \in Kinds, j \in Instances : At(h, a, j)' => At(h, a, j)
    BY <1>2 DEF At, instanceVars, channelVars, managerVars
  <2> QED  BY <1>1, <1>2, <2>1, Places
<1> QED  BY <1>1, <1>2, <1>3, <1>4, <1>5, <1>6, InstanceStep DEF PolicyOK, managerVars

LEMMA TasksReturnStep ==
  ASSUME IInv, NEW i \in Instances, TasksReturn(i)
  PROVE  IInv'
<1>1. TypeOK /\ InstanceAt(i) /\ OnePlace /\ PolicyOK
  BY DEF IInv
<1> DEFINE finished == {g \in running[i] : RunningSeqs(g) = 0}
<1>2. /\ rollout[i] = "waiting_tasks" /\ finished # {}
      /\ returned' = [returned EXCEPT ![i] = finished]
      /\ rollout' = [rollout EXCEPT ![i] = "handling"]
      /\ UNCHANGED <<groupVars, serving, running, aborted, done, event, channelVars,
                     managerVars, raised>>
  BY DEF TasksReturn
<1>3. /\ returned'[i] = finished /\ rollout'[i] = "handling"
      /\ \A j \in Instances : j # i => rollout'[j] = rollout[j] /\ returned'[j] = returned[j]
  BY <1>1, <1>2 DEF TypeOK
<1>4. Elsewhere(i)
  BY <1>2, <1>3 DEF Elsewhere, groupVars, channelVars, managerVars
<1>5. TypeOK'
  BY <1>1, <1>2 DEF TypeOK, groupVars, channelVars, managerVars
<1>6. InstanceAt(i)'
  <2>1. ~Released(i) /\ (manager # "finishing" \/ ~Answered(i, "Offloaded"))
    BY <1>1, <1>2 DEF InstanceAt, ProtocolAt, RolloutAt, AtRest
  <2>2. ProtocolAt(i)'
    BY <1>1, <1>2, <2>1 DEF InstanceAt, ProtocolAt, Released, Silent, Told, Quiet, Serving,
         Answered, Ended, IsLeaving, channelVars, managerVars
  <2>3. finished \subseteq running[i]
    OBVIOUS
  <2>4. \A g \in finished : RunningSeqs(g)' = 0
    BY <1>2 DEF RunningSeqs, groupVars
  <2> HIDE DEF finished
  <2>5. RolloutAt(i)'
    BY <1>1, <1>2, <1>3, <2>1, <2>3 DEF InstanceAt, RolloutAt, Released, Silent, Answered,
         Ended, IsLeaving, channelVars, managerVars
  <2>6. GroupsAt(i)'
    BY <1>1, <1>2, <1>3, <2>4 DEF InstanceAt, GroupsAt, Answered, IsLeaving,
         groupVars, channelVars, managerVars
  <2>7. PolicyAt(i)'
    BY <1>1, <1>2, <1>3 DEF InstanceAt, PolicyAt, Pre, channelVars, managerVars
  <2> QED  BY <2>2, <2>5, <2>6, <2>7 DEF InstanceAt
<1>7. OnePlace'
  <2>1. \A h \in Groups, a \in Kinds, j \in Instances : At(h, a, j)' => At(h, a, j)
    BY <1>2, <1>3 DEF At, channelVars, managerVars
  <2> QED  BY <1>1, <1>2, <2>1, Places DEF groupVars
<1> QED  BY <1>1, <1>2, <1>4, <1>5, <1>6, <1>7, InstanceStep DEF PolicyOK, managerVars

LEMMA HandleReturnedStep ==
  ASSUME IInv, NEW i \in Instances, NEW g \in Groups, HandleReturned(i, g)
  PROVE  IInv'
<1>1. TypeOK /\ InstanceAt(i) /\ OnePlace /\ PolicyOK
  BY DEF IInv
<1> DEFINE next == IF returned[i] \ {g} # {} THEN "handling"
                   ELSE IF running[i] \ {g} # {} THEN "waiting_tasks" ELSE "waiting_event"
<1>2. /\ rollout[i] = "handling" /\ g \in returned[i]
      /\ returned' = [returned EXCEPT ![i] = @ \ {g}]
      /\ running' = [running EXCEPT ![i] = @ \ {g}]
      /\ UNCHANGED <<completed, abortedSeqs, serving, event, channelVars, managerVars, raised>>
  BY DEF HandleReturned
<1>3. returned'[i] = returned[i] \ {g} /\ running'[i] = running[i] \ {g}
  BY <1>1, <1>2 DEF TypeOK
<1>4. rollout' = [rollout EXCEPT ![i] = next]
  BY <1>3 DEF HandleReturned
<1>5. rollout'[i] = next /\ next \in {"handling", "waiting_tasks", "waiting_event"}
  BY <1>1, <1>4 DEF TypeOK
<1>6. \A j \in Instances : j # i => /\ rollout'[j] = rollout[j] /\ returned'[j] = returned[j]
                                    /\ running'[j] = running[j]
  BY <1>1, <1>2, <1>4 DEF TypeOK
<1>7. /\ ~Released(i) /\ (manager # "finishing" \/ ~Answered(i, "Offloaded"))
      /\ returned[i] \subseteq running[i] /\ g \in running[i] /\ RunningSeqs(g) = 0
      /\ event[i] => Ended(i)
  BY <1>1, <1>2 DEF InstanceAt, ProtocolAt, RolloutAt, GroupsAt, AtRest
<1>8. next = "handling" => returned[i] \ {g} # {} /\ returned[i] \ {g} \subseteq running[i] \ {g}
  BY <1>7
<1>9. /\ next = "waiting_tasks" => returned[i] \ {g} = {} /\ running[i] \ {g} # {}
      /\ next = "waiting_event" => returned[i] \ {g} = {}
  OBVIOUS
<1> HIDE DEF next
<1>10. ProtocolAt(i)'
  BY <1>1, <1>2, <1>5, <1>7 DEF InstanceAt, ProtocolAt, Released, Silent, Told, Quiet, Serving,
       Answered, Ended, IsLeaving, channelVars, managerVars
<1>11. RolloutAt(i)'
  BY <1>1, <1>2, <1>3, <1>5, <1>7, <1>8, <1>9 DEF InstanceAt, RolloutAt, Released, Silent, Answered,
       Ended, IsLeaving, channelVars, managerVars
<1>12. \A h \in running'[i] : abortedSeqs[h] > 0 => serving[i] = "Migrate_Out"
  BY <1>1, <1>3 DEF InstanceAt, GroupsAt
<1>13. \A h \in returned'[i] : RunningSeqs(h)' = 0
  BY <1>1, <1>2, <1>3 DEF InstanceAt, GroupsAt, RunningSeqs
<1>14. \A h \in Groups, a \in Kinds :
         At(h, a, i) /\ h = g => a = "running"
  <2>1. At(g, "running", i) /\ "running" \in Kinds
    BY <1>7 DEF At, Kinds
  <2> QED  BY <1>1, <2>1 DEF OnePlace
<1>15. ~Has(output, g)
  <2>1. At(g, "running", i) /\ "running" \in Kinds
    BY <1>7 DEF At, Kinds
  <2> QED  BY <1>1, <2>1 DEF OnePlace
<1>16. train_iter' = train_iter /\ (policy.preProcess => raised' = {})
  BY <1>1, <1>2 DEF PolicyOK, managerVars
<1>17. CASE AllCompleted(g)
  <2>1. /\ output' = Append(output, g) /\ done' = [done EXCEPT ![i] = @ \cup {g}]
        /\ aborted' = aborted
    BY <1>17 DEF HandleReturned
  <2>2. done'[i] = done[i] \cup {g} /\ \A j \in Instances : j # i => done'[j] = done[j]
    BY <1>1, <2>1 DEF TypeOK
  <2>3. /\ output' \in Seq(Groups) /\ \A h : Has(output', h) <=> Has(output, h) \/ h = g
        /\ NoRepeat(output')
    <3>1. output \in Seq(Groups) /\ NoRepeat(output)
      BY <1>1 DEF TypeOK, OnePlace
    <3>2. /\ \A h : Has(Append(output, g), h) <=> Has(output, h) \/ h = g
          /\ NoRepeat(output) /\ ~Has(output, g) => NoRepeat(Append(output, g))
          /\ Append(output, g) \in Seq(Groups)
      BY <3>1, HasAppend, AppendIs
    <3> QED  BY <1>15, <2>1, <3>1, <3>2
  <2>4. Elsewhere(i)
    BY <1>2, <1>6, <2>1, <2>2, <2>3 DEF Elsewhere, channelVars, managerVars
  <2>5. TypeOK'
    <3>1. returned' \in [Instances -> SUBSET Groups] /\ running' \in [Instances -> SUBSET Groups]
          /\ done' \in [Instances -> SUBSET Groups]
      BY <1>1, <1>2, <2>1 DEF TypeOK
    <3>2. rollout' \in [Instances -> {"out", "called", "waiting_tasks", "handling",
                                      "waiting_event", "offloading", "failed"}]
      BY <1>1, <1>4, <1>5 DEF TypeOK
    <3> QED  BY <1>1, <1>2, <2>1, <2>3, <3>1, <3>2 DEF TypeOK, channelVars, managerVars
  <2>6. GroupsAt(i)'
    BY <1>1, <1>2, <1>5, <1>12, <1>13, <2>1, <2>2, <2>3 DEF InstanceAt, GroupsAt, Answered,
         IsLeaving, channelVars, managerVars
  <2>7. PolicyAt(i)'
    BY <1>1, <1>2, <1>3, <1>5, <1>7, <2>2 DEF InstanceAt, PolicyAt, Pre, channelVars, managerVars
  <2>8. OnePlace'
    <3>1. \A h \in Groups, a \in Kinds, j \in Instances : At(h, a, j)' => At(h, a, j)
      BY <1>2, <1>3, <1>5, <1>6, <2>1 DEF At, channelVars, managerVars
    <3>2. ASSUME NEW a \in Kinds, NEW j \in Instances PROVE ~At(g, a, j)'
      <4>1. SUFFICES ASSUME At(g, a, j)' PROVE FALSE
        OBVIOUS
      <4>2. At(g, a, j) /\ At(g, "running", i) /\ "running" \in Kinds
        BY <1>7, <3>1, <4>1 DEF At, Kinds
      <4>3. a = "running" /\ j = i
        BY <1>1, <4>2 DEF OnePlace
      <4> QED  BY <1>3, <4>1, <4>3 DEF At
    <3>3. \A h \in Groups, a \in Kinds, j \in Instances : At(h, a, j)' => ~Has(output', h)
      BY <1>1, <2>3, <3>1, <3>2 DEF OnePlace
    <3>4. \A h \in Groups, j, k \in Instances, a, b \in Kinds :
            At(h, a, j)' /\ At(h, b, k)' => a = b /\ j = k
      BY <1>1, <3>1 DEF OnePlace
    <3> QED  BY <2>3, <3>3, <3>4 DEF OnePlace
  <2> QED  BY <1>10, <1>11, <1>16, <2>4, <2>5, <2>6, <2>7, <2>8, InstanceStep DEF InstanceAt
<1>18. CASE ~AllCompleted(g)
  <2>1. /\ aborted' = [aborted EXCEPT ![i] = Append(@, g)] /\ output' = output /\ done' = done
    BY <1>18 DEF HandleReturned
  <2>2. abortedSeqs[g] > 0
    <3>1. GroupSize \in Nat /\ completed[g] \in Nat /\ abortedSeqs[g] \in Nat
      BY <1>1, Sizes DEF TypeOK
    <3>2. GroupSize - completed[g] - abortedSeqs[g] = 0 /\ completed[g] # GroupSize
      BY <1>7, <1>18 DEF RunningSeqs, AllCompleted
    <3> QED  BY ONLY <3>1, <3>2
  <2>3. serving[i] = "Migrate_Out" /\ manager = "migrating" /\ IsLeaving(i)
    <3>1. serving[i] = "Migrate_Out"
      BY <1>1, <1>7, <2>2 DEF InstanceAt, GroupsAt
    <3>2. ProtocolAt(i) /\ ~Released(i) /\ manager \in {"pre_process", "pre_reporting",
            "await_actor", "reporting", "migrating", "finishing"}
      BY <1>1, <1>7 DEF InstanceAt, TypeOK, Released
    <3>3. IsLeaving(i) => manager \in {"migrating", "finishing"}
      BY <1>1, LeavingWhen
    <3> QED  BY ONLY <3>1, <3>2, <3>3 DEF ProtocolAt, Silent, Serving, Answered, Ended
  <2>4. ~Has(aborted[i], g)
    <3>1. At(g, "running", i) /\ "running" \in Kinds /\ "aborted" \in Kinds
      BY <1>7 DEF At, Kinds
    <3>2. ~At(g, "aborted", i)
      BY <1>1, <3>1 DEF OnePlace
    <3> QED  BY <2>3, <3>2 DEF At
  <2>5. /\ aborted'[i] = Append(aborted[i], g) /\ aborted[i] \in Seq(Groups)
        /\ \A j \in Instances : j # i => aborted'[j] = aborted[j]
    BY <1>1, <2>1 DEF TypeOK
  <2>6. /\ aborted'[i] \in Seq(Groups) /\ \A h : Has(aborted'[i], h) <=> Has(aborted[i], h) \/ h = g
        /\ NoRepeat(aborted'[i])
    <3>1. NoRepeat(aborted[i])
      BY <1>1 DEF InstanceAt, GroupsAt
    <3> QED  BY <2>4, <2>5, <3>1, HasAppend, AppendIs
  <2>7. Elsewhere(i)
    BY <1>2, <1>6, <2>1, <2>5 DEF Elsewhere, channelVars, managerVars
  <2>8. TypeOK'
    <3>1. returned' \in [Instances -> SUBSET Groups] /\ running' \in [Instances -> SUBSET Groups]
      BY <1>1, <1>2 DEF TypeOK
    <3>2. rollout' \in [Instances -> {"out", "called", "waiting_tasks", "handling",
                                      "waiting_event", "offloading", "failed"}]
      BY <1>1, <1>4, <1>5 DEF TypeOK
    <3>3. aborted' \in [Instances -> Seq(Groups)]
      BY <1>1, <2>1, <2>5, <2>6 DEF TypeOK
    <3> QED  BY <1>1, <1>2, <2>1, <3>1, <3>2, <3>3 DEF TypeOK, channelVars, managerVars
  <2>9. GroupsAt(i)'
    BY <1>1, <1>2, <1>5, <1>12, <1>13, <2>1, <2>3, <2>6 DEF InstanceAt, GroupsAt, Answered,
         IsLeaving, channelVars, managerVars
  <2>10. PolicyAt(i)'
    BY <1>1, <1>2, <1>3, <1>5, <2>1 DEF InstanceAt, PolicyAt, Pre, channelVars, managerVars
  <2>11. OnePlace'
    <3>1. ASSUME NEW h \in Groups, NEW a \in Kinds, NEW j \in Instances, At(h, a, j)'
          PROVE  At(h, a, j) \/ (a = "aborted" /\ j = i /\ h = g)
      BY <1>2, <1>3, <1>5, <1>6, <2>5, <2>6, <3>1 DEF At, channelVars, managerVars
    <3>2. ASSUME NEW a \in Kinds, NEW j \in Instances, At(g, a, j)'
          PROVE  a = "aborted" /\ j = i
      <4>1. SUFFICES ASSUME At(g, a, j) PROVE FALSE
        BY <3>1, <3>2
      <4>2. At(g, "running", i) /\ "running" \in Kinds
        BY <1>7 DEF At, Kinds
      <4>3. a = "running" /\ j = i
        BY <1>1, <4>1, <4>2 DEF OnePlace
      <4> QED  BY <1>3, <3>2, <4>3 DEF At
    <3>3. "aborted" \in Kinds
      BY DEF Kinds
    <3> QED  BY <1>1, <1>15, <2>1, <3>1, <3>2, <3>3, Places
  <2> QED  BY <1>10, <1>11, <1>16, <2>7, <2>8, <2>9, <2>10, <2>11, InstanceStep DEF InstanceAt
<1> QED  BY <1>17, <1>18

LEMMA NotifiedStep ==
  ASSUME IInv, NEW i \in Instances, Notified(i)
  PROVE  IInv'
<1>1. TypeOK /\ InstanceAt(i) /\ OnePlace /\ PolicyOK
  BY DEF IInv
<1> DEFINE idle == running[i] = {}
           next == IF idle THEN "offloading" ELSE "waiting_tasks"
<1>2. /\ rollout[i] = "waiting_event" /\ event[i] /\ event' = [event EXCEPT ![i] = FALSE]
      /\ rollout' = [rollout EXCEPT ![i] = next]
      /\ aborted' = IF idle THEN [aborted EXCEPT ![i] = <<>>] ELSE aborted
      /\ done' = IF idle THEN [done EXCEPT ![i] = {}] ELSE done
      /\ UNCHANGED <<groupVars, returned, serving, running, channelVars, managerVars, raised>>
  BY DEF Notified
<1>3. /\ rollout'[i] = next /\ ~event'[i]
      /\ aborted'[i] = (IF idle THEN <<>> ELSE aborted[i])
      /\ done'[i] = (IF idle THEN {} ELSE done[i])
      /\ \A j \in Instances : j # i =>
           /\ rollout'[j] = rollout[j] /\ event'[j] = event[j]
           /\ aborted'[j] = aborted[j] /\ done'[j] = done[j]
  BY <1>1, <1>2 DEF TypeOK
<1>4. ~Released(i) /\ (manager # "finishing" \/ ~Answered(i, "Offloaded")) /\ returned[i] = {}
  BY <1>1, <1>2 DEF InstanceAt, ProtocolAt, RolloutAt, AtRest
<1>5. idle => Ended(i)
  BY <1>1, <1>2 DEF InstanceAt, RolloutAt
<1>6. Elsewhere(i)
  BY <1>2, <1>3 DEF Elsewhere, groupVars, channelVars, managerVars
<1>7. TypeOK'
  <2>1. aborted' \in [Instances -> Seq(Groups)] /\ done' \in [Instances -> SUBSET Groups]
    <3>1. <<>> \in Seq(Groups)
      OBVIOUS
    <3> QED  BY <1>1, <1>2, <3>1 DEF TypeOK
  <2>2. /\ event' \in [Instances -> BOOLEAN]
        /\ rollout' \in [Instances -> {"out", "called", "waiting_tasks", "handling",
                                      "waiting_event", "offloading", "failed"}]
    BY <1>1, <1>2 DEF TypeOK
  <2> QED  BY <1>1, <1>2, <2>1, <2>2 DEF TypeOK, groupVars, channelVars, managerVars
<1>8. InstanceAt(i)'
  <2>1. ProtocolAt(i)'
    BY <1>1, <1>2, <1>4 DEF InstanceAt, ProtocolAt, Released, Silent, Told, Quiet, Serving,
         Answered, Ended, IsLeaving, channelVars, managerVars
  <2>2. RolloutAt(i)'
    BY <1>1, <1>2, <1>3, <1>4, <1>5 DEF InstanceAt, RolloutAt, Clean, Released, Silent, Answered,
         Ended, IsLeaving, channelVars, managerVars
  <2>3. GroupsAt(i)'
    <3>1. NoRepeat(aborted'[i])
      BY <1>1, <1>3 DEF InstanceAt, GroupsAt, NoRepeat
    <3>2. manager = "migrating" /\ Answered(i, "Default") => ~idle
      BY <1>5 DEF Ended
    <3> QED  BY <1>1, <1>2, <1>3, <1>4, <3>1, <3>2 DEF InstanceAt, GroupsAt, Answered, IsLeaving,
         groupVars, channelVars, managerVars
  <2>4. PolicyAt(i)'
    BY <1>1, <1>2, <1>3, <1>5 DEF InstanceAt, PolicyAt, Pre, channelVars, managerVars
  <2> QED  BY <2>1, <2>2, <2>3, <2>4 DEF InstanceAt
<1>9. OnePlace'
  <2>1. \A h \in Groups, a \in Kinds, j \in Instances : At(h, a, j)' => At(h, a, j)
    <3>1. \A h : Has(aborted'[i], h) => Has(aborted[i], h)
      BY <1>3 DEF Has
    <3> QED  BY <1>2, <1>3, <3>1 DEF At, channelVars, managerVars
  <2> QED  BY <1>1, <1>2, <2>1, Places DEF groupVars
<1> QED  BY <1>1, <1>2, <1>6, <1>7, <1>8, <1>9, InstanceStep DEF PolicyOK, managerVars

LEMMA ReportOffloadedStep ==
  ASSUME IInv, NEW i \in Instances, ReportOffloaded(i)
  PROVE  IInv'
<1>1. TypeOK /\ InstanceAt(i) /\ OnePlace /\ PolicyOK
  BY DEF IInv
<1> DEFINE answer == [action |-> "Offloaded", report |-> NoReport, data |-> <<>>]
<1>2. /\ rollout[i] = "offloading" /\ rollout' = [rollout EXCEPT ![i] = "out"]
      /\ responses' = [responses EXCEPT ![i] = Append(@, answer)]
      /\ UNCHANGED <<groupVars, returned, serving, running, aborted, done, event,
                     requests, managerVars, raised>>
  BY DEF ReportOffloaded, Respond
<1>3. /\ ~Released(i) /\ Clean(i) /\ ~event[i] /\ Ended(i)
      /\ responses[i] \in Seq(ResponseType) /\ Len(responses[i]) = 0
  BY <1>1, <1>2 DEF InstanceAt, ProtocolAt, RolloutAt, AtRest, Ended, Silent, TypeOK
<1>4. answer \in ResponseType /\ answer.action = "Offloaded"
  <2>1. <<>> \in Seq(Groups)
    OBVIOUS
  <2> QED  BY <2>1 DEF ResponseType, ReportType, NoReport
<1> HIDE DEF answer
<1>5. /\ rollout'[i] = "out" /\ responses'[i] = Append(responses[i], answer)
      /\ \A j \in Instances : j # i => rollout'[j] = rollout[j] /\ responses'[j] = responses[j]
  BY <1>1, <1>2 DEF TypeOK
<1>6. responses'[i] \in Seq(ResponseType) /\ Len(responses'[i]) = 1 /\ responses'[i][1] = answer
  BY <1>3, <1>4, <1>5, AppendIs
<1>7. Elsewhere(i)
  BY <1>2, <1>5 DEF Elsewhere, groupVars, managerVars
<1>8. TypeOK'
  <2>1. responses' \in [Instances -> Seq(ResponseType)]
    BY <1>1, <1>2, <1>5, <1>6 DEF TypeOK
  <2> QED  BY <1>1, <1>2, <2>1 DEF TypeOK, groupVars, managerVars
<1>9. InstanceAt(i)'
  <2>1. Answered(i, "Offloaded")' /\ manager' = "finishing" /\ IsLeaving(i)' /\ ~Released(i)'
    BY <1>2, <1>3, <1>4, <1>6 DEF Answered, Ended, Silent, IsLeaving, Released, managerVars
  <2>2. ProtocolAt(i)'
    BY <2>1 DEF ProtocolAt
  <2>3. RolloutAt(i)'
    BY <1>2, <1>3, <1>5, <2>1 DEF RolloutAt, Clean
  <2>4. GroupsAt(i)'
    BY <1>1, <1>2, <1>3, <1>5, <2>1 DEF InstanceAt, GroupsAt, Clean, groupVars, managerVars
  <2>5. PolicyAt(i)'
    BY <1>5, <2>1 DEF PolicyAt, Pre
  <2> QED  BY <2>2, <2>3, <2>4, <2>5 DEF InstanceAt
<1>10. OnePlace'
  <2>1. \A h \in Groups, a \in Kinds, j \in Instances : At(h, a, j)' => At(h, a, j)
    BY <1>2, <1>5 DEF At, managerVars
  <2> QED  BY <1>1, <1>2, <2>1, Places DEF groupVars
<1> QED  BY <1>1, <1>2, <1>7, <1>8, <1>9, <1>10, InstanceStep DEF PolicyOK, managerVars

-----------------------------------------------------------------------------
(* An instance takes a request: which one it can be tells where the manager *)
(* is, and that no other is left that concerns groups.                      *)

LEMMA AskedIs ==
  ASSUME IInv, NEW i \in Instances, NEW action, Asked(i, action)
  PROVE  /\ ~Released(i) /\ Silent(i) /\ Len(requests[i]) > 0 /\ requests[i][1].action = action
         /\ requests[i][1] \in RequestType /\ Head(requests[i]) = requests[i][1]
         /\ requests' \in [Instances -> Seq(RequestType)]
         /\ Len(requests'[i]) = Len(requests[i]) - 1
         /\ \A n \in 1..(Len(requests[i]) - 1) : requests'[i][n] = requests[i][n + 1]
         /\ \A j \in Instances : j # i => requests'[j] = requests[j]
         /\ \A n \in 1..Len(requests'[i]) : requests'[i][n].action # "Migrate_In"
         /\ action = "Report" =>
              manager \in {"pre_reporting", "reporting"} /\ Len(requests[i]) = 1
         /\ action = "Migrate_Out" =>
              manager = "migrating" /\ IsLeaving(i) /\ Len(requests[i]) = 1
         /\ action \in {"Finish", "Wait_For_Finish"} =>
              manager = "finishing" /\ IsLeaving(i) /\ Len(requests[i]) = 1
<1> DEFINE q == requests[i]
           r == requests'[i]
<1>1. /\ TypeOK /\ ProtocolAt(i) /\ q \in Seq(RequestType)
      /\ serving[i] = "get" /\ q # <<>> /\ Head(q).action = action
      /\ requests' = [requests EXCEPT ![i] = Tail(@)]
  BY DEF IInv, InstanceAt, Asked, TypeOK
<1>2. r = Tail(q) /\ \A j \in Instances : j # i => requests'[j] = requests[j]
  BY <1>1 DEF TypeOK
<1>3. /\ r \in Seq(RequestType) /\ Len(q) \in Nat /\ Len(q) > 0 /\ Len(r) = Len(q) - 1
      /\ Head(q) = q[1] /\ Head(q) \in RequestType
      /\ \A n \in 1..(Len(q) - 1) : r[n] = q[n + 1]
  <2> HIDE DEF q, r
  <2>1. Len(q) \in Nat /\ q \in Seq(RequestType) /\ q # <<>>
    BY <1>1, EmptyIs
  <2>2. /\ Tail(q) \in Seq(RequestType) /\ Len(q) > 0 /\ Len(Tail(q)) = Len(q) - 1
        /\ Head(q) = q[1] /\ Head(q) \in RequestType
        /\ \A n \in 1..(Len(q) - 1) : Tail(q)[n] = q[n + 1]
    BY ONLY <2>1, TailIs
  <2> QED  BY <1>2, <2>1, <2>2
<1>4. requests' \in [Instances -> Seq(RequestType)]
  BY <1>1, <1>2, <1>3 DEF TypeOK
<1>5. /\ ~Released(i)
      /\ \/ Silent(i) /\ IsLeaving(i) /\ manager = "migrating" /\ Told(q, {"Migrate_Out"})
         \/ Silent(i) /\ IsLeaving(i) /\ manager = "finishing" /\ Told(q, {"Finish", "Wait_For_Finish"})
         \/ Silent(i) /\ manager \in {"pre_reporting", "reporting"} /\ Told(q, {"Report"})
         \/ Silent(i) /\ Quiet(q)
  <2>1. IsLeaving(i) => manager \in {"migrating", "finishing"}
    BY <1>1, LeavingWhen
  <2>2. Len(q) # 0 /\ serving[i] # "Migrate_Out" /\ serving[i] # "Finish"
    BY <1>1, <1>3
  <2> QED  BY ONLY <1>1, <2>1, <2>2 DEF ProtocolAt, AtRest, Serving, Ended, Answered
<1> HIDE DEF q, r
<1>6. \A n \in 1..Len(r) : r[n].action # "Migrate_In"
  <2>1. \A n \in 1..(Len(q) - 1) : q[n + 1].action # "Migrate_In"
    <3>1. ASSUME NEW n \in 1..(Len(q) - 1) PROVE q[n + 1].action # "Migrate_In"
      <4>1. Len(q) = 2 /\ q[2].action \in {"Migrate_Out", "Finish", "Wait_For_Finish", "Report"}
        BY <1>3, <1>5, <3>1 DEF Told, Quiet
      <4>2. n + 1 = 2
        BY <3>1, <4>1
      <4> QED  BY <4>1, <4>2
    <3> QED  BY <3>1
  <2> QED  BY <1>3, <2>1
<1>7. action = "Report" => manager \in {"pre_reporting", "reporting"} /\ Len(q) = 1
  BY <1>1, <1>3, <1>5 DEF Told, Quiet
<1>8. action = "Migrate_Out" => manager = "migrating" /\ IsLeaving(i) /\ Len(q) = 1
  BY <1>1, <1>3, <1>5 DEF Told, Quiet
<1>9. action \in {"Finish", "Wait_For_Finish"} =>
        manager = "finishing" /\ IsLeaving(i) /\ Len(q) = 1
  BY <1>1, <1>3, <1>5 DEF Told, Quiet
<1> QED  BY <1>1, <1>2, <1>3, <1>4, <1>5, <1>6, <1>7, <1>8, <1>9 DEF q, r

LEMMA ReportStep ==
  ASSUME IInv, NEW i \in Instances, Report(i)
  PROVE  IInv'
<1>1. TypeOK /\ InstanceAt(i) /\ OnePlace /\ PolicyOK
  BY DEF IInv
<1> DEFINE total == GroupSize * (Cardinality(running[i]) + Cardinality(done[i]))
           loads == [g \in Groups |-> IF g \in running[i] THEN RunningSeqs(g) ELSE 0]
           answer == [action |-> "Default", report |-> [total |-> total, running |-> SumOf(loads)],
                      data |-> <<>>]
<1>2. /\ Asked(i, "Report") /\ responses' = [responses EXCEPT ![i] = Append(@, answer)]
      /\ UNCHANGED <<groupVars, instanceVars, managerVars, raised>>
  BY DEF Report, Respond
<1>3. /\ ~Released(i) /\ Silent(i) /\ manager \in {"pre_reporting", "reporting"}
      /\ requests' \in [Instances -> Seq(RequestType)] /\ Len(requests'[i]) = 0
      /\ \A j \in Instances : j # i => requests'[j] = requests[j]
  <2>1. Len(requests[i]) = 1 /\ Len(requests'[i]) = Len(requests[i]) - 1
    BY <1>2, AskedIs
  <2>2. Len(requests'[i]) = 0
    BY ONLY <2>1
  <2> QED  BY <1>2, <2>2, AskedIs
<1>4. /\ total \in Nat
      /\ running[i] \subseteq Batch(i) /\ done[i] \subseteq Batch(i) => total <= GroupSize * Share
      /\ running[i] = {} /\ done[i] = {} => total = 0
  <2> DEFINE a == Cardinality(running[i])
             b == Cardinality(done[i])
  <2>1. IsFiniteSet(running[i]) /\ IsFiniteSet(done[i]) /\ a \in Nat /\ b \in Nat
    <3>1. running[i] \in SUBSET Groups /\ done[i] \in SUBSET Groups
      BY <1>1 DEF TypeOK
    <3>2. IsFiniteSet(running[i]) /\ IsFiniteSet(done[i])
      BY <3>1, GroupsFinite, FS_Subset
    <3> QED  BY <3>2, FS_CardinalityType
  <2>2. running[i] \cap done[i] = {}
    <3>1. SUFFICES ASSUME NEW g \in running[i], g \in done[i] PROVE FALSE
      OBVIOUS
    <3>2. g \in Groups /\ Has(output, g) /\ At(g, "running", i) /\ "running" \in Kinds
      BY <1>1, <3>1 DEF TypeOK, InstanceAt, GroupsAt, At, Kinds
    <3> QED  BY <1>1, <3>2 DEF OnePlace
  <2>3. Cardinality(running[i] \cup done[i]) = a + b
    <3>1. /\ Cardinality(running[i] \cup done[i]) = a + b - Cardinality(running[i] \cap done[i])
          /\ Cardinality(running[i] \cap done[i]) = 0
      BY <2>1, <2>2, FS_Union, FS_EmptySet
    <3> QED  BY <2>1, <3>1
  <2>4. running[i] \subseteq Batch(i) /\ done[i] \subseteq Batch(i) => a + b <= Share
    <3>1. SUFFICES ASSUME running[i] \cup done[i] \in SUBSET Batch(i) PROVE a + b <= Share
      OBVIOUS
    <3>2. IsFiniteSet(Batch(i)) /\ Cardinality(Batch(i)) = Share
      BY BatchIs
    <3>3. Cardinality(running[i] \cup done[i]) <= Cardinality(Batch(i))
      BY <3>1, <3>2, FS_Subset
    <3> QED  BY <2>3, <3>2, <3>3
  <2>5. running[i] = {} /\ done[i] = {} => a + b = 0
    BY FS_EmptySet
  <2>6. GroupSize \in Nat /\ Share \in Nat
    BY Sizes
  <2> HIDE DEF a, b
  <2>7. \A x, y, z \in Nat : x <= y => z * x <= z * y
    <3>1. ASSUME NEW x \in Nat, NEW y \in Nat, NEW z \in Nat, x <= y PROVE z * x <= z * y
      <4>1. x * z <= y * z
        BY <3>1, Monotone
      <4> QED  BY <4>1
    <3> QED  BY <3>1
  <2>8. a + b \in Nat
    BY <2>1
  <2>9. GroupSize * (a + b) \in Nat
    BY ONLY <2>6, <2>8, ProductNat
  <2>10. a + b <= Share => GroupSize * (a + b) <= GroupSize * Share
    BY ONLY <2>6, <2>7, <2>8
  <2>11. a + b = 0 => GroupSize * (a + b) = 0
    BY ONLY <2>6, SMT
  <2> QED  BY <2>4, <2>5, <2>9, <2>10, <2>11 DEF a, b
<1>5. SumOf(loads) \in Nat
  <2>1. \A g \in Groups : RunningSeqs(g) \in Nat
    <3>1. ASSUME NEW g \in Groups
          PROVE  /\ GroupSize \in Nat /\ completed[g] \in Nat /\ abortedSeqs[g] \in Nat
                 /\ completed[g] + abortedSeqs[g] <= GroupSize
      BY <1>1, Sizes DEF TypeOK
    <3>2. ASSUME NEW g \in Groups PROVE GroupSize - completed[g] - abortedSeqs[g] \in Nat
      BY <3>1
    <3> QED  BY <3>2 DEF RunningSeqs
  <2>2. loads \in Seq(Nat)
    BY <2>1, Sizes
  <2> HIDE DEF loads
  <2> QED  BY <2>2, SumNat
<1> DEFINE sum == SumOf(loads)
<1> HIDE DEF total, sum
<1>6. /\ answer \in ResponseType /\ answer.action = "Default" /\ answer.report.total = total
  <2>1. <<>> \in Seq(Groups)
    OBVIOUS
  <2>2. answer = [action |-> "Default", report |-> [total |-> total, running |-> sum], data |-> <<>>]
    BY DEF sum
  <2> HIDE DEF answer
  <2>3. sum \in Nat
    BY <1>5 DEF sum
  <2> QED  BY <1>4, <2>1, <2>2, <2>3 DEF ResponseType, ReportType
<1> HIDE DEF answer
<1>7. /\ responses'[i] = Append(responses[i], answer)
      /\ \A j \in Instances : j # i => responses'[j] = responses[j]
  BY <1>1, <1>2 DEF TypeOK
<1>8. responses'[i] \in Seq(ResponseType) /\ Len(responses'[i]) = 1 /\ responses'[i][1] = answer
  <2>1. responses[i] \in Seq(ResponseType) /\ Len(responses[i]) = 0
    BY <1>1, <1>3 DEF Silent, TypeOK
  <2> QED  BY <1>6, <1>7, <2>1, AppendIs
<1>9. Elsewhere(i)
  BY <1>2, <1>3, <1>7 DEF Elsewhere, groupVars, instanceVars, managerVars
<1>10. TypeOK'
  <2>1. responses' \in [Instances -> Seq(ResponseType)]
    BY <1>1, <1>2, <1>7, <1>8 DEF TypeOK
  <2> QED  BY <1>1, <1>2, <1>3, <2>1 DEF TypeOK, groupVars, instanceVars, managerVars
<1>11. InstanceAt(i)'
  <2>1. /\ Answered(i, "Default")' /\ ~Answered(i, "Offloaded")' /\ ~Answered(i, "Offloaded")
        /\ ~Released(i)' /\ ~Ended(i) /\ ~Ended(i)' /\ manager' = manager
    BY <1>2, <1>3, <1>6, <1>8 DEF Answered, Silent, Released, Ended, instanceVars, managerVars
  <2>2. ProtocolAt(i)'
    BY <1>3, <2>1 DEF ProtocolAt
  <2>3. RolloutAt(i)'
    BY <1>1, <1>2, <1>3, <2>1 DEF InstanceAt, RolloutAt, Clean, instanceVars, managerVars
  <2>4. GroupsAt(i)'
    <3>1. \A g \in returned[i] : RunningSeqs(g)' = 0
      BY <1>1, <1>2 DEF InstanceAt, GroupsAt, RunningSeqs, groupVars
    <3> QED  BY <1>1, <1>2, <1>3, <2>1, <3>1 DEF InstanceAt, GroupsAt, IsLeaving,
         groupVars, instanceVars, managerVars
  <2>5. PolicyAt(i)'
    <3>1. Pre' => /\ Pre /\ total <= GroupSize * Share /\ (total > 0 => rollout[i] # "called")
                  /\ running[i] \subseteq Batch(i) /\ done[i] \subseteq Batch(i)
                  /\ rollout[i] = "called" => running[i] = {}
      <4>1. Pre' => Pre
        BY <2>1 DEF Pre
      <4>2. rollout[i] = "called" => done[i] = {}
        BY <1>1 DEF InstanceAt, RolloutAt
      <4>3. PolicyAt(i)
        BY <1>1 DEF InstanceAt
      <4> QED  BY <1>4, <4>1, <4>2, <4>3 DEF PolicyAt
    <3>2. manager # "idle" /\ policy' = policy
      BY <1>2, <1>3 DEF managerVars
    <3>3. /\ policy.preProcess /\ ~Pre => rollout[i] # "called"
          /\ rollout' = rollout /\ running' = running /\ done' = done
      BY <1>1, <1>2, <1>3 DEF InstanceAt, PolicyAt, instanceVars
    <3>4. Pre <=> Pre'
      BY <2>1 DEF Pre
    <3> QED  BY <1>3, <1>6, <1>8, <3>1, <3>2, <3>3, <3>4 DEF PolicyAt
  <2> QED  BY <2>2, <2>3, <2>4, <2>5 DEF InstanceAt
<1>12. OnePlace'
  <2>1. \A h \in Groups, a \in Kinds, j \in Instances : At(h, a, j)' => At(h, a, j)
    BY <1>2, <1>3, <1>7 DEF At, instanceVars, managerVars
  <2> QED  BY <1>1, <1>2, <2>1, Places DEF groupVars
<1> QED  BY <1>1, <1>2, <1>9, <1>10, <1>11, <1>12, InstanceStep DEF PolicyOK, managerVars

LEMMA MigrateOutStep ==
  ASSUME IInv, NEW i \in Instances, MigrateOut(i)
  PROVE  IInv'
<1>1. TypeOK /\ InstanceAt(i) /\ OnePlace /\ PolicyOK
  BY DEF IInv
<1>2. /\ Asked(i, "Migrate_Out")
      /\ abortedSeqs' = [g \in Groups |-> IF g \in running[i] THEN GroupSize - completed[g]
                                          ELSE abortedSeqs[g]]
      /\ serving' = [serving EXCEPT ![i] = "Migrate_Out"]
      /\ UNCHANGED <<completed, output, rollout, returned, running, aborted, done, event,
                     responses, managerVars, raised>>
  BY DEF MigrateOut
<1>3. /\ ~Released(i) /\ Silent(i) /\ manager = "migrating" /\ IsLeaving(i) /\ Len(requests[i]) = 1
      /\ requests' \in [Instances -> Seq(RequestType)] /\ Len(requests'[i]) = 0
      /\ \A j \in Instances : j # i => requests'[j] = requests[j]
  <2>1. Len(requests[i]) = 1 /\ Len(requests'[i]) = Len(requests[i]) - 1
    BY <1>2, AskedIs
  <2>2. Len(requests'[i]) = 0
    BY ONLY <2>1
  <2> QED  BY <1>2, <2>1, <2>2, AskedIs
<1>4. serving'[i] = "Migrate_Out" /\ \A j \in Instances : j # i => serving'[j] = serving[j]
  BY <1>1, <1>2 DEF TypeOK
<1>5. Elsewhere(i)
  <2>1. ASSUME NEW g \in Groups, g \notin running[i] PROVE abortedSeqs'[g] = abortedSeqs[g]
    BY <1>2, <2>1
  <2>2. \A g \in running[i] : At(g, "running", i)
    BY DEF At
  <2>3. "running" \in Kinds
    BY DEF Kinds
  <2> QED  BY <1>2, <1>3, <1>4, <2>1, <2>2, <2>3 DEF Elsewhere, managerVars
<1>6. TypeOK'
  <2>1. \A g \in Groups : /\ GroupSize \in Nat /\ completed[g] \in 0..GroupSize
                          /\ abortedSeqs[g] \in 0..GroupSize
                          /\ completed[g] + abortedSeqs[g] <= GroupSize
    BY <1>1, Sizes DEF TypeOK
  <2>2. \A g \in Groups : /\ abortedSeqs'[g] \in 0..GroupSize
                          /\ completed[g] + abortedSeqs'[g] <= GroupSize
    BY <1>2, <2>1
  <2>3. abortedSeqs' \in [Groups -> 0..GroupSize]
    BY <1>2, <2>2
  <2>4. serving' \in [Instances -> {"get", "Migrate_Out", "Finish"}]
    BY <1>1, <1>2 DEF TypeOK
  <2> QED  BY <1>1, <1>2, <1>3, <2>2, <2>3, <2>4 DEF TypeOK, managerVars
<1>7. InstanceAt(i)'
  <2>1. /\ Serving(i, "Migrate_Out")' /\ ~Answered(i, "Offloaded")' /\ ~Answered(i, "Default")'
        /\ ~Answered(i, "Offloaded") /\ ~Released(i)' /\ ~Ended(i) /\ ~Ended(i)'
        /\ manager' = "migrating" /\ IsLeaving(i)'
    BY <1>2, <1>3, <1>4 DEF Answered, Silent, Serving, Released, Ended, IsLeaving, managerVars
  <2>2. ProtocolAt(i)'
    BY <2>1 DEF ProtocolAt
  <2>3. RolloutAt(i)'
    BY <1>1, <1>2, <1>3, <2>1 DEF InstanceAt, RolloutAt, Clean
  <2>4. GroupsAt(i)'
    <3>1. ASSUME NEW g \in returned[i] PROVE RunningSeqs(g)' = 0
      <4>1. g \in running[i] /\ g \in Groups
        BY <1>1, ReturnedRun DEF InstanceAt, TypeOK
      <4>2. abortedSeqs'[g] = GroupSize - completed[g] /\ completed'[g] = completed[g]
        BY <1>2, <4>1
      <4>3. GroupSize \in Nat /\ completed[g] \in Nat
        BY <1>1, <4>1, Sizes DEF TypeOK
      <4>4. GroupSize - completed'[g] - abortedSeqs'[g] = 0
        BY <4>2, <4>3
      <4> QED  BY <4>4 DEF RunningSeqs
    <3>2. ASSUME NEW g \in Batch(i), rollout[i] = "called" PROVE abortedSeqs'[g] = 0
      <4>1. g \in Groups /\ At(g, "fresh", i) /\ "fresh" \in Kinds /\ "running" \in Kinds
        BY <3>2, BatchIs DEF At, Kinds
      <4>2. ~At(g, "running", i)
        BY <1>1, <4>1 DEF OnePlace
      <4>3. abortedSeqs[g] = 0
        BY <1>1, <3>2 DEF InstanceAt, GroupsAt
      <4> QED  BY <1>2, <4>1, <4>2, <4>3 DEF At
    <3> QED  BY <1>1, <1>2, <1>3, <1>4, <2>1, <3>1, <3>2 DEF InstanceAt, GroupsAt
  <2>5. PolicyAt(i)'
    BY <1>1, <1>2, <1>3, <2>1 DEF InstanceAt, PolicyAt, Pre, managerVars
  <2> QED  BY <2>2, <2>3, <2>4, <2>5 DEF InstanceAt
<1>8. OnePlace'
  <2>1. \A h \in Groups, a \in Kinds, j \in Instances : At(h, a, j)' => At(h, a, j)
    BY <1>2, <1>3 DEF At, managerVars
  <2> QED  BY <1>1, <1>2, <2>1, Places
<1> QED  BY <1>1, <1>2, <1>5, <1>6, <1>7, <1>8, InstanceStep DEF PolicyOK, managerVars

LEMMA WaitForFinishStep ==
  ASSUME IInv, NEW i \in Instances, WaitForFinish(i)
  PROVE  IInv'
<1>1. TypeOK /\ InstanceAt(i) /\ OnePlace /\ PolicyOK
  BY DEF IInv
<1>2. /\ Asked(i, "Finish") \/ Asked(i, "Wait_For_Finish")
      /\ serving' = [serving EXCEPT ![i] = "Finish"]
      /\ UNCHANGED <<groupVars, rollout, returned, running, aborted, done, event,
                     responses, managerVars, raised>>
  BY DEF WaitForFinish
<1>3. /\ ~Released(i) /\ Silent(i) /\ manager = "finishing" /\ IsLeaving(i) /\ Len(requests[i]) = 1
      /\ requests' \in [Instances -> Seq(RequestType)] /\ Len(requests'[i]) = 0
      /\ \A j \in Instances : j # i => requests'[j] = requests[j]
  <2>1. PICK action \in {"Finish", "Wait_For_Finish"} : Asked(i, action)
    BY <1>2
  <2>2. Len(requests[i]) = 1 /\ Len(requests'[i]) = Len(requests[i]) - 1
    BY <2>1, AskedIs
  <2>3. Len(requests'[i]) = 0
    BY ONLY <2>2
  <2> QED  BY <2>1, <2>2, <2>3, AskedIs
<1>4. serving'[i] = "Finish" /\ \A j \in Instances : j # i => serving'[j] = serving[j]
  BY <1>1, <1>2 DEF TypeOK
<1>5. Elsewhere(i)
  BY <1>2, <1>3, <1>4 DEF Elsewhere, groupVars, managerVars
<1>6. TypeOK'
  <2>1. serving' \in [Instances -> {"get", "Migrate_Out", "Finish"}]
    BY <1>1, <1>2 DEF TypeOK
  <2> QED  BY <1>1, <1>2, <1>3, <2>1 DEF TypeOK, groupVars, managerVars
<1>7. InstanceAt(i)'
  <2>1. /\ Serving(i, "Finish")' /\ ~Answered(i, "Offloaded")'
        /\ ~Answered(i, "Offloaded") /\ ~Released(i)' /\ ~Ended(i) /\ ~Ended(i)'
        /\ manager' = "finishing" /\ IsLeaving(i)' /\ serving[i] = "get"
    BY <1>2, <1>3, <1>4 DEF Answered, Silent, Serving, Released, Ended, IsLeaving, managerVars
  <2>2. ProtocolAt(i)'
    BY <2>1 DEF ProtocolAt
  <2>3. RolloutAt(i)'
    BY <1>1, <1>2, <1>3, <2>1 DEF InstanceAt, RolloutAt, Clean
  <2>4. GroupsAt(i)'
    <3>1. \A g \in returned[i] : RunningSeqs(g)' = 0
      BY <1>1, <1>2 DEF InstanceAt, GroupsAt, RunningSeqs, groupVars
    <3> QED  BY <1>1, <1>2, <1>3, <2>1, <3>1 DEF InstanceAt, GroupsAt, groupVars
  <2>5. PolicyAt(i)'
    BY <1>1, <1>2, <1>3, <2>1 DEF InstanceAt, PolicyAt, Pre, managerVars
  <2> QED  BY <2>2, <2>3, <2>4, <2>5 DEF InstanceAt
<1>8. OnePlace'
  <2>1. \A h \in Groups, a \in Kinds, j \in Instances : At(h, a, j)' => At(h, a, j)
    BY <1>2, <1>3 DEF At, managerVars
  <2> QED  BY <1>1, <1>2, <2>1, Places DEF groupVars
<1> QED  BY <1>1, <1>2, <1>5, <1>6, <1>7, <1>8, InstanceStep DEF PolicyOK, managerVars

LEMMA EndWaitStep ==
  ASSUME IInv, NEW i \in Instances, EndWait(i)
  PROVE  IInv'
<1>1. TypeOK /\ InstanceAt(i) /\ OnePlace /\ PolicyOK
  BY DEF IInv
<1>2. /\ serving[i] # "get" /\ running[i] = {} /\ serving' = [serving EXCEPT ![i] = "get"]
      /\ UNCHANGED <<groupVars, rollout, returned, running, aborted, done, requests,
                     managerVars, raised>>
  BY DEF EndWait, Drained
<1>3. /\ ~Released(i) /\ IsLeaving(i) /\ Len(requests[i]) = 0 /\ Len(responses[i]) = 0
      /\ \/ serving[i] = "Migrate_Out" /\ manager = "migrating"
         \/ serving[i] = "Finish" /\ manager = "finishing"
  <2>1. IsLeaving(i) => manager \in {"migrating", "finishing"}
    BY <1>1, LeavingWhen
  <2>2. ProtocolAt(i)
    BY <1>1 DEF InstanceAt
  <2> QED  BY ONLY <1>2, <2>1, <2>2 DEF ProtocolAt, AtRest, Silent, Serving, Ended, Answered
<1>4. serving'[i] = "get" /\ \A j \in Instances : j # i => serving'[j] = serving[j]
  BY <1>1, <1>2 DEF TypeOK
<1>5. serving' \in [Instances -> {"get", "Migrate_Out", "Finish"}]
  BY <1>1, <1>2 DEF TypeOK
<1>6. \A g \in returned[i] : RunningSeqs(g)' = 0
  BY <1>1, <1>2 DEF InstanceAt, GroupsAt, RunningSeqs, groupVars
<1>7. /\ rollout[i] \notin {"out", "waiting_tasks", "handling", "offloading", "failed"}
      /\ ~event[i] /\ returned[i] = {}
  BY <1>1, <1>2, <1>3 DEF InstanceAt, RolloutAt, Answered, Ended, Silent, TypeOK
<1>8. CASE serving[i] = "Migrate_Out"
  <2> DEFINE answer == [action |-> "Default", report |-> NoReport, data |-> aborted[i]]
  <2>1. responses' = [responses EXCEPT ![i] = Append(@, answer)] /\ event' = event
    BY <1>8 DEF EndWait, Respond
  <2>2. answer \in ResponseType /\ answer.action = "Default" /\ answer.data = aborted[i]
    <3>1. aborted[i] \in Seq(Groups)
      BY <1>1 DEF TypeOK
    <3> QED  BY <3>1 DEF ResponseType, ReportType, NoReport
  <2> HIDE DEF answer
  <2>3. /\ responses'[i] = Append(responses[i], answer)
        /\ \A j \in Instances : j # i => responses'[j] = responses[j]
    BY <1>1, <2>1 DEF TypeOK
  <2>4. responses'[i] \in Seq(ResponseType) /\ Len(responses'[i]) = 1 /\ responses'[i][1] = answer
    <3>1. responses[i] \in Seq(ResponseType) /\ Len(responses[i]) = 0
      BY <1>1, <1>3 DEF TypeOK
    <3> QED  BY <2>2, <2>3, <3>1, AppendIs
  <2>5. Elsewhere(i)
    BY <1>2, <1>4, <2>1, <2>3 DEF Elsewhere, groupVars, managerVars
  <2>6. TypeOK'
    <3>1. responses' \in [Instances -> Seq(ResponseType)]
      BY <1>1, <2>1, <2>3, <2>4 DEF TypeOK
    <3> QED  BY <1>1, <1>2, <1>5, <2>1, <3>1 DEF TypeOK, groupVars, managerVars
  <2>7. InstanceAt(i)'
    <3>1. /\ Answered(i, "Default")' /\ manager' = "migrating" /\ IsLeaving(i)' /\ ~Released(i)'
      BY <1>2, <1>3, <1>4, <1>8, <2>2, <2>4 DEF Answered, IsLeaving, Released, managerVars
    <3>2. ProtocolAt(i)'
      BY <3>1 DEF ProtocolAt
    <3>3. RolloutAt(i)'
      BY <1>1, <1>2, <1>7, <2>1, <3>1 DEF InstanceAt, RolloutAt
    <3>4. GroupsAt(i)'
      BY <1>1, <1>2, <1>3, <1>6, <2>2, <2>4, <3>1 DEF InstanceAt, GroupsAt, groupVars
    <3>5. PolicyAt(i)'
      BY <1>1, <1>2, <1>3, <1>8, <3>1 DEF InstanceAt, PolicyAt, Pre, managerVars
    <3> QED  BY <3>2, <3>3, <3>4, <3>5 DEF InstanceAt
  <2>8. OnePlace'
    <3>1. \A h \in Groups, a \in Kinds, j \in Instances : At(h, a, j)' => At(h, a, j)
      BY <1>2 DEF At, managerVars
    <3> QED  BY <1>1, <1>2, <3>1, Places DEF groupVars
  <2> QED  BY <1>1, <1>2, <2>5, <2>6, <2>7, <2>8, InstanceStep DEF PolicyOK, managerVars
<1>9. CASE serving[i] = "Finish"
  <2>1. event' = [event EXCEPT ![i] = TRUE] /\ responses' = responses
    BY <1>9 DEF EndWait
  <2>2. \A j \in Instances : j # i => event'[j] = event[j]
    BY <1>1, <2>1 DEF TypeOK
  <2>3. Elsewhere(i)
    BY <1>2, <1>4, <2>1, <2>2 DEF Elsewhere, groupVars, managerVars
  <2>4. TypeOK'
    <3>1. event' \in [Instances -> BOOLEAN]
      BY <1>1, <2>1 DEF TypeOK
    <3> QED  BY <1>1, <1>2, <1>5, <2>1, <3>1 DEF TypeOK, groupVars, managerVars
  <2>5. InstanceAt(i)'
    <3>1. /\ Ended(i)' /\ manager' = "finishing" /\ IsLeaving(i)' /\ ~Released(i)'
          /\ ~Answered(i, "Offloaded")'
      BY <1>2, <1>3, <1>4, <1>9, <2>1 DEF Ended, Silent, Answered, IsLeaving, Released, managerVars
    <3>2. ProtocolAt(i)'
      BY <3>1 DEF ProtocolAt
    <3>3. RolloutAt(i)'
      BY <1>1, <1>2, <1>7, <2>1, <3>1 DEF InstanceAt, RolloutAt
    <3>4. GroupsAt(i)'
      BY <1>1, <1>2, <1>3, <1>6, <2>1, <3>1 DEF InstanceAt, GroupsAt, groupVars
    <3>5. PolicyAt(i)'
      BY <1>1, <1>2, <1>3, <1>9, <3>1 DEF InstanceAt, PolicyAt, Pre, managerVars
    <3> QED  BY <3>2, <3>3, <3>4, <3>5 DEF InstanceAt
  <2>6. OnePlace'
    <3>1. \A h \in Groups, a \in Kinds, j \in Instances : At(h, a, j)' => At(h, a, j)
      BY <1>2 DEF At, managerVars
    <3> QED  BY <1>1, <1>2, <3>1, Places DEF groupVars
  <2> QED  BY <1>1, <1>2, <2>3, <2>4, <2>5, <2>6, InstanceStep DEF PolicyOK, managerVars
<1> QED  BY <1>3, <1>8, <1>9

LEMMA ReceiveGroupsStep ==
  ASSUME IInv, NEW i \in Instances, ReceiveGroups(i)
  PROVE  IInv'
<1>1. TypeOK /\ InstanceAt(i) /\ OnePlace /\ PolicyOK
  BY DEF IInv
<1> DEFINE groups == ToSet(requests[i][1].data)
<1>2. /\ Asked(i, "Migrate_In") /\ NotifyIfIdle(i)
      /\ UNCHANGED <<output, rollout, returned, serving, aborted, done, responses,
                     managerVars, raised>>
  BY DEF ReceiveGroups
<1>3. /\ ~Released(i) /\ Silent(i) /\ Len(requests[i]) > 0 /\ requests[i][1].action = "Migrate_In"
      /\ requests[i][1] \in RequestType /\ Head(requests[i]) = requests[i][1]
      /\ requests' \in [Instances -> Seq(RequestType)]
      /\ Len(requests'[i]) = Len(requests[i]) - 1
      /\ \A n \in 1..(Len(requests[i]) - 1) : requests'[i][n] = requests[i][n + 1]
      /\ \A j \in Instances : j # i => requests'[j] = requests[j]
      /\ \A n \in 1..Len(requests'[i]) : requests'[i][n].action # "Migrate_In"
  BY <1>2, AskedIs
<1>4. TakeGroups(i, groups)
  BY <1>3 DEF ReceiveGroups
<1>5. /\ groups \subseteq Groups /\ groups # {} /\ \A g \in groups : At(g, "sent", i)
  <2> DEFINE d == requests[i][1].data
  <2>1. d \in Seq(Groups) /\ 1 \in 1..Len(requests[i])
    <3>1. requests[i] \in Seq(RequestType)
      BY <1>1 DEF TypeOK
    <3> QED  BY <1>3, <3>1, EmptyIs DEF RequestType
  <2>2. d # <<>>
    BY <1>1, <1>3, <2>1 DEF InstanceAt, GroupsAt
  <2>3. \A g \in groups : At(g, "sent", i)
    <3>1. \A g \in groups : Has(d, g)
      BY <2>1, HasIs
    <3> QED  BY <1>3, <2>1, <3>1 DEF At
  <2>4. groups \subseteq Groups
    BY <2>1, HasIs
  <2>5. groups # {}
    <3>1. Len(d) # 0 /\ DOMAIN d = 1..Len(d) /\ Len(d) \in Nat
      BY <2>1, <2>2, EmptyIs
    <3>2. 1 \in DOMAIN d
      BY <3>1
    <3> QED  BY <3>2 DEF ToSet
  <2> QED  BY <2>3, <2>4, <2>5
<1> HIDE DEF groups
<1>6. /\ running' = [running EXCEPT ![i] = @ \cup groups]
      /\ abortedSeqs' = [g \in Groups |-> IF g \in groups THEN 0 ELSE abortedSeqs[g]]
  BY <1>4 DEF TakeGroups
<1>7. PICK enough \in [groups -> 0..GroupSize] :
        /\ \A g \in groups : enough[g] <= abortedSeqs[g]
        /\ completed' = [g \in Groups |-> IF g \in groups THEN completed[g] + enough[g]
                                          ELSE completed[g]]
  BY <1>4 DEF TakeGroups
<1>8. /\ running'[i] = running[i] \cup groups
      /\ \A j \in Instances : j # i => running'[j] = running[j]
  BY <1>1, <1>6 DEF TypeOK
<1>9. \A g \in Groups : g \notin groups => completed'[g] = completed[g] /\ abortedSeqs'[g] = abortedSeqs[g]
  BY <1>6, <1>7
<1>10. /\ event' \in [Instances -> BOOLEAN]
       /\ running[i] # {} => event'[i] = event[i]
       /\ \A j \in Instances : j # i => event'[j] = event[j]
  BY <1>1, <1>2 DEF TypeOK, NotifyIfIdle
<1>11. Elsewhere(i)
  <2>1. "sent" \in Kinds
    BY DEF Kinds
  <2> QED  BY <1>2, <1>3, <1>5, <1>8, <1>9, <1>10, <2>1 DEF Elsewhere, managerVars
<1>12. TypeOK'
  <2>1. ASSUME NEW g \in Groups
        PROVE  /\ completed'[g] \in 0..GroupSize /\ abortedSeqs'[g] \in 0..GroupSize
               /\ completed'[g] + abortedSeqs'[g] <= GroupSize
    <3>1. /\ GroupSize \in Nat /\ completed[g] \in 0..GroupSize /\ abortedSeqs[g] \in 0..GroupSize
          /\ completed[g] + abortedSeqs[g] <= GroupSize
      BY <1>1, Sizes DEF TypeOK
    <3>2. CASE g \in groups
      <4>1. /\ completed'[g] = completed[g] + enough[g] /\ abortedSeqs'[g] = 0
            /\ enough[g] \in 0..GroupSize /\ enough[g] <= abortedSeqs[g]
        BY <1>6, <1>7, <3>2
      <4> QED  BY <3>1, <4>1
    <3>3. CASE g \notin groups
      BY <1>9, <3>1, <3>3
    <3> QED  BY <3>2, <3>3
  <2>2. completed' \in [Groups -> 0..GroupSize] /\ abortedSeqs' \in [Groups -> 0..GroupSize]
    <3>1. completed' = [g \in Groups |-> completed'[g]] /\ abortedSeqs' = [g \in Groups |-> abortedSeqs'[g]]
      BY <1>6, <1>7
    <3> QED  BY <2>1, <3>1
  <2>3. running' \in [Instances -> SUBSET Groups]
    BY <1>1, <1>5, <1>6 DEF TypeOK
  <2> QED  BY <1>1, <1>2, <1>3, <1>10, <2>1, <2>2, <2>3 DEF TypeOK, managerVars
<1>13. InstanceAt(i)'
  <2>1. /\ ~Answered(i, "Offloaded") /\ ~Answered(i, "Offloaded")' /\ ~Answered(i, "Default")'
        /\ ~Ended(i) /\ Silent(i)' /\ ~Released(i)'
    BY <1>2, <1>3 DEF Answered, Ended, Silent, Released, managerVars
  <2>2. ProtocolAt(i)'
    <3>1. Quiet(requests[i]) => Quiet(requests'[i])
      BY <1>3 DEF Quiet
    <3>2. ASSUME NEW actions, "Migrate_In" \notin actions, Told(requests[i], actions)
          PROVE  Told(requests'[i], actions)
      <4>1. Len(requests[i]) = 2 /\ requests[i][2].action \in actions
        BY <1>3, <3>2 DEF Told
      <4>2. 1 \in 1..(Len(requests[i]) - 1) /\ Len(requests'[i]) = 1
        BY <1>3, <4>1
      <4>3. requests'[i][1] = requests[i][1 + 1]
        BY <1>3, <4>2
      <4>4. requests'[i][1] = requests[i][2]
        BY <4>3
      <4> QED  BY <4>1, <4>2, <4>4 DEF Told
    <3>3. /\ Told(requests[i], {"Migrate_Out"}) => Told(requests'[i], {"Migrate_Out"})
          /\ Told(requests[i], {"Finish", "Wait_For_Finish"})
               => Told(requests'[i], {"Finish", "Wait_For_Finish"})
          /\ Told(requests[i], {"Report"}) => Told(requests'[i], {"Report"})
      <4>1. /\ "Migrate_In" \notin {"Migrate_Out"} /\ "Migrate_In" \notin {"Report"}
            /\ "Migrate_In" \notin {"Finish", "Wait_For_Finish"}
        OBVIOUS
      <4> QED  BY <3>2, <4>1
    <3>4. ProtocolAt(i) /\ Len(requests[i]) # 0
      BY <1>1, <1>3 DEF InstanceAt
    <3>5. ~Serving(i, "Migrate_Out") /\ ~Serving(i, "Finish") /\ ~Answered(i, "Default")
      BY <1>3 DEF Serving, Answered
    <3>6. (IsLeaving(i)' <=> IsLeaving(i)) /\ manager' = manager
      BY <1>2 DEF IsLeaving, managerVars
    <3> QED  BY <1>3, <2>1, <3>1, <3>3, <3>4, <3>5, <3>6 DEF ProtocolAt
  <2>3. RolloutAt(i)'
    <3>1. rollout[i] \notin {"out", "offloading"} /\ rollout[i] \in {"out", "called", "waiting_tasks",
            "handling", "waiting_event", "offloading", "failed"}
      BY <1>1, <1>3, <2>1 DEF InstanceAt, RolloutAt, TypeOK
    <3>2. running'[i] # {} /\ running[i] \subseteq running'[i]
      BY <1>5, <1>8
    <3>3. event'[i] => rollout[i] \in {"called", "waiting_event", "failed"}
      BY <1>1, <1>10, <2>1, <3>1 DEF InstanceAt, RolloutAt
    <3> QED  BY <1>1, <1>2, <2>1, <3>1, <3>2, <3>3 DEF InstanceAt, RolloutAt
  <2>4. GroupsAt(i)'
    <3>1. ASSUME NEW g \in returned[i] PROVE RunningSeqs(g)' = 0
      <4>1. g \in running[i] /\ g \in Groups
        BY <1>1, ReturnedRun DEF InstanceAt, TypeOK
      <4>2. At(g, "running", i) /\ "running" \in Kinds /\ "sent" \in Kinds
        BY <4>1 DEF At, Kinds
      <4>3. g \notin groups
        BY <1>1, <1>5, <4>1, <4>2 DEF OnePlace
      <4>4. RunningSeqs(g) = 0
        BY <1>1 DEF InstanceAt, GroupsAt
      <4> QED  BY <1>9, <4>1, <4>3, <4>4 DEF RunningSeqs
    <3>2. \A g \in Groups : abortedSeqs'[g] = abortedSeqs[g] \/ abortedSeqs'[g] = 0
      BY <1>6
    <3>3. ASSUME NEW g \in running'[i], abortedSeqs'[g] > 0 PROVE serving[i] = "Migrate_Out"
      <4>1. g \in Groups
        BY <1>1, <1>5, <1>8 DEF TypeOK
      <4>2. g \notin groups
        BY <1>6, <3>3, <4>1
      <4> QED  BY <1>1, <1>8, <1>9, <3>3, <4>1, <4>2 DEF InstanceAt, GroupsAt
    <3>4. \A g \in Batch(i) : rollout[i] = "called" => abortedSeqs'[g] = 0
      <4>1. Batch(i) \subseteq Groups
        BY BatchIs
      <4> QED  BY <1>1, <3>2, <4>1 DEF InstanceAt, GroupsAt
    <3>5. IsLeaving(i)' <=> IsLeaving(i)
      BY <1>2 DEF IsLeaving, managerVars
    <3> QED  BY <1>1, <1>2, <1>3, <2>1, <3>1, <3>3, <3>4, <3>5 DEF InstanceAt, GroupsAt
  <2>5. PolicyAt(i)'
    <3>1. ~Pre /\ ~Pre'
      <4>1. 1 \in 1..Len(requests[i]) /\ requests[i][1].action # "Report"
        BY <1>1, <1>3, EmptyIs DEF TypeOK
      <4>2. ~Pre
        BY <1>1, <4>1 DEF InstanceAt, PolicyAt
      <4> QED  BY <1>2, <4>2 DEF Pre, managerVars
    <3> QED  BY <1>1, <1>2, <3>1 DEF InstanceAt, PolicyAt, managerVars
  <2> QED  BY <2>2, <2>3, <2>4, <2>5 DEF InstanceAt
<1>14. OnePlace'
  <2>1. ASSUME NEW g \in Groups, NEW a \in Kinds, NEW j \in Instances, At(g, a, j)'
        PROVE  At(g, a, j) \/ (a = "running" /\ j = i /\ g \in groups)
    BY <1>2, <1>3, <1>8, <2>1 DEF At, managerVars
  <2>2. ASSUME NEW g \in Groups, g \in groups
        PROVE  /\ ~Has(output, g)
               /\ \A a \in Kinds, j \in Instances : At(g, a, j)' => a = "running" /\ j = i
    <3>1. At(g, "sent", i) /\ "sent" \in Kinds
      BY <1>5, <2>2 DEF Kinds
    <3>2. \A a \in Kinds, j \in Instances : At(g, a, j) => a = "sent" /\ j = i
      BY <1>1, <3>1 DEF OnePlace
    <3>3. ~At(g, "sent", i)'
      BY <1>3 DEF At
    <3> QED  BY <1>1, <2>1, <3>1, <3>2, <3>3 DEF OnePlace
  <2>3. "running" \in Kinds
    BY DEF Kinds
  <2> QED  BY <1>1, <1>2, <2>1, <2>2, <2>3, Places
<1> QED  BY <1>1, <1>2, <1>11, <1>12, <1>13, <1>14, InstanceStep DEF PolicyOK, managerVars

-----------------------------------------------------------------------------
(* What the manager does leaves rollout() and the groups of an instance.    *)

LEMMA RolloutStays ==
  ASSUME NEW j \in Instances, RolloutAt(j), UNCHANGED <<instanceVars, raised>>,
         rollout[j] = "out" => Released(j)' \/ Answered(j, "Offloaded")',
         (manager = "finishing" /\ Answered(j, "Offloaded"))' => rollout[j] = "out",
         ~Ended(j)
  PROVE  RolloutAt(j)'
  BY DEF RolloutAt, Clean, instanceVars

LEMMA GroupsStay ==
  ASSUME NEW j \in Instances, GroupsAt(j), UNCHANGED <<groupVars, instanceVars>>,
         aborted[j] # <<>> => IsLeaving(j)',
         ~(manager = "migrating" /\ Answered(j, "Default"))',
         \A n \in 1..Len(requests'[j]) :
           requests'[j][n].action = "Migrate_In" => requests'[j][n].data # <<>>
  PROVE  GroupsAt(j)'
<1>1. \A g \in returned[j] : RunningSeqs(g)' = 0
  BY DEF GroupsAt, RunningSeqs, groupVars
<1> QED  BY <1>1 DEF GroupsAt, groupVars, instanceVars

(* One more request to an instance that has none to answer.                 *)
LEMMA OneMore ==
  ASSUME NEW q \in Seq(RequestType), NEW r \in RequestType, NEW actions, r.action \in actions,
         Quiet(q)
  PROVE  /\ Append(q, r) \in Seq(RequestType) /\ Told(Append(q, r), actions)
         /\ Len(Append(q, r)) # 0
         /\ \A n \in 1..Len(Append(q, r)) :
              Append(q, r)[n] = r \/ \E m \in 1..Len(q) : Append(q, r)[n] = q[m]
<1> DEFINE t == Append(q, r)
<1>1. /\ t \in Seq(RequestType) /\ Len(t) = Len(q) + 1 /\ Len(q) \in Nat /\ t[Len(q) + 1] = r
      /\ \A n \in 1..Len(q) : t[n] = q[n]
  BY AppendIs, EmptyIs
<1> HIDE DEF t
<1>2. Told(t, actions)
  <2>1. CASE Len(q) = 0
    BY <1>1, <2>1 DEF Told
  <2>2. CASE Len(q) = 1 /\ q[1].action = "Migrate_In"
    BY <1>1, <2>2 DEF Told
  <2> QED  BY <2>1, <2>2 DEF Quiet
<1>3. ASSUME NEW n \in 1..Len(t) PROVE t[n] = r \/ \E m \in 1..Len(q) : t[n] = q[m]
  BY <1>1
<1> QED  BY <1>1, <1>2, <1>3 DEF t

(* Between two rounds every instance still in use is silent.                *)
LEMMA BetweenRounds ==
  ASSUME IInv, manager \in {"pre_process", "await_actor"}
  PROVE  /\ leaving = 0
         /\ \A j \in Instances : IF j < offset THEN AtRest(j) ELSE Silent(j) /\ Quiet(requests[j])
         /\ \A j \in Instances : rollout[j] = "out" => j < offset
         /\ \A j \in Instances : aborted[j] = <<>>
<1>1. TypeOK /\ \A j \in Instances : InstanceAt(j)
  BY DEF IInv
<1>2. leaving = 0
  BY <1>1, Sizes DEF TypeOK
<1>3. \A j \in Instances : ~IsLeaving(j)
  BY <1>1, <1>2, Sizes DEF TypeOK, IsLeaving
<1>4. ASSUME NEW j \in Instances
      PROVE  IF j < offset THEN AtRest(j) ELSE Silent(j) /\ Quiet(requests[j])
  <2>1. ProtocolAt(j)
    BY <1>1 DEF InstanceAt
  <2> QED  BY <1>3, <2>1 DEF ProtocolAt, Released
<1>5. ASSUME NEW j \in Instances, rollout[j] = "out" PROVE j < offset
  <2>1. RolloutAt(j)
    BY <1>1 DEF InstanceAt
  <2> QED  BY <1>4, <1>5, <2>1 DEF RolloutAt, Released, Answered, Silent
<1>6. ASSUME NEW j \in Instances PROVE aborted[j] = <<>>
  BY <1>1, <1>3 DEF InstanceAt, GroupsAt
<1> QED  BY <1>2, <1>4, <1>5, <1>6

LEMMA AliveIs ==
  ASSUME TypeOK
  PROVE  /\ \A j \in Instances : j \in Alive <=> ~(j < offset)
         /\ Alive \subseteq Instances /\ LeavingInstances \subseteq Instances
         /\ \A j \in Instances : j \in LeavingInstances <=> IsLeaving(j)
         /\ \A j \in Instances : IsLeaving(j) => ~(j < offset)
         /\ CurrentNum \in Nat /\ offset + CurrentNum = InstanceNum
         /\ offset \in Nat /\ leaving \in Nat
<1>1. /\ InstanceNum \in Nat /\ offset \in 0..InstanceNum /\ leaving \in 0..(InstanceNum - offset)
      /\ Instances = 0..(InstanceNum - 1)
  BY Sizes DEF TypeOK
<1> QED  BY <1>1 DEF Alive, LeavingInstances, IsLeaving, CurrentNum

LEMMA SendReportStep ==
  ASSUME IInv, SendReport
  PROVE  IInv'
<1>1. TypeOK /\ OnePlace /\ PolicyOK /\ \A j \in Instances : InstanceAt(j)
  BY DEF IInv
<1> DEFINE ask == Request("Report", <<>>)
<1>2. /\ \/ manager = "pre_process" /\ manager' = "pre_reporting"
         \/ manager = "await_actor" /\ manager' = "reporting" /\ train_iter < NMinibatches - 1
      /\ requests' = [j \in Instances |-> IF j \in Alive THEN Append(requests[j], ask)
                                          ELSE requests[j]]
      /\ UNCHANGED <<groupVars, instanceVars, responses, train_iter, offset, leaving,
                     reports, policy, raised>>
  BY AliveIs, <1>1 DEF SendReport, Scatter, ActorUpdates
<1>3. /\ leaving = 0
      /\ \A j \in Instances : IF j < offset THEN AtRest(j) ELSE Silent(j) /\ Quiet(requests[j])
      /\ \A j \in Instances : rollout[j] = "out" => j < offset
      /\ \A j \in Instances : aborted[j] = <<>>
  BY <1>2, BetweenRounds
<1>4. ask \in RequestType /\ ask.action = "Report"
  <2>1. <<>> \in Seq(Groups)
    OBVIOUS
  <2> QED  BY <2>1 DEF Request, RequestType, Actions
<1> HIDE DEF ask
<1>5. ASSUME NEW j \in Instances, j < offset
      PROVE  requests'[j] = requests[j]
  BY <1>1, <1>2, <1>5, AliveIs
<1>6. ASSUME NEW j \in Instances, ~(j < offset)
      PROVE  /\ requests'[j] \in Seq(RequestType) /\ Told(requests'[j], {"Report"})
             /\ \A n \in 1..Len(requests'[j]) : requests'[j][n] = ask
                                  \/ \E m \in 1..Len(requests[j]) : requests'[j][n] = requests[j][m]
  <2>1. requests'[j] = Append(requests[j], ask)
    BY <1>1, <1>2, <1>6, AliveIs
  <2>2. requests[j] \in Seq(RequestType) /\ Quiet(requests[j])
    BY <1>1, <1>3, <1>6 DEF TypeOK
  <2>3. ask.action \in {"Report"}
    BY <1>4
  <2> QED  BY <1>4, <2>1, <2>2, <2>3, OneMore
<1>7. TypeOK'
  <2>1. requests' \in [Instances -> Seq(RequestType)]
    <3>1. \A j \in Instances : requests'[j] \in Seq(RequestType)
      BY <1>1, <1>5, <1>6 DEF TypeOK
    <3> QED  BY <1>2, <3>1
  <2>2. manager' \in {"pre_reporting", "reporting"}
    BY <1>2
  <2> QED  BY <1>1, <1>2, <1>3, <2>1, <2>2 DEF TypeOK, groupVars, instanceVars
<1>8. ASSUME NEW j \in Instances PROVE InstanceAt(j)'
  <2>1. ~Released(j)' \/ j < offset
    BY <1>2 DEF Released
  <2>2. ~IsLeaving(j) /\ ~IsLeaving(j)' /\ ~Ended(j) /\ manager' \in {"pre_reporting", "reporting"}
    BY <1>1, <1>2, <1>3, Sizes DEF TypeOK, IsLeaving, Ended
  <2>3. ProtocolAt(j)'
    <3>1. CASE j < offset
      BY <1>2, <1>3, <1>5, <2>2, <3>1 DEF ProtocolAt, Released, AtRest, Silent, Clean, instanceVars
    <3>2. CASE ~(j < offset)
      BY <1>2, <1>3, <1>6, <2>2, <3>2 DEF ProtocolAt, Released, Silent, instanceVars
    <3> QED  BY <3>1, <3>2
  <2>4. RolloutAt(j)'
    <3>1. rollout[j] = "out" => Released(j)'
      BY <1>2, <1>3 DEF Released
    <3>2. RolloutAt(j)
      BY <1>1 DEF InstanceAt
    <3>3. UNCHANGED <<instanceVars, raised>>
      BY <1>2
    <3> QED  BY <2>2, <3>1, <3>2, <3>3, RolloutStays
  <2>5. \A n \in 1..Len(requests'[j]) :
          requests'[j][n].action = "Migrate_In" => requests'[j][n].data # <<>>
    BY <1>1, <1>4, <1>5, <1>6 DEF InstanceAt, GroupsAt
  <2>6. GroupsAt(j)'
    <3>1. GroupsAt(j)
      BY <1>1 DEF InstanceAt
    <3>2. UNCHANGED <<groupVars, instanceVars>>
      BY <1>2
    <3>3. aborted[j] = <<>>
      BY <1>3
    <3> QED  BY <2>2, <2>5, <3>1, <3>2, <3>3, GroupsStay
  <2>7. PolicyAt(j)'
    <3>1. PolicyAt(j) /\ (Pre' => Pre /\ offset = 0) /\ (Pre => Pre') /\ manager # "idle"
      BY <1>1, <1>2 DEF InstanceAt, PolicyOK, Pre, Lending
    <3>2. Pre' => \A n \in 1..Len(requests'[j]) : requests'[j][n].action = "Report"
      BY <1>4, <1>5, <1>6, <3>1 DEF PolicyAt
    <3> QED  BY <1>2, <3>1, <3>2 DEF PolicyAt, instanceVars
  <2> QED  BY <2>3, <2>4, <2>6, <2>7 DEF InstanceAt
<1>9. OnePlace'
  <2>1. ASSUME NEW g \in Groups, NEW a \in Kinds, NEW j \in Instances, At(g, a, j)'
        PROVE  At(g, a, j)
    <3>1. a = "sent" => At(g, "sent", j)
      BY <1>4, <1>5, <1>6, <2>1 DEF At
    <3> QED  BY <1>2, <2>1, <3>1 DEF At, instanceVars
  <2> QED  BY <1>1, <1>2, <2>1, Places DEF groupVars
<1>10. PolicyOK'
  BY <1>1, <1>2 DEF PolicyOK, Pre, Lending
<1> QED  BY <1>7, <1>8, <1>9, <1>10 DEF IInv

LEMMA SkipRoundStep ==
  ASSUME IInv, SkipRound
  PROVE  IInv'
<1>1. TypeOK /\ OnePlace /\ PolicyOK /\ \A j \in Instances : InstanceAt(j)
  BY DEF IInv
<1>2. /\ manager = "await_actor" /\ Alive = {}
      /\ \/ manager' = manager /\ train_iter < NMinibatches - 1 /\ train_iter' = train_iter + 1
         \/ manager' = "idle" /\ train_iter' = train_iter
      /\ UNCHANGED <<groupVars, instanceVars, channelVars, offset, leaving, reports,
                     policy, raised>>
  BY DEF SkipRound, ActorUpdates
<1>3. /\ leaving = 0
      /\ \A j \in Instances : j < offset /\ AtRest(j)
  BY <1>1, <1>2, BetweenRounds, AliveIs
<1>4. train_iter' \in 0..(NMinibatches - 1)
  BY <1>1, <1>2, Sizes DEF TypeOK
<1>5. TypeOK'
  BY <1>1, <1>2, <1>3, <1>4 DEF TypeOK, groupVars, instanceVars, channelVars
<1>6. ASSUME NEW j \in Instances PROVE InstanceAt(j)'
  <2>1. /\ Released(j)' /\ AtRest(j) /\ AtRest(j)' /\ ~IsLeaving(j) /\ ~Ended(j)
        /\ manager' \in {"idle", "await_actor"}
    BY <1>1, <1>2, <1>3, AliveIs DEF Released, AtRest, Clean, Silent, Ended,
         instanceVars, channelVars
  <2>2. ProtocolAt(j)'
    BY <2>1 DEF ProtocolAt
  <2>3. RolloutAt(j)'
    <3>1. RolloutAt(j)
      BY <1>1 DEF InstanceAt
    <3>2. UNCHANGED <<instanceVars, raised>>
      BY <1>2
    <3> QED  BY <2>1, <3>1, <3>2, RolloutStays
  <2>4. GroupsAt(j)'
    <3>1. GroupsAt(j)
      BY <1>1 DEF InstanceAt
    <3>2. UNCHANGED <<groupVars, instanceVars>>
      BY <1>2
    <3>3. aborted[j] = <<>>
      BY <2>1 DEF AtRest, Clean
    <3>4. \A n \in 1..Len(requests'[j]) :
            requests'[j][n].action = "Migrate_In" => requests'[j][n].data # <<>>
      BY <1>2, <3>1 DEF GroupsAt, channelVars
    <3> QED  BY <2>1, <3>1, <3>2, <3>3, <3>4, GroupsStay
  <2>5. PolicyAt(j)'
    BY <2>1 DEF PolicyAt, Pre, AtRest
  <2> QED  BY <2>2, <2>3, <2>4, <2>5 DEF InstanceAt
<1>7. OnePlace'
  <2>1. ASSUME NEW g \in Groups, NEW a \in Kinds, NEW j \in Instances, At(g, a, j)'
        PROVE  At(g, a, j)
    BY <1>2, <2>1 DEF At, instanceVars, channelVars
  <2> QED  BY <1>1, <1>2, <2>1, Places DEF groupVars
<1>8. PolicyOK'
  BY <1>1, <1>2 DEF PolicyOK, Pre, Lending
<1> QED  BY <1>5, <1>6, <1>7, <1>8 DEF IInv

LEMMA FinalizeStep ==
  ASSUME IInv, Finalize
  PROVE  IInv'
<1>1. TypeOK /\ OnePlace /\ PolicyOK /\ \A j \in Instances : InstanceAt(j)
  BY DEF IInv
<1> DEFINE ask == Request("Finish", <<>>)
           to == offset..(offset + CurrentNum - 1)
<1>2. /\ manager = "await_actor" /\ ActorUpdates /\ train_iter = NMinibatches - 1
      /\ manager' = "finishing" /\ leaving' = CurrentNum
      /\ requests' = [j \in Instances |-> IF j \in to THEN Append(requests[j], ask)
                                          ELSE requests[j]]
      /\ UNCHANGED <<groupVars, instanceVars, responses, train_iter, offset, reports,
                     policy, raised>>
  BY DEF Finalize, Finish, Scatter, ActorUpdates
<1>3. /\ leaving = 0
      /\ \A j \in Instances : IF j < offset THEN AtRest(j) ELSE Silent(j) /\ Quiet(requests[j])
      /\ \A j \in Instances : rollout[j] = "out" => j < offset
      /\ \A j \in Instances : aborted[j] = <<>>
  BY <1>2, BetweenRounds
<1>4. ask \in RequestType /\ ask.action = "Finish"
  <2>1. <<>> \in Seq(Groups)
    OBVIOUS
  <2> QED  BY <2>1 DEF Request, RequestType, Actions
<1>5. /\ \A j \in Instances : j \in to <=> ~(j < offset)
      /\ \A j \in Instances : IsLeaving(j)' <=> ~(j < offset)
      /\ offset + CurrentNum = InstanceNum /\ CurrentNum \in Nat /\ offset \in 0..InstanceNum
  <2>1. /\ offset + CurrentNum = InstanceNum /\ CurrentNum \in Nat
        /\ offset \in 0..InstanceNum /\ InstanceNum \in Nat /\ Instances = 0..(InstanceNum - 1)
    BY <1>1, AliveIs, Sizes DEF TypeOK
  <2>2. \A j \in Instances : IsLeaving(j)' <=> ~(j < offset)
    BY <1>2, <2>1 DEF IsLeaving
  <2> QED  BY <2>1, <2>2
<1> HIDE DEF ask, to
<1>6. ASSUME NEW j \in Instances, j < offset
      PROVE  requests'[j] = requests[j]
  BY <1>2, <1>5, <1>6
<1>7. ASSUME NEW j \in Instances, ~(j < offset)
      PROVE  /\ requests'[j] \in Seq(RequestType)
             /\ Told(requests'[j], {"Finish", "Wait_For_Finish"}) /\ Len(requests'[j]) # 0
             /\ \A n \in 1..Len(requests'[j]) : requests'[j][n] = ask
                                  \/ \E m \in 1..Len(requests[j]) : requests'[j][n] = requests[j][m]
  <2>1. requests'[j] = Append(requests[j], ask)
    BY <1>2, <1>5, <1>7
  <2>2. requests[j] \in Seq(RequestType) /\ Quiet(requests[j])
    BY <1>1, <1>3, <1>7 DEF TypeOK
  <2>3. ask.action \in {"Finish", "Wait_For_Finish"}
    BY <1>4
  <2> QED  BY <1>4, <2>1, <2>2, <2>3, OneMore
<1>8. TypeOK'
  <2>1. requests' \in [Instances -> Seq(RequestType)]
    <3>1. \A j \in Instances : requests'[j] \in Seq(RequestType)
      BY <1>1, <1>6, <1>7 DEF TypeOK
    <3> QED  BY <1>2, <3>1
  <2>2. leaving' \in 0..(InstanceNum - offset)
    BY <1>2, <1>5, Sizes
  <2> QED  BY <1>1, <1>2, <1>3, <2>1, <2>2 DEF TypeOK, groupVars, instanceVars
<1>9. ASSUME NEW j \in Instances PROVE InstanceAt(j)'
  <2>1. /\ Released(j)' => j < offset
        /\ ~Ended(j) /\ manager' = "finishing" /\ Silent(j) /\ Silent(j)'
    BY <1>2, <1>3 DEF Released, Ended, Silent, AtRest, instanceVars
  <2>2. ProtocolAt(j)'
    <3>1. CASE j < offset
      BY <1>2, <1>3, <1>5, <1>6, <2>1, <3>1 DEF ProtocolAt, Released, AtRest, Silent, Clean, instanceVars
    <3>2. CASE ~(j < offset)
      BY <1>2, <1>3, <1>5, <1>7, <2>1, <3>2 DEF ProtocolAt, Released
    <3> QED  BY <3>1, <3>2
  <2>3. RolloutAt(j)'
    <3>1. rollout[j] = "out" => Released(j)'
      BY <1>2, <1>3 DEF Released
    <3>2. RolloutAt(j)
      BY <1>1 DEF InstanceAt
    <3>3. UNCHANGED <<instanceVars, raised>>
      BY <1>2
    <3>4. ~Answered(j, "Offloaded")'
      BY <2>1 DEF Silent, Answered
    <3> QED  BY <2>1, <3>1, <3>2, <3>3, <3>4, RolloutStays
  <2>4. GroupsAt(j)'
    <3>1. GroupsAt(j)
      BY <1>1 DEF InstanceAt
    <3>2. UNCHANGED <<groupVars, instanceVars>>
      BY <1>2
    <3>3. aborted[j] = <<>>
      BY <1>3
    <3>4. \A n \in 1..Len(requests'[j]) :
            requests'[j][n].action = "Migrate_In" => requests'[j][n].data # <<>>
      BY <1>4, <1>6, <1>7, <3>1 DEF GroupsAt
    <3> QED  BY <2>1, <3>1, <3>2, <3>3, <3>4, GroupsStay
  <2>5. PolicyAt(j)'
    BY <1>1, <1>2, <2>1 DEF InstanceAt, PolicyAt, Pre, instanceVars
  <2> QED  BY <2>2, <2>3, <2>4, <2>5 DEF InstanceAt
<1>10. OnePlace'
  <2>1. ASSUME NEW g \in Groups, NEW a \in Kinds, NEW j \in Instances, At(g, a, j)'
        PROVE  At(g, a, j)
    <3>1. a = "sent" => At(g, "sent", j)
      BY <1>4, <1>6, <1>7, <2>1 DEF At
    <3> QED  BY <1>2, <2>1, <3>1 DEF At, instanceVars
  <2> QED  BY <1>1, <1>2, <2>1, Places DEF groupVars
<1>11. PolicyOK'
  <2>1. ToSet(output) = Groups
    BY <1>1, <1>2, LastUpdate DEF TypeOK, OnePlace
  <2>2. offset' + leaving' = InstanceNum
    BY <1>2, <1>5
  <2> QED  BY <1>1, <1>2, <2>1, <2>2 DEF PolicyOK, Pre, Lending, groupVars
<1> QED  BY <1>8, <1>9, <1>10, <1>11 DEF IInv

-----------------------------------------------------------------------------
(* A step of the runner, and the initial states.                            *)

LEMMA StartStepStep ==
  ASSUME IInv, StartStep
  PROVE  IInv'
<1>1. TypeOK /\ OnePlace /\ PolicyOK /\ \A j \in Instances : InstanceAt(j)
  BY DEF IInv
<1>2. /\ manager = "idle" /\ raised = {}
      /\ completed' = [g \in Groups |-> 0] /\ abortedSeqs' = [g \in Groups |-> 0]
      /\ output' = <<>> /\ rollout' = [i \in Instances |-> "called"]
      /\ manager' = IF policy.preProcess THEN "pre_process" ELSE "await_actor"
      /\ train_iter' = 0 /\ offset' = 0
      /\ UNCHANGED <<returned, serving, running, aborted, done, event, channelVars,
                     leaving, reports, policy, raised>>
  BY DEF StartStep
<1>3. \A j \in Instances : AtRest(j)
  BY <1>1, <1>2 DEF InstanceAt, ProtocolAt, Released
<1>4. leaving = 0
  BY <1>1, <1>2, Sizes DEF TypeOK
<1>5. manager' \in {"pre_process", "await_actor"}
  BY <1>2
<1>6. TypeOK'
  <2>1. GroupSize \in Nat \ {0} /\ NMinibatches \in Nat \ {0} /\ InstanceNum \in Nat \ {0}
    BY Sizes
  <2>2. /\ completed' \in [Groups -> 0..GroupSize] /\ abortedSeqs' \in [Groups -> 0..GroupSize]
        /\ \A g \in Groups : completed'[g] + abortedSeqs'[g] <= GroupSize
    BY <1>2, <2>1
  <2>3. output' \in Seq(Groups)
    BY <1>2
  <2>4. train_iter' \in 0..(NMinibatches - 1) /\ offset' \in 0..InstanceNum
        /\ leaving' \in 0..(InstanceNum - offset')
    BY <1>2, <1>4, <2>1
  <2>5. rollout' \in [Instances -> {"out", "called", "waiting_tasks", "handling",
                                    "waiting_event", "offloading", "failed"}]
    BY <1>2
  <2> QED  BY <1>1, <1>2, <1>4, <1>5, <2>2, <2>3, <2>4, <2>5 DEF TypeOK, channelVars
<1>7. ASSUME NEW j \in Instances PROVE InstanceAt(j)'
  <2>1. /\ AtRest(j) /\ rollout'[j] = "called" /\ ~Released(j)' /\ ~IsLeaving(j)' /\ Silent(j)'
        /\ Len(requests'[j]) = 0 /\ requests'[j] = requests[j]
    <3>1. ~(j < 0) /\ ~(j < 0 + 0)
      BY Sizes
    <3> QED  BY <1>2, <1>3, <1>4, <1>5, <3>1 DEF Released, IsLeaving, Silent, AtRest, channelVars
  <2>2. ProtocolAt(j)'
    BY <1>5, <2>1 DEF ProtocolAt, Quiet
  <2>3. RolloutAt(j)'
    BY <1>2, <1>5, <2>1 DEF RolloutAt, AtRest, Clean
  <2>4. GroupsAt(j)'
    <3>1. aborted'[j] = <<>> /\ done'[j] = {} /\ returned'[j] = {} /\ running'[j] = {}
      BY <1>2, <2>1 DEF AtRest, Clean
    <3>2. \A g \in Batch(j) : abortedSeqs'[g] = 0
      BY <1>2, BatchIs
    <3>3. NoRepeat(aborted'[j])
      BY <3>1 DEF NoRepeat
    <3> QED  BY <1>5, <2>1, <3>1, <3>2, <3>3 DEF GroupsAt
  <2>5. PolicyAt(j)'
    BY <1>2, <2>1 DEF PolicyAt, Pre, AtRest, Clean, Silent, channelVars
  <2> QED  BY <2>2, <2>3, <2>4, <2>5 DEF InstanceAt
<1>8. OnePlace'
  <2>1. ASSUME NEW g \in Groups, NEW a \in Kinds, NEW j \in Instances, At(g, a, j)'
        PROVE  a = "fresh" /\ g \in Batch(j)
    <3>1. running'[j] = {} /\ manager' # "migrating" /\ Len(requests'[j]) = 0
      BY <1>2, <1>3, <1>5 DEF AtRest, Clean, channelVars
    <3> QED  BY <2>1, <3>1 DEF At
  <2>2. \A j, k \in Instances : j # k => Batch(j) \cap Batch(k) = {}
    BY BatchIs
  <2>3. \A g : ~Has(output', g)
    BY <1>2 DEF Has
  <2>4. NoRepeat(output')
    BY <1>2 DEF NoRepeat
  <2> QED  BY <2>1, <2>2, <2>3, <2>4 DEF OnePlace
<1>9. PolicyOK'
  BY <1>2, <1>4 DEF PolicyOK, Pre, Lending
<1> QED  BY <1>6, <1>7, <1>8, <1>9 DEF IInv

LEMMA InitIs ==
  ASSUME Init
  PROVE  IInv
<1>1. TypeOK
  <2>1. GroupSize \in Nat \ {0} /\ NMinibatches \in Nat \ {0} /\ InstanceNum \in Nat \ {0}
    BY Sizes
  <2>2. /\ completed \in [Groups -> 0..GroupSize] /\ abortedSeqs \in [Groups -> 0..GroupSize]
        /\ \A g \in Groups : completed[g] + abortedSeqs[g] <= GroupSize
    BY <2>1 DEF Init
  <2>3. /\ output \in Seq(Groups) /\ aborted \in [Instances -> Seq(Groups)]
        /\ requests \in [Instances -> Seq(RequestType)]
        /\ responses \in [Instances -> Seq(ResponseType)]
    BY DEF Init
  <2>4. /\ train_iter \in 0..(NMinibatches - 1) /\ offset \in 0..InstanceNum
        /\ leaving \in 0..(InstanceNum - offset) /\ ~(leaving > 0)
    BY <2>1 DEF Init
  <2>5. reports \in [Instances -> ReportType]
    BY DEF Init, NoReport, ReportType
  <2>6. /\ rollout \in [Instances -> {"out", "called", "waiting_tasks", "handling",
                                      "waiting_event", "offloading", "failed"}]
        /\ returned \in [Instances -> SUBSET Groups] /\ running \in [Instances -> SUBSET Groups]
        /\ done \in [Instances -> SUBSET Groups] /\ event \in [Instances -> BOOLEAN]
        /\ serving \in [Instances -> {"get", "Migrate_Out", "Finish"}]
    BY DEF Init
  <2>7. /\ manager = "idle" /\ policy \in Policies /\ raised = {}
    BY DEF Init
  <2> QED  BY <2>2, <2>3, <2>4, <2>5, <2>6, <2>7 DEF TypeOK
<1>2. /\ manager = "idle" /\ raised = {} /\ leaving = 0 /\ offset = 0 /\ output = <<>>
      /\ \A j \in Instances :
           /\ rollout[j] = "out" /\ returned[j] = {} /\ serving[j] = "get" /\ running[j] = {}
           /\ aborted[j] = <<>> /\ done[j] = {} /\ ~event[j]
           /\ requests[j] = <<>> /\ responses[j] = <<>>
  BY DEF Init
<1>3. ASSUME NEW j \in Instances PROVE InstanceAt(j)
  <2>1. AtRest(j) /\ Len(requests[j]) = 0 /\ Released(j) /\ ~Answered(j, "Offloaded")
    BY <1>2 DEF AtRest, Clean, Silent, Released, Answered
  <2>2. ProtocolAt(j)
    BY <1>2, <2>1 DEF ProtocolAt
  <2>3. RolloutAt(j)
    BY <1>2, <2>1 DEF RolloutAt, AtRest
  <2>4. GroupsAt(j)
    <3>1. NoRepeat(aborted[j])
      BY <1>2 DEF NoRepeat
    <3> QED  BY <1>2, <2>1, <3>1 DEF GroupsAt
  <2>5. PolicyAt(j)
    BY <1>2 DEF PolicyAt, Pre
  <2> QED  BY <2>2, <2>3, <2>4, <2>5 DEF InstanceAt
<1>4. OnePlace
  <2>1. \A g \in Groups, a \in Kinds, j \in Instances : ~At(g, a, j)
    BY <1>2 DEF At
  <2>2. NoRepeat(output)
    BY <1>2 DEF NoRepeat
  <2> QED  BY <2>1, <2>2 DEF OnePlace
<1>5. PolicyOK
  BY <1>2 DEF PolicyOK, Pre
<1> QED  BY <1>1, <1>3, <1>4, <1>5 DEF IInv

-----------------------------------------------------------------------------
(* The manager's decisions.                                                 *)

(* An instance that has answered everything before is asked once more.      *)
LEMMA OneRequest ==
  ASSUME NEW q \in Seq(RequestType), Len(q) = 0, NEW r \in RequestType
  PROVE  Append(q, r) \in Seq(RequestType) /\ Len(Append(q, r)) = 1 /\ Append(q, r)[1] = r
  BY AppendIs

LEMMA OneResponse ==
  ASSUME NEW q \in Seq(ResponseType), Len(q) = 1
  PROVE  /\ q # <<>> /\ Head(q) = q[1] /\ q[1] \in ResponseType
         /\ Tail(q) \in Seq(ResponseType) /\ Len(Tail(q)) = 0
  OBVIOUS

LEMMA DecideStep ==
  ASSUME IInv, Decide
  PROVE  IInv'
<1>1. TypeOK /\ OnePlace /\ PolicyOK /\ \A j \in Instances : InstanceAt(j)
  BY DEF IInv
<1>2. /\ manager \in {"pre_reporting", "reporting"} /\ \A j \in Alive : responses[j] # <<>>
      /\ responses' = [j \in Instances |-> IF j \in Alive THEN Tail(responses[j]) ELSE responses[j]]
      /\ reports' = IF manager' = "migrating" THEN NewReports ELSE reports
      /\ UNCHANGED <<groupVars, instanceVars, offset, policy>>
  BY DEF Decide, Gathered, TakeResponses
<1>3. /\ leaving = 0 /\ \A j \in Instances : ~IsLeaving(j)
      /\ Alive \subseteq Instances /\ \A j \in Instances : j \in Alive <=> ~(j < offset)
      /\ offset + CurrentNum = InstanceNum /\ CurrentNum \in Nat /\ offset \in Nat
  <2>1. leaving = 0
    BY <1>1, <1>2, Sizes DEF TypeOK
  <2>2. \A j \in Instances : ~IsLeaving(j)
    BY <1>1, <1>2, LeavingWhen
  <2> QED  BY <1>1, <2>1, <2>2, AliveIs
<1>4. ASSUME NEW j \in Instances
      PROVE  (j < offset => AtRest(j)) /\ (~(j < offset) => Answered(j, "Default"))
  <2>1. ProtocolAt(j)
    BY <1>1 DEF InstanceAt
  <2>2. ~(j < offset) => responses[j] # <<>>
    BY <1>2, <1>3
  <2>3. responses[j] \in Seq(ResponseType)
    BY <1>1 DEF TypeOK
  <2> QED  BY <1>2, <2>1, <2>2, <2>3, EmptyIs DEF ProtocolAt, Released, Silent
<1>5. \A j \in Alive : /\ Head(responses[j]) = responses[j][1] /\ responses[j][1] \in ResponseType
                       /\ responses[j][1].action = "Default"
                       /\ Tail(responses[j]) \in Seq(ResponseType) /\ Len(Tail(responses[j])) = 0
  <2>1. ASSUME NEW j \in Alive
        PROVE responses[j] \in Seq(ResponseType) /\ Len(responses[j]) = 1 /\ responses[j][1].action = "Default"
    <3>1. j \in Instances /\ ~(j < offset)
      BY <1>3
    <3>2. Answered(j, "Default")
      BY ONLY <1>4, <3>1, Zenon
    <3> QED  BY <1>1, <3>1, <3>2 DEF TypeOK, Answered
  <2> QED  BY <2>1, OneResponse
<1>6. raised' = raised
  <2>1. Expect(Alive, FALSE, "no report")
    BY DEF Decide
  <2>2. \A j \in Alive : Head(responses[j]).action # "Offloaded"
    BY <1>5
  <2> QED  BY <2>1, <2>2 DEF Expect
<1>7. /\ responses' \in [Instances -> Seq(ResponseType)]
      /\ \A j \in Instances : Len(responses'[j]) = 0
  <2>1. ASSUME NEW j \in Instances
        PROVE  responses'[j] \in Seq(ResponseType) /\ Len(responses'[j]) = 0
    <3>1. CASE j < offset
      BY <1>1, <1>2, <1>3, <1>4, <3>1 DEF AtRest, Silent, TypeOK
    <3>2. CASE ~(j < offset)
      BY <1>2, <1>3, <1>5, <3>2
    <3> QED  BY <3>1, <3>2
  <2> QED  BY <1>2, <2>1
<1>8. \A j \in Instances : /\ Silent(j)' /\ Len(requests[j]) = 0 /\ aborted[j] = <<>> /\ ~Ended(j)
                           /\ rollout[j] = "out" => j < offset
                           /\ ~Answered(j, "Offloaded")' /\ ~Answered(j, "Default")'
  <2>1. ASSUME NEW j \in Instances
        PROVE serving[j] = "get" /\ Len(requests[j]) = 0 /\ aborted[j] = <<>> /\ ~Ended(j)
    BY <1>1, <1>2, <1>3, <1>4 DEF AtRest, Silent, Answered, InstanceAt, GroupsAt, Ended
  <2>2. ASSUME NEW j \in Instances, rollout[j] = "out" PROVE j < offset
    <3>1. RolloutAt(j)
      BY <1>1 DEF InstanceAt
    <3> QED  BY <1>2, <1>4, <2>2, <3>1 DEF RolloutAt, Released, Answered
  <2> QED  BY <1>2, <1>7, <2>1, <2>2 DEF Silent, Answered, instanceVars
<1>9. NewReports \in [Instances -> ReportType]
  <2>1. \A j \in Instances : NewReports[j] \in ReportType
    BY <1>3, <1>5 DEF NewReports, NoReport, ReportType, ResponseType
  <2> QED  BY <2>1 DEF NewReports
<1>10. reports' \in [Instances -> ReportType]
  BY <1>1, <1>2, <1>9 DEF TypeOK
<1>11. (policy.preProcess /\ manager' # "pre_process") =>
         \A j \in Instances : rollout[j] # "called"
  <2>1. CASE manager = "reporting"
    BY <1>1, <2>1 DEF InstanceAt, PolicyAt, Pre
  <2>2. CASE manager = "pre_reporting" /\ manager' # "pre_process"
    <3>1. LendingDone(NewReports)
      BY <2>2 DEF Decide
    <3>2. offset = 0
      BY <1>1, <2>2 DEF PolicyOK, Pre, Lending
    <3>3. \A j \in Instances : NewReports[j] = responses[j][1].report /\ Len(responses[j]) > 0
      <4>1. \A j \in Instances : j \in Alive /\ ~(j < offset)
        BY <1>3, <3>2, Sizes
      <4> QED  BY <1>4, <1>5, <4>1 DEF NewReports, Answered
    <3>4. \A j \in Instances : /\ NewReports[j].total <= GroupSize * Share
                               /\ NewReports[j].total > 0 => rollout[j] # "called"
      BY <1>1, <2>2, <3>3 DEF InstanceAt, PolicyAt, Pre
    <3>5. \A j \in Instances : NewReports[j].total > 0
      BY <1>9, <3>1, <3>4, AllReported
    <3> QED  BY <3>4, <3>5
  <2> QED  BY <1>2, <2>1, <2>2
<1>12. ASSUME NEW j \in Instances, requests'[j] = requests[j]
       PROVE  \A n \in 1..Len(requests'[j]) : requests'[j][n].action # "Migrate_In"
  BY <1>8, <1>12
<1>13. UNCHANGED <<groupVars, instanceVars, raised>>
  BY <1>2, <1>6
<1>14. CASE /\ manager' \in {"pre_process", "await_actor"} /\ UNCHANGED <<requests, leaving>>
            /\ manager = "pre_reporting" => manager' = "pre_process" /\ train_iter' = train_iter
            /\ manager = "reporting" => manager' = "await_actor" /\ train_iter' = train_iter + 1
  <2>1. train_iter' \in 0..(NMinibatches - 1)
    <3>1. train_iter \in 0..(NMinibatches - 1) /\ NMinibatches \in Nat
      BY <1>1, Sizes DEF TypeOK
    <3>2. manager = "reporting" => train_iter < NMinibatches - 1
      BY <1>1 DEF PolicyOK
    <3> QED  BY <1>2, <1>14, <3>1, <3>2
  <2>2. TypeOK'
    BY <1>1, <1>2, <1>3, <1>6, <1>7, <1>10, <1>14, <2>1 DEF TypeOK, groupVars, instanceVars
  <2>3. ASSUME NEW j \in Instances PROVE InstanceAt(j)'
    <3>1. Silent(j)' /\ Len(requests'[j]) = 0 /\ ~Ended(j) /\ aborted[j] = <<>> /\ offset' = offset
      BY <1>2, <1>8, <1>14
    <3>2. ~IsLeaving(j)'
      BY <1>2, <1>3, <1>14 DEF IsLeaving
    <3>3. ProtocolAt(j)'
      <4>1. j < offset => AtRest(j)'
        BY <1>2, <1>4, <3>1 DEF AtRest, Clean, instanceVars
      <4>2. Released(j)' => j < offset
        BY <1>2, <1>14 DEF Released
      <4> QED  BY <1>14, <3>1, <3>2, <4>1, <4>2 DEF ProtocolAt, Quiet
    <3>4. RolloutAt(j)'
      <4>1. rollout[j] = "out" => Released(j)'
        BY <1>2, <1>8 DEF Released
      <4>2. RolloutAt(j)
        BY <1>1 DEF InstanceAt
      <4>3. ~Answered(j, "Offloaded")'
        BY <1>8
      <4> QED  BY <1>13, <3>1, <4>1, <4>2, <4>3, RolloutStays
    <3>5. GroupsAt(j)'
      <4>1. GroupsAt(j)
        BY <1>1 DEF InstanceAt
      <4> QED  BY <1>8, <1>12, <1>13, <1>14, <3>1, <4>1, GroupsStay
    <3>6. PolicyAt(j)'
      <4>1. PolicyAt(j)
        BY <1>1 DEF InstanceAt
      <4>2. Pre' => Pre
        BY <1>2, <1>14 DEF Pre
      <4> QED  BY <1>2, <1>7, <1>11, <1>14, <3>1, <4>1, <4>2 DEF PolicyAt, Pre, instanceVars
    <3> QED  BY <3>3, <3>4, <3>5, <3>6 DEF InstanceAt
  <2>4. OnePlace'
    <3>1. ASSUME NEW g \in Groups, NEW a \in Kinds, NEW j \in Instances, At(g, a, j)'
          PROVE  At(g, a, j)
      BY <1>2, <1>14, <3>1 DEF At, instanceVars
    <3> QED  BY <1>1, <1>2, <3>1, Places DEF groupVars
  <2>5. PolicyOK'
    BY <1>1, <1>2, <1>6, <1>14 DEF PolicyOK, Pre, Lending
  <2> QED  BY <2>2, <2>3, <2>4, <2>5 DEF IInv
<1>15. ASSUME NEW n \in 0..CurrentNum, NEW action \in {"Migrate_Out", "Finish", "Wait_For_Finish"},
              manager' = (IF action = "Migrate_Out" THEN "migrating" ELSE "finishing"),
              leaving' = n, train_iter' = train_iter,
              requests' = [j \in Instances |->
                             IF j \in offset..(offset + n - 1)
                             THEN Append(requests[j], Request(action, <<>>)) ELSE requests[j]],
              manager = "pre_reporting" => n > 0 /\ action = "Migrate_Out"
       PROVE  IInv'
  <2> DEFINE to == offset..(offset + n - 1)
             ask == Request(action, <<>>)
  <2>1. ask \in RequestType /\ ask.action = action
    <3>1. <<>> \in Seq(Groups)
      OBVIOUS
    <3> QED  BY <3>1 DEF Request, RequestType, Actions
  <2>2. \A j \in Instances : (j \in to <=> IsLeaving(j)') /\ (IsLeaving(j)' => ~(j < offset))
    <3>1. /\ n \in Nat /\ offset \in Nat /\ Instances = 0..(InstanceNum - 1) /\ InstanceNum \in Nat
      BY <1>3, Sizes
    <3>2. \A j \in Instances : j \in to <=> (offset <= j /\ j < offset + n)
      BY <3>1
    <3> QED  BY <1>2, <1>15, <3>1, <3>2 DEF IsLeaving
  <2> HIDE DEF ask, to
  <2>3. ASSUME NEW j \in Instances, ~IsLeaving(j)' PROVE requests'[j] = requests[j]
    BY <1>15, <2>2, <2>3 DEF to
  <2>4. ASSUME NEW j \in Instances, IsLeaving(j)'
        PROVE  /\ requests'[j] \in Seq(RequestType) /\ Len(requests'[j]) = 1 /\ requests'[j][1] = ask
    <3>1. requests'[j] = Append(requests[j], ask)
      BY <1>15, <2>2, <2>4 DEF to, ask
    <3>2. requests[j] \in Seq(RequestType) /\ Len(requests[j]) = 0
      BY <1>1, <1>8 DEF TypeOK
    <3> QED  BY <2>1, <3>1, <3>2, OneRequest
  <2>5. \A j \in Instances : \A m \in 1..Len(requests'[j]) : requests'[j][m].action # "Migrate_In"
    BY <1>12, <2>1, <2>3, <2>4
  <2>6. TypeOK'
    <3>1. requests' \in [Instances -> Seq(RequestType)]
      <4>1. \A j \in Instances : requests'[j] \in Seq(RequestType)
        BY <1>1, <2>3, <2>4 DEF TypeOK
      <4> QED  BY <1>15, <4>1
    <3>2. leaving' \in 0..(InstanceNum - offset) /\ manager' \in {"migrating", "finishing"}
      BY <1>3, <1>15, Sizes
    <3> QED  BY <1>1, <1>2, <1>6, <1>7, <1>10, <1>15, <3>1, <3>2 DEF TypeOK, groupVars, instanceVars
  <2>7. ASSUME NEW j \in Instances PROVE InstanceAt(j)'
    <3>1. /\ Silent(j)' /\ ~Ended(j) /\ aborted[j] = <<>> /\ offset' = offset
          /\ manager' \in {"migrating", "finishing"}
      BY <1>2, <1>8, <1>15
    <3>2. ProtocolAt(j)'
      <4>1. j < offset => AtRest(j)'
        <5>1. j < offset => ~IsLeaving(j)'
          BY <2>2
        <5> QED  BY <1>2, <1>4, <1>8, <2>3, <3>1, <5>1 DEF AtRest, Clean, instanceVars
      <4>2. Released(j)' => j < offset
        BY <1>2, <3>1 DEF Released
      <4>3. ~IsLeaving(j)' => Len(requests'[j]) = 0
        BY <1>8, <2>3
      <4>4. IsLeaving(j)' => Told(requests'[j], {action})
        BY <2>1, <2>4 DEF Told
      <4>5. IsLeaving(j)' /\ action # "Migrate_Out" => Told(requests'[j], {"Finish", "Wait_For_Finish"})
        BY <2>1, <2>4 DEF Told
      <4>6. IsLeaving(j)' /\ manager' = "migrating" => Told(requests'[j], {"Migrate_Out"})
        BY <1>15, <4>4
      <4>7. IsLeaving(j)' /\ manager' = "finishing" => Told(requests'[j], {"Finish", "Wait_For_Finish"})
        BY <1>15, <4>5
      <4> QED  BY <3>1, <4>1, <4>2, <4>3, <4>6, <4>7 DEF ProtocolAt, Quiet
    <3>3. RolloutAt(j)'
      <4>1. rollout[j] = "out" => Released(j)'
        BY <1>2, <1>8 DEF Released
      <4>2. RolloutAt(j)
        BY <1>1 DEF InstanceAt
      <4>3. ~Answered(j, "Offloaded")'
        BY <1>8
      <4> QED  BY <1>13, <3>1, <4>1, <4>2, <4>3, RolloutStays
    <3>4. GroupsAt(j)'
      <4>1. GroupsAt(j)
        BY <1>1 DEF InstanceAt
      <4> QED  BY <1>8, <1>13, <2>5, <3>1, <4>1, GroupsStay
    <3>5. PolicyAt(j)'
      BY <1>2, <1>11, <3>1 DEF PolicyAt, Pre, instanceVars
    <3> QED  BY <3>2, <3>3, <3>4, <3>5 DEF InstanceAt
  <2>8. OnePlace'
    <3>1. ASSUME NEW g \in Groups, NEW a \in Kinds, NEW j \in Instances, At(g, a, j)'
          PROVE  At(g, a, j)
      <4>1. ~Has(aborted[j], g)
        BY <1>8 DEF Has
      <4>2. ~At(g, "sent", j)'
        BY <2>5 DEF At
      <4> QED  BY <1>2, <3>1, <4>1, <4>2 DEF At, instanceVars
    <3> QED  BY <1>1, <1>2, <3>1, Places DEF groupVars
  <2>9. PolicyOK'
    <3>1. /\ policy' = policy /\ offset' = offset /\ raised' = raised
          /\ manager' \in {"migrating", "finishing"} /\ (manager' = "finishing" => manager = "reporting")
          /\ manager = "pre_reporting" => n > 0
      BY <1>2, <1>6, <1>15
    <3>2. /\ policy.preProcess => raised = {}
          /\ manager = "pre_reporting" => Lending /\ train_iter = 0
          /\ manager = "reporting" => ~Lending /\ train_iter < NMinibatches - 1
      BY <1>1, <1>2 DEF PolicyOK, Pre
    <3>3. (Lending <=> Lending') /\ ~Pre'
      BY <1>2, <3>1 DEF Lending, Pre
    <3>4. train_iter < NMinibatches - 1 => train_iter' # NMinibatches - 1
      BY <1>1, <1>15, Sizes DEF TypeOK
    <3> QED  BY <1>2, <1>15, <3>1, <3>2, <3>3, <3>4 DEF PolicyOK
  <2> QED  BY <2>6, <2>7, <2>8, <2>9 DEF IInv
<1>16. CASE manager = "pre_reporting"
  <2>1. CASE LendingDone(NewReports)
    <3>1. Migrate(LendNum) /\ train_iter' = train_iter
      BY <1>16, <2>1 DEF Decide
    <3>2. LendNum \in 0..CurrentNum /\ LendNum > 0
      <4>1. offset = 0
        BY <1>1, <1>16 DEF PolicyOK, Pre, Lending
      <4> QED  BY <1>3, <4>1, Sizes
    <3> QED  BY <1>15, <3>1, <3>2 DEF Migrate, Scatter
  <2>2. CASE ~LendingDone(NewReports)
    BY <1>14, <1>16, <2>2 DEF Decide
  <2> QED  BY <2>1, <2>2
<1>17. CASE manager = "reporting"
  <2>1. \/ Finish("Finish", CurrentNum) /\ train_iter' = train_iter
        \/ Finish("Wait_For_Finish", CurrentNum) /\ train_iter' = train_iter
        \/ \E n \in 1..(CurrentNum - 1) : Migrate(n) /\ train_iter' = train_iter
        \/ manager' = "await_actor" /\ train_iter' = train_iter + 1 /\ UNCHANGED <<requests, leaving>>
    BY <1>17 DEF Decide
  <2>2. CurrentNum \in 0..CurrentNum /\ \A n \in 1..(CurrentNum - 1) : n \in 0..CurrentNum
    BY <1>3
  <2>3. CASE \E action \in {"Finish", "Wait_For_Finish"} :
               Finish(action, CurrentNum) /\ train_iter' = train_iter
    <3>1. PICK action \in {"Finish", "Wait_For_Finish"} :
            Finish(action, CurrentNum) /\ train_iter' = train_iter
      BY <2>3
    <3> QED  BY <1>15, <1>17, <2>2, <3>1 DEF Finish, Scatter
  <2>4. CASE \E n \in 1..(CurrentNum - 1) : Migrate(n) /\ train_iter' = train_iter
    <3>1. PICK n \in 1..(CurrentNum - 1) : Migrate(n) /\ train_iter' = train_iter
      BY <2>4
    <3> QED  BY <1>15, <1>17, <2>2, <3>1 DEF Migrate, Scatter
  <2>5. CASE manager' = "await_actor" /\ train_iter' = train_iter + 1 /\ UNCHANGED <<requests, leaving>>
    BY <1>14, <1>17, <2>5
  <2> QED  BY <2>1, <2>3, <2>4, <2>5
<1> QED  BY <1>2, <1>16, <1>17

LEMMA FinishedStep ==
  ASSUME IInv, Finished
  PROVE  IInv'
<1>1. TypeOK /\ OnePlace /\ PolicyOK /\ \A j \in Instances : InstanceAt(j)
  BY DEF IInv
<1> DEFINE lent == policy.preProcess /\ offset = 0 /\ train_iter = 0
           last == train_iter = NMinibatches - 1
<1>2. /\ manager = "finishing" /\ \A j \in LeavingInstances : responses[j] # <<>>
      /\ responses' = [j \in Instances |-> IF j \in LeavingInstances THEN Tail(responses[j])
                                           ELSE responses[j]]
      /\ offset' = offset + leaving /\ leaving' = 0
      /\ UNCHANGED <<groupVars, instanceVars, requests, reports, policy>>
  BY DEF Finished, Gathered, TakeResponses
<1>3. /\ manager' = (IF last /\ ~lent THEN "idle" ELSE "await_actor")
      /\ train_iter' = (IF lent \/ last THEN train_iter ELSE train_iter + 1)
  BY DEF Finished
<1>4. lent <=> Lending
  BY <1>1, <1>2 DEF PolicyOK, Lending
<1> HIDE DEF lent
<1>5. /\ LeavingInstances \subseteq Instances /\ offset \in Nat /\ leaving \in Nat
      /\ \A j \in Instances : j \in LeavingInstances <=> IsLeaving(j)
      /\ \A j \in Instances : j < offset' <=> j < offset \/ IsLeaving(j)
      /\ \A j \in Instances : ~IsLeaving(j)'
      /\ offset + leaving <= InstanceNum /\ InstanceNum \in Nat
  <2>1. /\ offset \in Nat /\ leaving \in Nat /\ Instances = 0..(InstanceNum - 1)
        /\ offset + leaving <= InstanceNum /\ InstanceNum \in Nat
    BY <1>1, Sizes DEF TypeOK
  <2>2. \A j \in Instances : (j < offset' <=> j < offset \/ IsLeaving(j)) /\ ~IsLeaving(j)'
    BY <1>2, <2>1 DEF IsLeaving
  <2> QED  BY <1>1, <2>1, <2>2, AliveIs
<1>6. ASSUME NEW j \in Instances
      PROVE  /\ j < offset => AtRest(j)
             /\ IsLeaving(j) => Answered(j, "Offloaded") /\ rollout[j] = "out"
             /\ ~(j < offset') => Silent(j) /\ Quiet(requests[j]) /\ rollout[j] # "out"
             /\ ~Ended(j) /\ aborted[j] = <<>>
             /\ rollout[j] = "out" => Clean(j) /\ ~event[j]
  <2>1. ProtocolAt(j) /\ RolloutAt(j) /\ (aborted[j] # <<>> => IsLeaving(j))
    BY <1>1 DEF InstanceAt, GroupsAt
  <2>2. IsLeaving(j) => Len(responses[j]) # 0
    <3>1. IsLeaving(j) => responses[j] # <<>>
      BY <1>2, <1>5
    <3>2. responses[j] \in Seq(ResponseType)
      BY <1>1 DEF TypeOK
    <3> QED  BY <3>1, <3>2, EmptyIs
  <2>3. j < offset => AtRest(j)
    BY <2>1 DEF ProtocolAt, Released
  <2>4. IsLeaving(j) => ~(j < offset)
    BY <1>1, AliveIs
  <2>5. IsLeaving(j) => Answered(j, "Offloaded")
    BY <1>2, <2>1, <2>2, <2>4 DEF ProtocolAt, Released, Silent, Serving, Ended
  <2>6. ~Ended(j)
    BY <2>2 DEF Ended, Silent
  <2>7. ~(j < offset') => Silent(j) /\ Quiet(requests[j])
    BY <1>2, <1>5, <2>1 DEF ProtocolAt, Released
  <2>8. IsLeaving(j) => rollout[j] = "out"
    BY <1>2, <2>1, <2>5 DEF RolloutAt
  <2>9. ~(j < offset') => rollout[j] # "out"
    BY <1>2, <1>5, <2>1, <2>7 DEF RolloutAt, Released, Answered, Silent
  <2>10. aborted[j] = <<>> /\ (rollout[j] = "out" => Clean(j) /\ ~event[j])
    BY <2>1, <2>8 DEF RolloutAt, Clean
  <2> QED  BY <2>3, <2>5, <2>6, <2>7, <2>8, <2>9, <2>10
<1>7. \A j \in LeavingInstances :
        /\ Head(responses[j]).action = "Offloaded"
        /\ Tail(responses[j]) \in Seq(ResponseType) /\ Len(Tail(responses[j])) = 0
  <2>1. ASSUME NEW j \in LeavingInstances
        PROVE  /\ responses[j] \in Seq(ResponseType) /\ Len(responses[j]) = 1
               /\ responses[j][1].action = "Offloaded"
    <3>1. j \in Instances /\ IsLeaving(j)
      BY <1>5
    <3>2. Answered(j, "Offloaded")
      BY <1>6, <3>1
    <3> QED  BY <1>1, <3>1, <3>2 DEF TypeOK, Answered
  <2> QED  BY <2>1, OneResponse
<1>8. raised' = raised
  <2>1. Expect(LeavingInstances, TRUE, "not Offloaded")
    BY DEF Finished
  <2> QED  BY <1>7, <2>1 DEF Expect
<1>9. /\ responses' \in [Instances -> Seq(ResponseType)]
      /\ \A j \in Instances : Silent(j)'
  <2>1. ASSUME NEW j \in Instances
        PROVE  responses'[j] \in Seq(ResponseType) /\ Len(responses'[j]) = 0
    <3>1. CASE IsLeaving(j)
      BY <1>2, <1>5, <1>7, <3>1
    <3>2. CASE ~IsLeaving(j)
      <4>1. Silent(j)
        BY <1>5, <1>6, <3>2 DEF AtRest
      <4> QED  BY <1>1, <1>2, <1>5, <3>2, <4>1 DEF Silent, TypeOK
    <3> QED  BY <3>1, <3>2
  <2>2. \A j \in Instances : serving'[j] = "get"
    BY <1>2, <1>5, <1>6 DEF AtRest, Silent, Answered, instanceVars
  <2> QED  BY <1>2, <2>1, <2>2 DEF Silent
<1>10. manager' = "idle" => \A j \in Instances : j < offset'
  <2>1. SUFFICES ASSUME manager' = "idle" PROVE offset + leaving = InstanceNum
    BY <1>2, Sizes
  <2>2. last /\ ~Lending
    BY <1>3, <1>4, <2>1
  <2> QED  BY <1>1, <1>2, <2>2 DEF PolicyOK
<1>11. manager' \in {"idle", "await_actor"} /\ train_iter' \in 0..(NMinibatches - 1)
  <2>1. train_iter \in 0..(NMinibatches - 1) /\ NMinibatches \in Nat
    BY <1>1, Sizes DEF TypeOK
  <2> QED  BY <1>3, <2>1
<1> HIDE DEF last
<1>12. TypeOK'
  <2>1. offset' \in 0..InstanceNum /\ leaving' \in 0..(InstanceNum - offset') /\ ~(leaving' > 0)
    BY <1>2, <1>5
  <2> QED  BY <1>1, <1>2, <1>8, <1>9, <1>11, <2>1 DEF TypeOK, groupVars, instanceVars
<1>13. ASSUME NEW j \in Instances PROVE InstanceAt(j)'
  <2>1. Released(j)' <=> j < offset'
    BY <1>10 DEF Released
  <2>2. ProtocolAt(j)'
    <3>1. j < offset' => AtRest(j)'
      BY <1>2, <1>5, <1>6, <1>9 DEF AtRest, Clean, Silent, Answered, instanceVars
    <3>2. ~(j < offset') => Quiet(requests'[j])
      BY <1>2, <1>6
    <3>3. Silent(j)' /\ ~IsLeaving(j)' /\ manager' \in {"idle", "await_actor"}
      BY <1>5, <1>9, <1>11
    <3> QED  BY <2>1, <3>1, <3>2, <3>3 DEF ProtocolAt, Quiet
  <2>3. RolloutAt(j)'
    <3>1. RolloutAt(j)
      BY <1>1 DEF InstanceAt
    <3>2. ~Ended(j)
      BY <1>6
    <3>3. rollout[j] = "out" => Released(j)'
      BY <1>6 DEF Released
    <3>4. ~Answered(j, "Offloaded")'
      BY <1>9 DEF Silent, Answered
    <3>5. UNCHANGED <<instanceVars, raised>>
      BY <1>2, <1>8
    <3> QED  BY <3>1, <3>2, <3>3, <3>4, <3>5, RolloutStays
  <2>4. GroupsAt(j)'
    <3>1. GroupsAt(j) /\ aborted[j] = <<>>
      BY <1>1, <1>6 DEF InstanceAt
    <3>2. \A n \in 1..Len(requests'[j]) :
            requests'[j][n].action = "Migrate_In" => requests'[j][n].data # <<>>
      BY <1>2, <3>1 DEF GroupsAt
    <3>3. UNCHANGED <<groupVars, instanceVars>> /\ manager' # "migrating"
      BY <1>2, <1>11
    <3> QED  BY <3>1, <3>2, <3>3, GroupsStay
  <2>5. PolicyAt(j)'
    BY <1>1, <1>2, <1>11 DEF InstanceAt, PolicyAt, Pre, instanceVars
  <2> QED  BY <2>2, <2>3, <2>4, <2>5 DEF InstanceAt
<1>14. OnePlace'
  <2>1. ASSUME NEW g \in Groups, NEW a \in Kinds, NEW j \in Instances, At(g, a, j)'
        PROVE  At(g, a, j)
    BY <1>2, <1>11, <2>1 DEF At, instanceVars
  <2> QED  BY <1>1, <1>2, <2>1, Places DEF groupVars
<1>15. PolicyOK'
  <2>1. policy.preProcess => offset' # 0
    <3>1. policy.preProcess /\ offset = 0 => leaving > 0
      BY <1>1, <1>2 DEF PolicyOK, Lending
    <3> QED  BY <1>2, <1>5, <3>1
  <2> QED  BY <1>1, <1>2, <1>8, <1>11, <2>1 DEF PolicyOK, Pre, Lending
<1> QED  BY <1>12, <1>13, <1>14, <1>15 DEF IInv

-----------------------------------------------------------------------------
(* The groups of the leaving instances and the shares of the others.        *)

(* The share that begins after index[i] and ends with index[i + 1].         *)
Part(batches, index, i) == SubSeq(batches, index[i] + 1, index[i + 1])

Rising(f, a, b) == \A i \in a..(b - 1) : f[i] <= f[i + 1]

(* Boundaries that do not decrease from one receiver to the next do not     *)
(* decrease at all.                                                         *)
LEMMA Boundaries ==
  ASSUME NEW a \in Nat, NEW b \in Nat, NEW l \in Nat, NEW f \in [a..b -> 0..l],
         \A i \in a..(b - 1) : f[i] <= f[i + 1]
  PROVE  \A m, n \in a..b : m <= n => f[m] <= f[n]
<1> SUFFICES ASSUME NEW m \in a..b PROVE \A n \in a..b : m <= n => f[m] <= f[n]
  OBVIOUS
<1> DEFINE Bad == {n \in a..b : m <= n /\ ~(f[m] <= f[n])}
<1> SUFFICES ASSUME Bad # {} PROVE FALSE
  OBVIOUS
<1>1. Bad \in SUBSET Nat
  OBVIOUS
<1>2. PICK n \in Bad : \A k \in Bad : n <= k
  <2> HIDE DEF Bad
  <2> QED  BY ONLY <1>1, Bad # {}, LeastNat
<1>3. n \in a..b /\ m <= n /\ ~(f[m] <= f[n]) /\ n # m /\ f[m] \in Nat
  BY <1>2
<1>4. PICK k \in Nat : k = n - 1
  BY <1>3
<1>5. k \in a..(b - 1) /\ k + 1 = n /\ k \in a..b /\ m <= k /\ ~(n <= k)
  BY <1>3, <1>4
<1>6. f[k] <= f[n]
  BY <1>5
<1>7. k \notin Bad
  <2> HIDE DEF Bad
  <2> QED  BY <1>2, <1>5
<1>8. f[m] <= f[k]
  BY <1>5, <1>7
<1>9. f[m] \in Nat /\ f[k] \in Nat /\ f[n] \in Nat
  BY <1>3, <1>5
<1> QED  BY ONLY <1>3, <1>6, <1>8, <1>9

(* Each element is in one share only.                                       *)
LEMMA PartIs ==
  ASSUME NEW S, NEW q \in Seq(S), NEW a \in Nat, NEW b \in Nat,
         NEW f \in [a..b -> 0..Len(q)], Rising(f, a, b)
  PROVE  /\ \A i \in a..(b - 1) : /\ Part(q, f, i) \in Seq(S)
                                  /\ \A y : Has(Part(q, f, i), y) => Has(q, y)
         /\ NoRepeat(q) =>
              \A i, j \in a..(b - 1) : \A y :
                Has(Part(q, f, i), y) /\ Has(Part(q, f, j), y) => i = j
<1>1. \A m, n \in a..b : m <= n => f[m] <= f[n]
  <2>1. PICK l \in Nat : l = Len(q)
    OBVIOUS
  <2>2. f \in [a..b -> 0..l]
    BY <2>1
  <2> QED  BY <2>2, Boundaries DEF Rising
<1>2. ASSUME NEW i \in a..(b - 1)
      PROVE  /\ i \in a..b /\ i + 1 \in a..b /\ f[i] \in 0..Len(q) /\ f[i + 1] \in 0..Len(q)
             /\ Part(q, f, i) \in Seq(S)
             /\ \A y : Has(Part(q, f, i), y) =>
                  \E k \in DOMAIN q : f[i] < k /\ k <= f[i + 1] /\ q[k] = y
  <2>1. i \in a..b /\ i + 1 \in a..b /\ f[i] \in 0..Len(q) /\ f[i + 1] \in 0..Len(q)
    OBVIOUS
  <2>2. PICK m \in Nat, n \in Nat : m = f[i] /\ n = f[i + 1]
    BY <2>1
  <2>3. m <= Len(q) /\ n <= Len(q) /\ Len(q) \in Nat /\ DOMAIN q = 1..Len(q)
    BY <2>1, <2>2
  <2>4. Part(q, f, i) = SubSeq(q, m + 1, n)
    BY <2>2 DEF Part
  <2> DEFINE r == SubSeq(q, m + 1, n)
  <2>5. /\ r \in Seq(S) /\ Len(r) = (IF m + 1 <= n THEN n - m ELSE 0)
        /\ \A k \in 1..Len(r) : r[k] = q[m + k]
    <3>1. PICK l \in Nat : l = m + 1
      OBVIOUS
    <3>2. \A k \in l..n : q[k] \in S
      BY <2>3, <3>1
    <3> DEFINE t == SubSeq(q, l, n)
    <3>3. /\ t \in Seq(S) /\ Len(t) = (IF l <= n THEN n - l + 1 ELSE 0)
          /\ \A k \in 1..Len(t) : t[k] = q[l + k - 1]
      BY <3>1, <3>2
    <3>4. \A k \in 1..Len(t) : l + k - 1 = m + k
      BY <3>1, <3>3
    <3> HIDE DEF t
    <3>5. r = t
      BY <3>1 DEF t
    <3> HIDE DEF r
    <3> QED  BY <3>1, <3>3, <3>4, <3>5
  <2> HIDE DEF r
  <2>6. ASSUME NEW y, Has(r, y) PROVE \E k \in DOMAIN q : m < k /\ k <= n /\ q[k] = y
    <3>1. PICK k \in DOMAIN r : r[k] = y
      BY <2>6 DEF Has
    <3>2. k \in 1..Len(r)
      BY <2>5, <3>1
    <3>3. m + k \in DOMAIN q /\ m < m + k /\ m + k <= n /\ q[m + k] = y
      BY <2>3, <2>5, <3>1, <3>2
    <3> QED  BY <3>3
  <2> QED  BY <2>1, <2>2, <2>4, <2>5, <2>6 DEF r
<1>3. ASSUME NEW i \in a..(b - 1), NEW y, Has(Part(q, f, i), y) PROVE Has(q, y)
  BY <1>2, <1>3 DEF Has
<1>4. ASSUME NoRepeat(q), NEW i \in a..(b - 1), NEW j \in a..(b - 1), NEW y,
             Has(Part(q, f, i), y), Has(Part(q, f, j), y)
      PROVE  i = j
  <2>1. PICK k \in DOMAIN q : f[i] < k /\ k <= f[i + 1] /\ q[k] = y
    BY <1>2, <1>4
  <2>2. PICK m \in DOMAIN q : f[j] < m /\ m <= f[j + 1] /\ q[m] = y
    BY <1>2, <1>4
  <2>3. k = m /\ k \in Nat
    BY <1>4, <2>1, <2>2 DEF NoRepeat
  <2>4. i + 1 <= j => f[i + 1] <= f[j]
    BY <1>1, <1>2
  <2>5. j + 1 <= i => f[j + 1] <= f[i]
    BY <1>1, <1>2
  <2>6. /\ f[i] \in Nat /\ f[j] \in Nat /\ f[i + 1] \in Nat /\ f[j + 1] \in Nat
        /\ i \in Int /\ j \in Int
    BY <1>2
  <2>7. ~(i + 1 <= j) /\ ~(j + 1 <= i)
    BY ONLY <2>1, <2>2, <2>3, <2>4, <2>5, <2>6
  <2> QED  BY ONLY <2>6, <2>7
<1> QED  BY <1>2, <1>3, <1>4

(* What the leaving instances have answered and how it is shared out.       *)
Gathering == FlattenSeq([k \in 1..leaving |-> Head(responses[offset + k - 1]).data])
Receivers(batches, index) ==
  {i \in Alive \ LeavingInstances : Part(batches, index, i) # <<>>}

LEMMA SharedOut ==
  ASSUME NEW index, NEW first, NEW batches, AssignSequences(index, first, batches)
  PROVE  /\ index[InstanceNum] = Len(batches)
         /\ \A i \in first..(InstanceNum - 2) : index[i] <= index[i + 1]
  BY DEF AssignSequences

LEMMA MigrateInIs ==
  ASSUME MigrateIn
  PROVE  \E index \in [(offset + leaving)..InstanceNum -> 0..Len(Gathering)] :
           /\ AssignSequences(index, offset + leaving, Gathering)
           /\ requests' = [i \in Instances |->
                IF i \in Receivers(Gathering, index) \cup LeavingInstances
                THEN Append(requests[i],
                            IF i \in Receivers(Gathering, index)
                            THEN Request("Migrate_In", Part(Gathering, index, i))
                            ELSE Request("Finish", <<>>))
                ELSE requests[i]]
  BY DEF MigrateIn, Scatter, Gathering, Receivers, Part

(* While groups are fetched, every instance still in use has answered or    *)
(* has nothing to answer.                                                   *)
LEMMA AllFetched ==
  ASSUME IInv, MigrateIn
  PROVE  /\ \A j \in Instances :
              /\ Len(requests[j]) = 0 /\ serving[j] = "get" /\ ~Ended(j)
              /\ j < offset => AtRest(j)
              /\ IsLeaving(j) => Answered(j, "Default") /\ responses[j][1].data = aborted[j]
              /\ ~IsLeaving(j) => Silent(j) /\ aborted[j] = <<>>
              /\ rollout[j] = "out" => j < offset
<1>1. TypeOK /\ \A j \in Instances : InstanceAt(j)
  BY DEF IInv
<1>2. manager = "migrating" /\ \A j \in LeavingInstances : responses[j] # <<>>
  BY DEF MigrateIn, Gathered
<1>3. ASSUME NEW j \in Instances
      PROVE  /\ Len(requests[j]) = 0 /\ serving[j] = "get" /\ ~Ended(j)
             /\ j < offset => AtRest(j)
             /\ IsLeaving(j) => Answered(j, "Default") /\ responses[j][1].data = aborted[j]
             /\ ~IsLeaving(j) => Silent(j) /\ aborted[j] = <<>>
             /\ rollout[j] = "out" => j < offset
  <2>1. ProtocolAt(j) /\ RolloutAt(j) /\ GroupsAt(j)
    BY <1>1 DEF InstanceAt
  <2>2. IsLeaving(j) => Len(responses[j]) # 0
    <3>1. IsLeaving(j) => responses[j] # <<>>
      BY <1>1, <1>2, AliveIs
    <3>2. responses[j] \in Seq(ResponseType)
      BY <1>1 DEF TypeOK
    <3> QED  BY <3>1, <3>2, EmptyIs
  <2>3. (j < offset => AtRest(j)) /\ (Released(j) <=> j < offset)
    BY <1>2, <2>1 DEF ProtocolAt, Released
  <2>4. IsLeaving(j) => ~(j < offset)
    BY <1>1, AliveIs
  <2>5. IsLeaving(j) => Answered(j, "Default")
    BY <1>2, <2>1, <2>2, <2>3, <2>4 DEF ProtocolAt, Silent, Serving
  <2>6. ~IsLeaving(j) => Silent(j) /\ Len(requests[j]) = 0
    BY <1>2, <2>1, <2>3 DEF ProtocolAt, AtRest
  <2>7. ~IsLeaving(j) => aborted[j] = <<>>
    BY <2>1 DEF GroupsAt
  <2>8. IsLeaving(j) => responses[j][1].data = aborted[j]
    BY <1>2, <2>1, <2>5 DEF GroupsAt
  <2>9. rollout[j] = "out" => j < offset
    BY <2>1, <2>3, <2>5, <2>6 DEF RolloutAt, Answered, Silent
  <2>10. ~Ended(j)
    BY <1>2 DEF Ended
  <2> QED  BY <2>3, <2>5, <2>6, <2>7, <2>8, <2>9, <2>10 DEF Answered, Silent
<1> QED  BY <1>3

(* What is gathered are the aborted groups, each once.                      *)
LEMMA GatheringIs ==
  ASSUME IInv, MigrateIn
  PROVE  /\ Gathering \in Seq(Groups) /\ NoRepeat(Gathering)
         /\ \A g : Has(Gathering, g) =>
              g \in Groups /\ \E j \in Instances : At(g, "aborted", j)
<1>1. TypeOK /\ OnePlace /\ \A j \in Instances : InstanceAt(j)
  BY DEF IInv
<1>2. manager = "migrating"
  BY DEF MigrateIn
<1> DEFINE seqs == [k \in 1..leaving |-> Head(responses[offset + k - 1]).data]
<1>3. ASSUME NEW k \in 1..leaving
      PROVE  \E j \in Instances : offset + k - 1 = j /\ seqs[k] = aborted[j]
  <2>1. PICK j \in Instances : j = offset + k - 1 /\ IsLeaving(j)
    <3>1. /\ offset \in Nat /\ leaving \in Nat /\ k \in Nat /\ 1 <= k /\ k <= leaving
          /\ offset + leaving <= InstanceNum /\ InstanceNum \in Nat
          /\ Instances = 0..(InstanceNum - 1)
      BY <1>1, Sizes DEF TypeOK
    <3>2. offset + k - 1 \in Instances /\ IsLeaving(offset + k - 1)
      BY <3>1 DEF IsLeaving
    <3> QED  BY <3>2
  <2>2. Answered(j, "Default") /\ responses[j][1].data = aborted[j]
    BY <2>1, AllFetched
  <2>3. Head(responses[j]) = responses[j][1]
    <3>1. responses[j] \in Seq(ResponseType) /\ Len(responses[j]) = 1
      BY <1>1, <2>2 DEF TypeOK, Answered
    <3> QED  BY <3>1, OneResponse
  <2>4. seqs[k] = Head(responses[j]).data
    BY <2>1
  <2> QED  BY <2>1, <2>2, <2>3, <2>4
<1>4. leaving \in Nat /\ seqs = [k \in 1..leaving |-> seqs[k]]
  BY <1>1, AliveIs
<1>5. Gathering = FlattenSeq(seqs)
  BY DEF Gathering
<1> HIDE DEF seqs
<1>6. \A j \in Instances : aborted[j] \in Seq(Groups) /\ NoRepeat(aborted[j])
  BY <1>1 DEF TypeOK, InstanceAt, GroupsAt
<1>7. seqs \in Seq(Seq(Groups)) /\ Len(seqs) = leaving
  <2>1. \A k \in 1..leaving : seqs[k] \in Seq(Groups)
    BY <1>3, <1>6
  <2> QED  BY <1>4, <2>1
<1>8. ASSUME NEW k \in 1..Len(seqs), NEW y, Has(seqs[k], y)
      PROVE  y \in Groups /\ \E j \in Instances : offset + k - 1 = j /\ At(y, "aborted", j)
  <2>1. PICK j \in Instances : offset + k - 1 = j /\ seqs[k] = aborted[j]
    BY <1>3, <1>7
  <2>2. At(y, "aborted", j)
    BY <1>2, <1>8, <2>1 DEF At
  <2>3. y \in Groups
    BY <1>6, <1>8, <2>1 DEF Has
  <2> QED  BY <2>1, <2>2, <2>3
<1>9. \A k \in 1..Len(seqs) : NoRepeat(seqs[k])
  BY <1>3, <1>6, <1>7
<1>10. ASSUME NEW k \in 1..Len(seqs), NEW m \in 1..Len(seqs), NEW y, Has(seqs[k], y), Has(seqs[m], y)
       PROVE  k = m
  <2>1. PICK i \in Instances : offset + k - 1 = i /\ At(y, "aborted", i)
    BY <1>8, <1>10
  <2>2. PICK j \in Instances : offset + m - 1 = j /\ At(y, "aborted", j)
    BY <1>8, <1>10
  <2>3. y \in Groups /\ "aborted" \in Kinds
    BY <1>8, <1>10 DEF Kinds
  <2>4. i = j
    BY <1>1, <2>1, <2>2, <2>3 DEF OnePlace
  <2>5. offset \in Nat /\ k \in Nat /\ m \in Nat
    BY <1>1, AliveIs
  <2> QED  BY ONLY <2>1, <2>2, <2>4, <2>5
<1> DEFINE all == FlattenSeq(seqs)
<1>11. /\ all \in Seq(Groups)
       /\ \A y : Has(all, y) <=> \E k \in 1..Len(seqs) : Has(seqs[k], y)
       /\ NoRepeat(all)
  BY <1>7, <1>9, <1>10, FlattenIs
<1> HIDE DEF all
<1>12. ASSUME NEW g, Has(all, g) PROVE g \in Groups /\ \E j \in Instances : At(g, "aborted", j)
  <2>1. PICK k \in 1..Len(seqs) : Has(seqs[k], g)
    BY <1>11, <1>12
  <2> QED  BY <1>8, <2>1
<1> QED  BY <1>5, <1>11, <1>12 DEF all

LEMMA MigrateInStep ==
  ASSUME IInv, MigrateIn
  PROVE  IInv'
<1>1. TypeOK /\ OnePlace /\ PolicyOK /\ \A j \in Instances : InstanceAt(j)
  BY DEF IInv
<1>2. /\ manager = "migrating" /\ manager' = "finishing"
      /\ responses' = [j \in Instances |-> IF j \in LeavingInstances THEN Tail(responses[j])
                                           ELSE responses[j]]
      /\ reports' = [j \in Instances |-> NoReport]
      /\ UNCHANGED <<groupVars, instanceVars, train_iter, offset, leaving, policy>>
  BY DEF MigrateIn, TakeResponses
<1>3. /\ LeavingInstances \subseteq Instances /\ offset \in Nat /\ leaving \in Nat
      /\ \A j \in Instances : j \in LeavingInstances <=> IsLeaving(j)
      /\ \A j \in Instances : j \in Alive <=> ~(j < offset)
      /\ \A j \in Instances : IsLeaving(j) => ~(j < offset)
      /\ \A j \in Instances : IsLeaving(j)' <=> IsLeaving(j)
  <2>1. \A j \in Instances : IsLeaving(j)' <=> IsLeaving(j)
    BY <1>2 DEF IsLeaving
  <2> QED  BY <1>1, <2>1, AliveIs
<1>4. \A j \in Instances :
        /\ Len(requests[j]) = 0 /\ serving[j] = "get" /\ ~Ended(j)
        /\ j < offset => AtRest(j)
        /\ IsLeaving(j) => Answered(j, "Default") /\ responses[j][1].data = aborted[j]
        /\ ~IsLeaving(j) => Silent(j) /\ aborted[j] = <<>>
        /\ rollout[j] = "out" => j < offset
  BY AllFetched
<1>5. \A j \in LeavingInstances :
        /\ Head(responses[j]).action = "Default"
        /\ Tail(responses[j]) \in Seq(ResponseType) /\ Len(Tail(responses[j])) = 0
  <2>1. ASSUME NEW j \in LeavingInstances
        PROVE  /\ responses[j] \in Seq(ResponseType) /\ Len(responses[j]) = 1
               /\ responses[j][1].action = "Default"
    <3>1. j \in Instances /\ IsLeaving(j)
      BY <1>3
    <3>2. Answered(j, "Default")
      BY <1>4, <3>1
    <3> QED  BY <1>1, <3>1, <3>2 DEF TypeOK, Answered
  <2> QED  BY <2>1, OneResponse
<1>6. raised' = raised
  <2>1. Expect(LeavingInstances, FALSE, "no data")
    BY DEF MigrateIn
  <2>2. \A j \in LeavingInstances : Head(responses[j]).action # "Offloaded"
    BY <1>5
  <2> QED  BY <2>1, <2>2 DEF Expect
<1>7. /\ responses' \in [Instances -> Seq(ResponseType)]
      /\ \A j \in Instances : Silent(j)' /\ ~Answered(j, "Offloaded")' /\ ~Answered(j, "Default")'
  <2>1. ASSUME NEW j \in Instances
        PROVE  responses'[j] \in Seq(ResponseType) /\ Len(responses'[j]) = 0
    <3>1. CASE IsLeaving(j)
      BY <1>2, <1>3, <1>5, <3>1
    <3>2. CASE ~IsLeaving(j)
      BY <1>1, <1>2, <1>3, <1>4, <3>2 DEF Silent, TypeOK
    <3> QED  BY <3>1, <3>2
  <2>2. \A j \in Instances : serving'[j] = "get"
    BY <1>2, <1>4 DEF instanceVars
  <2> QED  BY <1>2, <2>1, <2>2 DEF Silent, Answered
<1> DEFINE first == offset + leaving
           batches == Gathering
<1>8. PICK index \in [first..InstanceNum -> 0..Len(batches)] :
        /\ AssignSequences(index, first, batches)
        /\ requests' = [i \in Instances |->
             IF i \in Receivers(batches, index) \cup LeavingInstances
             THEN Append(requests[i],
                         IF i \in Receivers(batches, index)
                         THEN Request("Migrate_In", Part(batches, index, i))
                         ELSE Request("Finish", <<>>))
             ELSE requests[i]]
  BY MigrateInIs
<1>9. /\ batches \in Seq(Groups) /\ NoRepeat(batches)
      /\ \A g : Has(batches, g) => g \in Groups /\ \E j \in Instances : At(g, "aborted", j)
  BY GatheringIs
<1> HIDE DEF batches
<1>10. /\ first \in Nat /\ InstanceNum \in Nat /\ first <= InstanceNum
       /\ \A j \in Instances : j \in Alive \ LeavingInstances <=> j \in first..(InstanceNum - 1)
       /\ Alive \subseteq Instances
  <2>1. /\ leaving \in 0..(InstanceNum - offset) /\ offset \in 0..InstanceNum
        /\ InstanceNum \in Nat /\ Instances = 0..(InstanceNum - 1)
    BY <1>1, Sizes DEF TypeOK
  <2>2. Alive = offset..(InstanceNum - 1) /\ LeavingInstances = offset..(offset + leaving - 1)
    BY DEF Alive, LeavingInstances
  <2> QED  BY <1>3, <2>1, <2>2
<1> HIDE DEF first
<1>11. \A i \in first..(InstanceNum - 1) : index[i] <= index[i + 1]
  <2>1. /\ index[InstanceNum] = Len(batches)
        /\ \A i \in first..(InstanceNum - 2) : index[i] <= index[i + 1]
    BY <1>8, SharedOut
  <2>2. ASSUME NEW i \in first..(InstanceNum - 1) PROVE index[i] <= index[i + 1]
    <3>1. i \in first..(InstanceNum - 2) \/ i + 1 = InstanceNum
      BY <1>10
    <3>2. i \in first..InstanceNum /\ index[i] \in 0..Len(batches)
      BY <1>10
    <3>3. i + 1 = InstanceNum => index[i] <= index[i + 1]
      BY <1>9, <2>1, <3>2
    <3> QED  BY <2>1, <3>1, <3>3
  <2> QED  BY <2>2
<1> DEFINE into == Receivers(batches, index)
<1>12. /\ into \subseteq Instances
       /\ \A j \in into : /\ ~(j < offset) /\ ~IsLeaving(j) /\ j \in first..(InstanceNum - 1)
                          /\ Part(batches, index, j) # <<>>
                          /\ Part(batches, index, j) \in Seq(Groups)
                          /\ \A y : Has(Part(batches, index, j), y) => Has(batches, y)
       /\ \A i, j \in into : \A y :
            Has(Part(batches, index, i), y) /\ Has(Part(batches, index, j), y) => i = j
  <2>1. into \subseteq Alive \ LeavingInstances /\ \A j \in into : Part(batches, index, j) # <<>>
    BY DEF Receivers
  <2>2. /\ \A i \in first..(InstanceNum - 1) :
             /\ Part(batches, index, i) \in Seq(Groups)
             /\ \A y : Has(Part(batches, index, i), y) => Has(batches, y)
        /\ \A i, j \in first..(InstanceNum - 1) : \A y :
             Has(Part(batches, index, i), y) /\ Has(Part(batches, index, j), y) => i = j
    <3>1. PICK q \in Seq(Groups) : q = batches
      BY <1>9
    <3>2. PICK a \in Nat, b \in Nat : a = first /\ b = InstanceNum
      BY <1>10
    <3>3. /\ q \in Seq(Groups) /\ a \in Nat /\ b \in Nat /\ index \in [a..b -> 0..Len(q)]
          /\ Rising(index, a, b)
      BY <1>11, <3>1, <3>2 DEF Rising
    <3>4. NoRepeat(q)
      BY <1>9, <3>1
    <3>5. /\ \A i \in a..(b - 1) : /\ Part(q, index, i) \in Seq(Groups)
                                   /\ \A y : Has(Part(q, index, i), y) => Has(q, y)
          /\ \A i, j \in a..(b - 1) : \A y :
               Has(Part(q, index, i), y) /\ Has(Part(q, index, j), y) => i = j
      BY ONLY <3>3, <3>4, PartIs
    <3> QED  BY <3>1, <3>2, <3>5
  <2> HIDE DEF into
  <2>3. \A j \in into : /\ j \in Instances /\ j \in first..(InstanceNum - 1)
                        /\ ~(j < offset) /\ ~IsLeaving(j)
    BY <1>3, <1>10, <2>1
  <2> QED  BY <2>1, <2>2, <2>3
<1> HIDE DEF into
<1>13. ASSUME NEW j \in Instances
       PROVE  /\ requests'[j] \in Seq(RequestType)
              /\ j \in into => /\ Len(requests'[j]) = 1 /\ requests'[j][1].action = "Migrate_In"
                               /\ requests'[j][1].data = Part(batches, index, j)
              /\ IsLeaving(j) => Len(requests'[j]) = 1 /\ requests'[j][1].action = "Finish"
              /\ j \notin into /\ ~IsLeaving(j) => requests'[j] = requests[j] /\ Len(requests'[j]) = 0
  <2>1. requests[j] \in Seq(RequestType) /\ Len(requests[j]) = 0
    BY <1>1, <1>4 DEF TypeOK
  <2>2. CASE j \in into
    <3> DEFINE r == Request("Migrate_In", Part(batches, index, j))
    <3>1. requests'[j] = Append(requests[j], r)
      BY <1>8, <2>2 DEF into
    <3>2. r \in RequestType
      BY <1>12, <2>2 DEF Request, RequestType, Actions
    <3> HIDE DEF r
    <3>3. Append(requests[j], r) \in Seq(RequestType) /\ Len(Append(requests[j], r)) = 1
          /\ Append(requests[j], r)[1] = r
      BY <2>1, <3>2, OneRequest
    <3>4. r.action = "Migrate_In" /\ r.data = Part(batches, index, j)
      BY DEF r, Request
    <3> QED  BY <1>12, <2>2, <3>1, <3>3, <3>4
  <2>3. CASE IsLeaving(j)
    <3> DEFINE r == Request("Finish", <<>>)
    <3>1. j \notin into /\ j \in LeavingInstances
      BY <1>3, <1>12, <2>3
    <3>2. requests'[j] = Append(requests[j], r)
      BY <1>8, <3>1 DEF into
    <3>3. r \in RequestType
      <4>1. <<>> \in Seq(Groups)
        OBVIOUS
      <4> QED  BY <4>1 DEF Request, RequestType, Actions
    <3> HIDE DEF r
    <3>4. Append(requests[j], r) \in Seq(RequestType) /\ Len(Append(requests[j], r)) = 1
          /\ Append(requests[j], r)[1] = r
      BY <2>1, <3>3, OneRequest
    <3>5. r.action = "Finish"
      BY DEF r, Request
    <3> QED  BY <2>3, <3>1, <3>2, <3>4, <3>5
  <2>4. CASE j \notin into /\ ~IsLeaving(j)
    <3>1. j \notin LeavingInstances
      BY <1>3, <2>4
    <3>2. requests'[j] = requests[j]
      BY <1>8, <2>4, <3>1 DEF into
    <3> QED  BY <2>1, <2>4, <3>2
  <2> QED  BY <2>2, <2>3, <2>4
<1>14. TypeOK'
  <2>1. requests' \in [Instances -> Seq(RequestType)]
    <3>1. DOMAIN requests' = Instances /\ requests' = [j \in Instances |-> requests'[j]]
      BY <1>8
    <3> QED  BY <1>13, <3>1
  <2>2. reports' \in [Instances -> ReportType]
    BY <1>2 DEF NoReport, ReportType
  <2> QED  BY <1>1, <1>2, <1>6, <1>7, <2>1, <2>2 DEF TypeOK, groupVars, instanceVars
<1>15. ASSUME NEW j \in Instances PROVE InstanceAt(j)'
  <2>1. /\ Released(j)' <=> j < offset
        /\ Released(j) <=> j < offset
    BY <1>2 DEF Released
  <2>2. ProtocolAt(j)'
    <3>1. j < offset => AtRest(j)'
      <4>1. j < offset => requests'[j] = requests[j]
        BY <1>3, <1>12, <1>13
      <4> QED  BY <1>2, <1>4, <1>7, <4>1 DEF AtRest, Clean, instanceVars
    <3>2. IsLeaving(j) => Told(requests'[j], {"Finish", "Wait_For_Finish"})
      BY <1>13 DEF Told
    <3>3. ~IsLeaving(j) => Len(requests'[j]) = 0
                           \/ (Len(requests'[j]) = 1 /\ requests'[j][1].action = "Migrate_In")
      BY <1>13
    <3>4. Silent(j)' /\ (IsLeaving(j)' <=> IsLeaving(j)) /\ manager' = "finishing"
      BY <1>2, <1>3, <1>7
    <3> QED  BY <2>1, <3>1, <3>2, <3>3, <3>4 DEF ProtocolAt, Quiet, Told
  <2>3. RolloutAt(j)'
    <3>1. RolloutAt(j)
      BY <1>1 DEF InstanceAt
    <3>2. ~Ended(j)
      BY <1>4
    <3>3. rollout[j] = "out" => Released(j)'
      BY <1>4, <2>1
    <3>4. ~Answered(j, "Offloaded")'
      BY <1>7
    <3>5. UNCHANGED <<instanceVars, raised>>
      BY <1>2, <1>6
    <3> QED  BY <3>1, <3>2, <3>3, <3>4, <3>5, RolloutStays
  <2>4. GroupsAt(j)'
    <3>1. GroupsAt(j)
      BY <1>1 DEF InstanceAt
    <3>2. \A n \in 1..Len(requests'[j]) :
            requests'[j][n].action = "Migrate_In" => requests'[j][n].data # <<>>
      BY <1>12, <1>13
    <3>3. aborted[j] # <<>> => IsLeaving(j)'
      BY <1>3, <1>4
    <3>4. ~Answered(j, "Default")'
      BY <1>7
    <3>5. UNCHANGED <<groupVars, instanceVars>>
      BY <1>2
    <3> QED  BY <3>1, <3>2, <3>3, <3>4, <3>5, GroupsStay
  <2>5. PolicyAt(j)'
    BY <1>1, <1>2 DEF InstanceAt, PolicyAt, Pre, instanceVars
  <2> QED  BY <2>2, <2>3, <2>4, <2>5 DEF InstanceAt
<1>16. OnePlace'
  <2>1. ASSUME NEW g \in Groups, NEW a \in Kinds, NEW j \in Instances, At(g, a, j)'
        PROVE  (a # "sent" /\ At(g, a, j))
               \/ (a = "sent" /\ j \in into /\ Has(Part(batches, index, j), g))
    <3>1. CASE a = "sent"
      <4>1. PICK n \in 1..Len(requests'[j]) :
              requests'[j][n].action = "Migrate_In" /\ Has(requests'[j][n].data, g)
        BY <2>1, <3>1 DEF At
      <4>2. j \in into
        BY <1>13, <4>1
      <4>3. n = 1
        BY <1>13, <4>1, <4>2
      <4> QED  BY <1>13, <3>1, <4>1, <4>2, <4>3
    <3>2. CASE a # "sent"
      BY <1>2, <2>1, <3>2 DEF At, instanceVars
    <3> QED  BY <3>1, <3>2
  <2>2. ASSUME NEW g \in Groups, NEW k \in into, Has(Part(batches, index, k), g)
        PROVE  /\ ~Has(output, g)
               /\ \A a \in Kinds, j \in Instances : At(g, a, j)' => a = "sent" /\ j = k
    <3>1. PICK l \in Instances : At(g, "aborted", l)
      BY <1>9, <1>12, <2>2
    <3>2. ~Has(output, g) /\ \A a \in Kinds, j \in Instances : At(g, a, j) => a = "aborted"
      BY <1>1, <3>1 DEF OnePlace, Kinds
    <3>3. \A j \in Instances : ~At(g, "aborted", j)'
      BY <1>2 DEF At
    <3> QED  BY <1>12, <2>1, <2>2, <3>2, <3>3
  <2>3. \A k \in into : k \in Instances
    BY <1>12
  <2>4. "sent" \in Kinds
    BY DEF Kinds
  <2>5. output' = output
    BY <1>2 DEF groupVars
  <2> QED  BY <1>1, <2>1, <2>2, <2>3, <2>4, <2>5, Places
<1>17. PolicyOK'
  <2>1. ~Pre /\ ~Pre' /\ (Lending <=> Lending')
    BY <1>2 DEF Pre, Lending
  <2>2. Lending => train_iter = 0 /\ leaving > 0
    BY <1>1, <1>2 DEF PolicyOK
  <2>3. ~Lending => train_iter # NMinibatches - 1
    <3>1. ~Lending => train_iter < NMinibatches - 1
      BY <1>1, <1>2 DEF PolicyOK
    <3>2. train_iter \in Nat /\ NMinibatches \in Nat
      BY <1>1, Sizes DEF TypeOK
    <3> QED  BY ONLY <3>1, <3>2
  <2>4. policy.preProcess => raised = {}
    BY <1>1 DEF PolicyOK
  <2> QED  BY <1>2, <1>6, <2>1, <2>2, <2>3, <2>4 DEF PolicyOK
<1> QED  BY <1>14, <1>15, <1>16, <1>17 DEF IInv

-----------------------------------------------------------------------------
(* The invariant and what follows from it.                                  *)

LEMMA Stuttering ==
  ASSUME IInv, UNCHANGED vars
  PROVE  IInv'
<1>1. TypeOK /\ OnePlace /\ PolicyOK /\ \A j \in Instances : InstanceAt(j)
  BY DEF IInv
<1>2. UNCHANGED <<groupVars, instanceVars, channelVars, managerVars, raised>>
  BY DEF vars
<1>3. TypeOK'
  BY <1>1, <1>2 DEF TypeOK, groupVars, instanceVars, channelVars, managerVars
<1>4. ASSUME NEW j \in Instances PROVE InstanceAt(j)'
  <2>1. ProtocolAt(j)'
    BY <1>1, <1>2 DEF InstanceAt, ProtocolAt, Released, IsLeaving, AtRest, Clean, Silent, Serving,
         Answered, Ended, instanceVars, channelVars, managerVars
  <2>2. RolloutAt(j)'
    BY <1>1, <1>2 DEF InstanceAt, RolloutAt, Released, IsLeaving, Clean, Silent, Answered, Ended,
         instanceVars, channelVars, managerVars
  <2>3. GroupsAt(j)'
    BY <1>1, <1>2 DEF InstanceAt, GroupsAt, RunningSeqs, IsLeaving, Answered, groupVars, instanceVars,
         channelVars, managerVars
  <2>4. PolicyAt(j)'
    BY <1>1, <1>2 DEF InstanceAt, PolicyAt, Pre, instanceVars, channelVars, managerVars
  <2> QED  BY <2>1, <2>2, <2>3, <2>4 DEF InstanceAt
<1>5. OnePlace'
  <2>1. \A g \in Groups, a \in Kinds, j \in Instances : At(g, a, j)' => At(g, a, j)
    BY <1>2 DEF At, instanceVars, channelVars, managerVars
  <2> QED  BY <1>1, <1>2, <2>1, Places DEF groupVars
<1>6. PolicyOK'
  BY <1>1, <1>2 DEF PolicyOK, Pre, Lending, groupVars, managerVars
<1> QED  BY <1>3, <1>4, <1>5, <1>6 DEF IInv

LEMMA NextStep ==
  ASSUME IInv, [Next]_vars
  PROVE  IInv'
<1>1. CASE StartStep
  BY <1>1, StartStepStep
<1>2. CASE SendReport
  BY <1>2, SendReportStep
<1>3. CASE SkipRound
  BY <1>3, SkipRoundStep
<1>4. CASE Decide
  BY <1>4, DecideStep
<1>5. CASE MigrateIn
  BY <1>5, MigrateInStep
<1>6. CASE Finished
  BY <1>6, FinishedStep
<1>7. CASE Finalize
  BY <1>7, FinalizeStep
<1>8. ASSUME NEW i \in Instances, Begin(i) \/ RolloutNext(i) \/ MainLoop(i) \/ Engine(i)
      PROVE  IInv'
  <2>1. CASE Begin(i)
    BY <2>1, BeginStep
  <2>2. CASE TasksReturn(i)
    BY <2>2, TasksReturnStep
  <2>3. CASE Notified(i)
    BY <2>3, NotifiedStep
  <2>4. CASE ReportOffloaded(i)
    BY <2>4, ReportOffloadedStep
  <2>5. ASSUME NEW g \in Groups, HandleReturned(i, g) PROVE IInv'
    BY <2>5, HandleReturnedStep
  <2>6. CASE Report(i)
    BY <2>6, ReportStep
  <2>7. CASE MigrateOut(i)
    BY <2>7, MigrateOutStep
  <2>8. CASE ReceiveGroups(i)
    BY <2>8, ReceiveGroupsStep
  <2>9. CASE WaitForFinish(i)
    BY <2>9, WaitForFinishStep
  <2>10. CASE EndWait(i)
    BY <2>10, EndWaitStep
  <2>11. ASSUME NEW g \in Groups, Generate(i, g) PROVE IInv'
    BY <2>11, GenerateStep
  <2> QED  BY <1>8, <2>1, <2>2, <2>3, <2>4, <2>5, <2>6, <2>7, <2>8, <2>9, <2>10, <2>11
           DEF RolloutNext, MainLoop, Engine
<1>9. CASE UNCHANGED vars
  BY <1>9, Stuttering
<1> QED  BY <1>1, <1>2, <1>3, <1>4, <1>5, <1>6, <1>7, <1>8, <1>9 DEF Next, ManagerNext

(* Between the manager and each instance there is at most one exchange, an  *)
(* instance that is released is at rest, and every group is in one place.   *)
THEOREM Invariance == Spec => []IInv
<1>1. Init => IInv
  BY InitIs
<1>2. IInv /\ [Next]_vars => IInv'
  BY NextStep
<1> QED  BY <1>1, <1>2, PTL DEF Spec

(* None of the manager's assertions about the answers it gathers fails, and *)
(* the assertion of rollout() that nothing is left from before only when    *)
(* the pre-process policy does not wait for every instance to begin.        *)
THEOREM AssertionsHoldAlways == Spec => []AssertionsHold
<1>1. IInv => AssertionsHold
  BY DEF IInv, TypeOK, PolicyOK, AssertionsHold
<1> QED  BY <1>1, Invariance, PTL

(* An instance that the manager has counted as released holds no group, has *)
(* offloaded its engine and has no request to serve.                        *)
THEOREM ReleasedIsIdleAlways == Spec => []ReleasedIsIdle
<1>1. IInv => ReleasedIsIdle
  <2> SUFFICES ASSUME IInv, NEW i \in 0..(offset - 1)
               PROVE  running[i] = {} /\ rollout[i] = "out" /\ requests[i] = <<>>
    BY DEF ReleasedIsIdle
  <2>1. i \in Instances /\ i < offset
    BY Sizes DEF IInv, TypeOK
  <2>2. AtRest(i)
    BY <2>1 DEF IInv, InstanceAt, ProtocolAt, Released
  <2>3. requests[i] \in Seq(RequestType)
    BY <2>1 DEF IInv, TypeOK
  <2> QED  BY <2>2, <2>3, EmptyIs DEF AtRest, Clean
<1> QED  BY <1>1, Invariance, PTL

-----------------------------------------------------------------------------
(* Refinement of GroupPool.                                                 *)

LEMMA PoolSets ==
  ASSUME NEW s \in Seq(Groups)
  PROVE  /\ Pool!ToSet(s) = ToSet(s)
         /\ \A x : Pool!Contains(s, x) <=> Has(s, x)
<1>1. Pool!ToSet(s) = ToSet(s)
  BY DEF Pool!ToSet, ToSet
<1>2. ASSUME NEW x PROVE Pool!Contains(s, x) <=> Contains(s, x)
  BY DEF Pool!Contains, Contains
<1> QED  BY <1>1, <1>2, HasIs

(* The step is closed when the actor has had all groups.                    *)
LEMMA PoolEnds ==
  ASSUME IInv, SkipRound \/ Finished
  PROVE  Pool!End \/ UNCHANGED Pool!vars
<1>1. TypeOK /\ PolicyOK /\ NoRepeat(output)
  BY DEF IInv, OnePlace
<1>2. CASE SkipRound
  <2>1. manager = "await_actor" /\ completed' = completed /\ output' = output
    BY <1>2 DEF SkipRound, ActorUpdates, groupVars
  <2>2. CASE train_iter < NMinibatches - 1
    <3>1. manager' = manager
      BY <1>2, <2>2 DEF SkipRound
    <3> QED  BY <2>1, <3>1 DEF Pool!vars
  <2>3. CASE ~(train_iter < NMinibatches - 1)
    <3>1. manager' = "idle" /\ ActorUpdates
      BY <1>2, <2>3 DEF SkipRound
    <3>2. train_iter = NMinibatches - 1
      BY <1>1, <2>3, Sizes DEF TypeOK
    <3>3. ToSet(output) = Groups
      BY <1>1, <3>1, <3>2, LastUpdate DEF TypeOK
    <3>4. Pool!ToSet(output) = Groups
      BY <1>1, <3>3, PoolSets DEF TypeOK
    <3> QED  BY <2>1, <3>1, <3>4 DEF Pool!End
  <2> QED  BY <2>2, <2>3
<1>3. CASE Finished
  <2>1. manager = "finishing" /\ completed' = completed /\ output' = output
    BY <1>3 DEF Finished, groupVars
  <2>2. CASE manager' = "await_actor"
    BY <2>1, <2>2 DEF Pool!vars
  <2>3. CASE manager' # "await_actor"
    <3>1. /\ manager' = "idle" /\ train_iter = NMinibatches - 1
          /\ ~(policy.preProcess /\ offset = 0 /\ train_iter = 0)
      BY <1>3, <2>3 DEF Finished
    <3>2. ToSet(output) = Groups
      BY <1>1, <2>1, <3>1 DEF PolicyOK, Lending
    <3>3. Pool!ToSet(output) = Groups
      BY <1>1, <3>2, PoolSets DEF TypeOK
    <3> QED  BY <2>1, <3>1, <3>3 DEF Pool!End
  <2> QED  BY <2>2, <2>3
<1> QED  BY <1>2, <1>3

(* What an engine completes and what a migration finds complete is kept.    *)
LEMMA PoolGenerates ==
  ASSUME IInv, IInv', NEW i \in Instances,
         ReceiveGroups(i) \/ \E g \in Groups : Generate(i, g)
  PROVE  Pool!Generate
<1>1. TypeOK /\ TypeOK' /\ InstanceAt(i)
  BY DEF IInv
<1> DEFINE Numbers == 0..GroupSize
<1>2. /\ completed \in [Groups -> Numbers] /\ completed' \in [Groups -> Numbers]
      /\ \A n \in Numbers : n \in Nat
  <2>1. completed \in [Groups -> Numbers] /\ completed' \in [Groups -> Numbers]
    BY <1>1, Zenon DEF TypeOK
  <2>2. \A n \in Numbers : n \in Nat
    OBVIOUS
  <2> QED  BY <2>1, <2>2
<1> HIDE DEF Numbers
<1>3. CASE ReceiveGroups(i)
  <2>1. ~Released(i)
    BY <1>3, AskedIs DEF ReceiveGroups
  <2> DEFINE groups == ToSet(Head(requests[i]).data)
  <2>2. PICK enough \in [groups -> 0..GroupSize] :
          completed' = [g \in Groups |-> IF g \in groups THEN completed[g] + enough[g]
                                         ELSE completed[g]]
    BY <1>3 DEF ReceiveGroups, TakeGroups
  <2> HIDE DEF groups
  <2>3. ASSUME NEW g \in Groups PROVE completed'[g] >= completed[g]
    <3>1. completed[g] \in Nat /\ (g \in groups => enough[g] \in Nat)
      BY <1>2, <2>2 DEF Numbers
    <3>2. completed'[g] = IF g \in groups THEN completed[g] + enough[g] ELSE completed[g]
      BY <2>2
    <3> QED  BY ONLY <3>1, <3>2
  <2>4. output' = output /\ manager' = manager /\ manager # "idle"
    BY <1>3, <2>1 DEF ReceiveGroups, managerVars, Released
  <2>5. completed' \in [Groups -> 0..GroupSize]
    BY <1>2 DEF Numbers
  <2> QED  BY <2>3, <2>4, <2>5 DEF Pool!Generate
<1>4. CASE \E g \in Groups : Generate(i, g)
  <2>1. PICK h \in Groups : Generate(i, h)
    BY <1>4
  <2>2. ~Released(i)
    BY <1>1, <2>1 DEF Generate, InstanceAt, ProtocolAt, AtRest, Clean
  <2>3. completed' = [completed EXCEPT ![h] = @ + 1] /\ output' = output /\ manager' = manager
    BY <2>1 DEF Generate, managerVars
  <2>4. ASSUME NEW g \in Groups PROVE completed'[g] >= completed[g]
    <3>1. completed[g] \in Nat /\ (completed'[g] = completed[g] \/ completed'[g] = completed[g] + 1)
      BY <1>2, <2>3
    <3> QED  BY ONLY <3>1
  <2>5. completed' \in [Groups -> 0..GroupSize] /\ manager # "idle"
    BY <1>2, <2>2 DEF Numbers, Released
  <2> QED  BY <2>3, <2>4, <2>5 DEF Pool!Generate
<1> QED  BY <1>3, <1>4

(* A group is put out once, when it is complete.                            *)
LEMMA PoolPutsOut ==
  ASSUME IInv, NEW i \in Instances, NEW g \in Groups, HandleReturned(i, g)
  PROVE  Pool!PutOut(g) \/ UNCHANGED Pool!vars
<1>1. TypeOK /\ InstanceAt(i) /\ OnePlace
  BY DEF IInv
<1>2. completed' = completed /\ manager' = manager /\ g \in returned[i]
  BY DEF HandleReturned, managerVars
<1>3. CASE AllCompleted(g)
  <2>1. output' = Append(output, g) /\ completed[g] = GroupSize
    BY <1>3 DEF HandleReturned, AllCompleted
  <2>2. g \in running[i]
    BY <1>1, <1>2, ReturnedRun DEF InstanceAt
  <2>3. At(g, "running", i) /\ "running" \in Kinds
    BY <2>2 DEF At, Kinds
  <2>4. ~Pool!Contains(output, g)
    BY <1>1, <2>3, PoolSets DEF OnePlace, TypeOK
  <2>5. manager # "idle"
    BY <1>1, <2>2 DEF InstanceAt, ProtocolAt, Released, AtRest, Clean
  <2> QED  BY <1>2, <2>1, <2>4, <2>5 DEF Pool!PutOut
<1>4. CASE ~AllCompleted(g)
  <2>1. output' = output
    BY <1>4 DEF HandleReturned
  <2> QED  BY <1>2, <2>1 DEF Pool!vars
<1> QED  BY <1>3, <1>4

LEMMA PoolStep ==
  ASSUME IInv, [Next]_vars
  PROVE  [Pool!Next]_(Pool!vars)
<1>1. IInv'
  BY NextStep
<1>2. CASE StartStep
  <2>1. manager = "idle" /\ manager' # "idle"
    BY <1>2 DEF StartStep
  <2>2. completed' = [g \in Groups |-> 0] /\ output' = <<>>
    BY <1>2 DEF StartStep
  <2>3. Pool!Start
    BY <2>1, <2>2 DEF Pool!Start, Pool!Fresh
  <2> QED  BY <2>3 DEF Pool!Next
<1>3. CASE SkipRound \/ Finished
  BY <1>3, PoolEnds DEF Pool!Next
<1>4. CASE SendReport \/ Decide \/ MigrateIn \/ Finalize
  <2>1. manager # "idle" /\ manager' # "idle"
    <3>1. CASE SendReport
      BY <3>1 DEF SendReport, ActorUpdates
    <3>2. CASE Decide
      BY <3>2 DEF Decide, Migrate, Finish
    <3>3. CASE MigrateIn
      BY <3>3 DEF MigrateIn
    <3>4. CASE Finalize
      BY <3>4 DEF Finalize, ActorUpdates, Finish
    <3> QED  BY <1>4, <3>1, <3>2, <3>3, <3>4
  <2>2. completed' = completed /\ output' = output
    BY <1>4 DEF SendReport, Decide, MigrateIn, Finalize, groupVars
  <2> QED  BY <2>1, <2>2 DEF Pool!vars
<1>5. ASSUME NEW i \in Instances, Begin(i) \/ RolloutNext(i) \/ MainLoop(i) \/ Engine(i)
      PROVE  Pool!Next \/ UNCHANGED Pool!vars
  <2>1. CASE ReceiveGroups(i) \/ Engine(i)
    BY <1>1, <2>1, PoolGenerates DEF Engine, Pool!Next
  <2>2. CASE \E g \in Groups : HandleReturned(i, g)
    <3>1. PICK g \in Groups : HandleReturned(i, g)
      BY <2>2
    <3> QED  BY <3>1, PoolPutsOut DEF Pool!Next
  <2>3. CASE \/ Begin(i) \/ TasksReturn(i) \/ Notified(i) \/ ReportOffloaded(i)
             \/ Report(i) \/ MigrateOut(i) \/ WaitForFinish(i) \/ EndWait(i)
    <3>1. completed' = completed /\ output' = output /\ manager' = manager
      BY <2>3 DEF Begin, TasksReturn, Notified, ReportOffloaded, Report, MigrateOut, WaitForFinish,
           EndWait, groupVars, managerVars
    <3> QED  BY <3>1 DEF Pool!vars
  <2> QED  BY <1>5, <2>1, <2>2, <2>3 DEF RolloutNext, MainLoop
<1>6. CASE UNCHANGED vars
  BY <1>6 DEF vars, groupVars, managerVars, Pool!vars
<1> QED  BY <1>2, <1>3, <1>4, <1>5, <1>6 DEF Next, ManagerNext

(* However the groups are moved between the instances: a sequence that is   *)
(* complete stays so, every group is put out at most once and only when all *)
(* of its sequences are complete, and a step ends with all groups put out.  *)
THEOREM PoolImplemented == Spec => ImplementsGroupPool
<1>1. Init => Pool!Init
  BY DEF Init, Pool!Init
<1>2. IInv /\ [Next]_vars => [Pool!Next]_(Pool!vars)
  BY PoolStep
<1> QED  BY <1>1, <1>2, Invariance, PTL DEF Spec, ImplementsGroupPool, Pool!Spec
=============================================================================

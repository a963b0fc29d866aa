----------------------- MODULE DynamicInferenceProofs -----------------------
(***************************************************************************)
(* Proofs about DynamicInference, for any number of data-parallel ranks    *)
(* and any share: the ranks leave each call together if no call takes more *)
(* than two results in pipeline mode, and each result is inferred by one   *)
(* rank and put once whatever a call may take.                             *)
(***************************************************************************)
EXTENDS DynamicInference, Integers, SequencesExt, SequenceTheorems,
        WellFoundedInduction, TLAPS, FiniteSetTheorems

-----------------------------------------------------------------------------
(* Sequences: the domain of what an operation returns, and its elements.   *)

(* A FIFO once its head has been taken.                                     *)
LEMMA TailOfSeq ==
  ASSUME NEW S, NEW s \in Seq(S), s # <<>>
  PROVE  /\ Tail(s) \in Seq(S)
         /\ Len(Tail(s)) = Len(s) - 1
         /\ DOMAIN Tail(s) = 1..(Len(s) - 1)
         /\ \A i \in DOMAIN Tail(s) : i + 1 \in DOMAIN s /\ Tail(s)[i] = s[i + 1]
         /\ 1 \in DOMAIN s /\ Head(s) = s[1] /\ Head(s) \in S
  OBVIOUS

(* ... and once one entry is added at its end.                              *)
LEMMA AppendToSeq ==
  ASSUME NEW S, NEW s \in Seq(S), NEW e \in S
  PROVE  /\ Append(s, e) \in Seq(S)
         /\ DOMAIN Append(s, e) = 1..(Len(s) + 1)
         /\ DOMAIN s = 1..Len(s)
         /\ \A i \in DOMAIN s : Append(s, e)[i] = s[i]
         /\ Append(s, e)[Len(s) + 1] = e
  OBVIOUS

(* ... and once several are added.                                          *)
LEMMA ConcatSeq ==
  ASSUME NEW S, NEW s \in Seq(S), NEW t \in Seq(S)
  PROVE  /\ s \o t \in Seq(S)
         /\ DOMAIN (s \o t) = 1..(Len(s) + Len(t))
         /\ \A i \in DOMAIN (s \o t) :
              (s \o t)[i] = IF i <= Len(s) THEN s[i] ELSE t[i - Len(s)]
         /\ \A i \in DOMAIN (s \o t) :
              IF i <= Len(s) THEN i \in DOMAIN s ELSE i - Len(s) \in DOMAIN t
  OBVIOUS

LEMMA SubSeqSeq ==
  ASSUME NEW S, NEW s \in Seq(S), NEW m \in 1 .. Len(s) + 1, NEW n \in m - 1 .. Len(s)
  PROVE  /\ SubSeq(s, m, n) \in Seq(S)
         /\ Len(SubSeq(s, m, n)) = n - m + 1
         /\ DOMAIN SubSeq(s, m, n) = 1 .. n - m + 1
         /\ \A k \in 1 .. n - m + 1 : SubSeq(s, m, n)[k] = s[m + k - 1]
  OBVIOUS

-----------------------------------------------------------------------------
(* What the code does not ask of a configuration, and needs.                *)
Modest == mode.pipeline => Share \div mode.split <= 2

Looping == {"poll", "reduce", "infer"}

Typed ==
  /\ mode \in Modes /\ arrived \in Nat
  /\ input \in Seq(Nat) /\ getters \in Seq(Ranks) /\ answer \in [Ranks -> Nat]
  /\ rank \in [Ranks -> [at : {"fill", "poll", "reduce", "infer", "done"},
                         call : Nat, results : Seq(Nat), len : Nat, total : Nat,
                         collected : SUBSET Nat]]

(* A call begins with no more results carried than its least number, and    *)
(* goes on between its two limits.                                          *)
Within(r) ==
  /\ rank[r].at = "done" <=> rank[r].total >= Share
  /\ rank[r].at = "fill" => Held(r) <= MinLen(r)
  /\ rank[r].at \in Looping => MinLen(r) <= Held(r) /\ Held(r) <= MaxLen(r)
  /\ rank[r].at = "infer" => MinLen(r) <= rank[r].len /\ rank[r].len <= Held(r)

(* Two ranks in the same call have done as much before, compare with the    *)
(* same number, and go on to infer together.                                *)
SameCall(r, s) ==
  rank[r].call = rank[s].call =>
    /\ rank[r].total = rank[s].total
    /\ rank[r].at = "infer" => rank[s].at = "infer"
    /\ rank[r].at \in Looping /\ rank[s].at \in Looping => rank[r].len = rank[s].len

(* One that is behind is about to infer what the other has inferred.        *)
Behind(r, s) ==
  rank[r].call < rank[s].call =>
    /\ rank[r].at = "infer" /\ rank[s].at # "infer"
    /\ rank[s].call = rank[r].call + 1
    /\ rank[s].total = rank[r].total + rank[r].len

(* Until all have entered the loop, none has left its first round.          *)
FirstRound(r, s) ==
  /\ \/ rank[r].call < rank[s].call
     \/ rank[r].call = rank[s].call /\ rank[r].at = "fill"
  /\ rank[s].at \in {"poll", "reduce"}
  => rank[s].len = MinLen(s)

Pair(r, s) == SameCall(r, s) /\ Behind(r, s) /\ FirstRound(r, s)

State == /\ Typed
         /\ \A r \in Ranks : Within(r)
         /\ \A r, s \in Ranks : Pair(r, s)

Inv == Modest => State

-----------------------------------------------------------------------------
(* The limits of a call.                                                    *)

LEMMA Quotient ==
  ASSUME NEW a \in Nat, NEW b \in Nat, 1 <= b, b <= a
  PROVE  (a \div b) \in Nat /\ 1 <= (a \div b)
  OBVIOUS

LEMMA SplitFits ==
  ASSUME Typed
  PROVE  /\ Share \in Nat /\ 1 <= Share
         /\ mode.pipeline \in BOOLEAN
         /\ (Share \div mode.split) \in Nat /\ 1 <= (Share \div mode.split)
<1>1. Share \in Nat /\ 1 <= Share
  BY ShareAssumption
<1>2. mode.pipeline \in BOOLEAN /\ mode.split \in Nat /\ 1 <= mode.split /\ mode.split <= Share
  BY <1>1, ShareAssumption DEF Typed
<1>3. QED  BY <1>1, <1>2, Quotient

(* While a share is not done its limits are a result apart at most, and the *)
(* same for whoever has done as much.                                       *)
LEMMA Limits ==
  ASSUME Typed, Modest, NEW r \in Ranks, rank[r].total < Share
  PROVE  /\ MinLen(r) \in Nat /\ MaxLen(r) \in Nat
         /\ 1 <= MinLen(r) /\ MinLen(r) <= MaxLen(r) /\ MaxLen(r) <= MinLen(r) + 1
<1> DEFINE cap == Share \div mode.split
<1>1. Share \in Nat /\ mode.pipeline \in BOOLEAN /\ cap \in Nat /\ 1 <= cap
  BY SplitFits
<1>2. mode.pipeline => cap <= 2  BY DEF Modest
<1>3. rank[r].total \in Nat  BY DEF Typed
<1>4. MaxLen(r) = Smaller(cap, Share - rank[r].total)  BY DEF MaxLen, Remaining
<1>5. MinLen(r) = IF mode.pipeline THEN Smaller(1, Share - rank[r].total) ELSE MaxLen(r)
  BY DEF MinLen, Remaining
<1> HIDE DEF cap
<1>6. CASE mode.pipeline
  BY <1>1, <1>2, <1>3, <1>4, <1>5, <1>6 DEF Smaller
<1>7. CASE ~mode.pipeline
  BY <1>1, <1>3, <1>4, <1>5, <1>7 DEF Smaller
<1>8. QED  BY <1>1, <1>6, <1>7

LEMMA SameLimits ==
  ASSUME NEW r, NEW s, rank[r].total = rank[s].total
  PROVE  MinLen(r) = MinLen(s) /\ MaxLen(r) = MaxLen(s)
  BY DEF MinLen, MaxLen, Remaining

LEMMA LimitsStay ==
  ASSUME NEW r, rank'[r].total = rank[r].total, mode' = mode
  PROVE  MinLen(r)' = MinLen(r) /\ MaxLen(r)' = MaxLen(r)
  BY DEF MinLen, MaxLen, Remaining

LEMMA Fields ==
  ASSUME Typed, NEW r \in Ranks
  PROVE  /\ rank[r].at \in {"fill", "poll", "reduce", "infer", "done"}
         /\ rank[r].call \in Nat /\ rank[r].len \in Nat /\ rank[r].total \in Nat
         /\ rank[r].results \in Seq(Nat) /\ Held(r) \in Nat
         /\ rank[r].collected \in SUBSET Nat
  BY DEF Typed, Held

-----------------------------------------------------------------------------
(* Inside a call.                                                           *)

(* A rank that takes a result or goes round its loop, or enters it with its *)
(* least number, agrees with the others as before.                          *)
LEMMA PairStays ==
  ASSUME Typed, \A x, y \in Ranks : Pair(x, y), mode' = mode, NEW r \in Ranks,
         \A s \in Ranks : s # r => rank'[s] = rank[s],
         rank'[r].call = rank[r].call, rank'[r].total = rank[r].total,
         \/ /\ \/ rank'[r].at = rank[r].at
               \/ rank[r].at = "poll" /\ rank'[r].at = "reduce"
            /\ rank'[r].len = rank[r].len
         \/ rank[r].at = "fill" /\ rank'[r].at = "poll" /\ rank'[r].len = MinLen(r)
  PROVE  \A x, y \in Ranks : Pair(x, y)'
<1>1. ASSUME NEW x \in Ranks PROVE MinLen(x)' = MinLen(x)
  <2>1. rank'[x].total = rank[x].total  OBVIOUS
  <2>2. QED  BY <2>1, LimitsStay
<1> SUFFICES ASSUME NEW x \in Ranks, NEW y \in Ranks PROVE Pair(x, y)'
  OBVIOUS
<1>2. /\ rank'[x].call = rank[x].call /\ rank'[x].total = rank[x].total
      /\ rank'[y].call = rank[y].call /\ rank'[y].total = rank[y].total
      /\ rank[x].call \in Nat /\ rank[y].call \in Nat
  BY Fields
<1>3. /\ Pair(x, y) /\ Pair(y, x)
      /\ MinLen(x)' = MinLen(x) /\ MinLen(y)' = MinLen(y)
  BY <1>1
<1>4. rank[x].total = rank[y].total => MinLen(x) = MinLen(y)
  BY SameLimits
<1>5. SameCall(x, y)'
  BY <1>2, <1>3, <1>4 DEF Pair, SameCall, FirstRound, Behind, Looping
<1>6. Behind(x, y)'
  BY <1>2, <1>3 DEF Pair, Behind
<1>7. FirstRound(x, y)'
  BY <1>2, <1>3 DEF Pair, FirstRound, Behind
<1>8. QED  BY <1>5, <1>6, <1>7 DEF Pair

(* What the others hold is between their limits as before.                  *)
LEMMA WithinStays ==
  ASSUME mode' = mode, NEW s, rank'[s] = rank[s], Within(s)
  PROVE  Within(s)'
<1>1. MinLen(s)' = MinLen(s) /\ MaxLen(s)' = MaxLen(s)  BY LimitsStay
<1>2. Held(s)' = Held(s)  BY DEF Held
<1>3. QED  BY <1>1, <1>2 DEF Within

LEMMA FilledKeeps ==
  ASSUME Modest, State, NEW r \in Ranks, Filled(r)
  PROVE  State'
<1> USE DEF State
<1>1. /\ rank[r].at = "fill" /\ Held(r) >= MinLen(r) /\ mode' = mode
      /\ rank' = [rank EXCEPT ![r].at = "poll", ![r].len = Held(r)]
      /\ UNCHANGED channelVars
  BY DEF Filled
<1>2. Held(r) \in Nat  BY Fields
<1>3. Typed'
  BY <1>1, <1>2 DEF Typed, channelVars
<1>4. rank[r].total < Share
  BY <1>1, Fields, ShareAssumption DEF Within
<1>5. /\ MinLen(r) \in Nat /\ MaxLen(r) \in Nat /\ MinLen(r) <= MaxLen(r)
  BY <1>4, Limits
<1>6. Held(r) = MinLen(r)
  BY <1>1, <1>2, <1>5 DEF Within
<1>7. /\ rank'[r].at = "poll" /\ rank'[r].len = MinLen(r)
      /\ rank'[r].call = rank[r].call /\ rank'[r].total = rank[r].total
      /\ rank'[r].results = rank[r].results
      /\ \A s \in Ranks : s # r => rank'[s] = rank[s]
  BY <1>1, <1>6 DEF Typed
<1>8. \A x, y \in Ranks : Pair(x, y)'
  BY <1>1, <1>7, PairStays
<1>9. Within(r)'
  <2>1. MinLen(r)' = MinLen(r) /\ MaxLen(r)' = MaxLen(r)  BY <1>1, <1>7, LimitsStay
  <2>2. Held(r)' = Held(r)  BY <1>7 DEF Held
  <2>3. Within(r)  OBVIOUS
  <2>4. QED  BY <1>1, <1>4, <1>5, <1>6, <1>7, <2>1, <2>2, <2>3 DEF Within
<1>10. ASSUME NEW x \in Ranks, x # r PROVE Within(x)'
  BY <1>1, <1>7, <1>10, WithinStays
<1>11. QED  BY <1>3, <1>8, <1>9, <1>10

LEMMA EnterReduceKeeps ==
  ASSUME Modest, State, NEW r \in Ranks, EnterReduce(r)
  PROVE  State'
<1> USE DEF State
<1>1. /\ rank[r].at = "poll" /\ mode' = mode
      /\ rank' = [rank EXCEPT ![r].at = "reduce"]
      /\ UNCHANGED channelVars
  BY DEF EnterReduce
<1>2. Typed'
  BY <1>1 DEF Typed, channelVars
<1>3. /\ rank'[r].at = "reduce" /\ rank'[r].len = rank[r].len
      /\ rank'[r].call = rank[r].call /\ rank'[r].total = rank[r].total
      /\ rank'[r].results = rank[r].results
      /\ \A s \in Ranks : s # r => rank'[s] = rank[s]
  BY <1>1 DEF Typed
<1>4. \A x, y \in Ranks : Pair(x, y)'
  BY <1>1, <1>3, PairStays
<1>5. Within(r)'
  <2>1. MinLen(r)' = MinLen(r) /\ MaxLen(r)' = MaxLen(r)  BY <1>1, <1>3, LimitsStay
  <2>2. Held(r)' = Held(r)  BY <1>3 DEF Held
  <2>3. Within(r)  OBVIOUS
  <2>4. QED  BY <1>1, <1>3, <2>1, <2>2, <2>3 DEF Within, Looping
<1>6. ASSUME NEW x \in Ranks, x # r PROVE Within(x)'
  BY <1>1, <1>3, <1>6, WithinStays
<1>7. QED  BY <1>2, <1>4, <1>5, <1>6

LEMMA TakeKeeps ==
  ASSUME Modest, State, NEW r \in Ranks, Take(r)
  PROVE  State'
<1> USE DEF State
<1> DEFINE more == Append(rank[r].results, answer[r])
<1>1. PICK at \in {"fill", "poll", "reduce"} :
        /\ rank' = [rank EXCEPT ![r].results = more, ![r].at = at]
        /\ \/ rank[r].at = "fill" /\ at = "fill" /\ Held(r) < MinLen(r)
           \/ rank[r].at = "poll" /\ at \in {"poll", "reduce"} /\ Held(r) < MaxLen(r)
  <2>1. CASE rank[r].at = "fill"
    <3>1. /\ Held(r) < MinLen(r) /\ rank' = [rank EXCEPT ![r].results = more]
      BY <2>1 DEF Take
    <3>2. rank' = [rank EXCEPT ![r].results = more, ![r].at = "fill"]
      BY <2>1, <3>1 DEF Typed
    <3>3. QED  BY <2>1, <3>1, <3>2
  <2>2. CASE rank[r].at # "fill"
    BY <2>2 DEF Take
  <2>3. QED  BY <2>1, <2>2
<1>2. /\ mode' = mode /\ answer' = [answer EXCEPT ![r] = None]
      /\ UNCHANGED <<arrived, input, getters>>
  BY DEF Take
<1>3. /\ answer[r] \in Nat /\ rank[r].results \in Seq(Nat)
  BY Fields DEF Typed
<1>4. more \in Seq(Nat) /\ Len(more) = Held(r) + 1
  BY <1>3 DEF Held
<1> HIDE DEF more
<1>5. Typed'
  BY <1>1, <1>2, <1>4 DEF Typed, None
<1>6. /\ rank'[r].at = at /\ rank'[r].len = rank[r].len
      /\ rank'[r].call = rank[r].call /\ rank'[r].total = rank[r].total
      /\ rank'[r].results = more
      /\ \A s \in Ranks : s # r => rank'[s] = rank[s]
  BY <1>1 DEF Typed
<1>7. \A x, y \in Ranks : Pair(x, y)'
  <2>1. \/ rank'[r].at = rank[r].at
        \/ rank[r].at = "poll" /\ rank'[r].at = "reduce"
    BY <1>1, <1>6
  <2>2. QED  BY <1>2, <1>6, <2>1, PairStays
<1>8. Within(r)'
  <2>1. MinLen(r)' = MinLen(r) /\ MaxLen(r)' = MaxLen(r)  BY <1>2, <1>6, LimitsStay
  <2>2. Held(r)' = Held(r) + 1 /\ Held(r) \in Nat  BY <1>4, <1>6, Fields DEF Held
  <2>3. Within(r)  OBVIOUS
  <2>4. rank[r].total < Share  BY <1>1, <2>3, Fields, ShareAssumption DEF Within
  <2>5. MinLen(r) \in Nat /\ MaxLen(r) \in Nat  BY <2>4, Limits
  <2>6. QED  BY <1>1, <1>6, <2>1, <2>2, <2>3, <2>5 DEF Within, Looping
<1>9. ASSUME NEW x \in Ranks, x # r PROVE Within(x)'
  BY <1>2, <1>6, <1>9, WithinStays
<1>10. QED  BY <1>5, <1>7, <1>8, <1>9

-----------------------------------------------------------------------------
(* All ranks are in the same call when they reduce, and leave it together   *)
(* or not at all.                                                           *)
LEMMA AllReduceMinKeeps ==
  ASSUME Modest, State, AllReduceMin
  PROVE  State'
<1> USE DEF State
<1>1. /\ \A x \in Ranks : rank[x].at = "reduce"
      /\ mode' = mode /\ UNCHANGED channelVars
      /\ rank' = [x \in Ranks |->
                    [rank[x] EXCEPT !.at = IF rank[x].len < Least THEN "poll" ELSE "infer",
                                    !.len = Least]]
  BY DEF AllReduceMin
<1>2. ASSUME NEW x \in Ranks, NEW y \in Ranks
      PROVE  /\ rank[x].call = rank[y].call /\ rank[x].total = rank[y].total
             /\ rank[x].len = rank[y].len
  <2>1. rank[x].call \in Nat /\ rank[y].call \in Nat  BY Fields
  <2>2. Pair(x, y) /\ Pair(y, x)  OBVIOUS
  <2>3. ~(rank[x].call < rank[y].call) /\ ~(rank[y].call < rank[x].call)
    BY <1>1, <2>2 DEF Pair, Behind
  <2>4. rank[x].call = rank[y].call  BY <2>1, <2>3
  <2>5. QED  BY <1>1, <2>2, <2>4 DEF Pair, SameCall, Looping
<1>3. PICK o \in Ranks : TRUE  BY ShareAssumption
<1>4. ASSUME NEW x \in Ranks
      PROVE  /\ MinLen(o) \in Nat /\ MinLen(x) = MinLen(o) /\ MaxLen(x) \in Nat
             /\ Held(x) \in Nat /\ MinLen(o) <= Held(x) /\ Held(x) <= MinLen(o) + 1
             /\ Held(x) <= MaxLen(x)
  <2>1. rank[x].total < Share
    <3>1. rank[x].at = "reduce" /\ Within(x)  BY <1>1
    <3>2. rank[x].total \in Nat /\ Share \in Nat  BY Fields, ShareAssumption
    <3>3. QED  BY <3>1, <3>2 DEF Within
  <2>2. /\ MinLen(x) \in Nat /\ MaxLen(x) \in Nat /\ MaxLen(x) <= MinLen(x) + 1
    BY <2>1, Limits
  <2>3. MinLen(x) = MinLen(o)
    <3>1. rank[x].total = rank[o].total  BY <1>2
    <3>2. QED  BY <3>1, SameLimits
  <2>4. MinLen(x) <= Held(x) /\ Held(x) <= MaxLen(x) /\ Held(x) \in Nat
    BY <1>1, Fields DEF Within, Looping
  <2>5. QED  BY <2>2, <2>3, <2>4
<1>5. \E n \in {Held(x) : x \in Ranks} : \A x \in Ranks : n <= Held(x)
  <2>1. CASE \E x \in Ranks : Held(x) = MinLen(o)
    BY <1>4, <2>1
  <2>2. CASE \A x \in Ranks : Held(x) # MinLen(o)
    <3>1. \A x \in Ranks : Held(x) = MinLen(o) + 1  BY <1>4, <2>2
    <3>2. \A x \in Ranks : Held(o) <= Held(x)  BY <1>4, <3>1
    <3>3. QED  BY <3>2
  <2>3. QED  BY <2>1, <2>2
<1>6. Least \in {Held(x) : x \in Ranks} /\ \A x \in Ranks : Least <= Held(x)
  BY <1>5 DEF Least
<1>7. Least \in Nat /\ MinLen(o) <= Least
  BY <1>4, <1>6
<1>8. Typed'
  BY <1>1, <1>7 DEF Typed, channelVars
<1>9. ASSUME NEW x \in Ranks
      PROVE  /\ rank'[x].at = IF rank[o].len < Least THEN "poll" ELSE "infer"
             /\ rank'[x].len = Least
             /\ rank'[x].call = rank[x].call /\ rank'[x].total = rank[x].total
             /\ rank'[x].results = rank[x].results
  <2>1. rank[x].len = rank[o].len  BY <1>2
  <2>2. QED  BY <1>1, <2>1 DEF Typed
<1>10. ASSUME NEW x \in Ranks PROVE Within(x)'
  <2>1. MinLen(x)' = MinLen(x) /\ MaxLen(x)' = MaxLen(x)  BY <1>1, <1>9, LimitsStay
  <2>2. Held(x)' = Held(x)  BY <1>9 DEF Held
  <2>3. Within(x)  OBVIOUS
  <2>4. rank[x].at = "reduce"  BY <1>1
  <2>5. QED  BY <1>4, <1>6, <1>7, <1>9, <2>1, <2>2, <2>3, <2>4 DEF Within, Looping
<1>11. ASSUME NEW x \in Ranks, NEW y \in Ranks PROVE Pair(x, y)'
  <2>1. rank[x].call = rank[y].call /\ rank[x].total = rank[y].total  BY <1>2
  <2>2. rank[x].call \in Nat /\ rank[y].call \in Nat  BY Fields
  <2>3. SameCall(x, y)'  BY <1>9, <2>1 DEF SameCall
  <2>4. Behind(x, y)'  BY <1>9, <2>1, <2>2 DEF Behind
  <2>5. FirstRound(x, y)'  BY <1>9, <2>1, <2>2 DEF FirstRound
  <2>6. QED  BY <2>3, <2>4, <2>5 DEF Pair
<1>12. QED  BY <1>8, <1>10, <1>11

-----------------------------------------------------------------------------
(* From a call to the next.                                                 *)

LEMMA FirstOf ==
  ASSUME NEW s \in Seq(Nat), NEW n \in Nat, n <= Len(s)
  PROVE  Range(SubSeq(s, 1, n)) \in SUBSET Nat
<1>1. SubSeq(s, 1, n) \in Seq(Nat)  OBVIOUS
<1>2. QED  BY <1>1 DEF Range

LEMMA RestOf ==
  ASSUME NEW s \in Seq(Nat), NEW n \in Nat, n <= Len(s)
  PROVE  /\ SubSeq(s, n + 1, Len(s)) \in Seq(Nat)
         /\ Len(SubSeq(s, n + 1, Len(s))) = Len(s) - n
  OBVIOUS

(* A rank that infers is in the last call that any other is in, or the one  *)
(* before, and all that are in its call infer the same number.              *)
LEMMA InferKeeps ==
  ASSUME Modest, State, NEW r \in Ranks, Infer(r)
  PROVE  State'
<1> USE DEF State
<1> DEFINE total == rank[r].total + rank[r].len
           got == rank[r].collected \cup Batch(r)
           keeps == IF mode.pipeline \/ total >= Share THEN {} ELSE got
           new == [at |-> IF total >= Share THEN "done" ELSE "fill",
                   call |-> rank[r].call + 1, results |-> Clipped(r), len |-> 0,
                   total |-> total, collected |-> keeps]
<1>1. /\ rank[r].at = "infer" /\ rank' = [rank EXCEPT ![r] = new]
      /\ mode' = mode /\ UNCHANGED channelVars
  BY DEF Infer
<1>2. /\ rank[r].call \in Nat /\ rank[r].len \in Nat /\ rank[r].total \in Nat
      /\ rank[r].results \in Seq(Nat) /\ rank[r].collected \in SUBSET Nat
      /\ Held(r) \in Nat
  BY Fields
<1>3. /\ rank[r].total < Share /\ rank[r].len <= Held(r) /\ Held(r) <= MaxLen(r)
      /\ MinLen(r) <= rank[r].len
  BY <1>1, Fields, ShareAssumption DEF Within, Looping
<1>4. /\ MinLen(r) \in Nat /\ MaxLen(r) \in Nat /\ 1 <= MinLen(r)
      /\ MaxLen(r) <= MinLen(r) + 1
  BY <1>3, Limits
<1>5. Clipped(r) \in Seq(Nat) /\ Len(Clipped(r)) = Held(r) - rank[r].len
  BY <1>2, <1>3, RestOf DEF Clipped, Held
<1>6. keeps \in SUBSET Nat
  <2>1. Batch(r) \in SUBSET Nat  BY <1>2, <1>3, FirstOf DEF Batch, Held
  <2>2. QED  BY <1>2, <2>1
<1>7. total \in Nat  BY <1>2
<1> HIDE DEF keeps
<1>8. Typed'
  <2>1. new \in [at : {"fill", "poll", "reduce", "infer", "done"},
                 call : Nat, results : Seq(Nat), len : Nat, total : Nat,
                 collected : SUBSET Nat]
    BY <1>2, <1>5, <1>6, <1>7
  <2> HIDE DEF new
  <2>2. QED  BY <1>1, <2>1 DEF Typed, channelVars
<1>9. /\ rank'[r].at = IF total >= Share THEN "done" ELSE "fill"
      /\ rank'[r].call = rank[r].call + 1 /\ rank'[r].total = total
      /\ rank'[r].results = Clipped(r)
      /\ \A s \in Ranks : s # r => rank'[s] = rank[s]
  BY <1>1 DEF Typed
<1>10. Within(r)'
  <2>1. Held(r)' = Held(r) - rank[r].len  BY <1>5, <1>9 DEF Held
  <2>2. Held(r)' <= 1 /\ Held(r)' \in Nat  BY <1>2, <1>3, <1>4, <2>1
  <2>3. CASE total >= Share
    BY <1>9, <2>3 DEF Within, Looping
  <2>4. CASE ~(total >= Share)
    <3>1. rank'[r].total < Share  BY <1>7, <1>9, <2>4, ShareAssumption
    <3>2. Modest' /\ Typed'  BY <1>1, <1>8 DEF Modest
    <3>3. MinLen(r)' \in Nat /\ 1 <= MinLen(r)'
      <4>1. MinLen(r)' = IF mode.pipeline THEN Smaller(1, Share - total)
                         ELSE Smaller(Share \div mode.split, Share - total)
        BY <1>1, <1>9 DEF MinLen, MaxLen, Remaining
      <4>2. /\ Share \in Nat /\ mode.pipeline \in BOOLEAN
            /\ (Share \div mode.split) \in Nat /\ 1 <= (Share \div mode.split)
        BY SplitFits
      <4>3. Share - total \in Nat /\ 1 <= Share - total  BY <1>7, <2>4, <4>2
      <4> HIDE DEF total
      <4>4. QED  BY <4>1, <4>2, <4>3 DEF Smaller
    <3>4. rank'[r].at = "fill"  BY <1>9, <2>4
    <3>5. ~(rank'[r].total >= Share)  BY <1>9, <2>4
    <3>6. QED  BY <2>2, <3>3, <3>4, <3>5 DEF Within, Looping
  <2>5. QED  BY <2>3, <2>4
<1>11. ASSUME NEW x \in Ranks, x # r PROVE Within(x)'
  BY <1>1, <1>9, <1>11, WithinStays
<1>12. ASSUME NEW s \in Ranks
       PROVE  /\ rank[s].call \in Nat /\ Pair(r, s) /\ Pair(s, r)
  BY Fields
<1>13. ASSUME NEW s \in Ranks, s # r
       PROVE  \/ /\ rank[s].call = rank[r].call /\ rank[s].at = "infer"
                 /\ rank[s].total = rank[r].total /\ rank[s].len = rank[r].len
              \/ /\ rank[s].call = rank[r].call + 1 /\ rank[s].at # "infer"
                 /\ rank[s].total = total
  <2>1. ~(rank[s].call < rank[r].call)  BY <1>1, <1>12 DEF Pair, Behind
  <2>2. CASE rank[s].call = rank[r].call
    BY <1>1, <1>12, <2>2 DEF Pair, SameCall, Looping
  <2>3. CASE rank[r].call < rank[s].call
    BY <1>12, <2>3 DEF Pair, Behind
  <2>4. QED  BY <1>2, <1>12, <2>1, <2>2, <2>3
<1>14. ASSUME NEW s \in Ranks, s # r PROVE Pair(r, s)' /\ Pair(s, r)'
  <2>1. rank'[s] = rank[s] /\ MinLen(s)' = MinLen(s)
    BY <1>1, <1>9, <1>14, LimitsStay
  <2>2. rank[s].len \in Nat /\ rank[s].call \in Nat  BY Fields
  <2>3. rank'[r].at \in {"fill", "done"}  BY <1>9
  <2>4. CASE rank[s].call = rank[r].call
    BY <1>2, <1>9, <1>13, <1>14, <2>1, <2>2, <2>3, <2>4
    DEF Pair, SameCall, Behind, FirstRound, Looping
  <2>5. CASE rank[s].call # rank[r].call
    <3>1. /\ rank[s].call = rank[r].call + 1 /\ rank[s].at # "infer"
          /\ rank[s].total = total
      BY <1>13, <1>14, <2>5
    <3>2. rank[r].call < rank[s].call  BY <1>2, <3>1
    <3>3. rank[s].at \in {"poll", "reduce"} => rank[s].len = MinLen(s)
      BY <1>12, <3>2 DEF Pair, FirstRound
    <3>4. QED
      BY <1>2, <1>9, <2>1, <2>2, <2>3, <3>1, <3>3
      DEF Pair, SameCall, Behind, FirstRound, Looping
  <2>6. QED  BY <2>4, <2>5
<1>15. Pair(r, r)'
  <2>1. rank'[r].call \in Nat /\ rank'[r].at \in {"fill", "done"}  BY <1>2, <1>9
  <2>2. QED  BY <2>1 DEF Pair, SameCall, Behind, FirstRound, Looping
<1>16. ASSUME NEW x \in Ranks, NEW y \in Ranks, x # r, y # r PROVE Pair(x, y)'
  <2>1. rank'[x] = rank[x] /\ rank'[y] = rank[y] /\ Pair(x, y)  BY <1>9, <1>16
  <2>2. MinLen(y)' = MinLen(y)  BY <1>1, <2>1, LimitsStay
  <2>3. QED  BY <2>1, <2>2 DEF Pair, SameCall, Behind, FirstRound
<1>17. \A x, y \in Ranks : Pair(x, y)'  BY <1>14, <1>15, <1>16
<1>18. QED  BY <1>8, <1>10, <1>11, <1>17

-----------------------------------------------------------------------------
(* The first call, and the steps of the channel.                            *)

LEMMA FreshAgree ==
  Modest /\ Typed /\ (\A x \in Ranks : rank[x] = Fresh) => State
<1> SUFFICES ASSUME Modest, Typed, \A x \in Ranks : rank[x] = Fresh PROVE State
  OBVIOUS
<1>1. Share \in Nat /\ 1 <= Share  BY ShareAssumption
<1>2. ASSUME NEW x \in Ranks PROVE Within(x)
  <2>1. /\ rank[x].at = "fill" /\ rank[x].total = 0 /\ rank[x].results = <<>>
    BY DEF Fresh
  <2>2. Held(x) = 0  BY <2>1 DEF Held
  <2>3. MinLen(x) \in Nat
    <3>1. rank[x].total < Share  BY <1>1, <2>1
    <3>2. QED  BY <3>1, Limits
  <2>4. QED  BY <1>1, <2>1, <2>2, <2>3 DEF Within, Looping
<1>3. ASSUME NEW x \in Ranks, NEW y \in Ranks PROVE Pair(x, y)
  BY DEF Pair, SameCall, Behind, FirstRound, Fresh, Looping
<1>4. QED  BY <1>2, <1>3 DEF State

LEMMA EmptyIsSeq == ASSUME NEW S PROVE <<>> \in Seq(S)
  OBVIOUS

LEMMA FreshTyped ==
  Fresh \in [at : {"fill", "poll", "reduce", "infer", "done"},
             call : Nat, results : Seq(Nat), len : Nat, total : Nat,
             collected : SUBSET Nat]
<1>1. <<>> \in Seq(Nat)  BY EmptyIsSeq
<1>2. QED  BY <1>1 DEF Fresh

LEMMA InitHolds ==
  ASSUME Init PROVE Inv
<1> SUFFICES ASSUME Modest PROVE State  BY DEF Inv
<1>1. Typed
  <2>1. <<>> \in Seq(Nat) /\ <<>> \in Seq(Ranks)
    <3>1. <<>> \in Seq(Nat)  BY EmptyIsSeq
    <3>2. <<>> \in Seq(Ranks)  BY EmptyIsSeq
    <3>3. QED  BY <3>1, <3>2
  <2>2. rank \in [Ranks -> [at : {"fill", "poll", "reduce", "infer", "done"},
                           call : Nat, results : Seq(Nat), len : Nat, total : Nat,
                           collected : SUBSET Nat]]
    BY FreshTyped DEF Init
  <2>3. QED  BY <2>1, <2>2 DEF Init, Typed, None
<1>2. \A x \in Ranks : rank[x] = Fresh  BY DEF Init
<1>3. QED  BY <1>1, <1>2, FreshAgree

LEMMA NextStepKeeps ==
  ASSUME Modest, State, NextStep PROVE State'
<1>1. Typed'
  <2>1. rank' = [r \in Ranks |-> Fresh] /\ arrived' = 0
        /\ UNCHANGED <<mode, input, getters, answer>>
    BY DEF NextStep
  <2>2. rank' \in [Ranks -> [at : {"fill", "poll", "reduce", "infer", "done"},
                            call : Nat, results : Seq(Nat), len : Nat, total : Nat,
                            collected : SUBSET Nat]]
    BY <2>1, FreshTyped
  <2>3. QED  BY <2>1, <2>2 DEF State, Typed
<1>2. (\A x \in Ranks : rank[x] = Fresh)'  BY DEF NextStep
<1>3. Modest'  BY DEF NextStep, Modest
<1>4. QED  BY <1>1, <1>2, <1>3, FreshAgree, PTL

(* Nothing that the ranks know changes.                                     *)
LEMMA RanksStay ==
  ASSUME State, Typed', UNCHANGED <<mode, rank>> PROVE State'
<1>1. ASSUME NEW x \in Ranks PROVE Within(x)'
  BY WithinStays DEF State
<1>2. ASSUME NEW x \in Ranks, NEW y \in Ranks PROVE Pair(x, y)'
  <2>1. MinLen(y)' = MinLen(y)  BY LimitsStay
  <2>2. Pair(x, y)  BY DEF State
  <2>3. QED  BY <2>1, <2>2 DEF Pair, SameCall, Behind, FirstRound
<1>3. QED  BY <1>1, <1>2 DEF State

LEMMA ArriveKeeps ==
  ASSUME Modest, State, Arrive PROVE State'
<1>1. /\ arrived \in Nat /\ input \in Seq(Nat)
      /\ arrived' = arrived + 1 /\ input' = Append(input, arrived + 1)
      /\ UNCHANGED <<mode, getters, answer, rank>>
  BY DEF Arrive, State, Typed
<1>2. Append(input, arrived + 1) \in Seq(Nat)  BY <1>1
<1>3. Typed'  BY <1>1, <1>2 DEF State, Typed
<1>4. QED  BY <1>1, <1>3, RanksStay

LEMMA AnswerKeeps ==
  ASSUME Modest, State, Answer PROVE State'
<1>1. /\ input \in Seq(Nat) /\ getters \in Seq(Ranks) /\ answer \in [Ranks -> Nat]
      /\ input # <<>> /\ getters # <<>>
      /\ answer' = [answer EXCEPT ![Head(getters)] = Head(input)]
      /\ input' = Tail(input) /\ getters' = Tail(getters)
      /\ UNCHANGED <<mode, arrived, rank>>
  BY DEF Answer, State, Typed
<1>2. Head(input) \in Nat /\ Tail(input) \in Seq(Nat)  BY <1>1
<1>3. Tail(getters) \in Seq(Ranks)  BY <1>1
<1>4. Typed'  BY <1>1, <1>2, <1>3 DEF State, Typed
<1>5. QED  BY <1>1, <1>4, RanksStay

LEMMA AskKeeps ==
  ASSUME Modest, State, NEW r \in Ranks, Ask(r) PROVE State'
<1>1. /\ getters \in Seq(Ranks) /\ getters' = Append(getters, r)
      /\ UNCHANGED <<mode, arrived, input, answer, rank>>
  BY DEF Ask, State, Typed
<1>2. Append(getters, r) \in Seq(Ranks)  BY <1>1
<1>3. Typed'  BY <1>1, <1>2 DEF State, Typed
<1>4. QED  BY <1>1, <1>3, RanksStay

-----------------------------------------------------------------------------

LEMMA NextHolds ==
  ASSUME Inv, [Next]_vars PROVE Inv'
<1>1. mode' = mode
  <2>1. CASE Arrive \/ Answer \/ AllReduceMin \/ NextStep
    BY <2>1 DEF Arrive, Answer, AllReduceMin, NextStep
  <2>2. CASE \E r \in Ranks : RankNext(r)
    BY <2>2 DEF RankNext, Ask, Take, Filled, EnterReduce, Infer
  <2>3. CASE UNCHANGED vars  BY <2>3 DEF vars
  <2>4. QED  BY <2>1, <2>2, <2>3 DEF Next
<1> SUFFICES ASSUME Modest' PROVE State'  BY DEF Inv
<1>2. Modest  BY <1>1 DEF Modest
<1>3. State  BY <1>2 DEF Inv
<1>4. CASE Arrive  BY <1>2, <1>3, <1>4, ArriveKeeps
<1>5. CASE Answer  BY <1>2, <1>3, <1>5, AnswerKeeps
<1>6. CASE AllReduceMin  BY <1>2, <1>3, <1>6, AllReduceMinKeeps
<1>7. CASE NextStep  BY <1>2, <1>3, <1>7, NextStepKeeps
<1>8. ASSUME NEW r \in Ranks, RankNext(r) PROVE State'
  <2>1. CASE Ask(r)  BY <1>2, <1>3, <2>1, AskKeeps
  <2>2. CASE Take(r)  BY <1>2, <1>3, <2>2, TakeKeeps
  <2>3. CASE Filled(r)  BY <1>2, <1>3, <2>3, FilledKeeps
  <2>4. CASE EnterReduce(r)  BY <1>2, <1>3, <2>4, EnterReduceKeeps
  <2>5. CASE Infer(r)  BY <1>2, <1>3, <2>5, InferKeeps
  <2>6. QED  BY <1>8, <2>1, <2>2, <2>3, <2>4, <2>5 DEF RankNext
<1>9. CASE UNCHANGED vars
  <2>1. Typed'  BY <1>3, <1>9 DEF State, Typed, vars, channelVars
  <2>2. UNCHANGED <<mode, rank>>  BY <1>9 DEF vars
  <2>3. QED  BY <1>3, <2>1, <2>2, RanksStay
<1>10. QED  BY <1>4, <1>5, <1>6, <1>7, <1>8, <1>9 DEF Next

(* The invariant holds for any number of ranks, any share and any           *)
(* configuration that the code accepts.                                     *)
THEOREM InvThm == Spec => []Inv
<1>1. Init => Inv  BY InitHolds
<1>2. Inv /\ [Next]_vars => Inv'  BY NextHolds
<1>3. QED  BY <1>1, <1>2, PTL DEF Spec

LEMMA InvImplies ==
  Inv => (Modest => StopTogether)
<1> SUFFICES ASSUME State, NEW r \in Ranks, NEW s \in Ranks
             PROVE /\ rank[r].call = rank[s].call /\ rank[r].at = "infer"
                         => rank[s].at = "infer"
                   /\ rank[r].call < rank[s].call => rank[r].at = "infer"
  BY DEF Inv, StopTogether
<1>1. Pair(r, s)  BY DEF State
<1>2. QED  BY <1>1 DEF Pair, SameCall, Behind

(* The ranks leave every call of get_dynamic_batch_as_much together, after  *)
(* the same number of all-reduces, in collocated mode and wherever a call   *)
(* in pipeline mode takes two results at most.                              *)
THEOREM StopTogetherThm == Spec => [](Modest => StopTogether)
<1>1. Inv => (Modest => StopTogether)  BY InvImplies
<1>2. QED  BY <1>1, InvThm, PTL

-----------------------------------------------------------------------------
(* Each result is in one place, whatever a call may take.                   *)

(* Where a result can be: at the channel, with the channel's answer, held   *)
(* by a rank, kept by one until its share is done.                          *)
InputsOf(x) == {i \in DOMAIN input : input[i] = x}
AnswersOf(x) == {r \in Ranks : answer[r] = x}
HoldsOf(x) == {h \in Ranks \X (1 .. Share) :
                 h[2] <= Held(h[1]) /\ rank[h[1]].results[h[2]] = x}
CollectsOf(x) == {r \in Ranks : x \in rank[r].collected}

(* In one of four sets, once, or put once; or nowhere at all.               *)
OnlyIn(S, T, U, V, n) == (\E e : S = {e}) /\ T = {} /\ U = {} /\ V = {} /\ n = 0
NowhereIn(S, T, U, V, n) == S = {} /\ T = {} /\ U = {} /\ V = {} /\ n = 0
OnceIn(S, T, U, V, n) ==
  \/ OnlyIn(S, T, U, V, n) \/ OnlyIn(T, S, U, V, n)
  \/ OnlyIn(U, S, T, V, n) \/ OnlyIn(V, S, T, U, n)
  \/ S = {} /\ T = {} /\ U = {} /\ V = {} /\ n = 1

Once(x) == OnceIn(InputsOf(x), AnswersOf(x), HoldsOf(x), CollectsOf(x), output[x])
Nowhere(x) == NowhereIn(InputsOf(x), AnswersOf(x), HoldsOf(x), CollectsOf(x), output[x])
Placed(x) == IF x <= arrived THEN Once(x) ELSE Nowhere(x)

(* A rank never holds more than it may, nor asks when it holds that much;   *)
(* every call infers something, so there are no more calls than results.    *)
Bounded(r) ==
  /\ rank[r].call <= rank[r].total + 1
  /\ rank[r].at # "done" => /\ rank[r].total < Share /\ Held(r) <= MaxLen(r)
                            /\ Asked(r) => Held(r) < MaxLen(r)
  /\ rank[r].at \in Looping => 1 <= Held(r) /\ rank[r].len <= Held(r)
  /\ rank[r].at = "infer" => 1 <= rank[r].len
  /\ rank[r].at = "done" => rank[r].total = Share /\ Held(r) = 0 /\ ~Asked(r)

(* A rank has one get out at most.                                          *)
AskedOnce ==
  \A i, j \in DOMAIN getters :
    answer[getters[i]] = None /\ (getters[i] = getters[j] => i = j)

(* What the ranks have inferred: as many results as they count, all of them *)
(* different, kept or put by now.                                           *)
Past(x) == CollectsOf(x) # {} \/ output[x] = 1
Inferred(f) ==
  /\ f \in [Ranks -> Seq(Results)]
  /\ \A r \in Ranks : Len(f[r]) = rank[r].total
  /\ \A r \in Ranks : \A i \in 1 .. rank[r].total : Past(f[r][i])
  /\ \A r, s \in Ranks : \A i \in 1 .. rank[r].total, j \in 1 .. rank[s].total :
       f[r][i] = f[s][j] => r = s /\ i = j

PlacesInv ==
  /\ TypeOK /\ AskedOnce
  /\ \A r \in Ranks : Bounded(r)
  /\ \A x \in Results : Placed(x)
  /\ \E f : Inferred(f)

-----------------------------------------------------------------------------
(* How many results a step has.                                             *)
LEMMA ResultCount ==
  /\ IsFiniteSet(Ranks) /\ Cardinality(Ranks) \in Nat
  /\ Share \in Nat /\ 1 <= Share
  /\ Share * Cardinality(Ranks) \in Nat
  /\ Results = 1 .. Share * Cardinality(Ranks) /\ IsFiniteSet(Results)
  /\ Cardinality(Results) = Share * Cardinality(Ranks)
<1>1. IsFiniteSet(Ranks) /\ Share \in Nat /\ 1 <= Share  BY ShareAssumption
<1>2. Cardinality(Ranks) \in Nat  BY <1>1, FS_CardinalityType
<1> DEFINE n == Share * Cardinality(Ranks)
<1>3. n \in Nat
  <2>1. \A a, b \in Nat : a * b \in Nat  OBVIOUS
  <2>2. QED  BY <1>1, <1>2, <2>1
<1>4. Results = 1 .. n  BY DEF Results
<1> HIDE DEF n
<1>5. IsFiniteSet(1 .. n) /\ Cardinality(1 .. n) = IF 1 > n THEN 0 ELSE n - 1 + 1
  BY <1>3, FS_Interval
<1>6. Cardinality(1 .. n) = n  BY <1>3, <1>5
<1>7. QED  BY <1>1, <1>2, <1>3, <1>4, <1>5, <1>6 DEF n

(* The limits of a call are positive and leave the share alone.             *)
LEMMA MayTake ==
  ASSUME TypeOK, NEW r \in Ranks, rank[r].total < Share
  PROVE  /\ MinLen(r) \in Nat /\ MaxLen(r) \in Nat
         /\ 1 <= MinLen(r) /\ MinLen(r) <= MaxLen(r)
         /\ MaxLen(r) <= Share - rank[r].total
         /\ MaxLen(r) = Smaller(Share \div mode.split, Share - rank[r].total)
         /\ (Share \div mode.split) \in Nat /\ 1 <= (Share \div mode.split)
<1> DEFINE cap == Share \div mode.split
<1>1. Share \in Nat /\ 1 <= Share  BY ShareAssumption
<1>2. mode.pipeline \in BOOLEAN /\ mode.split \in Nat /\ 1 <= mode.split /\ mode.split <= Share
  BY <1>1, ShareAssumption DEF TypeOK
<1>3. cap \in Nat /\ 1 <= cap  BY <1>1, <1>2, Quotient
<1>4. rank[r].total \in Nat  BY <1>1 DEF TypeOK
<1>5. MaxLen(r) = Smaller(cap, Share - rank[r].total)  BY DEF MaxLen, Remaining
<1>6. MinLen(r) = IF mode.pipeline THEN Smaller(1, Share - rank[r].total) ELSE MaxLen(r)
  BY DEF MinLen, Remaining
<1> HIDE DEF cap
<1>7. /\ MaxLen(r) \in Nat /\ 1 <= MaxLen(r) /\ MaxLen(r) <= Share - rank[r].total
  BY <1>1, <1>3, <1>4, <1>5 DEF Smaller
<1>8. mode.pipeline => MinLen(r) = 1
  BY <1>1, <1>4, <1>6 DEF Smaller
<1>9. QED  BY <1>2, <1>3, <1>5, <1>6, <1>7, <1>8 DEF cap

LEMMA FieldsOf ==
  ASSUME TypeOK, NEW r \in Ranks
  PROVE  /\ rank[r].at \in {"fill", "poll", "reduce", "infer", "done"}
         /\ rank[r].call \in Nat /\ 1 <= rank[r].call
         /\ rank[r].len \in Nat /\ rank[r].total \in Nat /\ rank[r].total <= Share
         /\ rank[r].results \in Seq(Results) /\ Held(r) \in Nat
         /\ DOMAIN rank[r].results = 1 .. Held(r)
         /\ rank[r].collected \in SUBSET Results
<1>1. Share \in Nat  BY ShareAssumption
<1>2. rank[r] \in [at : {"fill", "poll", "reduce", "infer", "done"},
                   call : 1 .. Share + 1, results : Seq(Results),
                   len : 0 .. Share, total : 0 .. Share,
                   collected : SUBSET Results]
  BY DEF TypeOK
<1>3. QED  BY <1>1, <1>2 DEF Held

(* A result that is nowhere else can be in one of the places only.          *)
LEMMA OnceOnly ==
  ASSUME NEW x \in Results, Placed(x)
  PROVE  /\ \A i \in InputsOf(x) : /\ InputsOf(x) = {i} /\ AnswersOf(x) = {}
                                   /\ HoldsOf(x) = {} /\ CollectsOf(x) = {} /\ output[x] = 0
         /\ \A r \in AnswersOf(x) : /\ AnswersOf(x) = {r} /\ InputsOf(x) = {}
                                    /\ HoldsOf(x) = {} /\ CollectsOf(x) = {} /\ output[x] = 0
         /\ \A h \in HoldsOf(x) : /\ HoldsOf(x) = {h} /\ InputsOf(x) = {}
                                  /\ AnswersOf(x) = {} /\ CollectsOf(x) = {} /\ output[x] = 0
         /\ \A r \in CollectsOf(x) : /\ CollectsOf(x) = {r} /\ InputsOf(x) = {}
                                     /\ AnswersOf(x) = {} /\ HoldsOf(x) = {} /\ output[x] = 0
         /\ output[x] \in {0, 1}
         /\ output[x] = 1 => /\ InputsOf(x) = {} /\ AnswersOf(x) = {}
                             /\ HoldsOf(x) = {} /\ CollectsOf(x) = {}
<1> DEFINE S == InputsOf(x)  T == AnswersOf(x)  U == HoldsOf(x)  V == CollectsOf(x)
           n == output[x]
<1>1. OnceIn(S, T, U, V, n) \/ NowhereIn(S, T, U, V, n)
  BY DEF Placed, Once, Nowhere
<1> HIDE DEF S, T, U, V, n
<1>2. /\ \A i \in S : S = {i} /\ T = {} /\ U = {} /\ V = {} /\ n = 0
      /\ \A i \in T : T = {i} /\ S = {} /\ U = {} /\ V = {} /\ n = 0
      /\ \A i \in U : U = {i} /\ S = {} /\ T = {} /\ V = {} /\ n = 0
      /\ \A i \in V : V = {i} /\ S = {} /\ T = {} /\ U = {} /\ n = 0
      /\ n \in {0, 1}
      /\ n = 1 => S = {} /\ T = {} /\ U = {} /\ V = {}
  BY <1>1 DEF OnceIn, OnlyIn, NowhereIn
<1>3. QED  BY <1>2 DEF S, T, U, V, n

(* A result whose places do not change stays where it is.                   *)
LEMMA PlacedStays ==
  ASSUME NEW x, Placed(x), arrived' = arrived,
         InputsOf(x)' = InputsOf(x), AnswersOf(x)' = AnswersOf(x),
         HoldsOf(x)' = HoldsOf(x), CollectsOf(x)' = CollectsOf(x),
         output'[x] = output[x]
  PROVE  Placed(x)'
  BY DEF Placed, Once, Nowhere

LEMMA PlacesOfOnce ==
  ASSUME NEW S, NEW T, NEW U, NEW V, NEW n
  PROVE  /\ OnceIn(S, T, U, V, n) =>
              Cardinality(S) + Cardinality(T) + Cardinality(U) + Cardinality(V) + n = 1
         /\ NowhereIn(S, T, U, V, n) =>
              Cardinality(S) + Cardinality(T) + Cardinality(U) + Cardinality(V) + n = 0
<1>1. Cardinality({}) = 0  BY FS_EmptySet
<1>2. \A W : (\E e : W = {e}) => Cardinality(W) = 1  BY FS_Singleton
<1> DEFINE s == Cardinality(S)  t == Cardinality(T)  u == Cardinality(U)  v == Cardinality(V)
<1>3. /\ OnlyIn(S, T, U, V, n) => s = 1 /\ t = 0 /\ u = 0 /\ v = 0 /\ n = 0
      /\ OnlyIn(T, S, U, V, n) => s = 0 /\ t = 1 /\ u = 0 /\ v = 0 /\ n = 0
      /\ OnlyIn(U, S, T, V, n) => s = 0 /\ t = 0 /\ u = 1 /\ v = 0 /\ n = 0
      /\ OnlyIn(V, S, T, U, n) => s = 0 /\ t = 0 /\ u = 0 /\ v = 1 /\ n = 0
      /\ NowhereIn(S, T, U, V, n) => s = 0 /\ t = 0 /\ u = 0 /\ v = 0 /\ n = 0
  BY <1>1, <1>2 DEF OnlyIn, NowhereIn
<1>4. S = {} /\ T = {} /\ U = {} /\ V = {} => s = 0 /\ t = 0 /\ u = 0 /\ v = 0
  BY <1>1
<1> HIDE DEF s, t, u, v
<1>5. OnceIn(S, T, U, V, n) => s + t + u + v + n = 1
  BY <1>3, <1>4 DEF OnceIn
<1>6. NowhereIn(S, T, U, V, n) => s + t + u + v + n = 0
  BY <1>3
<1>7. QED  BY <1>5, <1>6 DEF s, t, u, v

LEMMA PlacesImply ==
  PlacesInv => EachResultOnce
<1> SUFFICES ASSUME PlacesInv PROVE EachResultOnce
  OBVIOUS
<1>1. ASSUME NEW x \in Results PROVE Places(x) = IF x <= arrived THEN 1 ELSE 0
  <2>1. Placed(x)  BY DEF PlacesInv
  <2> DEFINE S == InputsOf(x)  T == AnswersOf(x)  U == HoldsOf(x)  V == CollectsOf(x)
             n == output[x]
  <2>2. Places(x) = Cardinality(S) + Cardinality(T) + Cardinality(U) + Cardinality(V) + n
    BY DEF Places, InputsOf, AnswersOf, HoldsOf, CollectsOf
  <2>3. IF x <= arrived THEN OnceIn(S, T, U, V, n) ELSE NowhereIn(S, T, U, V, n)
    BY <2>1 DEF Placed, Once, Nowhere
  <2> HIDE DEF S, T, U, V, n
  <2>4. QED  BY <2>2, <2>3, PlacesOfOnce
<1>2. ASSUME NEW r \in Ranks, rank[r].at = "done"
      PROVE  rank[r].total = Share /\ Held(r) = 0 /\ ~Asked(r)
  BY <1>2 DEF PlacesInv, Bounded
<1>3. QED  BY <1>1, <1>2 DEF EachResultOnce, PlacesInv

-----------------------------------------------------------------------------
(* The channel's steps, and a get.                                          *)

(* Nothing that the ranks know changes, and none of them asks.              *)
LEMMA BoundedStays ==
  ASSUME NEW r, Bounded(r), mode' = mode, rank'[r] = rank[r], Asked(r)' => Asked(r)
  PROVE  Bounded(r)'
<1>1. MaxLen(r)' = MaxLen(r)  BY LimitsStay
<1>2. Held(r)' = Held(r)  BY DEF Held
<1>3. QED  BY <1>1, <1>2 DEF Bounded

LEMMA InferredKept ==
  ASSUME NEW f, Inferred(f), \A r \in Ranks : rank'[r].total = rank[r].total,
         \A x : Past(x) => Past(x)'
  PROVE  Inferred(f)'
<1>1. f \in [Ranks -> Seq(Results)]  BY DEF Inferred
<1>2. \A r \in Ranks : Len(f[r]) = rank'[r].total  BY DEF Inferred
<1>3. ASSUME NEW r \in Ranks, NEW i \in 1 .. rank'[r].total PROVE Past(f[r][i])'
  <2>1. Past(f[r][i])  BY <1>3 DEF Inferred
  <2>2. QED  BY <2>1
<1>4. ASSUME NEW r \in Ranks, NEW s \in Ranks,
             NEW i \in 1 .. rank'[r].total, NEW j \in 1 .. rank'[s].total,
             f[r][i] = f[s][j]
      PROVE  r = s /\ i = j
  <2>1. i \in 1 .. rank[r].total /\ j \in 1 .. rank[s].total  OBVIOUS
  <2>2. QED  BY <1>4, <2>1 DEF Inferred
<1>5. QED  BY <1>1, <1>2, <1>3, <1>4 DEF Inferred

LEMMA InferredStays ==
  ASSUME NEW f, Inferred(f), rank' = rank, output' = output
  PROVE  Inferred(f)'
<1>1. \A x : Past(x) => Past(x)'  BY DEF Past, CollectsOf
<1>2. QED  BY <1>1, InferredKept

LEMMA ArrivePlaces ==
  ASSUME PlacesInv, Arrive PROVE PlacesInv'
<1>1. /\ TypeOK /\ AskedOnce
      /\ arrived < Cardinality(Results) /\ arrived' = arrived + 1
      /\ input' = Append(input, arrived + 1)
      /\ mode' = mode /\ getters' = getters /\ answer' = answer /\ rank' = rank
      /\ output' = output
  BY DEF Arrive, PlacesInv
<1>2. /\ Cardinality(Results) \in Nat /\ Results = 1 .. Cardinality(Results)
  BY ResultCount
<1>3. arrived \in Nat /\ arrived + 1 \in Results /\ arrived' \in 0 .. Cardinality(Results)
  BY <1>1, <1>2 DEF TypeOK
<1>4. /\ input' \in Seq(Results)
      /\ DOMAIN input' = 1 .. Len(input) + 1 /\ DOMAIN input = 1 .. Len(input)
      /\ \A i \in DOMAIN input : input'[i] = input[i]
      /\ input'[Len(input) + 1] = arrived + 1
      /\ Len(input) \in Nat
  BY <1>1, <1>3, AppendToSeq DEF TypeOK
<1>5. TypeOK'  BY <1>1, <1>3, <1>4 DEF TypeOK
<1>6. AskedOnce'  BY <1>1 DEF AskedOnce
<1>7. \A r \in Ranks : Bounded(r)'
  <2>1. ASSUME NEW r \in Ranks PROVE Bounded(r)'
    <3>1. Bounded(r)  BY DEF PlacesInv
    <3>2. Asked(r)' => Asked(r)  BY <1>1 DEF Asked
    <3>3. QED  BY <1>1, <3>1, <3>2, BoundedStays
  <2>2. QED  BY <2>1
<1>8. ASSUME NEW x \in Results PROVE Placed(x)'
  <2>1. Placed(x)  BY DEF PlacesInv
  <2>2. /\ AnswersOf(x)' = AnswersOf(x) /\ HoldsOf(x)' = HoldsOf(x)
        /\ CollectsOf(x)' = CollectsOf(x)
    BY <1>1 DEF AnswersOf, HoldsOf, CollectsOf, Held
  <2>3. x \in Nat  BY <1>2
  <2>4. CASE x = arrived + 1
    <3>1. Nowhere(x)  BY <1>3, <2>1, <2>4 DEF Placed
    <3>2. InputsOf(x)' = {Len(input) + 1}
      <4>1. InputsOf(x) = {}  BY <3>1 DEF Nowhere, NowhereIn
      <4>2. \A i \in DOMAIN input : input[i] # x  BY <4>1 DEF InputsOf
      <4>3. QED  BY <1>4, <2>4, <4>2 DEF InputsOf
    <3>3. Once(x)'
      BY <1>1, <2>2, <3>1, <3>2 DEF Nowhere, NowhereIn, Once, OnceIn, OnlyIn
    <3>4. x <= arrived'  BY <1>1, <1>3, <2>4
    <3>5. QED  BY <3>3, <3>4 DEF Placed
  <2>5. CASE x # arrived + 1
    <3>1. InputsOf(x)' = InputsOf(x)  BY <1>4, <2>5 DEF InputsOf
    <3>2. x <= arrived' <=> x <= arrived  BY <1>1, <1>3, <2>3, <2>5
    <3>3. QED  BY <1>1, <2>1, <2>2, <3>1, <3>2 DEF Placed, Once, Nowhere
  <2>6. QED  BY <2>4, <2>5
<1>9. \E f : Inferred(f)'
  <2>1. PICK f : Inferred(f)  BY DEF PlacesInv
  <2>2. Inferred(f)'  BY <1>1, <2>1, InferredStays
  <2>3. QED  BY <2>2
<1>10. QED  BY <1>5, <1>6, <1>7, <1>8, <1>9 DEF PlacesInv

LEMMA AnswerPlaces ==
  ASSUME PlacesInv, Answer PROVE PlacesInv'
<1> DEFINE h == Head(getters)  y == Head(input)
<1>1. /\ TypeOK /\ AskedOnce /\ input # <<>> /\ getters # <<>>
      /\ answer' = [answer EXCEPT ![h] = y]
      /\ input' = Tail(input) /\ getters' = Tail(getters)
      /\ mode' = mode /\ arrived' = arrived /\ rank' = rank /\ output' = output
  BY DEF Answer, PlacesInv
<1>2. /\ input' \in Seq(Results) /\ y \in Results /\ y = input[1]
      /\ Len(input) \in Nat /\ 1 \in DOMAIN input
      /\ DOMAIN input = 1 .. Len(input) /\ DOMAIN input' = 1 .. Len(input) - 1
      /\ \A i \in DOMAIN input' : i + 1 \in DOMAIN input /\ input'[i] = input[i + 1]
  BY <1>1, TailOfSeq DEF TypeOK
<1>3. /\ getters' \in Seq(Ranks) /\ h \in Ranks /\ h = getters[1]
      /\ Len(getters) \in Nat /\ 1 \in DOMAIN getters
      /\ DOMAIN getters = 1 .. Len(getters) /\ DOMAIN getters' = 1 .. Len(getters) - 1
      /\ \A i \in DOMAIN getters' : i + 1 \in DOMAIN getters /\ getters'[i] = getters[i + 1]
  BY <1>1, TailOfSeq DEF TypeOK
<1> HIDE DEF h, y
<1>4. answer[h] = None  BY <1>1, <1>3 DEF AskedOnce
<1>5. y # None  BY <1>2, ResultCount DEF None
<1>6. /\ answer' \in [Ranks -> Results \cup {None}] /\ answer'[h] = y
      /\ \A r \in Ranks : r # h => answer'[r] = answer[r]
  BY <1>1, <1>2, <1>3 DEF TypeOK
<1>7. TypeOK'  BY <1>1, <1>2, <1>3, <1>6 DEF TypeOK
<1>8. AskedOnce'
  <2>1. ASSUME NEW i \in DOMAIN getters', NEW j \in DOMAIN getters'
        PROVE  answer'[getters'[i]] = None /\ (getters'[i] = getters'[j] => i = j)
    <3>1. /\ i + 1 \in DOMAIN getters /\ j + 1 \in DOMAIN getters /\ i \in Nat /\ j \in Nat
          /\ getters'[i] = getters[i + 1] /\ getters'[j] = getters[j + 1] /\ 1 <= i
      BY <1>3
    <3>2. getters[i + 1] # getters[1]  BY <1>1, <1>3, <3>1 DEF AskedOnce
    <3>3. getters[i + 1] \in Ranks  BY <1>1, <3>1 DEF TypeOK
    <3>4. answer'[getters[i + 1]] = None
      BY <1>1, <1>3, <1>6, <3>1, <3>2, <3>3 DEF AskedOnce
    <3>5. getters[i + 1] = getters[j + 1] => i + 1 = j + 1  BY <1>1, <3>1 DEF AskedOnce
    <3>6. QED  BY <3>1, <3>4, <3>5
  <2>2. QED  BY <2>1 DEF AskedOnce
<1>9. ASSUME NEW r \in Ranks PROVE Bounded(r)'
  <2>1. Bounded(r)  BY DEF PlacesInv
  <2>2. Asked(r)' => Asked(r)
    <3>1. CASE r = h
      BY <1>3, <3>1 DEF Asked
    <3>2. CASE r # h
      <4>1. answer'[r] = answer[r]  BY <1>6, <3>2
      <4>2. (\E i \in DOMAIN getters' : getters'[i] = r)
              => \E i \in DOMAIN getters : getters[i] = r
        BY <1>3
      <4>3. QED  BY <4>1, <4>2 DEF Asked
    <3>3. QED  BY <3>1, <3>2
  <2>3. QED  BY <1>1, <2>1, <2>2, BoundedStays
<1>10. ASSUME NEW x \in Results PROVE Placed(x)'
  <2>1. Placed(x)  BY DEF PlacesInv
  <2>2. HoldsOf(x)' = HoldsOf(x) /\ CollectsOf(x)' = CollectsOf(x)
    BY <1>1 DEF HoldsOf, CollectsOf, Held
  <2>3. CASE x = y
    <3>1. 1 \in InputsOf(x)  BY <1>2, <2>3 DEF InputsOf
    <3>2. /\ InputsOf(x) = {1} /\ AnswersOf(x) = {} /\ HoldsOf(x) = {}
          /\ CollectsOf(x) = {} /\ output[x] = 0
      BY <2>1, <3>1, OnceOnly
    <3>3. \A i \in DOMAIN input : input[i] = x => i = 1  BY <3>2 DEF InputsOf
    <3>4. InputsOf(x)' = {}
      <4>1. ASSUME NEW i \in DOMAIN input', input'[i] = x PROVE FALSE
        <5>1. i + 1 = 1 /\ i \in Nat /\ 1 <= i  BY <1>2, <3>3, <4>1
        <5>2. QED  BY <5>1
      <4>2. QED  BY <4>1 DEF InputsOf
    <3>5. AnswersOf(x)' = {h}
      <4>1. \A r \in Ranks : answer[r] # x  BY <3>2 DEF AnswersOf
      <4>2. QED  BY <1>3, <1>6, <2>3, <4>1 DEF AnswersOf
    <3>6. Once(x)'
      BY <1>1, <2>2, <3>2, <3>4, <3>5 DEF Once, OnceIn, OnlyIn
    <3>7. x <= arrived'
      <4>1. ~Nowhere(x)  BY <3>1 DEF Nowhere, NowhereIn
      <4>2. QED  BY <1>1, <2>1, <4>1 DEF Placed
    <3>8. QED  BY <3>6, <3>7 DEF Placed
  <2>4. CASE x # y
    <3>1. AnswersOf(x)' = AnswersOf(x)
      <4>1. x # None  BY ResultCount DEF None
      <4>2. QED  BY <1>3, <1>4, <1>6, <2>4, <4>1 DEF AnswersOf
    <3>3. \A i : i \in InputsOf(x)' <=> i \in Nat /\ i + 1 \in InputsOf(x)
      <4>1. ASSUME NEW i, i \in InputsOf(x)' PROVE i \in Nat /\ i + 1 \in InputsOf(x)
        BY <1>2, <4>1 DEF InputsOf
      <4>2. ASSUME NEW i \in Nat, i + 1 \in InputsOf(x) PROVE i \in InputsOf(x)'
        <5>1. i + 1 \in 1 .. Len(input) /\ input[i + 1] = x  BY <1>2, <4>2 DEF InputsOf
        <5>2. i + 1 # 1  BY <1>2, <2>4, <5>1
        <5>3. i \in DOMAIN input'  BY <1>2, <5>1, <5>2
        <5>4. QED  BY <1>2, <5>1, <5>3 DEF InputsOf
      <4>3. QED  BY <4>1, <4>2
    <3>4. CASE InputsOf(x) = {}
      <4>1. InputsOf(x)' = {}  BY <3>3, <3>4
      <4>2. QED  BY <1>1, <2>1, <2>2, <3>1, <3>4, <4>1, PlacedStays
    <3>5. CASE InputsOf(x) # {}
      <4>1. PICK k \in InputsOf(x) : TRUE  BY <3>5
      <4>2. /\ InputsOf(x) = {k} /\ AnswersOf(x) = {} /\ HoldsOf(x) = {}
            /\ CollectsOf(x) = {} /\ output[x] = 0
        BY <2>1, <4>1, OnceOnly
      <4>3. k \in 1 .. Len(input) /\ input[k] = x  BY <1>2, <4>1 DEF InputsOf
      <4>4. k - 1 \in Nat  BY <1>2, <4>3
      <4>5. InputsOf(x)' = {k - 1}
        <5>1. \A i : i \in InputsOf(x)' <=> i = k - 1
          BY <1>2, <3>3, <4>2, <4>3, <4>4
        <5>2. QED  BY <5>1
      <4>6. Once(x)'
        BY <1>1, <2>2, <3>1, <4>2, <4>5 DEF Once, OnceIn, OnlyIn
      <4>7. x <= arrived'
        <5>1. ~Nowhere(x)  BY <3>5 DEF Nowhere, NowhereIn
        <5>2. QED  BY <1>1, <2>1, <5>1 DEF Placed
      <4>8. QED  BY <4>6, <4>7 DEF Placed
    <3>6. QED  BY <3>4, <3>5
  <2>5. QED  BY <2>3, <2>4
<1>11. \E f : Inferred(f)'
  <2>1. PICK f : Inferred(f)  BY DEF PlacesInv
  <2>2. Inferred(f)'  BY <1>1, <2>1, InferredStays
  <2>3. QED  BY <2>2
<1>12. QED  BY <1>7, <1>8, <1>9, <1>10, <1>11 DEF PlacesInv

LEMMA AskPlaces ==
  ASSUME PlacesInv, NEW r \in Ranks, Ask(r) PROVE PlacesInv'
<1>1. /\ TypeOK /\ AskedOnce /\ ~Asked(r)
      /\ \/ rank[r].at = "fill" /\ Held(r) < MinLen(r)
         \/ rank[r].at = "poll" /\ Held(r) < MaxLen(r)
      /\ getters' = Append(getters, r)
      /\ mode' = mode /\ arrived' = arrived /\ input' = input /\ answer' = answer
      /\ rank' = rank /\ output' = output
  BY DEF Ask, PlacesInv
<1>2. /\ getters' \in Seq(Ranks) /\ Len(getters) \in Nat
      /\ DOMAIN getters' = 1 .. Len(getters) + 1 /\ DOMAIN getters = 1 .. Len(getters)
      /\ \A i \in DOMAIN getters : getters'[i] = getters[i]
      /\ getters'[Len(getters) + 1] = r
  <2>1. getters \in Seq(Ranks) /\ Len(getters) \in Nat  BY <1>1 DEF TypeOK
  <2>2. QED  BY <1>1, <2>1, AppendToSeq
<1>3. TypeOK'  BY <1>1, <1>2 DEF TypeOK
<1>4. answer[r] = None /\ \A i \in DOMAIN getters : getters[i] # r
  BY <1>1 DEF Asked
<1>5. AskedOnce'
  <2>1. ASSUME NEW i \in DOMAIN getters', NEW j \in DOMAIN getters'
        PROVE  answer'[getters'[i]] = None /\ (getters'[i] = getters'[j] => i = j)
    <3>1. i \in DOMAIN getters \/ i = Len(getters) + 1  BY <1>2
    <3>2. j \in DOMAIN getters \/ j = Len(getters) + 1  BY <1>2
    <3>3. QED  BY <1>1, <1>2, <1>4, <3>1, <3>2 DEF AskedOnce
  <2>2. QED  BY <2>1 DEF AskedOnce
<1>6. ASSUME NEW s \in Ranks PROVE Bounded(s)'
  <2>1. Bounded(s)  BY DEF PlacesInv
  <2>2. CASE s # r
    <3>1. Asked(s)' => Asked(s)
      <4>1. (\E i \in DOMAIN getters' : getters'[i] = s)
              => \E i \in DOMAIN getters : getters[i] = s
        BY <1>2, <2>2
      <4>2. QED  BY <1>1, <4>1 DEF Asked
    <3>2. QED  BY <1>1, <2>1, <3>1, BoundedStays
  <2>3. CASE s = r
    <3>1. rank[r].total < Share  BY <1>1, <2>1, <2>3 DEF Bounded
    <3>2. MinLen(r) \in Nat /\ MaxLen(r) \in Nat /\ MinLen(r) <= MaxLen(r)
      BY <1>1, <3>1, MayTake
    <3>3. Held(r) \in Nat  BY <1>1, FieldsOf
    <3>4. Held(r) < MaxLen(r)  BY <1>1, <3>2, <3>3
    <3>5. MaxLen(r)' = MaxLen(r)  BY <1>1, LimitsStay
    <3>6. Held(r)' = Held(r)  BY <1>1 DEF Held
    <3>7. rank[r].at # "done"  BY <1>1
    <3>8. QED  BY <1>1, <2>1, <2>3, <3>4, <3>5, <3>6, <3>7 DEF Bounded
  <2>4. QED  BY <2>2, <2>3
<1>7. ASSUME NEW x \in Results PROVE Placed(x)'
  <2>1. Placed(x)  BY DEF PlacesInv
  <2>2. /\ InputsOf(x)' = InputsOf(x) /\ AnswersOf(x)' = AnswersOf(x)
        /\ HoldsOf(x)' = HoldsOf(x) /\ CollectsOf(x)' = CollectsOf(x)
    BY <1>1 DEF InputsOf, AnswersOf, HoldsOf, CollectsOf, Held
  <2>3. QED  BY <1>1, <2>1, <2>2, PlacedStays
<1>8. \E f : Inferred(f)'
  <2>1. PICK f : Inferred(f)  BY DEF PlacesInv
  <2>2. Inferred(f)'  BY <1>1, <2>1, InferredStays
  <2>3. QED  BY <2>2
<1>9. QED  BY <1>3, <1>5, <1>6, <1>7, <1>8 DEF PlacesInv

-----------------------------------------------------------------------------
(* Steps of a call that move no result.                                     *)
LEMMA ResultsStay ==
  ASSUME PlacesInv, TypeOK', UNCHANGED <<mode, channelVars, output>>,
         \A r \in Ranks : /\ rank'[r].results = rank[r].results
                          /\ rank'[r].collected = rank[r].collected
                          /\ rank'[r].total = rank[r].total
                          /\ Bounded(r)'
  PROVE  PlacesInv'
<1>1. /\ mode' = mode /\ arrived' = arrived /\ input' = input /\ getters' = getters
      /\ answer' = answer /\ output' = output
  BY DEF channelVars
<1>2. AskedOnce'  BY <1>1 DEF PlacesInv, AskedOnce
<1>3. ASSUME NEW x
      PROVE  /\ InputsOf(x)' = InputsOf(x) /\ AnswersOf(x)' = AnswersOf(x)
             /\ HoldsOf(x)' = HoldsOf(x) /\ CollectsOf(x)' = CollectsOf(x)
  <2>1. InputsOf(x)' = InputsOf(x) /\ AnswersOf(x)' = AnswersOf(x)
    BY <1>1 DEF InputsOf, AnswersOf
  <2>2. CollectsOf(x)' = CollectsOf(x)  BY DEF CollectsOf
  <2>3. HoldsOf(x)' = HoldsOf(x)
    <3>1. \A h \in Ranks \X (1 .. Share) :
            Held(h[1])' = Held(h[1]) /\ rank'[h[1]].results = rank[h[1]].results
      BY DEF Held
    <3>2. QED  BY <3>1 DEF HoldsOf
  <2>4. QED  BY <2>1, <2>2, <2>3
<1>4. ASSUME NEW x \in Results PROVE Placed(x)'
  <2>1. Placed(x)  BY DEF PlacesInv
  <2>2. QED  BY <1>1, <1>3, <2>1, PlacedStays
<1>5. \E f : Inferred(f)'
  <2>1. PICK f : Inferred(f)  BY DEF PlacesInv
  <2>2. \A x : Past(x) => Past(x)'  BY <1>1, <1>3 DEF Past
  <2>3. Inferred(f)'  BY <2>1, <2>2, InferredKept
  <2>4. QED  BY <2>3
<1>6. QED  BY <1>2, <1>4, <1>5 DEF PlacesInv

LEMMA FilledPlaces ==
  ASSUME PlacesInv, NEW r \in Ranks, Filled(r) PROVE PlacesInv'
<1>1. /\ TypeOK /\ rank[r].at = "fill" /\ Held(r) >= MinLen(r)
      /\ rank' = [rank EXCEPT ![r].at = "poll", ![r].len = Held(r)]
      /\ UNCHANGED <<mode, channelVars, output>>
  BY DEF Filled, PlacesInv
<1>2. Bounded(r) /\ rank[r].total < Share  BY <1>1 DEF Bounded, PlacesInv
<1>3. /\ MinLen(r) \in Nat /\ MaxLen(r) \in Nat /\ 1 <= MinLen(r)
      /\ MaxLen(r) <= Share - rank[r].total
  BY <1>1, <1>2, MayTake
<1>4. /\ Held(r) \in Nat /\ rank[r].total \in Nat /\ Share \in Nat
  BY <1>1, FieldsOf, ShareAssumption
<1>5. Held(r) <= MaxLen(r)  BY <1>1, <1>2 DEF Bounded
<1>6. Held(r) \in 0 .. Share /\ 1 <= Held(r)  BY <1>1, <1>3, <1>4, <1>5
<1>7. TypeOK'  BY <1>1, <1>6 DEF TypeOK, channelVars
<1>8. /\ rank'[r].at = "poll" /\ rank'[r].len = Held(r)
      /\ rank'[r].call = rank[r].call /\ rank'[r].total = rank[r].total
      /\ rank'[r].results = rank[r].results /\ rank'[r].collected = rank[r].collected
      /\ \A s \in Ranks : s # r => rank'[s] = rank[s]
  BY <1>1 DEF TypeOK
<1>9. ASSUME NEW s \in Ranks PROVE Bounded(s)'
  <2>1. Bounded(s)  BY DEF PlacesInv
  <2>2. Asked(s)' = Asked(s)  BY <1>1 DEF Asked, channelVars
  <2>3. CASE s # r  BY <1>1, <1>8, <2>1, <2>2, <2>3, BoundedStays
  <2>4. CASE s = r
    <3>1. MaxLen(r)' = MaxLen(r)  BY <1>1, <1>8, LimitsStay
    <3>2. Held(r)' = Held(r)  BY <1>8 DEF Held
    <3>3. QED  BY <1>1, <1>2, <1>4, <1>6, <1>8, <2>2, <2>4, <3>1, <3>2 DEF Bounded, Looping
  <2>5. QED  BY <2>3, <2>4
<1>10. \A s \in Ranks : /\ rank'[s].results = rank[s].results
                        /\ rank'[s].collected = rank[s].collected
                        /\ rank'[s].total = rank[s].total
                        /\ Bounded(s)'
  BY <1>8, <1>9
<1>11. QED  BY <1>1, <1>7, <1>10, ResultsStay

LEMMA EnterReducePlaces ==
  ASSUME PlacesInv, NEW r \in Ranks, EnterReduce(r) PROVE PlacesInv'
<1>1. /\ TypeOK /\ rank[r].at = "poll"
      /\ rank' = [rank EXCEPT ![r].at = "reduce"]
      /\ UNCHANGED <<mode, channelVars, output>>
  BY DEF EnterReduce, PlacesInv
<1>2. TypeOK'  BY <1>1 DEF TypeOK, channelVars
<1>3. /\ rank'[r].at = "reduce" /\ rank'[r].len = rank[r].len
      /\ rank'[r].call = rank[r].call /\ rank'[r].total = rank[r].total
      /\ rank'[r].results = rank[r].results /\ rank'[r].collected = rank[r].collected
      /\ \A s \in Ranks : s # r => rank'[s] = rank[s]
  BY <1>1 DEF TypeOK
<1>4. ASSUME NEW s \in Ranks PROVE Bounded(s)'
  <2>1. Bounded(s)  BY DEF PlacesInv
  <2>2. Asked(s)' = Asked(s)  BY <1>1 DEF Asked, channelVars
  <2>3. CASE s # r  BY <1>1, <1>3, <2>1, <2>2, <2>3, BoundedStays
  <2>4. CASE s = r
    <3>1. MaxLen(r)' = MaxLen(r)  BY <1>1, <1>3, LimitsStay
    <3>2. Held(r)' = Held(r)  BY <1>3 DEF Held
    <3>3. QED  BY <1>1, <1>3, <2>1, <2>2, <2>4, <3>1, <3>2 DEF Bounded, Looping
  <2>5. QED  BY <2>3, <2>4
<1>5. \A s \in Ranks : /\ rank'[s].results = rank[s].results
                       /\ rank'[s].collected = rank[s].collected
                       /\ rank'[s].total = rank[s].total
                       /\ Bounded(s)'
  BY <1>3, <1>4
<1>6. QED  BY <1>1, <1>2, <1>5, ResultsStay

LEMMA SmallestOf ==
  ASSUME NEW S \in SUBSET Nat, S # {}
  PROVE  \E n \in S : \A m \in S : n <= m
<1>1. PICK n \in S : \A m \in S : ~(<<m, n>> \in OpToRel(<, Nat))
  BY NatLessThanWellFounded, WFMin
<1>2. ASSUME NEW m \in S PROVE n <= m
  <2>1. m \in Nat /\ n \in Nat  OBVIOUS
  <2>2. ~(m < n)  BY <1>1, <2>1 DEF OpToRel
  <2>3. QED  BY <2>1, <2>2
<1>3. QED  BY <1>2

LEMMA LeastIsHeld ==
  ASSUME TypeOK
  PROVE  (\E o \in Ranks : Least = Held(o)) /\ \A r \in Ranks : Least <= Held(r)
<1> DEFINE S == {Held(r) : r \in Ranks}
<1>1. S \in SUBSET Nat  BY FieldsOf
<1>2. S # {}  BY ShareAssumption
<1>3. \E n \in S : \A m \in S : n <= m  BY <1>1, <1>2, SmallestOf
<1>4. \E n \in S : \A r \in Ranks : n <= Held(r)  BY <1>3
<1>5. Least \in S /\ \A r \in Ranks : Least <= Held(r)
  BY <1>4 DEF Least
<1>6. QED  BY <1>5

LEMMA AllReducePlaces ==
  ASSUME PlacesInv, AllReduceMin PROVE PlacesInv'
<1>1. /\ TypeOK /\ \A r \in Ranks : rank[r].at = "reduce"
      /\ rank' = [r \in Ranks |->
                    [rank[r] EXCEPT !.at = IF rank[r].len < Least THEN "poll" ELSE "infer",
                                    !.len = Least]]
      /\ UNCHANGED <<mode, channelVars, output>>
  BY DEF AllReduceMin, PlacesInv
<1>2. PICK o \in Ranks : Least = Held(o)  BY <1>1, LeastIsHeld
<1>3. \A r \in Ranks : Least <= Held(r)  BY <1>1, LeastIsHeld
<1>4. ASSUME NEW r \in Ranks
      PROVE  /\ Held(r) \in Nat /\ 1 <= Held(r) /\ Held(r) <= Share
             /\ Bounded(r) /\ rank[r].total < Share
  <2>1. Bounded(r) /\ rank[r].at = "reduce"  BY <1>1 DEF PlacesInv
  <2>2. rank[r].total < Share /\ 1 <= Held(r) /\ Held(r) <= MaxLen(r)
    BY <2>1 DEF Bounded, Looping
  <2>3. MaxLen(r) \in Nat /\ MaxLen(r) <= Share - rank[r].total  BY <1>1, <2>2, MayTake
  <2>4. Held(r) \in Nat /\ rank[r].total \in Nat /\ Share \in Nat
    BY <1>1, FieldsOf, ShareAssumption
  <2>5. QED  BY <2>1, <2>2, <2>3, <2>4
<1>5. Least \in 0 .. Share /\ 1 <= Least  BY <1>2, <1>4, ShareAssumption
<1>6. TypeOK'
  <2>1. rank' \in [Ranks -> [at : {"fill", "poll", "reduce", "infer", "done"},
                         call : 1 .. Share + 1, results : Seq(Results),
                         len : 0 .. Share, total : 0 .. Share,
                         collected : SUBSET Results]]
    <3> DEFINE States == [at : {"fill", "poll", "reduce", "infer", "done"},
                          call : 1 .. Share + 1, results : Seq(Results),
                          len : 0 .. Share, total : 0 .. Share,
                          collected : SUBSET Results]
               at(r) == IF rank[r].len < Least THEN "poll" ELSE "infer"
    <3>1. rank \in [Ranks -> States]  BY <1>1 DEF TypeOK
    <3>2. rank' = [r \in Ranks |-> [rank[r] EXCEPT !.at = at(r), !.len = Least]]
      BY <1>1
    <3>3. \A r \in Ranks : at(r) \in {"fill", "poll", "reduce", "infer", "done"}
      OBVIOUS
    <3> HIDE DEF at
    <3>4. \A r \in Ranks : [rank[r] EXCEPT !.at = at(r), !.len = Least] \in States
      BY <1>5, <3>1, <3>3
    <3> HIDE DEF States
    <3>5. rank' \in [Ranks -> States]  BY <3>2, <3>4
    <3>6. QED  BY <3>5 DEF States
  <2>2. QED  BY <1>1, <2>1 DEF TypeOK, channelVars
<1>7. ASSUME NEW r \in Ranks
      PROVE  /\ rank'[r].at = IF rank[r].len < Least THEN "poll" ELSE "infer"
             /\ rank'[r].len = Least /\ rank'[r].call = rank[r].call
             /\ rank'[r].results = rank[r].results
             /\ rank'[r].collected = rank[r].collected
             /\ rank'[r].total = rank[r].total
  BY <1>1 DEF TypeOK
<1>8. ASSUME NEW r \in Ranks PROVE Bounded(r)'
  <2>1. Asked(r)' = Asked(r)  BY <1>1 DEF Asked, channelVars
  <2>2. MaxLen(r)' = MaxLen(r)  BY <1>1, <1>7, LimitsStay
  <2>3. Held(r)' = Held(r)  BY <1>7 DEF Held
  <2>4. Bounded(r) /\ rank[r].at = "reduce" /\ Least <= Held(r)  BY <1>1, <1>3, <1>4
  <2>5. rank'[r].at \in {"poll", "infer"}  BY <1>7
  <2>6. QED  BY <1>5, <1>7, <2>1, <2>2, <2>3, <2>4, <2>5 DEF Bounded, Looping
<1>9. QED  BY <1>1, <1>6, <1>7, <1>8, ResultsStay

-----------------------------------------------------------------------------
(* A result is taken.                                                       *)
LEMMA TakePlaces ==
  ASSUME PlacesInv, NEW r \in Ranks, Take(r) PROVE PlacesInv'
<1> DEFINE y == answer[r]  more == Append(rank[r].results, y)  n == Held(r) + 1
<1>1. TypeOK /\ AskedOnce /\ Bounded(r) /\ y # None  BY DEF PlacesInv, Take
<1>2. PICK at \in {"fill", "poll", "reduce"} :
        /\ rank' = [rank EXCEPT ![r].results = more, ![r].at = at]
        /\ \/ rank[r].at = "fill" /\ at = "fill" /\ Held(r) < MinLen(r)
           \/ rank[r].at = "poll" /\ at \in {"poll", "reduce"} /\ Held(r) < MaxLen(r)
  <2>1. CASE rank[r].at = "fill"
    <3>1. /\ Held(r) < MinLen(r) /\ rank' = [rank EXCEPT ![r].results = more]
      BY <2>1 DEF Take
    <3>2. rank' = [rank EXCEPT ![r].results = more, ![r].at = "fill"]
      BY <1>1, <2>1, <3>1 DEF TypeOK
    <3>3. QED  BY <2>1, <3>1, <3>2
  <2>2. CASE rank[r].at # "fill"
    BY <2>2 DEF Take
  <2>3. QED  BY <2>1, <2>2
<1>3. /\ mode' = mode /\ answer' = [answer EXCEPT ![r] = None] /\ arrived' = arrived
      /\ input' = input /\ getters' = getters /\ output' = output
  BY DEF Take
<1>4. /\ y \in Results /\ rank[r].results \in Seq(Results) /\ Held(r) \in Nat
      /\ DOMAIN rank[r].results = 1 .. Held(r) /\ rank[r].total \in Nat /\ rank[r].len \in Nat
      /\ Share \in Nat
  BY <1>1, FieldsOf, ShareAssumption DEF TypeOK
<1>5. /\ more \in Seq(Results) /\ Len(more) = n
      /\ \A i \in 1 .. Held(r) : more[i] = rank[r].results[i]
      /\ more[n] = y
  BY <1>4, AppendToSeq DEF Held
<1> HIDE DEF y, more, n
<1>6. rank[r].total < Share  BY <1>1, <1>2 DEF Bounded
<1>7. /\ Held(r) < MaxLen(r) /\ MaxLen(r) \in Nat /\ MaxLen(r) <= Share - rank[r].total
  <2>1. /\ MinLen(r) \in Nat /\ MaxLen(r) \in Nat /\ MinLen(r) <= MaxLen(r)
        /\ MaxLen(r) <= Share - rank[r].total
    BY <1>1, <1>6, MayTake
  <2>2. QED  BY <1>2, <1>4, <2>1
<1>8. n = Held(r) + 1 /\ n \in 1 .. Share  BY <1>4, <1>6, <1>7 DEF n
<1>9. answer' \in [Ranks -> Results \cup {None}] /\ answer'[r] = None
      /\ \A s \in Ranks : s # r => answer'[s] = answer[s]
  BY <1>1, <1>3 DEF TypeOK
<1>10. TypeOK'
  <2>1. rank' \in [Ranks -> [at : {"fill", "poll", "reduce", "infer", "done"},
                         call : 1 .. Share + 1, results : Seq(Results),
                         len : 0 .. Share, total : 0 .. Share,
                         collected : SUBSET Results]]
    <3> DEFINE States == [at : {"fill", "poll", "reduce", "infer", "done"},
                          call : 1 .. Share + 1, results : Seq(Results),
                          len : 0 .. Share, total : 0 .. Share,
                          collected : SUBSET Results]
    <3>1. rank \in [Ranks -> States]  BY <1>1 DEF TypeOK
    <3>2. [rank[r] EXCEPT !.results = more, !.at = at] \in States  BY <1>5, <3>1
    <3>3. rank' = [rank EXCEPT ![r] = [rank[r] EXCEPT !.results = more, !.at = at]]
      BY <1>2, <3>1
    <3> HIDE DEF States
    <3>4. rank' \in [Ranks -> States]  BY <3>1, <3>2, <3>3
    <3>5. QED  BY <3>4 DEF States
  <2>2. QED  BY <1>1, <1>3, <1>9, <2>1 DEF TypeOK
<1>11. /\ rank'[r].at = at /\ rank'[r].len = rank[r].len
       /\ rank'[r].call = rank[r].call /\ rank'[r].total = rank[r].total
       /\ rank'[r].collected = rank[r].collected /\ rank'[r].results = more
       /\ \A s \in Ranks : s # r => rank'[s] = rank[s]
  BY <1>1, <1>2 DEF TypeOK
<1>12. Held(r)' = n /\ \A s \in Ranks : s # r => Held(s)' = Held(s)
  BY <1>5, <1>11 DEF Held
<1>13. AskedOnce'
  <2>1. ASSUME NEW i \in DOMAIN getters PROVE answer'[getters[i]] = None
    <3>1. getters[i] \in Ranks /\ answer[getters[i]] = None  BY <1>1 DEF TypeOK, AskedOnce
    <3>2. QED  BY <1>9, <3>1
  <2>2. QED  BY <1>1, <1>3, <2>1 DEF AskedOnce
<1>14. ASSUME NEW s \in Ranks PROVE Bounded(s)'
  <2>1. Bounded(s)  BY DEF PlacesInv
  <2>2. CASE s # r
    <3>1. Asked(s)' => Asked(s)  BY <1>3, <1>9, <2>2 DEF Asked
    <3>2. QED  BY <1>3, <1>11, <2>1, <2>2, <3>1, BoundedStays
  <2>3. CASE s = r
    <3>1. \A i \in DOMAIN getters : getters[i] # r  BY <1>1 DEF AskedOnce, y
    <3>2. ~Asked(r)'  BY <1>3, <1>9, <3>1 DEF Asked
    <3>3. MaxLen(r)' = MaxLen(r)  BY <1>3, <1>11, LimitsStay
    <3>4. rank'[r].at \in {"fill", "poll", "reduce"}  BY <1>11
    <3>5. n <= MaxLen(r)  BY <1>4, <1>7, <1>8
    <3>6. rank'[r].at \in Looping => rank[r].at \in Looping
      BY <1>2, <1>11 DEF Looping
    <3>7. rank'[r].at \in Looping => 1 <= n /\ rank[r].len <= n
      BY <1>1, <1>4, <1>8, <3>6 DEF Bounded
    <3>8. QED
      BY <1>1, <1>6, <1>11, <1>12, <2>3, <3>2, <3>3, <3>4, <3>5, <3>7 DEF Bounded
  <2>4. QED  BY <2>2, <2>3
<1>15. ASSUME NEW x
       PROVE  /\ InputsOf(x)' = InputsOf(x) /\ CollectsOf(x)' = CollectsOf(x)
              /\ \A h : h \in HoldsOf(x)' <=> h \in HoldsOf(x) \/ (h = <<r, n>> /\ x = y)
  <2>1. InputsOf(x)' = InputsOf(x)  BY <1>3 DEF InputsOf
  <2>2. CollectsOf(x)' = CollectsOf(x)
    <3>1. \A s \in Ranks : rank'[s].collected = rank[s].collected  BY <1>11
    <3>2. QED  BY <3>1 DEF CollectsOf
  <2>3. ASSUME NEW s \in Ranks, NEW i \in 1 .. Share
        PROVE  <<s, i>> \in HoldsOf(x)'
                 <=> <<s, i>> \in HoldsOf(x) \/ (<<s, i>> = <<r, n>> /\ x = y)
    <3>1. <<s, i>> \in HoldsOf(x)' <=> i <= Held(s)' /\ rank'[s].results[i] = x
      BY DEF HoldsOf
    <3>2. <<s, i>> \in HoldsOf(x) <=> i <= Held(s) /\ rank[s].results[i] = x
      BY DEF HoldsOf
    <3>3. CASE s # r  BY <1>11, <1>12, <3>1, <3>2, <3>3
    <3>4. CASE s = r
      <4>1. i \in Nat /\ 1 <= i  BY <1>4
      <4>2. i <= n <=> i <= Held(r) \/ i = n  BY <1>4, <1>8, <4>1
      <4>3. i <= Held(r) => i # n /\ more[i] = rank[r].results[i]
        BY <1>4, <1>5, <1>8, <4>1
      <4>4. QED  BY <1>5, <1>11, <1>12, <3>1, <3>2, <3>4, <4>2, <4>3
    <3>5. QED  BY <3>3, <3>4
  <2>4. \A h \in HoldsOf(x)' : h \in Ranks \X (1 .. Share)  BY DEF HoldsOf
  <2>5. \A h \in HoldsOf(x) : h \in Ranks \X (1 .. Share)  BY DEF HoldsOf
  <2>6. <<r, n>> \in Ranks \X (1 .. Share)  BY <1>8
  <2>7. \A h \in Ranks \X (1 .. Share) :
          h \in HoldsOf(x)' <=> h \in HoldsOf(x) \/ (h = <<r, n>> /\ x = y)
    BY <2>3
  <2>8. \A h : h \in HoldsOf(x)' <=> h \in HoldsOf(x) \/ (h = <<r, n>> /\ x = y)
    BY <2>4, <2>5, <2>6, <2>7
  <2>9. QED  BY <2>1, <2>2, <2>8
<1>16. ASSUME NEW x \in Results PROVE Placed(x)'
  <2>1. Placed(x)  BY DEF PlacesInv
  <2>2. CASE x = y
    <3>1. r \in AnswersOf(x)  BY <2>2 DEF AnswersOf, y
    <3>2. /\ AnswersOf(x) = {r} /\ InputsOf(x) = {} /\ HoldsOf(x) = {}
          /\ CollectsOf(x) = {} /\ output[x] = 0
      BY <2>1, <3>1, OnceOnly
    <3>3. HoldsOf(x)' = {<<r, n>>}  BY <1>15, <2>2, <3>2
    <3>4. AnswersOf(x)' = {}
      <4>1. \A s \in Ranks : s # r => answer[s] # x  BY <3>2 DEF AnswersOf
      <4>2. x # None  BY <1>1, <2>2
      <4>3. QED  BY <1>9, <4>1, <4>2 DEF AnswersOf
    <3>5. Once(x)'
      BY <1>3, <1>15, <3>2, <3>3, <3>4 DEF Once, OnceIn, OnlyIn
    <3>6. x <= arrived'
      <4>1. ~Nowhere(x)  BY <3>1 DEF Nowhere, NowhereIn
      <4>2. QED  BY <1>3, <2>1, <4>1 DEF Placed
    <3>7. QED  BY <3>5, <3>6 DEF Placed
  <2>3. CASE x # y
    <3>1. HoldsOf(x)' = HoldsOf(x)  BY <1>15, <2>3
    <3>2. AnswersOf(x)' = AnswersOf(x)
      <4>1. x # None  BY ResultCount DEF None
      <4>2. QED  BY <1>9, <2>3, <4>1 DEF AnswersOf, y
    <3>3. QED  BY <1>3, <1>15, <2>1, <3>1, <3>2, PlacedStays
  <2>4. QED  BY <2>2, <2>3
<1>17. \E f : Inferred(f)'
  <2>1. PICK f : Inferred(f)  BY DEF PlacesInv
  <2>2. \A x : Past(x) => Past(x)'  BY <1>3, <1>15 DEF Past
  <2>3. \A s \in Ranks : rank'[s].total = rank[s].total  BY <1>11
  <2>4. Inferred(f)'  BY <2>1, <2>2, <2>3, InferredKept
  <2>5. QED  BY <2>4
<1>18. QED  BY <1>10, <1>13, <1>14, <1>16, <1>17 DEF PlacesInv

-----------------------------------------------------------------------------
(* A call ends in an inference.                                             *)

LEMMA InferFacts ==
  ASSUME PlacesInv, NEW r \in Ranks, Infer(r)
  PROVE  LET n == rank[r].len
             total == rank[r].total + n
             got == rank[r].collected \cup Batch(r)
             puts == mode.pipeline \/ total >= Share
         IN /\ TypeOK /\ Bounded(r) /\ rank[r].at = "infer"
            /\ n \in Nat /\ 1 <= n /\ n <= Held(r) /\ Held(r) \in Nat
            /\ rank[r].total \in Nat /\ Share \in Nat /\ total \in Nat /\ total <= Share
            /\ Held(r) <= MaxLen(r) /\ MaxLen(r) \in Nat
            /\ rank'[r].at = (IF total >= Share THEN "done" ELSE "fill")
            /\ rank'[r].call = rank[r].call + 1 /\ rank'[r].total = total
            /\ rank'[r].len = 0
            /\ rank'[r].results = Clipped(r)
            /\ rank'[r].collected = (IF puts THEN {} ELSE got)
            /\ \A s \in Ranks : s # r => rank'[s] = rank[s]
            /\ UNCHANGED <<mode, channelVars>>
            /\ output' = [x \in Results |-> output[x] + (IF puts /\ x \in got THEN 1 ELSE 0)]
            /\ DOMAIN rank' = Ranks
            /\ rank[r].results \in Seq(Results) /\ DOMAIN rank[r].results = 1 .. Held(r)
            /\ Batch(r) = {rank[r].results[i] : i \in 1 .. n} /\ Batch(r) \in SUBSET Results
            /\ Clipped(r) \in Seq(Results) /\ Len(Clipped(r)) = Held(r) - n
            /\ \A i \in 1 .. Held(r) - n : Clipped(r)[i] = rank[r].results[n + i]
<1> DEFINE n == rank[r].len
           total == rank[r].total + n
           got == rank[r].collected \cup Batch(r)
           puts == mode.pipeline \/ total >= Share
           new == [at |-> IF total >= Share THEN "done" ELSE "fill",
                   call |-> rank[r].call + 1, results |-> Clipped(r), len |-> 0,
                   total |-> total, collected |-> IF puts THEN {} ELSE got]
<1>1. TypeOK /\ Bounded(r) /\ rank[r].at = "infer"  BY DEF PlacesInv, Infer
<1>2. /\ rank' = [rank EXCEPT ![r] = new] /\ UNCHANGED <<mode, channelVars>>
      /\ output' = [x \in Results |-> output[x] + (IF puts /\ x \in got THEN 1 ELSE 0)]
  BY DEF Infer
<1>3. /\ n \in Nat /\ rank[r].total \in Nat /\ Held(r) \in Nat /\ Share \in Nat
      /\ rank[r].results \in Seq(Results) /\ DOMAIN rank[r].results = 1 .. Held(r)
      /\ Len(rank[r].results) = Held(r)
  BY <1>1, FieldsOf, ShareAssumption DEF Held
<1>4. 1 <= n /\ n <= Held(r) /\ Held(r) <= MaxLen(r) /\ rank[r].total < Share
  BY <1>1 DEF Bounded, Looping
<1>5. MaxLen(r) \in Nat /\ MaxLen(r) <= Share - rank[r].total
  BY <1>1, <1>4, MayTake
<1>6. total \in Nat /\ total <= Share  BY <1>3, <1>4, <1>5
<1>7. DOMAIN rank = Ranks  BY <1>1 DEF TypeOK
<1>8. /\ rank'[r] = new /\ \A s \in Ranks : s # r => rank'[s] = rank[s]
      /\ DOMAIN rank' = Ranks
  BY <1>2, <1>7
<1>9. /\ Batch(r) = {rank[r].results[i] : i \in 1 .. n} /\ Batch(r) \in SUBSET Results
  <2> DEFINE s == rank[r].results
  <2>1. 1 \in 1 .. Len(s) + 1 /\ n \in (1 - 1) .. Len(s)  BY <1>3, <1>4
  <2>2. s \in Seq(Results)  BY <1>3
  <2> HIDE DEF s, n
  <2>3. /\ DOMAIN SubSeq(s, 1, n) = 1 .. (n - 1 + 1)
        /\ \A k \in 1 .. (n - 1 + 1) : SubSeq(s, 1, n)[k] = s[1 + k - 1]
    BY ONLY <2>1, <2>2, SubSeqSeq
  <2>4. DOMAIN SubSeq(s, 1, n) = 1 .. n
    BY <1>3, <2>3
  <2>5. \A k \in 1 .. n : SubSeq(s, 1, n)[k] = s[k]
    BY <1>3, <2>3
  <2>6. Range(SubSeq(s, 1, n)) = {s[i] : i \in 1 .. n}
    BY <2>4, <2>5 DEF Range
  <2>7. \A i \in 1 .. n : s[i] \in Results
    <3>1. \A i \in 1 .. n : i \in 1 .. Len(s)  BY <1>3, <1>4 DEF s
    <3>2. QED  BY <2>2, <3>1
  <2>8. QED  BY <2>6, <2>7 DEF Batch, s, n
<1>10. /\ Clipped(r) \in Seq(Results) /\ Len(Clipped(r)) = Held(r) - n
       /\ \A i \in 1 .. Held(r) - n : Clipped(r)[i] = rank[r].results[n + i]
  <2> DEFINE s == rank[r].results  h == Held(r)
  <2>1. n + 1 \in 1 .. Len(s) + 1 /\ h \in (n + 1 - 1) .. Len(s)  BY <1>3, <1>4
  <2>2. s \in Seq(Results) /\ n \in Nat /\ h \in Nat  BY <1>3
  <2>3. Clipped(r) = SubSeq(s, n + 1, h)  BY DEF Clipped
  <2> HIDE DEF s, n, h
  <2>4. /\ SubSeq(s, n + 1, h) \in Seq(Results)
        /\ Len(SubSeq(s, n + 1, h)) = h - (n + 1) + 1
        /\ \A k \in 1 .. (h - (n + 1) + 1) : SubSeq(s, n + 1, h)[k] = s[n + 1 + k - 1]
    BY ONLY <2>1, <2>2, SubSeqSeq
  <2>5. h - (n + 1) + 1 = h - n  BY <2>2
  <2>6. \A k \in 1 .. h - n : n + 1 + k - 1 = n + k  BY <2>2
  <2>7. QED  BY <2>3, <2>4, <2>5, <2>6 DEF s, n, h
<1>11. /\ rank'[r].at = (IF total >= Share THEN "done" ELSE "fill")
       /\ rank'[r].call = rank[r].call + 1 /\ rank'[r].total = total
       /\ rank'[r].len = 0 /\ rank'[r].results = Clipped(r)
       /\ rank'[r].collected = (IF puts THEN {} ELSE got)
  BY <1>8
<1> HIDE DEF n, total, got, puts, new
<1>12. QED
  BY <1>1, <1>2, <1>3, <1>4, <1>5, <1>6, <1>8, <1>9, <1>10, <1>11
  DEF n, total, got, puts

LEMMA CallsFit ==
  ASSUME NEW c \in Nat, NEW t \in Nat, NEW n \in Nat, NEW S \in Nat,
         c <= t + 1, t < S, 1 <= n
  PROVE  c + 1 \in 1 .. S + 1 /\ c + 1 <= (t + n) + 1
  OBVIOUS

LEMMA CarryFits ==
  ASSUME NEW cap \in Nat, NEW t \in Nat, NEW n \in Nat, NEW h \in Nat, NEW S \in Nat,
         t + n < S, n <= h
  PROVE  /\ h <= Smaller(cap, S - t) => h - n <= Smaller(cap, S - (t + n))
         /\ h < Smaller(cap, S - t) => h - n < Smaller(cap, S - (t + n))
  BY DEF Smaller

(* The share is not exceeded, and a rank whose share is done has nothing    *)
(* left, no get included.                                                   *)
LEMMA InferBounded ==
  ASSUME PlacesInv, NEW r \in Ranks, Infer(r)
  PROVE  TypeOK' /\ AskedOnce' /\ \A s \in Ranks : Bounded(s)'
<1> DEFINE n == rank[r].len
           total == rank[r].total + n
           got == rank[r].collected \cup Batch(r)
           puts == mode.pipeline \/ total >= Share
<1>1. /\ TypeOK /\ Bounded(r) /\ rank[r].at = "infer"
      /\ n \in Nat /\ 1 <= n /\ n <= Held(r) /\ Held(r) \in Nat
      /\ rank[r].total \in Nat /\ Share \in Nat /\ total \in Nat /\ total <= Share
      /\ Held(r) <= MaxLen(r) /\ MaxLen(r) \in Nat
      /\ rank'[r].at = (IF total >= Share THEN "done" ELSE "fill")
      /\ rank'[r].call = rank[r].call + 1 /\ rank'[r].total = total
      /\ rank'[r].len = 0
      /\ rank'[r].results = Clipped(r)
      /\ rank'[r].collected = (IF puts THEN {} ELSE got)
      /\ \A s \in Ranks : s # r => rank'[s] = rank[s]
      /\ mode' = mode /\ arrived' = arrived /\ input' = input /\ getters' = getters
      /\ answer' = answer
      /\ output' = [x \in Results |-> output[x] + (IF puts /\ x \in got THEN 1 ELSE 0)]
      /\ DOMAIN rank' = Ranks
      /\ Batch(r) \in SUBSET Results
      /\ Clipped(r) \in Seq(Results) /\ Len(Clipped(r)) = Held(r) - n
  BY InferFacts DEF channelVars
<1>2. /\ rank[r].call \in Nat /\ rank[r].call <= rank[r].total + 1
      /\ rank[r].total < Share /\ (Asked(r) => Held(r) < MaxLen(r))
  BY <1>1, FieldsOf DEF Bounded
<1>3. TypeOK'
  <2> DEFINE at == IF total >= Share THEN "done" ELSE "fill"
             kept == IF puts THEN {} ELSE got
             new == [at |-> at, call |-> rank[r].call + 1, results |-> Clipped(r),
                     len |-> 0, total |-> total, collected |-> kept]
             States == [at : {"fill", "poll", "reduce", "infer", "done"},
                        call : 1 .. Share + 1, results : Seq(Results),
                        len : 0 .. Share, total : 0 .. Share,
                        collected : SUBSET Results]
  <2>1. rank \in [Ranks -> States]  BY <1>1 DEF TypeOK
  <2>2. rank' = [rank EXCEPT ![r] = new]  BY DEF Infer
  <2>3. rank[r].collected \in SUBSET Results  BY <1>1, FieldsOf
  <2>4. kept \in SUBSET Results  BY <1>1, <2>3
  <2>5. rank[r].call + 1 \in 1 .. Share + 1  BY ONLY <1>1, <1>2, CallsFit
  <2>6. total \in 0 .. Share /\ 0 \in 0 .. Share  BY <1>1
  <2>7. at \in {"fill", "poll", "reduce", "infer", "done"}  OBVIOUS
  <2> HIDE DEF at, kept, total
  <2>8. new \in States  BY <1>1, <2>4, <2>5, <2>6, <2>7
  <2> HIDE DEF new, States
  <2>9. rank' \in [Ranks -> States]  BY <2>1, <2>2, <2>8
  <2>10. output' \in [Results -> Nat]
    <3>1. output \in [Results -> Nat]  BY <1>1 DEF TypeOK
    <3>2. \A x \in Results : output[x] + (IF puts /\ x \in got THEN 1 ELSE 0) \in Nat
      BY <3>1
    <3>3. QED  BY <1>1, <3>2
  <2>11. QED  BY <1>1, <2>9, <2>10 DEF TypeOK, States
<1>4. AskedOnce'  BY <1>1 DEF PlacesInv, AskedOnce
<1>5. ASSUME NEW s \in Ranks, s # r PROVE Bounded(s)'
  <2>1. Bounded(s)  BY DEF PlacesInv
  <2>2. Asked(s)' => Asked(s)  BY <1>1 DEF Asked
  <2>3. QED  BY <1>1, <1>5, <2>1, <2>2, BoundedStays
<1>6. Bounded(r)'
  <2>1. Held(r)' = Held(r) - n  BY <1>1 DEF Held
  <2>2. Asked(r)' <=> Asked(r)  BY <1>1 DEF Asked
  <2>3. /\ MaxLen(r) = Smaller(Share \div mode.split, Share - rank[r].total)
        /\ (Share \div mode.split) \in Nat
    BY <1>1, <1>2, MayTake
  <2>4. MaxLen(r)' = Smaller(Share \div mode.split, Share - total)
    BY <1>1 DEF MaxLen, Remaining
  <2> DEFINE cap == Share \div mode.split
  <2>5. rank[r].call + 1 <= total + 1  BY ONLY <1>1, <1>2, CallsFit
  <2> HIDE DEF n, cap, got, puts
  <2>6. CASE total >= Share
    <3>1. total = Share  BY <1>1, <2>6
    <3>2. n = Share - rank[r].total  BY <1>1, <3>1
    <3>3. MaxLen(r) <= Share - rank[r].total  BY <1>1, <1>2, MayTake
    <3>4. Held(r) = n /\ Held(r) = MaxLen(r)  BY <1>1, <3>2, <3>3
    <3>5. ~Asked(r)  BY <1>1, <1>2, <3>4
    <3>6. rank'[r].at = "done"  BY <1>1, <2>6
    <3>7. Held(r)' = 0  BY <1>1, <2>1, <3>4
    <3>8. QED
      BY <1>1, <2>2, <2>5, <3>1, <3>5, <3>6, <3>7 DEF Bounded, Looping
  <2>7. CASE ~(total >= Share)
    <3>1. total < Share  BY <1>1, <2>7
    <3>2. rank'[r].at = "fill"  BY <1>1, <2>7
    <3>3. cap \in Nat /\ total = rank[r].total + n  BY <2>3 DEF cap
    <3>4. MaxLen(r) = Smaller(cap, Share - rank[r].total)  BY <2>3 DEF cap
    <3>5. MaxLen(r)' = Smaller(cap, Share - (rank[r].total + n))  BY <2>4 DEF cap
    <3>6. /\ cap \in Nat /\ rank[r].total \in Nat /\ n \in Nat /\ Held(r) \in Nat
          /\ Share \in Nat /\ rank[r].total + n < Share /\ n <= Held(r)
      BY <1>1, <3>1, <3>3
    <3> HIDE DEF total
    <3>7. /\ Held(r) <= Smaller(cap, Share - rank[r].total)
               => Held(r) - n <= Smaller(cap, Share - (rank[r].total + n))
          /\ Held(r) < Smaller(cap, Share - rank[r].total)
               => Held(r) - n < Smaller(cap, Share - (rank[r].total + n))
      BY ONLY <3>6, CarryFits
    <3>8. Held(r)' <= MaxLen(r)'  BY <1>1, <2>1, <3>4, <3>5, <3>7
    <3>9. Held(r) < MaxLen(r) => Held(r)' < MaxLen(r)'  BY <2>1, <3>4, <3>5, <3>7
    <3>10. rank'[r].at \notin Looping  BY <3>2 DEF Looping
    <3>11. QED
      BY <1>1, <1>2, <2>2, <2>5, <3>1, <3>2, <3>8, <3>9, <3>10 DEF Bounded
  <2>8. QED  BY <2>6, <2>7
<1>7. QED  BY <1>3, <1>4, <1>5, <1>6

(* What is inferred leaves the rank, kept or put; what is carried moves up. *)
LEMMA InferMoves ==
  ASSUME PlacesInv, NEW r \in Ranks, Infer(r), NEW x \in Results
  PROVE  /\ Placed(x)'
         /\ Past(x) => Past(x)'
         /\ x \in Batch(r) => ~Past(x) /\ Past(x)'
<1> DEFINE n == rank[r].len
           total == rank[r].total + n
           got == rank[r].collected \cup Batch(r)
           puts == mode.pipeline \/ total >= Share
           mine == rank[r].results
<1>1. /\ TypeOK /\ n \in Nat /\ 1 <= n /\ n <= Held(r) /\ Held(r) \in Nat /\ Share \in Nat
      /\ rank[r].total \in Nat /\ Held(r) <= MaxLen(r) /\ MaxLen(r) \in Nat
      /\ rank'[r].results = Clipped(r)
      /\ rank'[r].collected = (IF puts THEN {} ELSE got)
      /\ \A s \in Ranks : s # r => rank'[s] = rank[s]
      /\ arrived' = arrived /\ input' = input /\ answer' = answer
      /\ output' = [z \in Results |-> output[z] + (IF puts /\ z \in got THEN 1 ELSE 0)]
      /\ Batch(r) = {mine[i] : i \in 1 .. n}
      /\ Len(Clipped(r)) = Held(r) - n
      /\ \A i \in 1 .. Held(r) - n : Clipped(r)[i] = mine[n + i]
  BY InferFacts DEF channelVars
<1> HIDE DEF puts
<1>2. Held(r)' = Held(r) - n /\ \A s \in Ranks : s # r => Held(s)' = Held(s)
  BY <1>1 DEF Held
<1>3. Placed(x)  BY DEF PlacesInv
<1>4. InputsOf(x)' = InputsOf(x) /\ AnswersOf(x)' = AnswersOf(x)
  BY <1>1 DEF InputsOf, AnswersOf
<1>5. output'[x] = output[x] + (IF puts /\ x \in got THEN 1 ELSE 0) /\ output[x] \in Nat
  BY <1>1 DEF TypeOK
<1>6. \A s \in Ranks : s \in CollectsOf(x)'
                         <=> (s # r /\ s \in CollectsOf(x)) \/ (s = r /\ ~puts /\ x \in got)
  BY <1>1 DEF CollectsOf
<1>7. \A s \in CollectsOf(x)' : s \in Ranks  BY DEF CollectsOf
<1>8. \A s \in CollectsOf(x) : s \in Ranks  BY DEF CollectsOf
<1>9. Held(r) <= Share
  <2>1. Bounded(r) /\ rank[r].at = "infer"  BY DEF PlacesInv, Infer
  <2>2. rank[r].total < Share  BY <2>1 DEF Bounded
  <2>3. MaxLen(r) <= Share - rank[r].total  BY <1>1, <2>2, MayTake
  <2>4. QED  BY <1>1, <2>2, <2>3
<1>10. ASSUME NEW s \in Ranks, NEW i \in 1 .. Share
       PROVE  /\ <<s, i>> \in HoldsOf(x)' <=>
                   \/ s # r /\ <<s, i>> \in HoldsOf(x)
                   \/ s = r /\ i <= Held(r) - n /\ mine[n + i] = x
              /\ <<s, i>> \in HoldsOf(x) <=> i <= Held(s) /\ rank[s].results[i] = x
  <2>1. <<s, i>> \in HoldsOf(x)' <=> i <= Held(s)' /\ rank'[s].results[i] = x
    BY DEF HoldsOf
  <2>2. <<s, i>> \in HoldsOf(x) <=> i <= Held(s) /\ rank[s].results[i] = x
    BY DEF HoldsOf
  <2>3. CASE s # r  BY <1>1, <1>2, <2>1, <2>2, <2>3
  <2>4. CASE s = r
    <3>1. i <= Held(r) - n => i \in 1 .. Held(r) - n  BY <1>1
    <3>2. QED  BY <1>1, <1>2, <2>1, <2>2, <2>4, <3>1
  <2>5. QED  BY <2>3, <2>4
<1>11. /\ \A h \in HoldsOf(x)' : h \in Ranks \X (1 .. Share)
       /\ \A h \in HoldsOf(x) : h \in Ranks \X (1 .. Share)
  BY DEF HoldsOf
<1>12. ASSUME NEW j \in 1 .. Share, <<r, j>> \in HoldsOf(x)'
       PROVE  j \in Nat /\ n + j \in 1 .. Share /\ n < n + j /\ <<r, n + j>> \in HoldsOf(x)
  <2>1. j <= Held(r) - n /\ mine[n + j] = x  BY <1>10, <1>12
  <2>2. j \in Nat /\ 1 <= j  BY <1>1
  <2>3. n + j \in 1 .. Share /\ n + j <= Held(r) /\ n < n + j
    <3>1. n \in Nat /\ Held(r) \in Nat /\ Share \in Nat  BY <1>1
    <3>2. \A h, m \in Nat : j <= h - m /\ h <= Share
                              => m + j \in 1 .. Share /\ m + j <= h /\ m < m + j
      BY ONLY <2>2, <3>1
    <3>3. QED  BY <1>9, <2>1, <3>1, <3>2
  <2>4. QED  BY <1>10, <2>1, <2>2, <2>3
<1>13. CASE x \in Batch(r)
  <2>1. PICK i \in 1 .. n : mine[i] = x  BY <1>1, <1>13
  <2>2. i \in 1 .. Share /\ i <= Held(r)  BY <1>1, <1>9, <2>1
  <2>3. <<r, i>> \in HoldsOf(x)  BY <1>10, <2>1, <2>2
  <2>4. /\ HoldsOf(x) = {<<r, i>>} /\ InputsOf(x) = {} /\ AnswersOf(x) = {}
        /\ CollectsOf(x) = {} /\ output[x] = 0
    BY <1>3, <2>3, OnceOnly
  <2>5. x <= arrived
    <3>1. ~Nowhere(x)  BY <2>3 DEF Nowhere, NowhereIn
    <3>2. QED  BY <1>3, <3>1 DEF Placed
  <2>6. HoldsOf(x)' = {}
    <3>1. ASSUME NEW s \in Ranks, NEW j \in 1 .. Share, <<s, j>> \in HoldsOf(x)' PROVE FALSE
      <4>1. CASE s # r  BY <1>10, <2>4, <3>1, <4>1
      <4>2. CASE s = r
        <5>1. n < n + j /\ <<r, n + j>> \in HoldsOf(x)  BY <1>12, <3>1, <4>2
        <5>2. n + j = i  BY <2>4, <5>1
        <5>3. QED  BY <1>1, <2>1, <5>1, <5>2
      <4>3. QED  BY <4>1, <4>2
    <3>2. QED  BY <1>11, <3>1
  <2>7. x \in got  BY <1>13
  <2>8. CASE puts
    <3>1. CollectsOf(x)' = {}  BY <1>6, <1>7, <2>4, <2>8
    <3>2. output'[x] = 1  BY <1>5, <2>4, <2>7, <2>8
    <3>3. Placed(x)'
      BY <1>1, <1>4, <2>4, <2>5, <2>6, <3>1, <3>2 DEF Placed, Once, OnceIn
    <3>4. QED  BY <2>4, <3>2, <3>3 DEF Past
  <2>9. CASE ~puts
    <3>1. CollectsOf(x)' = {r}  BY <1>6, <1>7, <2>4, <2>7, <2>9
    <3>2. output'[x] = 0  BY <1>5, <2>4, <2>9
    <3>3. Placed(x)'
      BY <1>1, <1>4, <2>4, <2>5, <2>6, <3>1, <3>2 DEF Placed, Once, OnceIn, OnlyIn
    <3>4. QED  BY <2>4, <3>1, <3>3 DEF Past
  <2>10. QED  BY <2>8, <2>9
<1>14. CASE x \in rank[r].collected /\ x \notin Batch(r)
  <2>1. r \in CollectsOf(x)  BY <1>14 DEF CollectsOf
  <2>2. /\ CollectsOf(x) = {r} /\ InputsOf(x) = {} /\ AnswersOf(x) = {}
        /\ HoldsOf(x) = {} /\ output[x] = 0
    BY <1>3, <2>1, OnceOnly
  <2>3. x <= arrived
    <3>1. ~Nowhere(x)  BY <2>1 DEF Nowhere, NowhereIn
    <3>2. QED  BY <1>3, <3>1 DEF Placed
  <2>4. HoldsOf(x)' = {}
    <3>1. ASSUME NEW s \in Ranks, NEW j \in 1 .. Share, <<s, j>> \in HoldsOf(x)' PROVE FALSE
      <4>1. CASE s # r  BY <1>10, <2>2, <3>1, <4>1
      <4>2. CASE s = r  BY <1>12, <2>2, <3>1, <4>2
      <4>3. QED  BY <4>1, <4>2
    <3>2. QED  BY <1>11, <3>1
  <2>5. x \in got  BY <1>14
  <2>6. CASE puts
    <3>1. CollectsOf(x)' = {}  BY <1>6, <1>7, <2>2, <2>6
    <3>2. output'[x] = 1  BY <1>5, <2>2, <2>5, <2>6
    <3>3. Placed(x)'
      BY <1>1, <1>4, <2>2, <2>3, <2>4, <3>1, <3>2 DEF Placed, Once, OnceIn
    <3>4. QED  BY <1>14, <3>2, <3>3 DEF Past
  <2>7. CASE ~puts
    <3>1. CollectsOf(x)' = {r}  BY <1>6, <1>7, <2>2, <2>5, <2>7
    <3>2. output'[x] = 0  BY <1>5, <2>2, <2>7
    <3>3. Placed(x)'
      BY <1>1, <1>4, <2>2, <2>3, <2>4, <3>1, <3>2 DEF Placed, Once, OnceIn, OnlyIn
    <3>4. QED  BY <1>14, <3>1, <3>3 DEF Past
  <2>8. QED  BY <2>6, <2>7
<1>15. CASE x \notin got
  <2>1. output'[x] = output[x]  BY <1>5, <1>15
  <2>2. CollectsOf(x)' = CollectsOf(x)
    <3>1. r \notin CollectsOf(x)  BY <1>15 DEF CollectsOf
    <3>2. QED  BY <1>6, <1>7, <1>8, <1>15, <3>1
  <2>3. Past(x)' <=> Past(x)  BY <2>1, <2>2 DEF Past
  <2>4. x \notin Batch(r)  BY <1>15
  <2>5. CASE HoldsOf(x) = {}
    <3>1. HoldsOf(x)' = {}
      <4>1. ASSUME NEW s \in Ranks, NEW j \in 1 .. Share, <<s, j>> \in HoldsOf(x)' PROVE FALSE
        <5>1. CASE s # r  BY <1>10, <2>5, <4>1, <5>1
        <5>2. CASE s = r  BY <1>12, <2>5, <4>1, <5>2
        <5>3. QED  BY <5>1, <5>2
      <4>2. QED  BY <1>11, <4>1
    <3>2. Placed(x)'
      BY <1>1, <1>3, <1>4, <2>1, <2>2, <2>5, <3>1, PlacedStays
    <3>3. QED  BY <2>3, <2>4, <3>2
  <2>6. CASE HoldsOf(x) # {}
    <3>1. PICK h \in HoldsOf(x) : TRUE  BY <2>6
    <3>2. PICK s \in Ranks, i \in 1 .. Share : h = <<s, i>>  BY <1>11, <3>1
    <3>3. /\ HoldsOf(x) = {<<s, i>>} /\ InputsOf(x) = {} /\ AnswersOf(x) = {}
          /\ CollectsOf(x) = {} /\ output[x] = 0
      BY <1>3, <3>1, <3>2, OnceOnly
    <3>4. x <= arrived
      <4>1. ~Nowhere(x)  BY <3>1 DEF Nowhere, NowhereIn
      <4>2. QED  BY <1>3, <4>1 DEF Placed
    <3>5. i <= Held(s) /\ rank[s].results[i] = x /\ i \in Nat /\ 1 <= i
      BY <1>1, <1>10, <3>1, <3>2
    <3>6. \E e : HoldsOf(x)' = {e}
      <4>1. CASE s # r
        <5>1. <<s, i>> \in HoldsOf(x)'  BY <1>10, <3>3, <4>1
        <5>2. ASSUME NEW q \in Ranks, NEW j \in 1 .. Share, <<q, j>> \in HoldsOf(x)'
              PROVE  <<q, j>> = <<s, i>>
          <6>1. CASE q # r  BY <1>10, <3>3, <5>2, <6>1
          <6>2. CASE q = r  BY <1>12, <3>3, <4>1, <5>2, <6>2
          <6>3. QED  BY <6>1, <6>2
        <5>3. HoldsOf(x)' = {<<s, i>>}  BY <1>11, <5>1, <5>2
        <5>4. QED  BY <5>3
      <4>2. CASE s = r
        <5>1. ~(i <= n)
          <6>1. i <= n => i \in 1 .. n /\ mine[i] = x  BY <1>1, <3>5, <4>2
          <6>2. QED  BY <1>1, <2>4, <6>1
        <5>2. i - n \in 1 .. Share /\ i - n <= Held(r) - n /\ n + (i - n) = i
          BY <1>1, <1>9, <3>5, <4>2, <5>1
        <5>3. <<r, i - n>> \in HoldsOf(x)'  BY <1>10, <3>5, <4>2, <5>2
        <5>4. ASSUME NEW q \in Ranks, NEW j \in 1 .. Share, <<q, j>> \in HoldsOf(x)'
              PROVE  <<q, j>> = <<r, i - n>>
          <6>1. CASE q # r  BY <1>10, <3>3, <4>2, <5>4, <6>1
          <6>2. CASE q = r
            <7>1. j \in Nat /\ <<r, n + j>> \in HoldsOf(x)  BY <1>12, <5>4, <6>2
            <7>2. n + j = i  BY <3>3, <7>1
            <7>3. j = i - n  BY <1>1, <7>1, <7>2
            <7>4. QED  BY <6>2, <7>3
          <6>3. QED  BY <6>1, <6>2
        <5>5. HoldsOf(x)' = {<<r, i - n>>}  BY <1>11, <5>3, <5>4
        <5>6. QED  BY <5>5
      <4>3. QED  BY <4>1, <4>2
    <3>7. Placed(x)'
      BY <1>1, <1>4, <2>1, <2>2, <3>3, <3>4, <3>6 DEF Placed, Once, OnceIn, OnlyIn
    <3>8. QED  BY <2>3, <2>4, <3>7
  <2>7. QED  BY <2>5, <2>6
<1>16. QED  BY <1>13, <1>14, <1>15

(* The results of a call are new among those that have been inferred.       *)
LEMMA InferCounted ==
  ASSUME PlacesInv, NEW r \in Ranks, Infer(r)
  PROVE  \E f : Inferred(f)'
<1>1. PICK f : Inferred(f)  BY DEF PlacesInv
<1>0. PICK mine, n, t :
        mine = rank[r].results /\ n = rank[r].len /\ t = rank[r].total
  OBVIOUS
<1> DEFINE call == SubSeq(mine, 1, n)
           g == [f EXCEPT ![r] = f[r] \o call]
<1>2. /\ TypeOK /\ n \in Nat /\ 1 <= n /\ n <= Held(r) /\ Held(r) \in Nat /\ t \in Nat
      /\ mine \in Seq(Results) /\ DOMAIN mine = 1 .. Held(r) /\ Len(mine) = Held(r)
      /\ rank'[r].total = t + n
      /\ \A s \in Ranks : s # r => rank'[s] = rank[s]
      /\ Batch(r) = {mine[i] : i \in 1 .. n} /\ Batch(r) \in SUBSET Results
      /\ Held(r) <= Share /\ Share \in Nat
  <2>1. /\ TypeOK /\ n \in Nat /\ 1 <= n /\ n <= Held(r) /\ Held(r) \in Nat /\ t \in Nat
        /\ mine \in Seq(Results) /\ DOMAIN mine = 1 .. Held(r)
        /\ rank'[r].total = t + n
        /\ \A s \in Ranks : s # r => rank'[s] = rank[s]
        /\ Batch(r) = {mine[i] : i \in 1 .. n} /\ Batch(r) \in SUBSET Results
        /\ Held(r) <= MaxLen(r) /\ Share \in Nat /\ Bounded(r) /\ rank[r].at = "infer"
    <3>1. /\ TypeOK /\ rank[r].len \in Nat /\ 1 <= rank[r].len /\ rank[r].len <= Held(r)
          /\ Held(r) \in Nat /\ rank[r].total \in Nat
          /\ rank[r].results \in Seq(Results) /\ DOMAIN rank[r].results = 1 .. Held(r)
          /\ rank'[r].total = rank[r].total + rank[r].len
          /\ \A s \in Ranks : s # r => rank'[s] = rank[s]
          /\ Batch(r) = {rank[r].results[i] : i \in 1 .. rank[r].len}
          /\ Batch(r) \in SUBSET Results
          /\ Held(r) <= MaxLen(r) /\ Share \in Nat /\ Bounded(r) /\ rank[r].at = "infer"
      BY InferFacts
    <3>2. QED  BY ONLY <1>0, <3>1
  <2>2. Len(mine) = Held(r)  BY <1>0 DEF Held
  <2>3. t < Share  BY <1>0, <2>1 DEF Bounded
  <2>4. MaxLen(r) \in Nat /\ MaxLen(r) <= Share - t  BY <1>0, <2>1, <2>3, MayTake
  <2>5. Held(r) <= Share  BY <2>1, <2>3, <2>4
  <2>6. QED  BY <2>1, <2>2, <2>5
<1>3. /\ call \in Seq(Results) /\ Len(call) = n
      /\ \A k \in 1 .. n : call[k] = mine[k]
  <2>1. 1 \in 1 .. Len(mine) + 1 /\ n \in (1 - 1) .. Len(mine)  BY <1>2
  <2>2. mine \in Seq(Results) /\ n \in Nat  BY <1>2
  <2>3. /\ call \in Seq(Results) /\ Len(call) = n - 1 + 1
        /\ \A k \in 1 .. (n - 1 + 1) : call[k] = mine[1 + k - 1]
    BY ONLY <2>1, <2>2, SubSeqSeq DEF call
  <2>4. QED  BY <2>2, <2>3
<1>4. /\ f \in [Ranks -> Seq(Results)]
      /\ \A s \in Ranks : Len(f[s]) = rank[s].total
      /\ \A s \in Ranks : \A i \in 1 .. rank[s].total : Past(f[s][i])
      /\ \A p, q \in Ranks : \A i \in 1 .. rank[p].total, j \in 1 .. rank[q].total :
           f[p][i] = f[q][j] => p = q /\ i = j
  BY <1>1 DEF Inferred
<1>5. \A s \in Ranks : rank[s].total \in Nat  BY <1>2, FieldsOf
<1> HIDE DEF call
<1>6. /\ f[r] \o call \in Seq(Results) /\ Len(f[r] \o call) = t + n
      /\ \A i \in 1 .. t : (f[r] \o call)[i] = f[r][i]
      /\ \A i \in 1 .. n : (f[r] \o call)[t + i] = mine[i]
  <2>1. f[r] \in Seq(Results) /\ Len(f[r]) = t  BY <1>0, <1>4
  <2>2. /\ f[r] \o call \in Seq(Results) /\ Len(f[r] \o call) = t + n
        /\ DOMAIN (f[r] \o call) = 1 .. (t + n)
        /\ \A i \in DOMAIN (f[r] \o call) :
             (f[r] \o call)[i] = IF i <= t THEN f[r][i] ELSE call[i - t]
    <3>1. f[r] \in Seq(Results) /\ call \in Seq(Results)  BY <1>3, <2>1
    <3>2. /\ f[r] \o call \in Seq(Results)
          /\ DOMAIN (f[r] \o call) = 1 .. (Len(f[r]) + Len(call))
          /\ \A i \in DOMAIN (f[r] \o call) :
               (f[r] \o call)[i] = IF i <= Len(f[r]) THEN f[r][i] ELSE call[i - Len(f[r])]
      BY ONLY <3>1, ConcatSeq
    <3>3. Len(f[r]) = t /\ Len(call) = n  BY <1>3, <2>1
    <3>4. Len(f[r] \o call) = Len(f[r]) + Len(call)  BY <3>1
    <3>5. QED  BY <3>2, <3>3, <3>4
  <2>3. ASSUME NEW i \in 1 .. t PROVE (f[r] \o call)[i] = f[r][i]
    <3>1. i \in 1 .. (t + n) /\ i <= t  BY <1>2
    <3>2. QED  BY <2>2, <3>1
  <2>4. ASSUME NEW i \in 1 .. n PROVE (f[r] \o call)[t + i] = mine[i]
    <3>1. t + i \in 1 .. (t + n) /\ ~(t + i <= t) /\ (t + i) - t = i  BY <1>2
    <3>2. (f[r] \o call)[t + i] = call[(t + i) - t]  BY <2>2, <3>1
    <3>3. QED  BY <1>3, <3>1, <3>2
  <2>5. QED  BY <2>2, <2>3, <2>4
<1>7. /\ g \in [Ranks -> Seq(Results)] /\ g[r] = f[r] \o call
      /\ \A s \in Ranks : s # r => g[s] = f[s]
  BY <1>4, <1>6
<1> HIDE DEF g
<1>8. ASSUME NEW i \in 1 .. n
      PROVE  /\ mine[i] \in Results /\ Past(mine[i])' /\ ~Past(mine[i])
             /\ \A j \in 1 .. n : mine[i] = mine[j] => i = j
  <2>1. mine[i] \in Batch(r) /\ mine[i] \in Results  BY <1>2
  <2>2. Past(mine[i])' /\ ~Past(mine[i])
    <3>1. PICK x \in Results : x = mine[i]  BY <2>1
    <3>2. x \in Batch(r)  BY <2>1, <3>1
    <3>3. Past(x)' /\ ~Past(x)  BY <3>2, InferMoves
    <3>4. QED  BY <3>1, <3>3
  <2>3. ASSUME NEW j \in 1 .. n, mine[i] = mine[j] PROVE i = j
    <3>1. i \in 1 .. Share /\ i <= Held(r) /\ j \in 1 .. Share /\ j <= Held(r)
      BY <1>2
    <3>2. <<r, i>> \in HoldsOf(mine[i]) /\ <<r, j>> \in HoldsOf(mine[i])
      BY <1>0, <2>3, <3>1 DEF HoldsOf
    <3>3. Placed(mine[i])  BY <2>1 DEF PlacesInv
    <3>4. HoldsOf(mine[i]) = {<<r, i>>}  BY <2>1, <3>2, <3>3, OnceOnly
    <3>5. QED  BY <3>2, <3>4
  <2>4. QED  BY <2>1, <2>2, <2>3
<1>9. ASSUME NEW x \in Results, Past(x) PROVE Past(x)'
  BY <1>9, InferMoves
<1>10. ASSUME NEW s \in Ranks, NEW i \in 1 .. rank'[s].total
       PROVE  \/ /\ i \in 1 .. rank[s].total /\ g[s][i] = f[s][i]
                 /\ Past(f[s][i]) /\ f[s][i] \in Results
              \/ /\ s = r /\ i - t \in 1 .. n /\ i = t + (i - t)
                 /\ g[s][i] = mine[i - t]
  <2>1. CASE s # r
    <3>1. i \in 1 .. rank[s].total  BY <1>2, <2>1
    <3>2. f[s][i] \in Results  BY <1>4, <1>5, <3>1
    <3>3. QED  BY <1>4, <1>7, <2>1, <3>1, <3>2
  <2>2. CASE s = r /\ i <= t
    <3>1. i \in 1 .. t /\ i \in 1 .. rank[s].total  BY <1>0, <1>2, <2>2
    <3>2. f[s][i] \in Results  BY <1>4, <1>5, <3>1
    <3>3. QED  BY <1>4, <1>6, <1>7, <2>2, <3>1, <3>2
  <2>3. CASE s = r /\ ~(i <= t)
    <3>1. i - t \in 1 .. n /\ i = t + (i - t)  BY <1>2, <2>3
    <3>2. g[s][t + (i - t)] = mine[i - t]  BY <1>6, <1>7, <2>3, <3>1
    <3>3. QED  BY <2>3, <3>1, <3>2
  <2>4. QED  BY <2>1, <2>2, <2>3
<1>11. \A s \in Ranks : Len(g[s]) = rank'[s].total
  BY <1>2, <1>4, <1>6, <1>7
<1>12. ASSUME NEW s \in Ranks, NEW i \in 1 .. rank'[s].total PROVE Past(g[s][i])'
  <2>1. CASE i \in 1 .. rank[s].total /\ g[s][i] = f[s][i] /\ Past(f[s][i]) /\ f[s][i] \in Results
    <3>1. PICK x \in Results : x = f[s][i] /\ Past(x)  BY <2>1
    <3>2. Past(x)'  BY <1>9, <3>1
    <3>3. QED  BY <2>1, <3>1, <3>2
  <2>2. CASE s = r /\ i - t \in 1 .. n /\ g[s][i] = mine[i - t]
    <3>1. Past(mine[i - t])'  BY <1>8, <2>2
    <3>2. QED  BY <2>2, <3>1
  <2>3. QED  BY <1>10, <2>1, <2>2
<1>13. ASSUME NEW p \in Ranks, NEW q \in Ranks,
              NEW i \in 1 .. rank'[p].total, NEW j \in 1 .. rank'[q].total,
              g[p][i] = g[q][j]
       PROVE  p = q /\ i = j
  <2> DEFINE Old(s, k) == /\ k \in 1 .. rank[s].total /\ g[s][k] = f[s][k]
                          /\ Past(f[s][k]) /\ f[s][k] \in Results
             New(s, k) == s = r /\ k - t \in 1 .. n /\ k = t + (k - t) /\ g[s][k] = mine[k - t]
  <2>1. (Old(p, i) \/ New(p, i)) /\ (Old(q, j) \/ New(q, j))  BY <1>10
  <2>2. CASE Old(p, i) /\ Old(q, j)
    <3>1. f[p][i] = f[q][j]  BY <1>13, <2>2
    <3>2. i \in 1 .. rank[p].total /\ j \in 1 .. rank[q].total  BY <2>2
    <3> HIDE DEF Old, New
    <3>3. QED  BY <1>4, <3>1, <3>2
  <2>3. CASE Old(p, i) /\ New(q, j)  BY <1>8, <1>13, <2>3
  <2>4. CASE New(p, i) /\ Old(q, j)  BY <1>8, <1>13, <2>4
  <2>5. CASE New(p, i) /\ New(q, j)
    <3>1. i - t = j - t  BY <1>8, <1>13, <2>5
    <3>2. QED  BY <2>5, <3>1
  <2>6. QED  BY <2>1, <2>2, <2>3, <2>4, <2>5
<1>14. Inferred(g)'  BY <1>7, <1>11, <1>12, <1>13 DEF Inferred
<1>15. QED  BY <1>14

LEMMA InferPlaces ==
  ASSUME PlacesInv, NEW r \in Ranks, Infer(r) PROVE PlacesInv'
<1>1. TypeOK' /\ AskedOnce' /\ \A s \in Ranks : Bounded(s)'  BY InferBounded
<1>2. \A x \in Results : Placed(x)'  BY InferMoves
<1>3. \E f : Inferred(f)'  BY InferCounted
<1>4. QED  BY <1>1, <1>2, <1>3 DEF PlacesInv

-----------------------------------------------------------------------------
(* When every rank has its share, every result has been inferred: as many   *)
(* are, all different, as there are. So the next step finds nothing left.   *)
LEMMA AllInferred ==
  ASSUME PlacesInv, \A r \in Ranks : rank[r].at = "done", NEW x \in Results
  PROVE  Past(x)
<1>1. PICK f : Inferred(f)  BY DEF PlacesInv
<1>2. ASSUME NEW r \in Ranks PROVE rank[r].total = Share
  BY DEF PlacesInv, Bounded
<1>3. /\ f \in [Ranks -> Seq(Results)]
      /\ \A r \in Ranks : Len(f[r]) = Share
      /\ \A r \in Ranks : \A i \in 1 .. Share : Past(f[r][i])
      /\ \A p, q \in Ranks : \A i \in 1 .. Share, j \in 1 .. Share :
           f[p][i] = f[q][j] => p = q /\ i = j
  BY <1>1, <1>2 DEF Inferred
<1> DEFINE D == Ranks \X (1 .. Share)
           g == [h \in D |-> f[h[1]][h[2]]]
<1>4. g \in [D -> Results]
  <2>1. ASSUME NEW h \in D PROVE f[h[1]][h[2]] \in Results
    <3>1. h[1] \in Ranks /\ h[2] \in 1 .. Share  OBVIOUS
    <3>2. f[h[1]] \in Seq(Results) /\ Len(f[h[1]]) = Share  BY <1>3, <3>1
    <3>3. QED  BY <3>1, <3>2
  <2>2. QED  BY <2>1
<1>5. g \in Injection(D, Results)
  <2>1. ASSUME NEW h \in D, NEW k \in D, g[h] = g[k] PROVE h = k
    <3>1. h = <<h[1], h[2]>> /\ k = <<k[1], k[2]>>  OBVIOUS
    <3>2. h[1] = k[1] /\ h[2] = k[2]  BY <1>3, <2>1
    <3>3. QED  BY <3>1, <3>2
  <2>2. DOMAIN g = D  OBVIOUS
  <2> HIDE DEF g, D
  <2>3. IsInjective(g)  BY <2>1, <2>2 DEF IsInjective
  <2>4. QED  BY <1>4, <2>3 DEF Injection
<1>6. Cardinality(D) = Cardinality(Results)
  <2>1. IsFiniteSet(1 .. Share) /\ Cardinality(1 .. Share) = Share
    BY ResultCount, FS_Interval
  <2>2. Cardinality(D) = Cardinality(Ranks) * Cardinality(1 .. Share)
    BY <2>1, ResultCount, FS_Product
  <2>3. Cardinality(Ranks) \in Nat /\ Share \in Nat  BY ResultCount
  <2>4. \A a, b \in Nat : a * b = b * a  OBVIOUS
  <2>5. QED  BY <2>1, <2>2, <2>3, <2>4, ResultCount
<1> HIDE DEF g, D
<1>7. g \in Surjection(D, Results)
  BY <1>5, <1>6, ResultCount, FS_Injection
<1>8. PICK h \in D : g[h] = x  BY <1>7 DEF Surjection
<1>9. h[1] \in Ranks /\ h[2] \in 1 .. Share /\ x = f[h[1]][h[2]]
  BY <1>8 DEF D, g
<1>10. QED  BY <1>3, <1>9

AllFresh == \A r \in Ranks : rank[r] = Fresh
NothingDone == /\ \A x : HoldsOf(x) = {} /\ CollectsOf(x) = {}
               /\ \E f : Inferred(f)

LEMMA FreshPlaced ==
  AllFresh => NothingDone
<1> SUFFICES ASSUME \A r \in Ranks : rank[r] = Fresh PROVE NothingDone
  BY DEF AllFresh
<1>1. \A r \in Ranks : rank[r].results = <<>> /\ rank[r].collected = {} /\ rank[r].total = 0
  BY DEF Fresh
<1>2. \A r \in Ranks : Held(r) = 0  BY <1>1 DEF Held
<1>3. ASSUME NEW x PROVE HoldsOf(x) = {} /\ CollectsOf(x) = {}
  <2>1. CollectsOf(x) = {}  BY <1>1 DEF CollectsOf
  <2>2. \A h \in Ranks \X (1 .. Share) : ~(h[2] <= Held(h[1]))
    BY <1>2, ShareAssumption
  <2>3. HoldsOf(x) = {}  BY <2>2 DEF HoldsOf
  <2>4. QED  BY <2>1, <2>3
<1>4. \E f : Inferred(f)
  <2> DEFINE f == [r \in Ranks |-> <<>>]
  <2>1. <<>> \in Seq(Results)  BY EmptyIsSeq
  <2>2. f \in [Ranks -> Seq(Results)]  BY <2>1
  <2>3. \A r \in Ranks : Len(f[r]) = rank[r].total  BY <1>1
  <2>4. \A r \in Ranks : 1 .. rank[r].total = {}  BY <1>1
  <2>5. Inferred(f)  BY <2>2, <2>3, <2>4 DEF Inferred
  <2>6. QED  BY <2>5
<1>5. QED  BY <1>3, <1>4 DEF NothingDone

LEMMA FreshIs ==
  /\ Fresh \in [at : {"fill", "poll", "reduce", "infer", "done"},
                call : 1 .. Share + 1, results : Seq(Results),
                len : 0 .. Share, total : 0 .. Share, collected : SUBSET Results]
  /\ \A r \in Ranks : TypeOK /\ rank[r] = Fresh /\ ~Asked(r) => Bounded(r)
<1>1. <<>> \in Seq(Results)  BY EmptyIsSeq
<1>2. Share \in Nat /\ 1 <= Share  BY ShareAssumption
<1>3. 1 \in 1 .. Share + 1 /\ 0 \in 0 .. Share  BY <1>2
<1>4. ASSUME NEW r \in Ranks, TypeOK, rank[r] = Fresh, ~Asked(r) PROVE Bounded(r)
  <2>1. /\ rank[r].at = "fill" /\ rank[r].call = 1 /\ rank[r].total = 0
        /\ rank[r].results = <<>>
    BY <1>4 DEF Fresh
  <2>2. Held(r) = 0  BY <2>1 DEF Held
  <2>3. rank[r].total < Share  BY <1>2, <2>1
  <2>4. MaxLen(r) \in Nat  BY <1>4, <2>3, MayTake
  <2>5. Held(r) <= MaxLen(r)  BY <2>2, <2>4
  <2>6. rank[r].call <= rank[r].total + 1  BY <2>1
  <2>7. QED  BY <1>4, <2>1, <2>3, <2>5, <2>6 DEF Bounded, Looping
<1>5. QED  BY <1>1, <1>3, <1>4 DEF Fresh

LEMMA InitPlaces ==
  ASSUME Init PROVE PlacesInv
<1>1. /\ mode \in Modes /\ arrived = 0 /\ input = <<>> /\ getters = <<>>
      /\ answer = [r \in Ranks |-> None] /\ rank = [r \in Ranks |-> Fresh]
      /\ output = [x \in Results |-> 0]
  BY DEF Init
<1>2. \A r \in Ranks : rank[r] = Fresh  BY <1>1
<1>3. TypeOK
  <2>1. <<>> \in Seq(Results) /\ <<>> \in Seq(Ranks)
    <3>1. <<>> \in Seq(Results)  BY EmptyIsSeq
    <3>2. <<>> \in Seq(Ranks)  BY EmptyIsSeq
    <3>3. QED  BY <3>1, <3>2
  <2>2. 0 \in 0 .. Cardinality(Results)  BY ResultCount
  <2>3. rank \in [Ranks -> [at : {"fill", "poll", "reduce", "infer", "done"},
                           call : 1 .. Share + 1, results : Seq(Results),
                           len : 0 .. Share, total : 0 .. Share,
                           collected : SUBSET Results]]
    BY <1>1, FreshIs
  <2>4. output \in [Results -> Nat]  BY <1>1
  <2>5. answer \in [Ranks -> Results \cup {None}]  BY <1>1
  <2>6. QED  BY <1>1, <2>1, <2>2, <2>3, <2>4, <2>5 DEF TypeOK
<1>4. DOMAIN getters = {} /\ DOMAIN input = {}  BY <1>1
<1>5. AskedOnce  BY <1>4 DEF AskedOnce
<1>6. \A r \in Ranks : ~Asked(r)  BY <1>1, <1>4 DEF Asked
<1>7. \A r \in Ranks : Bounded(r)  BY <1>2, <1>3, <1>6, FreshIs
<1>8. ASSUME NEW x \in Results PROVE Placed(x)
  <2>1. InputsOf(x) = {}  BY <1>4 DEF InputsOf
  <2>2. AnswersOf(x) = {}
    <3>1. x # None  BY ResultCount DEF None
    <3>2. QED  BY <1>1, <3>1 DEF AnswersOf
  <2>3. HoldsOf(x) = {} /\ CollectsOf(x) = {} /\ output[x] = 0
    BY <1>1, <1>2, FreshPlaced DEF AllFresh, NothingDone
  <2>4. ~(x <= arrived)  BY <1>1, ResultCount
  <2>5. QED  BY <2>1, <2>2, <2>3, <2>4 DEF Placed, Nowhere, NowhereIn
<1>9. \E f : Inferred(f)  BY <1>2, FreshPlaced DEF AllFresh, NothingDone
<1>10. QED  BY <1>3, <1>5, <1>7, <1>8, <1>9 DEF PlacesInv

LEMMA NextStepPlaces ==
  ASSUME PlacesInv, NextStep PROVE PlacesInv'
<1>1. /\ \A r \in Ranks : rank[r].at = "done"
      /\ arrived' = 0 /\ rank' = [r \in Ranks |-> Fresh]
      /\ output' = [x \in Results |-> 0]
      /\ mode' = mode /\ input' = input /\ getters' = getters /\ answer' = answer
      /\ TypeOK /\ AskedOnce
  BY DEF NextStep, PlacesInv
<1>2. \A r \in Ranks : rank'[r] = Fresh  BY <1>1
<1>3. ASSUME NEW r \in Ranks PROVE ~Asked(r)
  BY <1>1 DEF PlacesInv, Bounded
<1>4. TypeOK'
  <2>1. rank' \in [Ranks -> [at : {"fill", "poll", "reduce", "infer", "done"},
                            call : 1 .. Share + 1, results : Seq(Results),
                            len : 0 .. Share, total : 0 .. Share,
                            collected : SUBSET Results]]
    BY <1>1, FreshIs
  <2>2. 0 \in 0 .. Cardinality(Results)  BY ResultCount
  <2>3. output' \in [Results -> Nat]  BY <1>1
  <2>4. QED  BY <1>1, <2>1, <2>2, <2>3 DEF TypeOK
<1>5. AskedOnce'  BY <1>1 DEF AskedOnce
<1>6. \A r \in Ranks : ~Asked(r)'  BY <1>1, <1>3 DEF Asked
<1>7. \A r \in Ranks : Bounded(r)'
  <2>1. (\A r \in Ranks : TypeOK /\ rank[r] = Fresh /\ ~Asked(r) => Bounded(r))'
    BY FreshIs, PTL
  <2>2. QED  BY <1>2, <1>4, <1>6, <2>1
<1>8. NothingDone'
  <2>1. AllFresh'  BY <1>2 DEF AllFresh
  <2>2. QED  BY <2>1, FreshPlaced, PTL
<1>9. ASSUME NEW x \in Results PROVE Placed(x)'
  <2>1. InputsOf(x)' = {}
    <3>1. Past(x) /\ Placed(x)  BY <1>1, AllInferred DEF PlacesInv
    <3>2. InputsOf(x) = {}  BY <3>1, OnceOnly DEF Past
    <3>3. QED  BY <1>1, <3>2 DEF InputsOf
  <2>2. AnswersOf(x)' = {}
    <3>1. x # None  BY ResultCount DEF None
    <3>2. \A r \in Ranks : answer[r] = None  BY <1>3 DEF Asked
    <3>3. QED  BY <1>1, <3>1, <3>2 DEF AnswersOf
  <2>3. HoldsOf(x)' = {} /\ CollectsOf(x)' = {} /\ output'[x] = 0
    BY <1>1, <1>8 DEF NothingDone
  <2>4. ~(x <= arrived')  BY <1>1, ResultCount
  <2>5. QED  BY <2>1, <2>2, <2>3, <2>4 DEF Placed, Nowhere, NowhereIn
<1>10. (\E f : Inferred(f))'  BY <1>8 DEF NothingDone
<1>11. QED  BY <1>4, <1>5, <1>7, <1>9, <1>10 DEF PlacesInv

LEMMA NextPlaces ==
  ASSUME PlacesInv, [Next]_vars PROVE PlacesInv'
<1>1. CASE Arrive  BY <1>1, ArrivePlaces
<1>2. CASE Answer  BY <1>2, AnswerPlaces
<1>3. CASE AllReduceMin  BY <1>3, AllReducePlaces
<1>4. CASE NextStep  BY <1>4, NextStepPlaces
<1>5. ASSUME NEW r \in Ranks, RankNext(r) PROVE PlacesInv'
  <2>1. CASE Ask(r)  BY <2>1, AskPlaces
  <2>2. CASE Take(r)  BY <2>2, TakePlaces
  <2>3. CASE Filled(r)  BY <2>3, FilledPlaces
  <2>4. CASE EnterReduce(r)  BY <2>4, EnterReducePlaces
  <2>5. CASE Infer(r)  BY <2>5, InferPlaces
  <2>6. QED  BY <1>5, <2>1, <2>2, <2>3, <2>4, <2>5 DEF RankNext
<1>6. CASE UNCHANGED vars
  <2>1. /\ UNCHANGED <<mode, channelVars, output>> /\ rank' = rank
    BY <1>6 DEF vars
  <2>2. TypeOK'  BY <2>1 DEF PlacesInv, TypeOK, channelVars
  <2>3. ASSUME NEW r \in Ranks PROVE Bounded(r)'
    <3>1. Bounded(r)  BY DEF PlacesInv
    <3>2. Asked(r)' => Asked(r)  BY <2>1 DEF Asked, channelVars
    <3>3. QED  BY <2>1, <3>1, <3>2, BoundedStays
  <2>4. QED  BY <2>1, <2>2, <2>3, ResultsStay
<1>7. QED  BY <1>1, <1>2, <1>3, <1>4, <1>5, <1>6 DEF Next

(* Every result that arrives is inferred by one rank and put once, for any  *)
(* number of ranks, any share and every configuration, those that let the   *)
(* ranks leave a call apart included; a rank whose share is done has        *)
(* nothing left to forget, so the next step of training begins empty.       *)
THEOREM EachResultOnceThm == Spec => []EachResultOnce
<1>1. Init => PlacesInv  BY InitPlaces
<1>2. PlacesInv /\ [Next]_vars => PlacesInv'  BY NextPlaces
<1>3. PlacesInv => EachResultOnce  BY PlacesImply
<1>4. QED  BY <1>1, <1>2, <1>3, PTL DEF Spec
=============================================================================

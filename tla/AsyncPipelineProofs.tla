------------------------- MODULE AsyncPipelineProofs -------------------------
(***************************************************************************)
(* Proofs about the asynchronous pipeline of module AsyncPipeline and the  *)
(* replay buffer of module ReplayBuffer, for any number of stages and      *)
(* steps, any capacity and any pace of the workers.                        *)
(***************************************************************************)
EXTENDS AsyncPipeline, Integers, SequencesExt, SequenceTheorems,
        WellFoundedInduction, TLAPS

-----------------------------------------------------------------------------
(* Sequences: the domain of what an operation returns, and its elements.   *)

(* One sequence after another.                                              *)
LEMMA ConcatSeq ==
  ASSUME NEW S, NEW s \in Seq(S), NEW t \in Seq(S)
  PROVE  /\ s \o t \in Seq(S)
         /\ DOMAIN (s \o t) = 1..(Len(s) + Len(t))
         /\ \A i \in DOMAIN (s \o t) :
              (s \o t)[i] = IF i <= Len(s) THEN s[i] ELSE t[i - Len(s)]
         /\ \A i \in DOMAIN (s \o t) :
              IF i <= Len(s) THEN i \in DOMAIN s ELSE i - Len(s) \in DOMAIN t
  OBVIOUS

LEMMA SubSeqSeq ==
  ASSUME NEW S, NEW s \in Seq(S), NEW m \in 1 .. Len(s) + 1, NEW n \in m - 1 .. Len(s)
  PROVE  /\ SubSeq(s, m, n) \in Seq(S)
         /\ Len(SubSeq(s, m, n)) = n - m + 1
         /\ DOMAIN SubSeq(s, m, n) = 1 .. n - m + 1
         /\ \A k \in 1 .. n - m + 1 : SubSeq(s, m, n)[k] = s[m + k - 1]
  OBVIOUS

-----------------------------------------------------------------------------
USE PipelineAssumption

-----------------------------------------------------------------------------
(* The replay buffer's ring.                                                *)

Rows == Stages \X Nat

(* How many rows have been written since place p was.                       *)
Age(p) == IF p < pos THEN pos - 1 - p ELSE pos - 1 - p + capacity

RingInv ==
  /\ capacity \in Nat \ {0} /\ pos \in 0 .. capacity - 1 /\ size \in 0 .. capacity
  /\ latest \in Seq(Rows) /\ Len(latest) = size
  /\ size < capacity => pos = size
  /\ \A p \in 0 .. size - 1 : buffer[p] = latest[size - Age(p)]

-----------------------------------------------------------------------------
(* The ping-pong of environment and policy.                                 *)

EnvType == [epoch : Nat, chunk : 1 .. NChunkSteps, stage : Stages,
            at : {"starting", "awaiting", "blocked", "left"}]
PolicyType == [epoch : Nat \ {0}, chunk : 1 .. NChunkSteps + 1, stage : Stages,
               at : {"running", "left"}]
OutputType == [stage : Stages, step : Nat, rewarded : BOOLEAN]
ActionType == [stage : Stages, step : Nat]

(* The output that a policy p deals with next but n, n >= 0, if that is the *)
(* one of place s = p.stage + n, places past StageNum being those of the    *)
(* next chunk or epoch; and likewise the actions of an environment e.       *)
PolicyStep(p) == Before(p.epoch) + (p.chunk - 1)

OutputAt(p, s) ==
  IF s <= StageNum THEN Output(s, PolicyStep(p), p.chunk > 1)
  ELSE IF p.chunk <= NChunkSteps THEN Output(s - StageNum, PolicyStep(p) + 1, TRUE)
  ELSE Output(s - StageNum, PolicyStep(p), FALSE)

ActionAt(e, s) ==
  IF s <= StageNum THEN [stage |-> s, step |-> Before(e.epoch) + e.chunk]
  ELSE [stage |-> s - StageNum, step |-> Before(e.epoch) + e.chunk + 1]

(* With o outputs and a actions under way, environment e and policy p are   *)
(* between epochs; or the policy has still to deal with the last outputs of *)
(* the epoch before; or it is in the same chunk; or in the next one.        *)
Idle(e, p, o, a) ==
  /\ e.at \in {"starting", "left"} /\ a = 0
  /\ \/ /\ p.epoch = e.epoch /\ p.chunk = NChunkSteps + 1
        /\ o = StageNum - p.stage + 1
     \/ /\ p.epoch = e.epoch + 1 /\ p.chunk = 1 /\ p.stage = 1
        /\ o = 0

EpochBehind(e, p, o, a) ==
  /\ e.at \in {"awaiting", "blocked"}
  /\ p.epoch = e.epoch - 1 /\ p.chunk = NChunkSteps + 1
  /\ e.chunk = 1 /\ e.stage = 1
  /\ o = 2 * StageNum - p.stage + 1 /\ a = 0

SameChunk(e, p, o, a) ==
  /\ e.at \in {"awaiting", "blocked"}
  /\ p.epoch = e.epoch /\ p.chunk = e.chunk
  /\ e.stage <= p.stage
  /\ o = StageNum - p.stage + e.stage /\ a = p.stage - e.stage

NextChunk(e, p, o, a) ==
  /\ e.at \in {"awaiting", "blocked"}
  /\ p.epoch = e.epoch /\ p.chunk = e.chunk + 1
  /\ p.stage <= e.stage
  /\ o = e.stage - p.stage
  /\ a = StageNum - e.stage + (IF p.chunk <= NChunkSteps THEN p.stage ELSE 1)

Gap(e, p, o, a) ==
  \/ Idle(e, p, o, a) \/ EpochBehind(e, p, o, a)
  \/ SameChunk(e, p, o, a) \/ NextChunk(e, p, o, a)

TurnInv ==
  /\ env \in EnvType /\ policy \in PolicyType
  /\ envChannel \in Seq(OutputType) /\ rolloutChannel \in Seq(ActionType)
  /\ Gap(env, policy, Len(envChannel), Len(rolloutChannel))
  /\ \A k \in 1 .. Len(envChannel) : envChannel[k] = OutputAt(policy, policy.stage + (k - 1))
  /\ \A k \in 1 .. Len(rolloutChannel) : rolloutChannel[k] = ActionAt(env, env.stage + (k - 1))

-----------------------------------------------------------------------------
(* The queues of each stage and the records made of them.                   *)

(* The n-th entry of each queue since the beginning.                        *)
Entry(f, n) ==
  CASE f = "transitions" -> [obs |-> n - 1, next_obs |-> n]
    [] f = "inputs" -> [step |-> n, human |-> IF (n % NChunkSteps) = 0 THEN None ELSE n]
    [] f = "flags" -> n - 1 - ((n - 1) \div (NChunkSteps + 1))
    [] OTHER -> n

(* The outputs of stage s that a policy p has had in its epoch; how much    *)
(* there has been of each queue, and the last result and observation, when  *)
(* it has had d of them in epoch e.                                         *)
Had(p, s) == IF s < p.stage THEN p.chunk ELSE p.chunk - 1

Count(f, e, d) ==
  IF f = "flags" THEN (e - 1) * (NChunkSteps + 1) + d
  ELSE Before(e) + (IF d = 0 THEN 0 ELSE d - 1)

ResultOf(e, d) ==
  IF d \in 1 .. NChunkSteps THEN [step |-> Before(e) + d, human |-> None] ELSE NoResult
ObsOf(e, d) == IF d \in 1 .. NChunkSteps THEN Before(e) + (d - 1) ELSE None

Entries == {Entry(f, n) : f \in Fields, n \in Nat}

(* A queue whose first m entries are gone and that has had c.               *)
QueueOf(q, f, m, c) ==
  /\ q \in Seq(Entries) /\ m + Len(q) = c
  /\ \A i \in 1 .. Len(q) : q[i] = Entry(f, m + i)

QueuesInv(q, r, result, obs, e, d) ==
  /\ \A n \in 1 .. Len(r) : \A f \in Fields : r[n][f] = Entry(f, n)
  /\ \A f \in Fields : QueueOf(q[f], f, Len(r), Count(f, e, d))
  /\ result = ResultOf(e, d) /\ obs = ObsOf(e, d)

RecordsInv ==
  /\ queues \in [Stages -> [Fields -> Seq(Entries)]]
  /\ records \in [Stages -> Seq([Fields -> Entries])]
  /\ DOMAIN lastResults = Stages /\ DOMAIN lastObs = Stages
  /\ \A s \in Stages :
       QueuesInv(queues[s], records[s], lastResults[s], lastObs[s], policy.epoch, Had(policy, s))
  /\ replayChannel \in Seq(Rows)

LEMMA ModOf ==
  ASSUME NEW c \in Nat \ {0}, NEW x \in 0 .. 2 * c - 1
  PROVE  (x % c) = IF x < c THEN x ELSE x - c
  <1>1. CASE x < c
    BY <1>1
  <1>2. CASE ~(x < c)
    BY <1>2
  <1>3. QED
    BY <1>1, <1>2

LEMMA MinTwo ==
  ASSUME NEW a \in Int, NEW b \in Int
  PROVE  Min({a, b}) = IF a <= b THEN a ELSE b
  BY DEF Min

LEMMA InitRing == Init => RingInv
  <1> SUFFICES ASSUME Init PROVE RingInv
    OBVIOUS
  <1>1. capacity \in Nat \ {0} /\ pos = 0 /\ size = 0 /\ latest = <<>>
    BY DEF Init, InitBuffer
  <1>2. QED
    BY <1>1 DEF RingInv

(* The ring holds the latest rows before and after a batch.                 *)
LEMMA InsertRing ==
  ASSUME RingInv, NEW rows \in Seq(Rows), InsertBatch(rows)
  PROVE  RingInv'
  <1> DEFINE n == Len(rows)
             all == latest \o rows
             least == Min({Len(all), capacity})
             i(p) == 1 + ((p - pos + capacity) % capacity)
  <1>1. /\ capacity \in Nat \ {0} /\ pos \in 0 .. capacity - 1 /\ size \in 0 .. capacity
        /\ latest \in Seq(Rows) /\ Len(latest) = size
        /\ size < capacity => pos = size
        /\ \A p \in 0 .. size - 1 : buffer[p] = latest[size - Age(p)]
    BY DEF RingInv
  <1>2. n \in Nat /\ n < capacity /\ capacity' = capacity
    BY DEF InsertBatch
  <1>3. pos' = IF pos + n < capacity THEN pos + n ELSE pos + n - capacity
    <2>1. pos' = (pos + n) % capacity
      BY DEF InsertBatch, PosAfter
    <2>2. pos + n \in 0 .. 2 * capacity - 1
      BY <1>1, <1>2
    <2> DEFINE x == pos + n
    <2>3. x \in 0 .. 2 * capacity - 1 /\ pos' = x % capacity
      BY <2>1, <2>2
    <2> HIDE DEF x
    <2>4. pos' = IF x < capacity THEN x ELSE x - capacity
      BY <1>1, <2>3, ModOf
    <2>5. x = pos + n
      BY DEF x
    <2>6. QED
      BY <1>1, <1>2, <2>4, <2>5
  <1>4. size' = IF size + n <= capacity THEN size + n ELSE capacity
    <2>1. size' = Min({size + n, capacity})
      BY DEF InsertBatch
    <2>2. QED
      BY <1>1, <1>2, <2>1, MinTwo
  <1>5. /\ all \in Seq(Rows) /\ Len(all) = size + n
        /\ \A k \in 1 .. size + n : all[k] = IF k <= size THEN latest[k] ELSE rows[k - size]
    <2>1. Len(all) = size + n
      BY <1>1, <1>2
    <2>2. /\ all \in Seq(Rows) /\ DOMAIN all = 1 .. size + n
          /\ \A k \in DOMAIN all : all[k] = IF k <= size THEN latest[k] ELSE rows[k - size]
      <3>1. /\ all \in Seq(Rows) /\ DOMAIN all = 1 .. (Len(latest) + n)
            /\ \A k \in DOMAIN all :
                 all[k] = IF k <= Len(latest) THEN latest[k] ELSE rows[k - Len(latest)]
        BY <1>1, ConcatSeq
      <3> HIDE DEF all, n
      <3>2. QED
        BY <1>1, <3>1
    <2> HIDE DEF all, n
    <2>3. QED
      BY <2>1, <2>2
  <1>6. least = size'
    <2>1. Len(all) \in Int /\ capacity \in Int
      BY <1>1, <1>2, <1>5
    <2> HIDE DEF all
    <2>2. QED
      BY <1>4, <1>5, <2>1, MinTwo
  <1>7. latest' = SubSeq(all, 1 + Len(all) - least, Len(all))
    BY DEF InsertBatch
  <1>8. \A p \in 0 .. capacity - 1 :
          buffer'[p] = IF i(p) <= n THEN rows[i(p)] ELSE buffer[p]
    BY <1>2 DEF InsertBatch, Places
  <1>9. \A p \in 0 .. capacity - 1 :
          i(p) = 1 + (IF p < pos THEN p - pos + capacity ELSE p - pos)
    <2> SUFFICES ASSUME NEW p \in 0 .. capacity - 1
                 PROVE  i(p) = 1 + (IF p < pos THEN p - pos + capacity ELSE p - pos)
      OBVIOUS
    <2>1. p - pos + capacity \in 0 .. 2 * capacity - 1
      BY <1>1
    <2> DEFINE x == p - pos + capacity
    <2>2. x \in 0 .. 2 * capacity - 1 /\ i(p) = 1 + (x % capacity)
      BY <2>1
    <2> HIDE DEF x, i
    <2>3. (x % capacity) = IF x < capacity THEN x ELSE x - capacity
      BY <1>1, <2>2, ModOf
    <2>4. x = p - pos + capacity
      BY DEF x
    <2>5. CASE p < pos
      <3>1. x < capacity
        BY <1>1, <2>4, <2>5
      <3>2. QED
        BY <2>2, <2>3, <2>4, <2>5, <3>1
    <2>6. CASE ~(p < pos)
      <3>1. ~(x < capacity) /\ x - capacity = p - pos
        BY <1>1, <2>4, <2>6
      <3>2. QED
        BY <2>2, <2>3, <2>6, <3>1
    <2>7. QED
      BY <2>5, <2>6
  <1> HIDE DEF n, all, least, i
  <1>10. /\ latest' \in Seq(Rows) /\ Len(latest') = size'
         /\ \A k \in 1 .. size' : latest'[k] = all[size + n - size' + k]
    <2>1. size' \in Nat /\ size' <= size + n /\ size + n - size' + 1 \in 1 .. size + n + 1
      BY <1>1, <1>2, <1>4
    <2>2. latest' = SubSeq(all, size + n - size' + 1, size + n)
      <3>1. size \in Int /\ n \in Int /\ size' \in Int
        BY <1>1, <1>2, <2>1
      <3> HIDE DEF n
      <3>2. 1 + (size + n) - size' = size + n - size' + 1
        BY ONLY <3>1
      <3>3. QED
        BY <1>5, <1>6, <1>7, <3>2
    <2> DEFINE g == size + n - size'
               v == size'
               m == g + 1
               l == size + n
    <2>3. g \in Nat /\ v \in Nat /\ l = g + v /\ l \in Nat
      <3>1. size \in Int /\ n \in Int /\ v \in Int /\ v <= size + n /\ v >= 0 /\ size >= 0 /\ n >= 0
        BY <1>1, <1>2, <2>1
      <3> HIDE DEF v
      <3>2. size + n - v \in Nat /\ v \in Nat /\ size + n = size + n - v + v /\ size + n \in Nat
        BY <3>1
      <3>3. QED
        BY <3>2 DEF v
    <2>4. latest' = SubSeq(all, m, l) /\ Len(all) = l /\ all \in Seq(Rows)
      BY <1>5, <2>2
    <2> HIDE DEF g, v, l
    <2>5. m \in 1 .. Len(all) + 1 /\ l \in m - 1 .. Len(all)
      BY <2>3, <2>4
    <2>6. l - m + 1 = v /\ \A k \in 1 .. v : m + k - 1 = g + k
      BY <2>3
    <2> HIDE DEF m
    <2>7. /\ latest' \in Seq(Rows) /\ Len(latest') = l - m + 1
          /\ \A k \in 1 .. l - m + 1 : latest'[k] = all[m + k - 1]
      BY <2>4, <2>5, SubSeqSeq
    <2>8. latest' \in Seq(Rows) /\ Len(latest') = v /\ \A k \in 1 .. v : latest'[k] = all[g + k]
      BY <2>6, <2>7
    <2>9. QED
      BY <2>8 DEF g, v
  <1>11. ASSUME NEW p \in 0 .. size' - 1
         PROVE  buffer'[p] = latest'[size' - Age(p)']
    <2>1. p \in 0 .. capacity - 1
      BY <1>1, <1>2, <1>4, <1>11
    <2> DEFINE a == Age(p)'
    <2>2. a = IF p < pos' THEN pos' - 1 - p ELSE pos' - 1 - p + capacity
      BY <1>2 DEF Age
    <2> HIDE DEF a
    <2>3. i(p) = 1 + (IF p < pos THEN p - pos + capacity ELSE p - pos)
      BY <1>9, <2>1
    <2>4. CASE i(p) <= n
      <3>1. a = n - i(p)
        <4>1. i(p) \in Int /\ a \in Int /\ pos' \in Int
          <5>1. capacity \in Int /\ pos \in Int /\ p \in Int
            BY <1>1, <2>1
          <5>2. pos' \in Int
            BY <1>1, <1>2, <1>3, <5>1
          <5>3. i(p) \in Int
            <6> HIDE DEF i
            <6>1. QED
              BY <2>3, <5>1
          <5>4. a \in Int
            BY <1>2, <2>2, <5>1, <5>2
          <5>5. QED
            BY <5>2, <5>3, <5>4
        <4>2. CASE p < pos
          <5>1. i(p) = 1 + p - pos + capacity
            BY <1>1, <2>1, <2>3, <4>2
          <5>2. pos' = pos + n - capacity /\ p < pos'
            BY <1>1, <1>2, <1>3, <2>1, <2>4, <5>1
          <5>3. QED
            BY <1>1, <1>2, <2>1, <2>2, <5>1, <5>2
        <4>3. CASE ~(p < pos)
          <5>1. i(p) = 1 + p - pos
            BY <1>1, <2>1, <2>3, <4>3
          <5>2. CASE pos + n < capacity
            BY <1>1, <1>2, <1>3, <2>1, <2>2, <2>4, <5>1, <5>2
          <5>3. CASE ~(pos + n < capacity)
            BY <1>1, <1>2, <1>3, <2>1, <2>2, <2>4, <4>3, <5>1, <5>3
          <5>4. QED
            BY <5>2, <5>3
        <4>4. QED
          BY <4>2, <4>3
      <3>2. size' - a \in 1 .. size' /\ size + n - size' + (size' - a) = size + i(p)
            /\ i(p) \in 1 .. n
        BY <1>1, <1>2, <1>4, <2>1, <2>3, <2>4, <3>1, <1>3, <2>2
      <3>3. latest'[size' - a] = all[size + i(p)]
        BY <1>10, <3>2
      <3>4. all[size + i(p)] = rows[i(p)]
        <4>1. size + i(p) \in 1 .. size + n /\ ~(size + i(p) <= size)
              /\ (size + i(p)) - size = i(p)
          BY <1>1, <1>2, <3>2
        <4>2. QED
          BY <1>5, <4>1
      <3>5. QED
        BY <1>8, <2>1, <2>4, <3>3, <3>4 DEF a
    <2>5. CASE ~(i(p) <= n)
      <3>1. p \in 0 .. size - 1
        BY <1>1, <1>2, <1>4, <1>11, <2>1, <2>3, <2>5
      <3>2. Age(p) = IF p < pos THEN pos - 1 - p ELSE pos - 1 - p + capacity
        BY DEF Age
      <3>3. a = Age(p) + n
        BY <1>1, <1>2, <1>3, <2>1, <2>2, <2>3, <2>5, <3>2
      <3>4. /\ size' - a \in 1 .. size' /\ Age(p) \in Int
            /\ size + n - size' + (size' - a) = size - Age(p)
            /\ size - Age(p) \in 1 .. size
        BY <1>1, <1>2, <1>3, <1>4, <1>11, <2>1, <2>2, <2>3, <2>5, <3>1, <3>2, <3>3
      <3>5. latest'[size' - a] = all[size - Age(p)]
        BY <1>10, <3>4
      <3>6. all[size - Age(p)] = latest[size - Age(p)]
        BY <1>1, <1>2, <1>5, <3>4
      <3>7. QED
        BY <1>1, <1>8, <2>1, <2>5, <3>1, <3>5, <3>6 DEF a
    <2>6. QED
      BY <2>4, <2>5
  <1>12. /\ capacity' \in Nat \ {0} /\ pos' \in 0 .. capacity' - 1
         /\ size' \in 0 .. capacity' /\ (size' < capacity' => pos' = size')
    BY <1>1, <1>2, <1>3, <1>4
  <1>13. QED
    BY <1>10, <1>11, <1>12 DEF RingInv

LEMMA RingHoldsLatest == RingInv => BufferHoldsLatest
  <1> SUFFICES ASSUME RingInv PROVE BufferHoldsLatest
    OBVIOUS
  <1>1. /\ capacity \in Nat \ {0} /\ pos \in 0 .. capacity - 1 /\ size \in 0 .. capacity
        /\ latest \in Seq(Rows) /\ Len(latest) = size
        /\ size < capacity => pos = size
        /\ \A p \in 0 .. size - 1 : buffer[p] = latest[size - Age(p)]
    BY DEF RingInv
  <1>2. ToSet(latest) = {latest[k] : k \in 1 .. size}
    BY <1>1 DEF ToSet
  <1>3. ASSUME NEW p \in 0 .. size - 1 PROVE size - Age(p) \in 1 .. size
    BY <1>1 DEF Age
  <1>4. ASSUME NEW k \in 1 .. size
        PROVE  \E p \in 0 .. size - 1 : size - Age(p) = k
    <2> DEFINE a == size - k
               p == IF a < pos THEN pos - 1 - a ELSE pos - 1 - a + capacity
    <2>1. p \in 0 .. size - 1
      BY <1>1
    <2>2. Age(p) = a
      BY <1>1 DEF Age
    <2>3. size - a = k
      BY <1>1
    <2> HIDE DEF a, p
    <2>4. QED
      BY <2>1, <2>2, <2>3
  <1>5. {buffer[p] : p \in 0 .. size - 1} = {latest[k] : k \in 1 .. size}
    <2>1. ASSUME NEW p \in 0 .. size - 1
          PROVE  buffer[p] \in {latest[k] : k \in 1 .. size}
      BY <1>1, <1>3
    <2>2. ASSUME NEW k \in 1 .. size
          PROVE  latest[k] \in {buffer[p] : p \in 0 .. size - 1}
      <3>1. PICK p \in 0 .. size - 1 : size - Age(p) = k
        BY <1>4
      <3>2. buffer[p] = latest[k]
        BY <1>1, <3>1
      <3>3. QED
        BY <3>2
    <2>3. QED
      BY <2>1, <2>2
  <1>6. QED
    BY <1>1, <1>2, <1>5 DEF BufferHoldsLatest

-----------------------------------------------------------------------------
LEMMA Sizes == StageNum \in Nat \ {0} /\ NChunkSteps \in Nat \ {0}
  BY PipelineAssumption

LEMMA BeforeNext ==
  /\ \A e \in Nat : Before(e) \in Int /\ Before(e + 1) = Before(e) + NChunkSteps
  /\ \A e \in Nat \ {0} : Before(e) \in Nat
  <1>1. NChunkSteps \in Nat
    BY Sizes
  <1>2. ASSUME NEW e \in Nat
        PROVE  Before(e) \in Int /\ Before(e + 1) = Before(e) + NChunkSteps
    <2>1. (e + 1 - 1) * NChunkSteps = (e - 1) * NChunkSteps + NChunkSteps
      BY <1>1
    <2>2. QED
      BY <1>1, <2>1 DEF Before
  <1>3. ASSUME NEW e \in Nat \ {0} PROVE Before(e) \in Nat
    <2>1. e - 1 \in Nat
      OBVIOUS
    <2>2. (e - 1) * NChunkSteps \in Nat
      BY <1>1, <2>1
    <2>3. QED
      BY <2>2 DEF Before
  <1>4. QED
    BY <1>2, <1>3

(* Where an environment and a policy may be, as numbers.                    *)
EnvAt(e) ==
  /\ e.epoch \in Nat /\ e.chunk \in 1 .. NChunkSteps /\ e.stage \in 1 .. StageNum
  /\ e.at \in {"starting", "awaiting", "blocked", "left"}

PolicyAt(p) ==
  /\ p.epoch \in Nat \ {0} /\ p.chunk \in 1 .. NChunkSteps + 1 /\ p.stage \in 1 .. StageNum

LEMMA EnvIsAt == \A e \in EnvType : EnvAt(e)
  BY DEF EnvType, EnvAt, Stages

LEMMA PolicyIsAt == \A p \in PolicyType : PolicyAt(p)
  BY DEF PolicyType, PolicyAt, Stages

(* There are never more than two outputs of a stage under way.              *)
LEMMA GapBound ==
  ASSUME NEW e, NEW p, NEW o \in Nat, NEW a \in Nat, EnvAt(e), PolicyAt(p), Gap(e, p, o, a)
  PROVE  o <= 2 * StageNum - p.stage + 1 /\ a <= StageNum
  BY Sizes DEF EnvAt, PolicyAt, Gap, Idle, EpochBehind, SameChunk, NextChunk

(* The environment begins an epoch.                                         *)
LEMMA GapStart ==
  ASSUME NEW e, NEW f, NEW p, NEW o \in Nat, NEW a \in Nat, EnvAt(e), PolicyAt(p),
         Gap(e, p, o, a), e.at = "starting",
         f.epoch = e.epoch + 1, f.chunk = 1, f.stage = 1, f.at = "awaiting"
  PROVE  Gap(f, p, o + StageNum, a) /\ a = 0
  <1>1. Idle(e, p, o, a)
    BY DEF Gap, Idle, EpochBehind, SameChunk, NextChunk
  <1>2. CASE /\ p.epoch = e.epoch /\ p.chunk = NChunkSteps + 1
             /\ o = StageNum - p.stage + 1
    <2>1. EpochBehind(f, p, o + StageNum, a)
      BY <1>1, <1>2, Sizes DEF EpochBehind, Idle, EnvAt, PolicyAt
    <2>2. QED
      BY <1>1, <2>1 DEF Gap, Idle
  <1>3. CASE /\ p.epoch = e.epoch + 1 /\ p.chunk = 1 /\ p.stage = 1
             /\ o = 0
    <2>1. SameChunk(f, p, o + StageNum, a)
      BY <1>1, <1>3, Sizes DEF SameChunk, Idle, EnvAt, PolicyAt
    <2>2. QED
      BY <1>1, <2>1 DEF Gap, Idle
  <1>4. QED
    BY <1>1, <1>2, <1>3 DEF Idle

(* What it then puts into the channel is what the policy comes to next.     *)
LEMMA StartOutputs ==
  ASSUME NEW e, NEW p, NEW o \in Nat, NEW a \in Nat, EnvAt(e), PolicyAt(p),
         Gap(e, p, o, a), e.at = "starting", NEW s \in 1 .. StageNum
  PROVE  OutputAt(p, p.stage + (o + s - 1)) = Output(s, Before(e.epoch + 1), FALSE)
  <1>1. Idle(e, p, o, a)
    BY DEF Gap, Idle, EpochBehind, SameChunk, NextChunk
  <1> DEFINE b == Before(e.epoch)
             c == Before(e.epoch + 1)
             x == p.stage + (o + s - 1)
  <1>2. b \in Int /\ c = b + NChunkSteps
    BY BeforeNext DEF EnvAt
  <1> HIDE DEF b, c
  <1>3. CASE /\ p.epoch = e.epoch /\ p.chunk = NChunkSteps + 1
             /\ o = StageNum - p.stage + 1
    <2>1. ~(x <= StageNum) /\ ~(p.chunk <= NChunkSteps) /\ x - StageNum = s
      BY <1>3, Sizes DEF PolicyAt
    <2>2. PolicyStep(p) = c
      BY <1>2, <1>3, Sizes DEF PolicyStep, b
    <2> HIDE DEF x
    <2>3. OutputAt(p, x) = Output(s, c, FALSE)
      BY <2>1, <2>2 DEF OutputAt
    <2>4. QED
      BY <2>3 DEF c, x
  <1>4. CASE /\ p.epoch = e.epoch + 1 /\ p.chunk = 1 /\ p.stage = 1
             /\ o = 0
    <2>1. x <= StageNum /\ x = s /\ (p.chunk > 1) = FALSE
      BY <1>4, Sizes DEF PolicyAt
    <2>2. PolicyStep(p) = c
      <3>1. PolicyStep(p) = c + 0
        BY <1>4 DEF PolicyStep, c
      <3>2. c \in Int
        BY <1>2, Sizes
      <3>3. QED
        BY <3>1, <3>2
    <2> HIDE DEF x
    <2>3. OutputAt(p, x) = Output(s, c, FALSE)
      BY <2>1, <2>2 DEF OutputAt
    <2>4. QED
      BY <2>3 DEF c, x
  <1>5. QED
    BY <1>1, <1>3, <1>4 DEF Idle

(* Where the environment is after a step.                                   *)
EnvNext(e, f) ==
  \/ /\ e.stage < StageNum /\ f.epoch = e.epoch /\ f.chunk = e.chunk
     /\ f.stage = e.stage + 1 /\ f.at = "awaiting"
  \/ /\ e.stage = StageNum /\ e.chunk < NChunkSteps /\ f.epoch = e.epoch
     /\ f.chunk = e.chunk + 1 /\ f.stage = 1 /\ f.at = "awaiting"
  \/ /\ e.stage = StageNum /\ e.chunk = NChunkSteps /\ f.epoch = e.epoch
     /\ f.at = "starting"

LEMMA GapEnvStep ==
  ASSUME NEW e, NEW f, NEW p, NEW o \in Nat, NEW a \in Nat \ {0}, EnvAt(e), PolicyAt(p),
         Gap(e, p, o, a), e.at = "blocked", EnvNext(e, f)
  PROVE  Gap(f, p, o + 1, a - 1)
  <1>1. SameChunk(e, p, o, a) \/ NextChunk(e, p, o, a)
    BY DEF Gap, Idle, EpochBehind
  <1>2. CASE SameChunk(e, p, o, a)
    <2>1. SameChunk(f, p, o + 1, a - 1)
      BY <1>2, Sizes DEF SameChunk, EnvAt, PolicyAt, EnvNext
    <2>2. QED
      BY <2>1 DEF Gap
  <1>3. CASE NextChunk(e, p, o, a) /\ e.stage < StageNum
    <2>1. NextChunk(f, p, o + 1, a - 1)
      BY <1>3, Sizes DEF NextChunk, EnvAt, PolicyAt, EnvNext
    <2>2. QED
      BY <2>1 DEF Gap
  <1>4. CASE NextChunk(e, p, o, a) /\ e.stage = StageNum /\ e.chunk < NChunkSteps
    <2>1. SameChunk(f, p, o + 1, a - 1)
      BY <1>4, Sizes DEF NextChunk, SameChunk, EnvAt, PolicyAt, EnvNext
    <2>2. QED
      BY <2>1 DEF Gap
  <1>5. CASE NextChunk(e, p, o, a) /\ e.stage = StageNum /\ e.chunk = NChunkSteps
    <2>1. Idle(f, p, o + 1, a - 1)
      BY <1>5, Sizes DEF NextChunk, Idle, EnvAt, PolicyAt, EnvNext
    <2>2. QED
      BY <2>1 DEF Gap
  <1>6. QED
    BY <1>1, <1>2, <1>3, <1>4, <1>5, Sizes DEF EnvAt

(* Its output is the one that comes last for the policy.                    *)
LEMMA EnvStepOutput ==
  ASSUME NEW e, NEW p, NEW o \in Nat, NEW a \in Nat \ {0}, EnvAt(e), PolicyAt(p),
         Gap(e, p, o, a), e.at = "blocked"
  PROVE  OutputAt(p, p.stage + o) = Output(e.stage, Before(e.epoch) + e.chunk, TRUE)
  <1>1. SameChunk(e, p, o, a) \/ NextChunk(e, p, o, a)
    BY DEF Gap, Idle, EpochBehind
  <1> DEFINE b == Before(e.epoch)
             x == p.stage + o
  <1>2. b \in Int
    BY BeforeNext DEF EnvAt
  <1> HIDE DEF b
  <1>3. CASE SameChunk(e, p, o, a)
    <2>1. ~(x <= StageNum) /\ p.chunk <= NChunkSteps /\ x - StageNum = e.stage
      BY <1>3, Sizes DEF SameChunk, EnvAt, PolicyAt
    <2>2. PolicyStep(p) + 1 = b + e.chunk
      BY <1>2, <1>3 DEF PolicyStep, SameChunk, EnvAt, b
    <2> HIDE DEF x
    <2>3. OutputAt(p, x) = Output(e.stage, b + e.chunk, TRUE)
      BY <2>1, <2>2 DEF OutputAt
    <2>4. QED
      BY <2>3 DEF b, x
  <1>4. CASE NextChunk(e, p, o, a)
    <2>1. x <= StageNum /\ x = e.stage /\ (p.chunk > 1) = TRUE
      BY <1>4, Sizes DEF NextChunk, EnvAt, PolicyAt
    <2>2. PolicyStep(p) = b + e.chunk
      BY <1>2, <1>4 DEF PolicyStep, NextChunk, EnvAt, b
    <2> HIDE DEF x
    <2>3. OutputAt(p, x) = Output(e.stage, b + e.chunk, TRUE)
      BY <2>1, <2>2 DEF OutputAt
    <2>4. QED
      BY <2>3 DEF b, x
  <1>5. QED
    BY <1>1, <1>3, <1>4

(* The actions left are those it wants from then on.                        *)
LEMMA EnvStepActions ==
  ASSUME NEW e, NEW f, NEW p, NEW o \in Nat, NEW a \in Nat \ {0}, EnvAt(e), PolicyAt(p),
         Gap(e, p, o, a), e.at = "blocked", EnvNext(e, f), NEW k \in 1 .. a - 1
  PROVE  ActionAt(e, e.stage + k) = ActionAt(f, f.stage + (k - 1))
  <1>1. SameChunk(e, p, o, a) \/ NextChunk(e, p, o, a)
    BY DEF Gap, Idle, EpochBehind
  <1> DEFINE x == e.stage + k
             y == f.stage + (k - 1)
  <1>2. CASE e.stage < StageNum
    <2>1. x = y /\ f.epoch = e.epoch /\ f.chunk = e.chunk
      BY <1>2, Sizes DEF EnvNext, EnvAt
    <2>2. QED
      BY <2>1 DEF ActionAt
  <1>3. CASE ~(e.stage < StageNum)
    <2>1. NextChunk(e, p, o, a) /\ e.stage = StageNum
      BY <1>1, <1>3, Sizes DEF SameChunk, EnvAt, PolicyAt
    <2>2. e.chunk < NChunkSteps
      BY <2>1, Sizes DEF NextChunk, EnvAt, PolicyAt
    <2>3. f.epoch = e.epoch /\ f.chunk = e.chunk + 1 /\ f.stage = 1
      BY <1>3, <2>2, Sizes DEF EnvNext, EnvAt
    <2>4. k <= StageNum
      BY <2>1, Sizes DEF NextChunk, EnvAt, PolicyAt
    <2>5. ~(x <= StageNum) /\ x - StageNum = k /\ y <= StageNum /\ y = k
      BY <2>1, <2>3, <2>4, Sizes
    <2> DEFINE b == Before(e.epoch)
    <2>6. b \in Int
      BY BeforeNext DEF EnvAt
    <2> HIDE DEF b
    <2>7. b + e.chunk + 1 = b + f.chunk
      BY <2>3, <2>6 DEF EnvAt
    <2> HIDE DEF x, y
    <2>8. ActionAt(e, x) = ActionAt(f, y)
      BY <2>3, <2>5, <2>7 DEF ActionAt, b
    <2>9. QED
      BY <2>8 DEF x, y
  <1>4. QED
    BY <1>2, <1>3
(* Where the policy is after a step.                                        *)
PolicyNext(p, q) ==
  \/ /\ p.stage < StageNum /\ q.epoch = p.epoch /\ q.chunk = p.chunk
     /\ q.stage = p.stage + 1
  \/ /\ p.stage = StageNum /\ p.chunk <= NChunkSteps /\ q.epoch = p.epoch
     /\ q.chunk = p.chunk + 1 /\ q.stage = 1
  \/ /\ p.stage = StageNum /\ p.chunk = NChunkSteps + 1 /\ q.epoch = p.epoch + 1
     /\ q.chunk = 1 /\ q.stage = 1

Sent(p) == IF p.chunk <= NChunkSteps THEN 1 ELSE 0

LEMMA GapPolicyStep ==
  ASSUME NEW e, NEW p, NEW q, NEW o \in Nat \ {0}, NEW a \in Nat, EnvAt(e), PolicyAt(p),
         Gap(e, p, o, a), PolicyNext(p, q)
  PROVE  Gap(e, q, o - 1, a + Sent(p))
  <1>1. CASE Idle(e, p, o, a)
    <2>1. Idle(e, q, o - 1, a + Sent(p))
      BY <1>1, Sizes DEF Idle, EnvAt, PolicyAt, PolicyNext, Sent
    <2>2. QED
      BY <2>1 DEF Gap
  <1>2. CASE EpochBehind(e, p, o, a) /\ p.stage < StageNum
    <2>1. EpochBehind(e, q, o - 1, a + Sent(p))
      BY <1>2, Sizes DEF EpochBehind, EnvAt, PolicyAt, PolicyNext, Sent
    <2>2. QED
      BY <2>1 DEF Gap
  <1>3. CASE EpochBehind(e, p, o, a) /\ p.stage = StageNum
    <2>1. SameChunk(e, q, o - 1, a + Sent(p))
      BY <1>3, Sizes DEF EpochBehind, SameChunk, EnvAt, PolicyAt, PolicyNext, Sent
    <2>2. QED
      BY <2>1 DEF Gap
  <1>4. CASE SameChunk(e, p, o, a) /\ p.stage < StageNum
    <2>1. SameChunk(e, q, o - 1, a + Sent(p))
      BY <1>4, Sizes DEF SameChunk, EnvAt, PolicyAt, PolicyNext, Sent
    <2>2. QED
      BY <2>1 DEF Gap
  <1>5. CASE SameChunk(e, p, o, a) /\ p.stage = StageNum
    <2>1. NextChunk(e, q, o - 1, a + Sent(p))
      BY <1>5, Sizes DEF SameChunk, NextChunk, EnvAt, PolicyAt, PolicyNext, Sent
    <2>2. QED
      BY <2>1 DEF Gap
  <1>6. CASE NextChunk(e, p, o, a)
    <2>1. NextChunk(e, q, o - 1, a + Sent(p))
      BY <1>6, Sizes DEF NextChunk, EnvAt, PolicyAt, PolicyNext, Sent
    <2>2. QED
      BY <2>1 DEF Gap
  <1>7. p.stage < StageNum \/ p.stage = StageNum
    BY Sizes DEF PolicyAt
  <1>8. QED
    BY <1>1, <1>2, <1>3, <1>4, <1>5, <1>6, <1>7 DEF Gap

(* The outputs left are those it deals with from then on.                   *)
LEMMA PolicyStepOutputs ==
  ASSUME NEW e, NEW p, NEW q, NEW o \in Nat \ {0}, NEW a \in Nat, EnvAt(e), PolicyAt(p),
         Gap(e, p, o, a), PolicyNext(p, q), NEW k \in 1 .. o - 1
  PROVE  OutputAt(p, p.stage + k) = OutputAt(q, q.stage + (k - 1))
  <1> DEFINE x == p.stage + k
             y == q.stage + (k - 1)
             b == Before(p.epoch)
             c == Before(p.epoch + 1)
  <1>1. b \in Int /\ c = b + NChunkSteps
    BY BeforeNext DEF PolicyAt
  <1>2. o <= 2 * StageNum - p.stage + 1
    BY GapBound
  <1>3. PolicyStep(p) = b + (p.chunk - 1)
    BY DEF PolicyStep
  <1> HIDE DEF b, c
  <1>4. CASE p.stage < StageNum
    <2>1. x = y /\ q.epoch = p.epoch /\ q.chunk = p.chunk
      BY <1>4, Sizes DEF PolicyNext, PolicyAt
    <2>2. PolicyStep(q) = PolicyStep(p)
      BY <2>1 DEF PolicyStep
    <2> HIDE DEF x, y
    <2>3. OutputAt(p, x) = OutputAt(q, y)
      BY <2>1, <2>2 DEF OutputAt
    <2>4. QED
      BY <2>3 DEF x, y
  <1>5. CASE p.stage = StageNum /\ p.chunk <= NChunkSteps
    <2>1. q.epoch = p.epoch /\ q.chunk = p.chunk + 1 /\ q.stage = 1
      BY <1>5, Sizes DEF PolicyNext, PolicyAt
    <2>2. k <= StageNum
      BY <1>2, <1>5, Sizes
    <2>3. /\ ~(x <= StageNum) /\ x - StageNum = k /\ y <= StageNum /\ y = k
          /\ (q.chunk > 1) = TRUE
      BY <1>5, <2>1, <2>2, Sizes DEF PolicyAt
    <2>4. PolicyStep(q) = b + (q.chunk - 1)
      BY <2>1 DEF PolicyStep, b
    <2>5. PolicyStep(q) = PolicyStep(p) + 1
      BY <1>1, <1>3, <2>1, <2>4 DEF PolicyAt
    <2> HIDE DEF x, y
    <2>6. OutputAt(p, x) = OutputAt(q, y)
      BY <1>5, <2>3, <2>5 DEF OutputAt
    <2>7. QED
      BY <2>6 DEF x, y
  <1>6. CASE p.stage = StageNum /\ p.chunk = NChunkSteps + 1
    <2>1. q.epoch = p.epoch + 1 /\ q.chunk = 1 /\ q.stage = 1
      BY <1>6, Sizes DEF PolicyNext, PolicyAt
    <2>2. k <= StageNum
      BY <1>2, <1>6, Sizes
    <2>3. /\ ~(x <= StageNum) /\ x - StageNum = k /\ y <= StageNum /\ y = k
          /\ (q.chunk > 1) = FALSE /\ ~(p.chunk <= NChunkSteps)
      BY <1>6, <2>1, <2>2, Sizes DEF PolicyAt
    <2>4. PolicyStep(q) = c + (1 - 1)
      BY <2>1 DEF PolicyStep, c
    <2>5. PolicyStep(q) = PolicyStep(p)
      BY <1>1, <1>3, <1>6, <2>4, Sizes
    <2> HIDE DEF x, y
    <2>6. OutputAt(p, x) = OutputAt(q, y)
      BY <1>6, <2>3, <2>5 DEF OutputAt
    <2>7. QED
      BY <2>6 DEF x, y
  <1>7. QED
    BY <1>4, <1>5, <1>6, Sizes DEF PolicyAt

(* The actions it sends are those the environment wants after the ones that *)
(* are under way.                                                           *)
LEMMA PolicyStepAction ==
  ASSUME NEW e, NEW p, NEW o \in Nat \ {0}, NEW a \in Nat, EnvAt(e), PolicyAt(p),
         Gap(e, p, o, a), p.chunk <= NChunkSteps
  PROVE  ActionAt(e, e.stage + a) = [stage |-> p.stage, step |-> PolicyStep(p) + 1]
  <1>1. SameChunk(e, p, o, a) \/ NextChunk(e, p, o, a)
    BY Sizes DEF Gap, Idle, EpochBehind
  <1> DEFINE x == e.stage + a
             b == Before(e.epoch)
  <1>2. b \in Int
    BY BeforeNext DEF EnvAt
  <1>3. p.epoch = e.epoch
    BY <1>1 DEF SameChunk, NextChunk
  <1>4. PolicyStep(p) = b + (p.chunk - 1)
    BY <1>3 DEF PolicyStep
  <1> HIDE DEF b
  <1>5. CASE SameChunk(e, p, o, a)
    <2>1. x <= StageNum /\ x = p.stage
      BY <1>5, Sizes DEF SameChunk, EnvAt, PolicyAt
    <2>2. PolicyStep(p) + 1 = b + e.chunk
      BY <1>2, <1>4, <1>5 DEF SameChunk, EnvAt
    <2> HIDE DEF x
    <2>3. ActionAt(e, x) = [stage |-> p.stage, step |-> PolicyStep(p) + 1]
      BY <2>1, <2>2 DEF ActionAt, b
    <2>4. QED
      BY <2>3 DEF x
  <1>6. CASE NextChunk(e, p, o, a)
    <2>1. ~(x <= StageNum) /\ x - StageNum = p.stage
      BY <1>6, Sizes DEF NextChunk, EnvAt, PolicyAt
    <2>2. PolicyStep(p) + 1 = b + e.chunk + 1
      BY <1>2, <1>4, <1>6 DEF NextChunk, EnvAt
    <2> HIDE DEF x
    <2>3. ActionAt(e, x) = [stage |-> p.stage, step |-> PolicyStep(p) + 1]
      BY <2>1, <2>2 DEF ActionAt, b
    <2>4. QED
      BY <2>3 DEF x
  <1>7. QED
    BY <1>1, <1>5, <1>6

-----------------------------------------------------------------------------
LEMMA InitTurn == Init => TurnInv
  <1> SUFFICES ASSUME Init PROVE TurnInv
    OBVIOUS
  <1>1. /\ env = [epoch |-> 0, chunk |-> 1, stage |-> 1, at |-> "starting"]
        /\ policy = [epoch |-> 1, chunk |-> 1, stage |-> 1, at |-> "running"]
        /\ envChannel = <<>> /\ rolloutChannel = <<>>
    BY DEF Init
  <1>2. env \in EnvType /\ policy \in PolicyType
    BY <1>1, Sizes DEF EnvType, PolicyType, Stages
  <1>3. Len(envChannel) = 0 /\ Len(rolloutChannel) = 0
    BY <1>1
  <1>4. Gap(env, policy, 0, 0)
    BY <1>1 DEF Gap, Idle
  <1>5. QED
    BY <1>1, <1>2, <1>3, <1>4 DEF TurnInv

(* The parts of the invariant, in the words of the lemmas above.            *)
LEMMA TurnParts ==
  ASSUME TurnInv
  PROVE  /\ EnvAt(env) /\ PolicyAt(policy)
         /\ Len(envChannel) \in Nat /\ Len(rolloutChannel) \in Nat
         /\ Gap(env, policy, Len(envChannel), Len(rolloutChannel))
  BY EnvIsAt, PolicyIsAt DEF TurnInv

LEMMA StartEpochTurn ==
  ASSUME TurnInv, StartEpoch, UNCHANGED policyVars
  PROVE  TurnInv'
  <1> DEFINE new == [s \in Stages |-> Output(s, Before(env'.epoch), FALSE)]
             c == Before(env.epoch + 1)
             o == Len(envChannel)
             a == Len(rolloutChannel)
  <1>1. /\ env' = [epoch |-> env.epoch + 1, chunk |-> 1, stage |-> 1, at |-> "awaiting"]
        /\ envChannel' = envChannel \o new /\ rolloutChannel' = rolloutChannel
        /\ env.at = "starting" /\ policy' = policy
    BY DEF StartEpoch, policyVars
  <1>2. /\ EnvAt(env) /\ PolicyAt(policy) /\ o \in Nat /\ a \in Nat
        /\ Gap(env, policy, o, a)
    BY TurnParts
  <1>3. /\ env'.epoch = env.epoch + 1 /\ env'.chunk = 1 /\ env'.stage = 1
        /\ env'.at = "awaiting"
    BY <1>1
  <1>4. env' \in EnvType /\ policy' \in PolicyType
    BY <1>1, <1>2, Sizes DEF TurnInv, EnvType, EnvAt, Stages
  <1>5. c \in Nat /\ new = [s \in 1 .. StageNum |-> Output(s, c, FALSE)]
    <2>1. env.epoch + 1 \in Nat \ {0}
      BY <1>2 DEF EnvAt
    <2>2. c \in Nat
      BY <2>1, BeforeNext
    <2>3. QED
      BY <1>3, <2>2 DEF Stages
  <1> HIDE DEF new, c
  <1>6. /\ new \in Seq(OutputType) /\ Len(new) = StageNum
        /\ \A s \in 1 .. StageNum : new[s] = Output(s, c, FALSE)
    <2>1. \A s \in 1 .. StageNum : Output(s, c, FALSE) \in OutputType
      BY <1>5 DEF Output, OutputType, Stages
    <2> DEFINE g(s) == Output(s, c, FALSE)
    <2>2. new = [s \in 1 .. StageNum |-> g(s)] /\ \A s \in 1 .. StageNum : g(s) \in OutputType
      BY <1>5, <2>1
    <2>3. \A s \in 1 .. StageNum : g(s) = Output(s, c, FALSE)
      OBVIOUS
    <2> HIDE DEF g
    <2>4. /\ new \in Seq(OutputType) /\ Len(new) = StageNum
          /\ \A s \in 1 .. StageNum : new[s] = g(s)
      BY <2>2, Sizes
    <2>5. QED
      BY <2>3, <2>4
  <1>7. envChannel \in Seq(OutputType) /\ rolloutChannel' \in Seq(ActionType)
    BY <1>1 DEF TurnInv
  <1>8. /\ envChannel' \in Seq(OutputType) /\ Len(envChannel') = o + StageNum
        /\ \A k \in 1 .. o + StageNum :
             envChannel'[k] = IF k <= o THEN envChannel[k] ELSE new[k - o]
    <2>1. /\ envChannel \o new \in Seq(OutputType)
          /\ DOMAIN (envChannel \o new) = 1 .. (o + StageNum)
          /\ \A k \in DOMAIN (envChannel \o new) :
               (envChannel \o new)[k] = IF k <= o THEN envChannel[k] ELSE new[k - o]
      BY <1>6, <1>7, ConcatSeq
    <2>2. Len(envChannel \o new) = o + StageNum
      BY <1>2, <2>1, Sizes
    <2>3. QED
      BY <1>1, <2>1, <2>2
  <1>9. Gap(env', policy, o + StageNum, a) /\ a = 0
    BY <1>1, <1>2, <1>3, GapStart
  <1> HIDE DEF o, a
  <1>10. ASSUME NEW k \in 1 .. o + StageNum
         PROVE  envChannel'[k] = OutputAt(policy, policy.stage + (k - 1))
    <2>1. CASE k <= o
      <3>1. k \in 1 .. o
        BY <1>2, <2>1
      <3>2. envChannel[k] = OutputAt(policy, policy.stage + (k - 1))
        BY <3>1 DEF TurnInv, o
      <3>3. QED
        BY <1>8, <2>1, <3>2
    <2>2. CASE ~(k <= o)
      <3> DEFINE s == k - o
      <3>1. s \in 1 .. StageNum /\ o + s - 1 = k - 1
        BY <1>2, <2>2, Sizes
      <3>2. envChannel'[k] = new[s]
        BY <1>8, <2>2
      <3> HIDE DEF s
      <3>3. new[s] = Output(s, c, FALSE)
        BY <1>6, <3>1
      <3>4. OutputAt(policy, policy.stage + (o + s - 1)) = Output(s, c, FALSE)
        BY <1>1, <1>2, <3>1, StartOutputs DEF c
      <3>5. QED
        BY <3>1, <3>2, <3>3, <3>4
    <2>3. QED
      BY <2>1, <2>2
  <1>11. Len(rolloutChannel') = a
    BY <1>1 DEF a
  <1>12. QED
    BY <1>1, <1>4, <1>7, <1>8, <1>9, <1>10, <1>11 DEF TurnInv
(* Steps that only change what the environment is at.                       *)
LEMMA GoOnTurn ==
  ASSUME TurnInv, GoOn \/ LeaveInteract, UNCHANGED policyVars
  PROVE  TurnInv'
  <1>1. /\ envChannel' = envChannel /\ rolloutChannel' = rolloutChannel /\ policy' = policy
        /\ \/ env.at = "awaiting" /\ env' = [env EXCEPT !.at = "blocked"]
           \/ env.at = "starting" /\ env' = [env EXCEPT !.at = "left"]
    BY DEF GoOn, LeaveInteract, channelVars, policyVars
  <1>2. /\ env' \in EnvType
        /\ env'.epoch = env.epoch /\ env'.chunk = env.chunk /\ env'.stage = env.stage
        /\ \/ env.at = "awaiting" /\ env'.at = "blocked"
           \/ env.at = "starting" /\ env'.at = "left"
    BY <1>1 DEF TurnInv, EnvType
  <1>3. \A s : ActionAt(env', s) = ActionAt(env, s)
    BY <1>2 DEF ActionAt
  <1>4. Gap(env', policy, Len(envChannel), Len(rolloutChannel))
    <2>1. Gap(env, policy, Len(envChannel), Len(rolloutChannel))
      BY DEF TurnInv
    <2>2. QED
      BY <1>2, <2>1 DEF Gap, Idle, EpochBehind, SameChunk, NextChunk
  <1>5. QED
    BY <1>1, <1>2, <1>3, <1>4 DEF TurnInv

LEMMA TailSeq ==
  ASSUME NEW T, NEW s \in Seq(T), s # <<>>
  PROVE  /\ Tail(s) \in Seq(T) /\ Len(s) \in Nat \ {0} /\ Len(Tail(s)) = Len(s) - 1
         /\ Head(s) \in T /\ Head(s) = s[1]
         /\ \A k \in 1 .. Len(s) - 1 : Tail(s)[k] = s[k + 1]
  OBVIOUS

LEMMA AppendSeq ==
  ASSUME NEW T, NEW s \in Seq(T), NEW x \in T
  PROVE  /\ Append(s, x) \in Seq(T) /\ Len(Append(s, x)) = Len(s) + 1
         /\ \A k \in 1 .. Len(s) : Append(s, x)[k] = s[k]
         /\ Append(s, x)[Len(s) + 1] = x
  OBVIOUS

LEMMA EnvInteractStepTurn ==
  ASSUME TurnInv, EnvInteractStep, UNCHANGED policyVars
  PROVE  TurnInv'
  <1> DEFINE out == Output(env.stage, Before(env.epoch) + env.chunk, TRUE)
             o == Len(envChannel)
             a == Len(rolloutChannel)
  <1>1. /\ env.at = "blocked" /\ rolloutChannel # <<>> /\ policy' = policy
        /\ rolloutChannel' = Tail(rolloutChannel) /\ envChannel' = Append(envChannel, out)
        /\ env' = IF env.stage < StageNum
                  THEN [env EXCEPT !.stage = @ + 1, !.at = "awaiting"]
                  ELSE IF env.chunk < NChunkSteps
                       THEN [env EXCEPT !.stage = 1, !.chunk = @ + 1, !.at = "awaiting"]
                       ELSE [env EXCEPT !.at = "starting"]
    BY DEF EnvInteractStep, policyVars
  <1>2. /\ EnvAt(env) /\ PolicyAt(policy) /\ o \in Nat /\ a \in Nat
        /\ Gap(env, policy, o, a)
    BY TurnParts
  <1>3. env \in EnvType /\ envChannel \in Seq(OutputType) /\ rolloutChannel \in Seq(ActionType)
    BY DEF TurnInv
  <1>4. env' \in EnvType /\ EnvNext(env, env')
    <2>1. CASE env.stage < StageNum
      <3>1. env' = [env EXCEPT !.stage = env.stage + 1, !.at = "awaiting"]
        BY <1>1, <2>1
      <3>2. env.stage + 1 \in Stages
        BY <1>2, <2>1, Sizes DEF EnvAt, Stages
      <3>3. QED
        BY <1>3, <2>1, <3>1, <3>2 DEF EnvType, EnvNext
    <2>2. CASE ~(env.stage < StageNum) /\ env.chunk < NChunkSteps
      <3>1. env' = [env EXCEPT !.stage = 1, !.chunk = env.chunk + 1, !.at = "awaiting"]
        BY <1>1, <2>2
      <3>2. 1 \in Stages /\ env.chunk + 1 \in 1 .. NChunkSteps /\ env.stage = StageNum
        BY <1>2, <2>2, Sizes DEF EnvAt, Stages
      <3>3. QED
        BY <1>3, <2>2, <3>1, <3>2 DEF EnvType, EnvNext
    <2>3. CASE ~(env.stage < StageNum) /\ ~(env.chunk < NChunkSteps)
      <3>1. env' = [env EXCEPT !.at = "starting"]
        BY <1>1, <2>3
      <3>2. env.chunk = NChunkSteps /\ env.stage = StageNum
        BY <1>2, <2>3, Sizes DEF EnvAt
      <3>3. QED
        BY <1>3, <3>1, <3>2 DEF EnvType, EnvNext
    <2>4. QED
      BY <2>1, <2>2, <2>3
  <1>5. out \in OutputType
    <2>1. Before(env.epoch) + env.chunk \in Nat
      <3>1. \/ env.epoch \in Nat \ {0}
            \/ env.epoch = 0
        BY <1>2 DEF EnvAt
      <3>2. env.epoch # 0
        BY <1>1, <1>2 DEF Gap, Idle, EpochBehind, SameChunk, NextChunk, PolicyAt
      <3>3. Before(env.epoch) \in Nat
        BY <3>1, <3>2, BeforeNext
      <3>4. QED
        BY <1>2, <3>3, Sizes DEF EnvAt
    <2>2. QED
      BY <1>2, <2>1 DEF Output, OutputType, EnvAt, Stages
  <1> HIDE DEF out
  <1>6. /\ rolloutChannel' \in Seq(ActionType) /\ a \in Nat \ {0} /\ Len(rolloutChannel') = a - 1
        /\ \A k \in 1 .. a - 1 : rolloutChannel'[k] = rolloutChannel[k + 1]
    BY <1>1, <1>3, TailSeq
  <1>7. /\ envChannel' \in Seq(OutputType) /\ Len(envChannel') = o + 1
        /\ \A k \in 1 .. o : envChannel'[k] = envChannel[k]
        /\ envChannel'[o + 1] = out
    BY <1>1, <1>3, <1>5, AppendSeq
  <1>8. /\ \A k \in 1 .. o : envChannel[k] = OutputAt(policy, policy.stage + (k - 1))
        /\ \A k \in 1 .. a : rolloutChannel[k] = ActionAt(env, env.stage + (k - 1))
    BY DEF TurnInv
  <1> HIDE DEF o, a
  <1>9. Gap(env', policy, o + 1, a - 1)
    BY <1>1, <1>2, <1>4, <1>6, GapEnvStep
  <1>10. ASSUME NEW k \in 1 .. o + 1
         PROVE  envChannel'[k] = OutputAt(policy, policy.stage + (k - 1))
    <2>1. CASE k \in 1 .. o
      BY <1>7, <1>8, <2>1
    <2>2. CASE k = o + 1
      <3>1. OutputAt(policy, policy.stage + o) = out
        BY <1>1, <1>2, <1>6, EnvStepOutput DEF out
      <3>2. k - 1 = o
        BY <1>2, <2>2
      <3>3. QED
        BY <1>7, <2>2, <3>1, <3>2
    <2>3. QED
      BY <1>2, <2>1, <2>2
  <1>11. ASSUME NEW k \in 1 .. a - 1
         PROVE  rolloutChannel'[k] = ActionAt(env', env'.stage + (k - 1))
    <2>1. rolloutChannel'[k] = rolloutChannel[k + 1]
      BY <1>6
    <2>2. k + 1 \in 1 .. a /\ (k + 1) - 1 = k
      BY <1>6
    <2>3. rolloutChannel[k + 1] = ActionAt(env, env.stage + k)
      BY <1>8, <2>2
    <2>4. ActionAt(env, env.stage + k) = ActionAt(env', env'.stage + (k - 1))
      <3>1. /\ EnvAt(env) /\ PolicyAt(policy) /\ o \in Nat /\ a \in Nat \ {0}
            /\ Gap(env, policy, o, a) /\ env.at = "blocked" /\ EnvNext(env, env')
            /\ k \in 1 .. a - 1
        BY <1>1, <1>2, <1>4, <1>6
      <3>2. QED
        BY ONLY <3>1, EnvStepActions
    <2>5. QED
      BY <2>1, <2>3, <2>4
  <1>12. policy' \in PolicyType
    BY <1>1 DEF TurnInv
  <1>13. QED
    BY <1>1, <1>4, <1>6, <1>7, <1>9, <1>10, <1>11, <1>12 DEF TurnInv
(* The output that the policy deals with, and where it is then.             *)
LEMMA GenerateGives ==
  ASSUME TurnInv, Generate
  PROVE  /\ Head(envChannel) =
              Output(policy.stage, PolicyStep(policy), policy.chunk > 1)
         /\ PolicyStep(policy) \in Nat
         /\ policy' \in PolicyType /\ PolicyNext(policy, policy')
  <1>1. policy \in PolicyType /\ PolicyAt(policy)
    BY PolicyIsAt DEF TurnInv
  <1>2. envChannel \in Seq(OutputType) /\ envChannel # <<>>
    BY DEF TurnInv, Generate
  <1>3. Head(envChannel) = Output(policy.stage, PolicyStep(policy), policy.chunk > 1)
    <2>1. Head(envChannel) = envChannel[1] /\ 1 \in 1 .. Len(envChannel)
      BY <1>2
    <2>2. envChannel[1] = OutputAt(policy, policy.stage + (1 - 1))
      BY <2>1 DEF TurnInv
    <2>3. policy.stage + (1 - 1) = policy.stage /\ policy.stage <= StageNum
      BY <1>1, Sizes DEF PolicyAt
    <2>4. QED
      BY <2>1, <2>2, <2>3 DEF OutputAt
  <1>4. PolicyStep(policy) \in Nat
    <2>1. Before(policy.epoch) \in Nat /\ policy.chunk - 1 \in Nat
      BY <1>1, BeforeNext, Sizes DEF PolicyAt
    <2>2. QED
      BY <2>1 DEF PolicyStep
  <1>5. policy' \in PolicyType /\ PolicyNext(policy, policy')
    <2>1. policy' =
            IF policy.stage < StageNum THEN [policy EXCEPT !.stage = policy.stage + 1]
            ELSE IF policy.chunk <= NChunkSteps
                 THEN [policy EXCEPT !.stage = 1, !.chunk = policy.chunk + 1]
            ELSE [epoch |-> policy.epoch + 1, chunk |-> 1, stage |-> 1,
                  at |-> IF policyStop THEN "left" ELSE "running"]
      BY DEF Generate, Proceed
    <2>2. CASE policy.stage < StageNum
      <3>1. policy' = [policy EXCEPT !.stage = policy.stage + 1]
        BY <2>1, <2>2
      <3>2. policy.stage + 1 \in Stages
        BY <1>1, <2>2, Sizes DEF PolicyAt, Stages
      <3>3. QED
        BY <1>1, <2>2, <3>1, <3>2 DEF PolicyType, PolicyNext
    <2>3. CASE ~(policy.stage < StageNum) /\ policy.chunk <= NChunkSteps
      <3>1. policy' = [policy EXCEPT !.stage = 1, !.chunk = policy.chunk + 1]
        BY <2>1, <2>3
      <3>2. /\ 1 \in Stages /\ policy.chunk + 1 \in 1 .. NChunkSteps + 1
            /\ policy.stage = StageNum
        BY <1>1, <2>3, Sizes DEF PolicyAt, Stages
      <3>3. QED
        BY <1>1, <2>3, <3>1, <3>2 DEF PolicyType, PolicyNext
    <2>4. CASE ~(policy.stage < StageNum) /\ ~(policy.chunk <= NChunkSteps)
      <3>1. policy' = [epoch |-> policy.epoch + 1, chunk |-> 1, stage |-> 1,
                       at |-> IF policyStop THEN "left" ELSE "running"]
        BY <2>1, <2>4
      <3>2. /\ 1 \in Stages /\ policy.chunk = NChunkSteps + 1 /\ policy.stage = StageNum
            /\ policy.epoch + 1 \in Nat \ {0} /\ 1 \in 1 .. NChunkSteps + 1
        BY <1>1, <2>4, Sizes DEF PolicyAt, Stages
      <3>3. QED
        BY <3>1, <3>2 DEF PolicyType, PolicyNext
    <2>5. QED
      BY <2>2, <2>3, <2>4
  <1>6. QED
    BY <1>3, <1>4, <1>5

LEMMA GenerateTurn ==
  ASSUME TurnInv, Generate
  PROVE  TurnInv'
  <1> DEFINE o == Len(envChannel)
             a == Len(rolloutChannel)
             n == Sent(policy)
             new == [stage |-> policy.stage, step |-> PolicyStep(policy) + 1]
  <1>1. /\ envChannel # <<>> /\ envChannel' = Tail(envChannel) /\ env' = env
        /\ SendChunkActions(Head(envChannel))
    BY DEF Generate, envVars
  <1>2. /\ EnvAt(env) /\ PolicyAt(policy) /\ o \in Nat /\ a \in Nat
        /\ Gap(env, policy, o, a)
    BY TurnParts
  <1>3. env \in EnvType /\ envChannel \in Seq(OutputType) /\ rolloutChannel \in Seq(ActionType)
    BY DEF TurnInv
  <1>4. /\ Head(envChannel).step = PolicyStep(policy) /\ PolicyStep(policy) \in Nat
        /\ policy' \in PolicyType /\ PolicyNext(policy, policy')
    BY GenerateGives DEF Output
  <1>5. new \in ActionType
    BY <1>2, <1>4 DEF ActionType, PolicyAt, Stages
  <1>6. rolloutChannel' = IF policy.chunk > NChunkSteps THEN rolloutChannel
                          ELSE Append(rolloutChannel, new)
    BY <1>1, <1>4 DEF SendChunkActions
  <1> HIDE DEF new
  <1>7. /\ envChannel' \in Seq(OutputType) /\ o \in Nat \ {0} /\ Len(envChannel') = o - 1
        /\ \A k \in 1 .. o - 1 : envChannel'[k] = envChannel[k + 1]
    BY <1>1, <1>3, TailSeq
  <1>8. /\ rolloutChannel' \in Seq(ActionType) /\ Len(rolloutChannel') = a + n
        /\ \A k \in 1 .. a : rolloutChannel'[k] = rolloutChannel[k]
        /\ n = 1 => rolloutChannel'[a + 1] = new
    <2>1. CASE policy.chunk > NChunkSteps
      <3>1. n = 0 /\ rolloutChannel' = rolloutChannel
        BY <1>2, <1>6, <2>1, Sizes DEF PolicyAt, Sent
      <3>2. QED
        BY <1>2, <1>3, <3>1
    <2>2. CASE ~(policy.chunk > NChunkSteps)
      <3>1. n = 1 /\ rolloutChannel' = Append(rolloutChannel, new)
        BY <1>2, <1>6, <2>2, Sizes DEF PolicyAt, Sent
      <3>2. QED
        BY <1>3, <1>5, <3>1, AppendSeq
    <2>3. QED
      BY <2>1, <2>2
  <1>9. /\ \A k \in 1 .. o : envChannel[k] = OutputAt(policy, policy.stage + (k - 1))
        /\ \A k \in 1 .. a : rolloutChannel[k] = ActionAt(env, env.stage + (k - 1))
    BY DEF TurnInv
  <1> HIDE DEF o, a
  <1>10. Gap(env, policy', o - 1, a + n)
    BY <1>2, <1>4, <1>7, GapPolicyStep
  <1>11. ASSUME NEW k \in 1 .. o - 1
         PROVE  envChannel'[k] = OutputAt(policy', policy'.stage + (k - 1))
    <2>1. envChannel'[k] = envChannel[k + 1]
      BY <1>7
    <2>2. k + 1 \in 1 .. o /\ (k + 1) - 1 = k
      BY <1>7
    <2>3. envChannel[k + 1] = OutputAt(policy, policy.stage + k)
      BY <1>9, <2>2
    <2>4. OutputAt(policy, policy.stage + k) = OutputAt(policy', policy'.stage + (k - 1))
      <3>1. /\ EnvAt(env) /\ PolicyAt(policy) /\ o \in Nat \ {0} /\ a \in Nat
            /\ Gap(env, policy, o, a) /\ PolicyNext(policy, policy') /\ k \in 1 .. o - 1
        BY <1>2, <1>4, <1>7
      <3>2. QED
        BY ONLY <3>1, PolicyStepOutputs
    <2>5. QED
      BY <2>1, <2>3, <2>4
  <1>12. ASSUME NEW k \in 1 .. a + n
         PROVE  rolloutChannel'[k] = ActionAt(env, env.stage + (k - 1))
    <2>1. CASE k \in 1 .. a
      BY <1>8, <1>9, <2>1
    <2>2. CASE ~(k \in 1 .. a)
      <3>1. n = 1 /\ k = a + 1 /\ policy.chunk <= NChunkSteps
        BY <1>2, <2>2 DEF Sent
      <3>2. ActionAt(env, env.stage + a) = new
        BY <1>2, <1>7, <3>1, PolicyStepAction DEF new
      <3>3. k - 1 = a
        BY <1>2, <3>1
      <3>4. QED
        BY <1>8, <3>1, <3>2, <3>3
    <2>3. QED
      BY <2>1, <2>2
  <1>13. QED
    BY <1>1, <1>3, <1>4, <1>7, <1>8, <1>10, <1>11, <1>12 DEF TurnInv

(* The other steps leave environment, policy and channels alone.            *)
LEMMA TurnInductive == TurnInv /\ [Next]_vars => TurnInv'
  <1> SUFFICES ASSUME TurnInv, [Next]_vars PROVE TurnInv'
    OBVIOUS
  <1> DEFINE Same == UNCHANGED <<env, policy, envChannel, rolloutChannel>>
  <1>1. ASSUME Same PROVE TurnInv'
    BY <1>1 DEF TurnInv
  <1>2. CASE Interact
    BY <1>2, StartEpochTurn, GoOnTurn, EnvInteractStepTurn DEF Interact
  <1>3. CASE Generate
    BY <1>3, GenerateTurn
  <1>4. CASE ReplayBufferRun
    BY <1>1, <1>4 DEF ReplayBufferRun, envVars, policyVars, channelVars
  <1>5. CASE Run
    BY <1>1, <1>5 DEF Run, RunTraining, StopEnv, StopPolicy, Finish, envVars, policyVars, channelVars
  <1>6. ASSUME NEW s \in Stages, SendData(s) PROVE TurnInv'
    BY <1>1, <1>6 DEF SendData, envVars, policyVars, channelVars
  <1>7. CASE UNCHANGED vars
    BY <1>1, <1>7 DEF vars, envVars, policyVars, channelVars
  <1>8. QED
    BY <1>2, <1>3, <1>4, <1>5, <1>6, <1>7 DEF Next

LEMMA TurnOfActions == TurnInv => ActionsForTheStep
  <1> SUFFICES ASSUME TurnInv, env.at = "blocked", rolloutChannel # <<>>
               PROVE  Head(rolloutChannel) =
                        [stage |-> env.stage, step |-> Before(env.epoch) + env.chunk]
    BY DEF ActionsForTheStep
  <1>1. rolloutChannel \in Seq(ActionType) /\ EnvAt(env)
    BY EnvIsAt DEF TurnInv
  <1>2. Head(rolloutChannel) = rolloutChannel[1] /\ 1 \in 1 .. Len(rolloutChannel)
    BY <1>1
  <1>3. rolloutChannel[1] = ActionAt(env, env.stage + (1 - 1))
    BY <1>2 DEF TurnInv
  <1>4. env.stage + (1 - 1) = env.stage /\ env.stage <= StageNum
    BY <1>1, Sizes DEF EnvAt
  <1>5. QED
    BY <1>2, <1>3, <1>4 DEF ActionAt
-----------------------------------------------------------------------------
(* Counting entries.                                                        *)
LEMMA DivMod ==
  ASSUME NEW k \in Nat, NEW c \in Nat \ {0}, NEW r \in 0 .. c - 1
  PROVE  ((k * c + r) % c) = r /\ ((k * c + r) \div c) = k
  OBVIOUS

LEMMA CountIs ==
  ASSUME NEW e \in Nat \ {0}, NEW d \in 0 .. NChunkSteps + 1, NEW f \in Fields
  PROVE  Count(f, e, d) \in Nat
  <1>1. Before(e) \in Nat /\ NChunkSteps \in Nat
    BY BeforeNext, Sizes
  <1>2. (e - 1) * (NChunkSteps + 1) \in Nat
    <2>1. e - 1 \in Nat /\ NChunkSteps + 1 \in Nat
      BY <1>1
    <2>2. QED
      BY <2>1
  <1> DEFINE x == (e - 1) * (NChunkSteps + 1)
  <1>3. x \in Nat
    BY <1>2
  <1> HIDE DEF x
  <1>4. QED
    BY <1>1, <1>3 DEF Count, x

(* One more output: one more of the flags, and one more of the rest but for *)
(* the first output of an epoch.                                            *)
Adds(f, d) == f = "flags" \/ d > 0

LEMMA CountNext ==
  ASSUME NEW e \in Nat \ {0}, NEW d \in 0 .. NChunkSteps, NEW f \in Fields
  PROVE  Count(f, e, d + 1) = IF Adds(f, d) THEN Count(f, e, d) + 1 ELSE Count(f, e, d)
  <1>1. Before(e) \in Nat /\ NChunkSteps \in Nat
    BY BeforeNext, Sizes
  <1> DEFINE x == (e - 1) * (NChunkSteps + 1)
  <1>2. x \in Nat
    <2>1. e - 1 \in Nat /\ NChunkSteps + 1 \in Nat
      BY <1>1
    <2>2. QED
      BY <2>1
  <1> HIDE DEF x
  <1>3. QED
    BY <1>1, <1>2 DEF Count, Adds, x

(* After the last output of an epoch all is as before the next.             *)
LEMMA EpochEnds ==
  ASSUME NEW e \in Nat \ {0}
  PROVE  /\ \A f \in Fields : Count(f, e, NChunkSteps + 1) = Count(f, e + 1, 0)
         /\ ResultOf(e, NChunkSteps + 1) = ResultOf(e + 1, 0)
         /\ ObsOf(e, NChunkSteps + 1) = ObsOf(e + 1, 0)
  <1>1. Before(e) \in Int /\ Before(e + 1) = Before(e) + NChunkSteps /\ NChunkSteps \in Nat
    BY BeforeNext, Sizes
  <1>2. ~(NChunkSteps + 1 \in 1 .. NChunkSteps) /\ ~(0 \in 1 .. NChunkSteps)
    BY <1>1
  <1>3. (e + 1 - 1) * (NChunkSteps + 1) + 0 = (e - 1) * (NChunkSteps + 1) + (NChunkSteps + 1)
    BY <1>1
  <1>4. Before(e) + (IF NChunkSteps + 1 = 0 THEN 0 ELSE NChunkSteps + 1 - 1) =
          Before(e + 1) + (IF 0 = 0 THEN 0 ELSE 0 - 1)
    <2>1. ~(NChunkSteps + 1 = 0) /\ NChunkSteps + 1 - 1 = NChunkSteps
      BY <1>1
    <2>2. Before(e) + NChunkSteps + 0 = Before(e) + NChunkSteps
      BY <1>1
    <2>3. QED
      BY <1>1, <2>1, <2>2
  <1>5. QED
    BY <1>2, <1>3, <1>4 DEF Count, ResultOf, ObsOf

(* What there has been of the queues when the policy has had one output     *)
(* more.                                                                    *)
LEMMA HadNext ==
  ASSUME NEW p, NEW q, PolicyAt(p), PolicyNext(p, q), NEW s \in Stages
  PROVE  LET d == IF s = p.stage THEN p.chunk ELSE Had(p, s)
         IN /\ \A f \in Fields : Count(f, q.epoch, Had(q, s)) = Count(f, p.epoch, d)
            /\ ResultOf(q.epoch, Had(q, s)) = ResultOf(p.epoch, d)
            /\ ObsOf(q.epoch, Had(q, s)) = ObsOf(p.epoch, d)
  <1> DEFINE d == IF s = p.stage THEN p.chunk ELSE Had(p, s)
  <1>1. s \in 1 .. StageNum
    BY DEF Stages
  <1>2. CASE p.stage < StageNum \/ p.chunk <= NChunkSteps
    <2>1. q.epoch = p.epoch
      BY <1>2, Sizes DEF PolicyAt, PolicyNext
    <2>2. Had(q, s) = d
      BY <1>1, <1>2, Sizes DEF PolicyAt, PolicyNext, Had
    <2>3. QED
      BY <2>1, <2>2
  <1>3. CASE ~(p.stage < StageNum \/ p.chunk <= NChunkSteps)
    <2>1. q.epoch = p.epoch + 1 /\ q.chunk = 1 /\ q.stage = 1 /\ p.epoch \in Nat \ {0}
      BY <1>3, Sizes DEF PolicyAt, PolicyNext
    <2>2. Had(q, s) = 0 /\ d = NChunkSteps + 1
      BY <1>1, <1>3, <2>1, Sizes DEF PolicyAt, Had
    <2>3. QED
      BY <2>1, <2>2, EpochEnds
  <1>4. QED
    BY <1>2, <1>3

-----------------------------------------------------------------------------
(* The entries of each queue.                                               *)
LEMMA EntryIs ==
  ASSUME NEW n \in Nat
  PROVE  /\ \A f \in Fields : Entry(f, n) \in Entries
         /\ Entry("logprobs", n) = n /\ Entry("rewards", n) = n
         /\ Entry("transitions", n) = [obs |-> n - 1, next_obs |-> n]
         /\ Entry("inputs", n) =
              [step |-> n, human |-> IF (n % NChunkSteps) = 0 THEN None ELSE n]
         /\ Entry("flags", n) = n - 1 - ((n - 1) \div (NChunkSteps + 1))
  BY DEF Entry, Entries

(* The next entry of each queue when d outputs of epoch e have been had.    *)
LEMMA NextFlags ==
  ASSUME NEW e \in Nat \ {0}, NEW d \in 0 .. NChunkSteps
  PROVE  Entry("flags", Count("flags", e, d) + 1) = Before(e) + d
  <1> DEFINE k == e - 1
             c == NChunkSteps + 1
             x == k * c + d
  <1>1. k \in Nat /\ c \in Nat \ {0} /\ d \in 0 .. c - 1
    BY Sizes
  <1>2. x \in Nat
    BY <1>1
  <1>3. (x \div c) = k
    BY <1>1, DivMod
  <1>4. Count("flags", e, d) = x
    BY DEF Count
  <1>5. x - k = Before(e) + d
    <2>1. k * (NChunkSteps + 1) = k * NChunkSteps + k
      BY <1>1, Sizes
    <2> DEFINE y == k * NChunkSteps
               z == k * (NChunkSteps + 1)
    <2>2. y \in Nat /\ z = y + k /\ x = z + d /\ Before(e) = y
      BY <1>1, <2>1, Sizes DEF Before
    <2> HIDE DEF x, y, z, k, c
    <2>3. QED
      BY <1>1, <2>2
  <1> HIDE DEF x, k
  <1>6. x + 1 \in Nat /\ (x + 1) - 1 = x
    BY <1>2
  <1>7. Entry("flags", x + 1) = ((x + 1) - 1) - (((x + 1) - 1) \div (NChunkSteps + 1))
    BY <1>6, EntryIs
  <1>8. QED
    BY <1>3, <1>4, <1>5, <1>6, <1>7

LEMMA NextOthers ==
  ASSUME NEW e \in Nat \ {0}, NEW d \in 1 .. NChunkSteps
  PROVE  /\ Before(e) + d \in Nat \ {0}
         /\ \A f \in Fields \ {"flags"} : Count(f, e, d) + 1 = Before(e) + d
         /\ (((Before(e) + d) % NChunkSteps) = 0) <=> (d = NChunkSteps)
  <1> DEFINE b == Before(e)
             n == b + d
  <1>1. b \in Nat /\ NChunkSteps \in Nat \ {0}
    BY BeforeNext, Sizes
  <1> HIDE DEF b
  <1>2. n \in Nat \ {0} /\ b + (d - 1) + 1 = n
    BY <1>1
  <1>3. ASSUME NEW f \in Fields \ {"flags"} PROVE Count(f, e, d) + 1 = n
    BY <1>1, <1>2 DEF Count, b
  <1>4. CASE d = NChunkSteps
    <2>1. n = e * NChunkSteps + 0
      <3>1. (e - 1) * NChunkSteps + NChunkSteps = e * NChunkSteps + 0
        BY <1>1
      <3>2. QED
        BY <1>4, <3>1 DEF b, Before
    <2>2. 0 \in 0 .. NChunkSteps - 1 /\ e \in Nat
      BY <1>1
    <2>3. ((e * NChunkSteps + 0) % NChunkSteps) = 0
      BY <1>1, <2>2, DivMod
    <2>4. QED
      BY <1>2, <1>3, <1>4, <2>1, <2>3 DEF b
  <1>5. CASE d # NChunkSteps
    <2>1. n = (e - 1) * NChunkSteps + d
      BY DEF b, Before
    <2>2. d \in 0 .. NChunkSteps - 1 /\ e - 1 \in Nat
      BY <1>1, <1>5
    <2>3. (((e - 1) * NChunkSteps + d) % NChunkSteps) = d
      BY <1>1, <2>2, DivMod
    <2>4. QED
      BY <1>2, <1>3, <1>5, <2>1, <2>3 DEF b
  <1>6. QED
    BY <1>4, <1>5
-----------------------------------------------------------------------------
LEMMA InitRecords == Init => RecordsInv
  <1> SUFFICES ASSUME Init PROVE RecordsInv
    OBVIOUS
  <1>1. /\ queues = [s \in Stages |-> [f \in Fields |-> <<>>]]
        /\ records = [s \in Stages |-> <<>>] /\ replayChannel = <<>>
        /\ lastResults = [s \in Stages |-> NoResult] /\ lastObs = [s \in Stages |-> None]
        /\ policy.epoch = 1 /\ policy.chunk = 1 /\ policy.stage = 1
    BY DEF Init
  <1>2. ASSUME NEW s \in Stages
        PROVE  QueuesInv(queues[s], records[s], lastResults[s], lastObs[s],
                         policy.epoch, Had(policy, s))
    <2>1. /\ \A f \in Fields : queues[s][f] = <<>>
          /\ records[s] = <<>> /\ lastResults[s] = NoResult /\ lastObs[s] = None
      BY <1>1
    <2>2. Had(policy, s) = 0
      BY <1>1 DEF Had, Stages
    <2>3. \A f \in Fields : Count(f, 1, 0) = 0
      <3>1. Before(1) = 0 /\ (1 - 1) * (NChunkSteps + 1) + 0 = 0
        BY Sizes DEF Before
      <3>2. QED
        BY <3>1 DEF Count
    <2>4. ResultOf(1, 0) = NoResult /\ ObsOf(1, 0) = None
      BY Sizes DEF ResultOf, ObsOf
    <2>5. Len(records[s]) = 0 /\ \A f : QueueOf(<<>>, f, 0, 0)
      BY <2>1 DEF QueueOf
    <2>6. QED
      BY <1>1, <2>1, <2>2, <2>3, <2>4, <2>5 DEF QueuesInv
  <1>3. /\ queues \in [Stages -> [Fields -> Seq(Entries)]]
        /\ records \in [Stages -> Seq([Fields -> Entries])]
        /\ replayChannel \in Seq(Rows)
    BY <1>1
  <1>4. DOMAIN lastResults = Stages /\ DOMAIN lastObs = Stages
    BY <1>1
  <1>5. QED
    BY <1>2, <1>3, <1>4 DEF RecordsInv

(* One entry more of a queue, and one gone into a record.                   *)
LEMMA QueueGrows ==
  ASSUME NEW f \in Fields, NEW m \in Nat, NEW c \in Nat, NEW q, QueueOf(q, f, m, c)
  PROVE  QueueOf(Append(q, Entry(f, c + 1)), f, m, c + 1)
  <1>1. q \in Seq(Entries) /\ m + Len(q) = c /\ \A i \in 1 .. Len(q) : q[i] = Entry(f, m + i)
    BY DEF QueueOf
  <1> DEFINE x == Entry(f, c + 1)
  <1>2. x \in Entries
    BY EntryIs
  <1> HIDE DEF x
  <1>3. /\ Append(q, x) \in Seq(Entries) /\ Len(Append(q, x)) = Len(q) + 1
        /\ \A i \in 1 .. Len(q) : Append(q, x)[i] = q[i]
        /\ Append(q, x)[Len(q) + 1] = x
    BY <1>1, <1>2, AppendSeq
  <1>4. Len(q) \in Nat
    BY <1>1
  <1>5. m + (Len(q) + 1) = c + 1
    BY <1>1, <1>4
  <1>6. ASSUME NEW i \in 1 .. Len(q) + 1 PROVE Append(q, x)[i] = Entry(f, m + i)
    <2>1. CASE i \in 1 .. Len(q)
      BY <1>1, <1>3, <2>1
    <2>2. CASE i = Len(q) + 1
      <3>1. m + i = c + 1
        BY <1>5, <2>2
      <3>2. QED
        BY <1>3, <2>2, <3>1 DEF x
    <2>3. QED
      BY <1>4, <2>1, <2>2
  <1>7. QED
    BY <1>3, <1>5, <1>6 DEF QueueOf, x

LEMMA QueueShrinks ==
  ASSUME NEW f \in Fields, NEW m \in Nat, NEW c \in Nat, NEW q, QueueOf(q, f, m, c), q # <<>>
  PROVE  QueueOf(Tail(q), f, m + 1, c) /\ Head(q) = Entry(f, m + 1)
  <1>1. q \in Seq(Entries) /\ m + Len(q) = c /\ \A i \in 1 .. Len(q) : q[i] = Entry(f, m + i)
    BY DEF QueueOf
  <1>2. /\ Tail(q) \in Seq(Entries) /\ Len(q) \in Nat \ {0} /\ Len(Tail(q)) = Len(q) - 1
        /\ Head(q) = q[1]
        /\ \A k \in 1 .. Len(q) - 1 : Tail(q)[k] = q[k + 1]
    BY <1>1, TailSeq
  <1>3. Head(q) = Entry(f, m + 1)
    BY <1>1, <1>2
  <1>4. ASSUME NEW i \in 1 .. Len(q) - 1 PROVE Tail(q)[i] = Entry(f, m + 1 + i)
    <2>1. i + 1 \in 1 .. Len(q) /\ m + (i + 1) = m + 1 + i
      BY <1>2
    <2>2. QED
      BY <1>1, <1>2, <2>1
  <1>5. m + 1 + (Len(q) - 1) = c
    BY <1>1, <1>2
  <1>6. QED
    BY <1>2, <1>3, <1>4, <1>5 DEF QueueOf

(* A record is sent.                                                        *)
LEMMA SendDataRecords ==
  ASSUME RecordsInv, PolicyAt(policy), NEW s \in Stages, SendData(s)
  PROVE  RecordsInv'
  <1> DEFINE record == [f \in Fields |-> Head(queues[s][f])]
             m == Len(records[s])
             d == Had(policy, s)
  <1>1. /\ \A f \in Fields : queues[s][f] # <<>>
        /\ records' = [records EXCEPT ![s] = Append(records[s], record)]
        /\ replayChannel' = Append(replayChannel, <<s, Len(records'[s])>>)
        /\ queues' = [queues EXCEPT ![s] = [f \in Fields |-> Tail(queues[s][f])]]
        /\ policy' = policy /\ lastResults' = lastResults /\ lastObs' = lastObs
    BY DEF SendData, policyVars
  <1>2. /\ queues \in [Stages -> [Fields -> Seq(Entries)]]
        /\ records \in [Stages -> Seq([Fields -> Entries])]
        /\ DOMAIN lastResults = Stages /\ DOMAIN lastObs = Stages
        /\ replayChannel \in Seq(Rows)
        /\ \A t \in Stages :
             QueuesInv(queues[t], records[t], lastResults[t], lastObs[t],
                       policy.epoch, Had(policy, t))
    BY DEF RecordsInv
  <1>3. m \in Nat /\ records[s] \in Seq([Fields -> Entries])
    BY <1>2
  <1>4. /\ \A n \in 1 .. m : \A f \in Fields : records[s][n][f] = Entry(f, n)
        /\ \A f \in Fields : QueueOf(queues[s][f], f, m, Count(f, policy.epoch, d))
        /\ lastResults[s] = ResultOf(policy.epoch, d) /\ lastObs[s] = ObsOf(policy.epoch, d)
    BY <1>2 DEF QueuesInv
  <1>5. d \in 0 .. NChunkSteps + 1 /\ policy.epoch \in Nat \ {0}
    BY Sizes DEF PolicyAt, Had
  <1> HIDE DEF m, d
  <1>6. ASSUME NEW f \in Fields
        PROVE  /\ QueueOf(Tail(queues[s][f]), f, m + 1, Count(f, policy.epoch, d))
               /\ Head(queues[s][f]) = Entry(f, m + 1)
    <2> DEFINE q == queues[s][f]
               c == Count(f, policy.epoch, d)
    <2>1. c \in Nat
      BY <1>5, CountIs
    <2>2. QueueOf(q, f, m, c) /\ q # <<>>
      BY <1>1, <1>4
    <2> HIDE DEF q, c
    <2>3. QueueOf(Tail(q), f, m + 1, c) /\ Head(q) = Entry(f, m + 1)
      BY <1>3, <2>1, <2>2, QueueShrinks
    <2>4. QED
      BY <2>3 DEF q, c
  <1>7. record \in [Fields -> Entries] /\ \A f \in Fields : record[f] = Entry(f, m + 1)
    <2>1. m + 1 \in Nat
      BY <1>3
    <2>2. \A g \in Fields : Entry(g, m + 1) \in Entries
      BY <2>1, EntryIs
    <2>3. \A g \in Fields : Head(queues[s][g]) = Entry(g, m + 1)
      BY <1>6
    <2>4. QED
      BY <2>2, <2>3
  <1> HIDE DEF record
  <1>8. /\ Append(records[s], record) \in Seq([Fields -> Entries])
        /\ Len(Append(records[s], record)) = m + 1
        /\ \A n \in 1 .. m : Append(records[s], record)[n] = records[s][n]
        /\ Append(records[s], record)[m + 1] = record
    BY <1>3, <1>7, AppendSeq DEF m
  <1>9. /\ records' \in [Stages -> Seq([Fields -> Entries])]
        /\ records'[s] = Append(records[s], record)
        /\ \A t \in Stages : t # s => records'[t] = records[t]
    BY <1>1, <1>2, <1>8
  <1>10. /\ queues' \in [Stages -> [Fields -> Seq(Entries)]]
         /\ \A f \in Fields : queues'[s][f] = Tail(queues[s][f])
         /\ \A t \in Stages : t # s => queues'[t] = queues[t]
    <2> DEFINE g == [f \in Fields |-> Tail(queues[s][f])]
    <2>1. \A f \in Fields : Tail(queues[s][f]) \in Seq(Entries)
      BY <1>6 DEF QueueOf
    <2>2. g \in [Fields -> Seq(Entries)] /\ \A f \in Fields : g[f] = Tail(queues[s][f])
      BY <2>1
    <2>3. queues' = [queues EXCEPT ![s] = g]
      BY <1>1
    <2> HIDE DEF g
    <2>4. QED
      BY <1>2, <2>2, <2>3
  <1>11. replayChannel' \in Seq(Rows)
    <2>1. Len(records'[s]) \in Nat
      BY <1>3, <1>8, <1>9
    <2>2. <<s, Len(records'[s])>> \in Rows
      BY <2>1 DEF Rows
    <2> DEFINE row == <<s, Len(records'[s])>>
    <2> HIDE DEF row
    <2>3. row \in Rows /\ replayChannel' = Append(replayChannel, row)
      BY <1>1, <2>2 DEF row
    <2>4. QED
      BY <1>2, <2>3
  <1>12. ASSUME NEW t \in Stages
         PROVE  QueuesInv(queues'[t], records'[t], lastResults'[t], lastObs'[t],
                          policy'.epoch, Had(policy', t))
    <2>1. CASE t # s
      BY <1>1, <1>2, <1>9, <1>10, <2>1
    <2>2. CASE t = s
      <3>1. ASSUME NEW n \in 1 .. m + 1, NEW f \in Fields
            PROVE  records'[s][n][f] = Entry(f, n)
        <4>1. CASE n \in 1 .. m
          BY <1>4, <1>8, <1>9, <4>1
        <4>2. CASE n = m + 1
          BY <1>7, <1>8, <1>9, <4>2
        <4>3. QED
          BY <1>3, <4>1, <4>2
      <3>2. Len(records'[s]) = m + 1
        BY <1>8, <1>9
      <3>3. \A f \in Fields : QueueOf(queues'[s][f], f, m + 1, Count(f, policy.epoch, d))
        BY <1>6, <1>10
      <3>4. QED
        BY <1>1, <1>4, <2>2, <3>1, <3>2, <3>3 DEF QueuesInv, d
    <2>3. QED
      BY <2>1, <2>2
  <1>13. QED
    BY <1>1, <1>2, <1>9, <1>10, <1>11, <1>12 DEF RecordsInv
(* The policy adds what it has of a step: q are the queues of its stage     *)
(* when it has had d outputs of epoch e.                                    *)
LEMMA TwoChanged ==
  ASSUME NEW q \in [Fields -> Seq(Entries)], NEW f \in Fields, NEW g \in Fields, f # g,
         NEW x \in Seq(Entries), NEW y \in Seq(Entries)
  PROVE  LET r == [q EXCEPT ![f] = x, ![g] = y]
         IN /\ r \in [Fields -> Seq(Entries)]
            /\ r[f] = x /\ r[g] = y
            /\ \A h \in Fields : h # f /\ h # g => r[h] = q[h]
  OBVIOUS

LEMMA AddedEntries ==
  ASSUME NEW e \in Nat \ {0}, NEW d \in 0 .. NChunkSteps,
         NEW q \in [Fields -> Seq(Entries)],
         NEW out, out.step = Before(e) + d, out.rewarded = (d > 0),
         NEW result,
         result = IF d = 0 THEN NoResult
                  ELSE [step |-> Before(e) + d,
                        human |-> IF d = NChunkSteps THEN None ELSE Before(e) + d],
         NEW obs, obs = ObsOf(e, d)
  PROVE  LET r == AddTransition(AddResult(AddFlagsAndRewards(q, out), result, out), obs, out)
         IN /\ r \in [Fields -> Seq(Entries)]
            /\ \A f \in Fields :
                 r[f] = IF Adds(f, d) THEN Append(q[f], Entry(f, Count(f, e, d) + 1)) ELSE q[f]
  <1> DEFINE b == Before(e)
             n == b + d
             new(f) == Append(q[f], Entry(f, Count(f, e, d) + 1))
             q1 == AddFlagsAndRewards(q, out)
             q2 == AddResult(q1, result, out)
             r == AddTransition(q2, obs, out)
  <1>1. b \in Nat /\ d \in Nat /\ n \in Nat
    <2>1. b \in Nat
      BY BeforeNext
    <2>2. d \in Nat
      BY Sizes
    <2> HIDE DEF b
    <2>3. QED
      BY <2>1, <2>2
  <1>2. \A f \in Fields : new(f) \in Seq(Entries)
    <2> SUFFICES ASSUME NEW f \in Fields PROVE new(f) \in Seq(Entries)
      OBVIOUS
    <2>1. d \in 0 .. NChunkSteps + 1
      BY Sizes
    <2>2. Count(f, e, d) + 1 \in Nat
      BY <2>1, CountIs
    <2>3. Entry(f, Count(f, e, d) + 1) \in Entries
      BY <2>2, EntryIs
    <2>4. QED
      BY <2>3
  <1>3. new("flags") = Append(q["flags"], n)
    BY NextFlags
  <1>4. ASSUME d > 0
        PROVE  /\ n \in Nat \ {0}
               /\ new("rewards") = Append(q["rewards"], n)
               /\ new("logprobs") = Append(q["logprobs"], n)
               /\ new("transitions") = Append(q["transitions"], [obs |-> n - 1, next_obs |-> n])
               /\ new("inputs") = Append(q["inputs"],
                    [step |-> n, human |-> IF d = NChunkSteps THEN None ELSE n])
    <2>1. d \in 1 .. NChunkSteps
      BY <1>4, Sizes
    <2>2. /\ n \in Nat \ {0}
          /\ \A f \in Fields \ {"flags"} : Count(f, e, d) + 1 = n
          /\ ((n % NChunkSteps) = 0) <=> (d = NChunkSteps)
      BY <2>1, NextOthers
    <2> HIDE DEF n
    <2>3. {"rewards", "logprobs", "transitions", "inputs"} \subseteq Fields \ {"flags"}
      BY DEF Fields
    <2>4. /\ Entry("logprobs", n) = n /\ Entry("rewards", n) = n
          /\ Entry("transitions", n) = [obs |-> n - 1, next_obs |-> n]
          /\ Entry("inputs", n) =
               [step |-> n, human |-> IF (n % NChunkSteps) = 0 THEN None ELSE n]
      BY <2>2, EntryIs
    <2>5. Entry("inputs", n) = [step |-> n, human |-> IF d = NChunkSteps THEN None ELSE n]
      BY <2>2, <2>4
    <2>6. QED
      BY <2>2, <2>3, <2>4, <2>5
  <1>5. /\ "flags" \in Fields /\ "rewards" \in Fields /\ "logprobs" \in Fields
        /\ "inputs" \in Fields /\ "transitions" \in Fields
        /\ Fields = {"flags", "rewards", "logprobs", "inputs", "transitions"}
    BY DEF Fields
  <1> DEFINE rewards == IF d > 0 THEN new("rewards") ELSE q["rewards"]
  <1>6. rewards \in Seq(Entries) /\ new("flags") \in Seq(Entries)
    BY <1>2, <1>5
  <1>7. q1 = [q EXCEPT !["flags"] = new("flags"), !["rewards"] = rewards]
    <2>1. q1 = [q EXCEPT !["flags"] = Append(q["flags"], n),
                         !["rewards"] = IF d > 0 THEN Append(q["rewards"], n) ELSE q["rewards"]]
      BY DEF AddFlagsAndRewards
    <2>2. rewards = IF d > 0 THEN Append(q["rewards"], n) ELSE q["rewards"]
      BY <1>4
    <2> HIDE DEF rewards, new, n, q1
    <2>3. QED
      BY <1>3, <2>1, <2>2
  <1> HIDE DEF rewards, new
  <1>8. /\ q1 \in [Fields -> Seq(Entries)]
        /\ q1["flags"] = new("flags") /\ q1["rewards"] = rewards
        /\ \A h \in Fields : h # "flags" /\ h # "rewards" => q1[h] = q[h]
    <2>1. "flags" # "rewards"
      OBVIOUS
    <2> DEFINE x == new("flags")
    <2>2. x \in Seq(Entries) /\ q1 = [q EXCEPT !["flags"] = x, !["rewards"] = rewards]
      BY <1>6, <1>7
    <2> HIDE DEF x, q1
    <2>3. /\ q1 \in [Fields -> Seq(Entries)] /\ q1["flags"] = x /\ q1["rewards"] = rewards
          /\ \A h \in Fields : h # "flags" /\ h # "rewards" => q1[h] = q[h]
      BY <1>5, <1>6, <2>1, <2>2, TwoChanged
    <2>4. QED
      BY ONLY <2>3 DEF x
  <1> HIDE DEF q1
  <1>9. CASE d = 0
    <2>1. result = NoResult /\ obs = None /\ ~(d > 0)
      BY <1>9 DEF ObsOf
    <2>2. q2 = q1 /\ r = q1
      BY <2>1 DEF AddResult, AddTransition
    <2>3. \A f \in Fields : r[f] = IF Adds(f, d) THEN new(f) ELSE q[f]
      BY <1>5, <1>8, <2>1, <2>2 DEF Adds, rewards
    <2>4. r \in [Fields -> Seq(Entries)]
          /\ \A f \in Fields : r[f] = IF Adds(f, d) THEN new(f) ELSE q[f]
      BY <1>8, <2>2, <2>3
    <2>5. QED
      BY ONLY <2>4 DEF new, r, q2, q1
  <1>10. CASE d > 0
    <2>1. n \in Nat \ {0} /\ d \in 1 .. NChunkSteps /\ d # 0
      BY <1>4, <1>10
    <2>2. /\ result = [step |-> n, human |-> IF d = NChunkSteps THEN None ELSE n]
          /\ result # NoResult /\ obs = n - 1 /\ obs # None
      <3>1. result = [step |-> n, human |-> IF d = NChunkSteps THEN None ELSE n]
        BY <2>1
      <3>2. result.step = n /\ NoResult.step = None /\ n # None
        BY <2>1, <3>1 DEF NoResult, None
      <3>3. obs = b + (d - 1)
        BY <2>1 DEF ObsOf
      <3>4. obs = n - 1
        BY <1>1, <3>3
      <3> HIDE DEF n
      <3>5. obs # None
        BY <2>1, <3>4 DEF None
      <3>6. QED
        BY <3>1, <3>2, <3>4, <3>5
    <2> HIDE DEF n
    <2>3. q2 = [q1 EXCEPT !["logprobs"] = Append(q1["logprobs"], n),
                          !["inputs"] = Append(q1["inputs"], result)]
      <3>1. result.step = n
        BY <2>2
      <3>2. QED
        BY <2>2, <3>1 DEF AddResult
    <2>4. q1["logprobs"] = q["logprobs"] /\ q1["inputs"] = q["inputs"]
      BY <1>5, <1>8
    <2> DEFINE x == new("logprobs")
               y == new("inputs")
    <2>5. q2 = [q1 EXCEPT !["logprobs"] = x, !["inputs"] = y]
      BY <1>4, <1>10, <2>2, <2>3, <2>4
    <2>6. x \in Seq(Entries) /\ y \in Seq(Entries)
      BY <1>2, <1>5
    <2> HIDE DEF x, y, q2
    <2>7. /\ q2 \in [Fields -> Seq(Entries)] /\ q2["logprobs"] = x /\ q2["inputs"] = y
          /\ \A h \in Fields : h # "logprobs" /\ h # "inputs" => q2[h] = q1[h]
      <3>1. "logprobs" # "inputs" /\ q1 \in [Fields -> Seq(Entries)]
        BY <1>8
      <3>2. QED
        BY ONLY <1>5, <2>5, <2>6, <3>1, TwoChanged
    <2> DEFINE z == new("transitions")
    <2>8. q2["transitions"] = q["transitions"]
      BY <1>5, <1>8, <2>7
    <2>9. r = [q2 EXCEPT !["transitions"] = z]
      <3>1. r = [q2 EXCEPT !["transitions"] =
                    Append(q2["transitions"], [obs |-> obs, next_obs |-> n])]
        BY <2>2 DEF AddTransition, n
      <3>2. [obs |-> obs, next_obs |-> n] = [obs |-> n - 1, next_obs |-> n]
        BY <2>2
      <3> HIDE DEF r
      <3>3. QED
        BY <1>4, <1>10, <2>8, <3>1, <3>2
    <2>10. z \in Seq(Entries)
      BY <1>2, <1>5
    <2> HIDE DEF z, r
    <2>11. /\ r \in [Fields -> Seq(Entries)] /\ r["transitions"] = z
           /\ \A h \in Fields : h # "transitions" => r[h] = q2[h]
      BY <1>5, <2>7, <2>9, <2>10
    <2>12. rewards = new("rewards")
      BY <1>10 DEF rewards
    <2>13. \A f \in Fields : r[f] = new(f)
      BY <1>5, <1>8, <2>7, <2>11, <2>12 DEF x, y, z
    <2>14. r \in [Fields -> Seq(Entries)]
           /\ \A f \in Fields : r[f] = IF Adds(f, d) THEN new(f) ELSE q[f]
      BY <1>10, <2>11, <2>13 DEF Adds
    <2>15. QED
      BY <2>14 DEF new, r, q2, q1
  <1>11. QED
    BY <1>9, <1>10
LEMMA GenerateRecords ==
  ASSUME TurnInv, RecordsInv, Generate
  PROVE  RecordsInv'
  <1> DEFINE s == policy.stage
             e == policy.epoch
             d == policy.chunk - 1
             out == Head(envChannel)
             result == LastResult(out)
             added == AddTransition(AddResult(AddFlagsAndRewards(queues[s], out), result, out),
                                    lastObs[s], out)
             newResult == IF policy.chunk > NChunkSteps THEN NoResult
                          ELSE [step |-> out.step + 1, human |-> None]
             newObs == IF policy.chunk > NChunkSteps THEN None ELSE out.step
  <1>1. /\ PolicyAt(policy) /\ PolicyNext(policy, policy')
        /\ out = Output(s, PolicyStep(policy), policy.chunk > 1)
    BY GenerateGives, PolicyIsAt DEF TurnInv
  <1>2. /\ e \in Nat \ {0} /\ d \in 0 .. NChunkSteps /\ s \in Stages /\ policy.chunk = d + 1
        /\ Before(e) \in Nat /\ NChunkSteps \in Nat \ {0}
    <2>1. Before(e) \in Nat
      BY <1>1, BeforeNext DEF PolicyAt
    <2>2. QED
      BY <1>1, <2>1, Sizes DEF PolicyAt, Stages
  <1>3. out.stage = s /\ out.step = Before(e) + d /\ out.rewarded = (d > 0)
    <2>1. out.stage = s /\ out.step = PolicyStep(policy) /\ out.rewarded = (policy.chunk > 1)
      BY <1>1 DEF Output
    <2>2. (policy.chunk > 1) = (d > 0)
      BY <1>2
    <2>3. QED
      BY <2>1, <2>2 DEF PolicyStep
  <1>4. /\ queues' = [queues EXCEPT ![s] = added]
        /\ lastResults' = [lastResults EXCEPT ![s] = newResult]
        /\ lastObs' = [lastObs EXCEPT ![s] = newObs]
        /\ records' = records /\ replayChannel' = replayChannel
    BY DEF Generate, AddAll, Remember
  <1>5. /\ queues \in [Stages -> [Fields -> Seq(Entries)]]
        /\ records \in [Stages -> Seq([Fields -> Entries])]
        /\ DOMAIN lastResults = Stages /\ DOMAIN lastObs = Stages
        /\ replayChannel \in Seq(Rows)
        /\ \A t \in Stages :
             QueuesInv(queues[t], records[t], lastResults[t], lastObs[t], e, Had(policy, t))
    BY DEF RecordsInv
  <1>6. Had(policy, s) = d
    BY <1>1 DEF Had, PolicyAt
  <1>7. /\ \A n \in 1 .. Len(records[s]) : \A f \in Fields : records[s][n][f] = Entry(f, n)
        /\ \A f \in Fields : QueueOf(queues[s][f], f, Len(records[s]), Count(f, e, d))
        /\ lastResults[s] = ResultOf(e, d) /\ lastObs[s] = ObsOf(e, d)
    BY <1>2, <1>5, <1>6 DEF QueuesInv
  <1>8. result = IF d = 0 THEN NoResult
                 ELSE [step |-> Before(e) + d,
                       human |-> IF d = NChunkSteps THEN None ELSE Before(e) + d]
    <2>1. lastResults[out.stage] = ResultOf(e, d)
      BY <1>3, <1>7
    <2>2. CASE d = 0
      <3>1. ~(policy.chunk > NChunkSteps) /\ ResultOf(e, d) = NoResult
        BY <1>2, <2>2 DEF ResultOf
      <3>2. QED
        BY <2>1, <2>2, <3>1 DEF LastResult, UpdateInterveneActions
    <2>3. CASE d # 0
      <3>1. d \in 1 .. NChunkSteps
        BY <1>2, <2>3
      <3> DEFINE r == [step |-> Before(e) + d, human |-> None]
      <3>2. ResultOf(e, d) = r
        BY <3>1 DEF ResultOf
      <3>3. r # NoResult
        <4>1. r.step = Before(e) + d /\ NoResult.step = None
          BY DEF NoResult
        <4>2. Before(e) + d # None
          BY <1>2, <3>1 DEF None
        <4>3. QED
          BY <4>1, <4>2
      <3>4. CASE d = NChunkSteps
        <4>1. policy.chunk > NChunkSteps
          BY <1>2, <3>4
        <4>2. QED
          BY <2>1, <2>3, <3>2, <3>4, <4>1 DEF LastResult
      <3>5. CASE d # NChunkSteps
        <4>1. ~(policy.chunk > NChunkSteps)
          BY <1>2, <3>5
        <4>2. result = [r EXCEPT !.human = Before(e) + d]
          BY <1>3, <2>1, <3>2, <3>3, <4>1 DEF LastResult, UpdateInterveneActions
        <4>3. QED
          BY <2>3, <3>5, <4>2
      <3>6. QED
        BY <3>4, <3>5
    <2>4. QED
      BY <2>2, <2>3
  <1>9. /\ added \in [Fields -> Seq(Entries)]
        /\ \A f \in Fields :
             added[f] = IF Adds(f, d) THEN Append(queues[s][f], Entry(f, Count(f, e, d) + 1))
                        ELSE queues[s][f]
    <2> DEFINE q == queues[s]
               obs == lastObs[s]
    <2>1. q \in [Fields -> Seq(Entries)] /\ obs = ObsOf(e, d)
      BY <1>2, <1>5, <1>7
    <2>2. added = AddTransition(AddResult(AddFlagsAndRewards(q, out), result, out), obs, out)
      OBVIOUS
    <2> HIDE DEF q, obs, result, out, e, d, added
    <2>3. LET r == AddTransition(AddResult(AddFlagsAndRewards(q, out), result, out), obs, out)
          IN /\ r \in [Fields -> Seq(Entries)]
             /\ \A f \in Fields :
                  r[f] = IF Adds(f, d) THEN Append(q[f], Entry(f, Count(f, e, d) + 1)) ELSE q[f]
      BY <1>2, <1>3, <1>8, <2>1, AddedEntries
    <2>4. QED
      BY <2>2, <2>3 DEF q
  <1>10. newResult = ResultOf(e, d + 1) /\ newObs = ObsOf(e, d + 1)
    <2>1. CASE d = NChunkSteps
      <3>1. policy.chunk > NChunkSteps /\ ~(d + 1 \in 1 .. NChunkSteps)
        BY <1>2, <2>1
      <3>2. QED
        BY <3>1 DEF ResultOf, ObsOf
    <2>2. CASE d # NChunkSteps
      <3>1. ~(policy.chunk > NChunkSteps) /\ d + 1 \in 1 .. NChunkSteps
        BY <1>2, <2>2
      <3>2. Before(e) + d + 1 = Before(e) + (d + 1) /\ (d + 1) - 1 = d
        BY <1>2
      <3>3. QED
        BY <1>3, <3>1, <3>2 DEF ResultOf, ObsOf
    <2>3. QED
      BY <2>1, <2>2
  <1> HIDE DEF added, newResult, newObs, result, out, d
  <1>11. \A f \in Fields : QueueOf(added[f], f, Len(records[s]), Count(f, e, d + 1))
    <2> SUFFICES ASSUME NEW f \in Fields
                 PROVE  QueueOf(added[f], f, Len(records[s]), Count(f, e, d + 1))
      OBVIOUS
    <2> DEFINE c == Count(f, e, d)
               m == Len(records[s])
               q == queues[s][f]
    <2>1. c \in Nat /\ m \in Nat /\ QueueOf(q, f, m, c)
      <3>1. d \in 0 .. NChunkSteps + 1
        BY <1>2
      <3>2. c \in Nat
        BY <1>2, <3>1, CountIs
      <3>3. m \in Nat
        BY <1>2, <1>5
      <3>4. QED
        BY <1>7, <3>2, <3>3
    <2>2. Count(f, e, d + 1) = IF Adds(f, d) THEN c + 1 ELSE c
      BY <1>2, CountNext
    <2>3. added[f] = IF Adds(f, d) THEN Append(q, Entry(f, c + 1)) ELSE q
      BY <1>9
    <2> HIDE DEF c, m, q
    <2>4. QueueOf(Append(q, Entry(f, c + 1)), f, m, c + 1)
      BY <2>1, QueueGrows
    <2>5. QueueOf(added[f], f, m, Count(f, e, d + 1))
      BY <2>1, <2>2, <2>3, <2>4
    <2>6. QED
      BY <2>5 DEF m
  <1>12. /\ queues' \in [Stages -> [Fields -> Seq(Entries)]]
         /\ queues'[s] = added /\ \A t \in Stages : t # s => queues'[t] = queues[t]
         /\ DOMAIN lastResults' = Stages /\ DOMAIN lastObs' = Stages
         /\ lastResults'[s] = newResult /\ lastObs'[s] = newObs
         /\ \A t \in Stages : t # s => lastResults'[t] = lastResults[t] /\ lastObs'[t] = lastObs[t]
    BY <1>2, <1>4, <1>5, <1>9
  <1>13. ASSUME NEW t \in Stages
         PROVE  QueuesInv(queues'[t], records'[t], lastResults'[t], lastObs'[t],
                          policy'.epoch, Had(policy', t))
    <2> DEFINE h == IF t = policy.stage THEN policy.chunk ELSE Had(policy, t)
    <2>1. /\ \A f \in Fields : Count(f, policy'.epoch, Had(policy', t)) = Count(f, e, h)
          /\ ResultOf(policy'.epoch, Had(policy', t)) = ResultOf(e, h)
          /\ ObsOf(policy'.epoch, Had(policy', t)) = ObsOf(e, h)
      <3> DEFINE p == policy
                 q == policy'
      <3>1. PolicyAt(p) /\ PolicyNext(p, q)
        BY <1>1
      <3> HIDE DEF p, q
      <3>2. LET g == IF t = p.stage THEN p.chunk ELSE Had(p, t)
            IN /\ \A f \in Fields : Count(f, q.epoch, Had(q, t)) = Count(f, p.epoch, g)
               /\ ResultOf(q.epoch, Had(q, t)) = ResultOf(p.epoch, g)
               /\ ObsOf(q.epoch, Had(q, t)) = ObsOf(p.epoch, g)
        BY <3>1, HadNext
      <3>3. QED
        BY <3>2 DEF p, q
    <2>2. CASE t # s
      <3>1. h = Had(policy, t)
        BY <2>2
      <3>2. QueuesInv(queues[t], records[t], lastResults[t], lastObs[t], e, h)
        BY <1>5, <3>1
      <3> HIDE DEF h, e
      <3>3. QED
        BY <1>4, <1>12, <2>1, <2>2, <3>2 DEF QueuesInv
    <2>3. CASE t = s
      <3>1. h = d + 1
        BY <1>2, <2>3
      <3> HIDE DEF h, e
      <3>2. QED
        BY <1>4, <1>7, <1>10, <1>11, <1>12, <2>1, <2>3, <3>1 DEF QueuesInv
    <2>4. QED
      BY <2>2, <2>3
  <1>14. QED
    BY <1>4, <1>5, <1>12, <1>13 DEF RecordsInv
(* The batch that goes to the buffer, and what is left of the channel.      *)
LEMMA BatchOfRows ==
  ASSUME RecordsInv, ReplayBufferRun
  PROVE  /\ SubSeq(replayChannel, 1, StageNum) \in Seq(Rows)
         /\ replayChannel' \in Seq(Rows)
  <1> DEFINE n == Len(replayChannel)
  <1>1. replayChannel \in Seq(Rows) /\ n \in Nat
    BY DEF RecordsInv
  <1>2. n >= StageNum /\ replayChannel' = SubSeq(replayChannel, StageNum + 1, n)
    BY DEF ReplayBufferRun
  <1> HIDE DEF n
  <1>3. SubSeq(replayChannel, 1, StageNum) \in Seq(Rows)
    <2>1. 1 \in 1 .. n + 1 /\ StageNum \in 1 - 1 .. n
      BY <1>1, <1>2, Sizes
    <2>2. QED
      BY <1>1, <2>1, SubSeqSeq DEF n
  <1>4. SubSeq(replayChannel, StageNum + 1, n) \in Seq(Rows)
    <2> DEFINE m == StageNum + 1
    <2>1. m \in 1 .. n + 1 /\ n \in m - 1 .. n
      BY <1>1, <1>2, Sizes
    <2> HIDE DEF m
    <2>2. SubSeq(replayChannel, m, n) \in Seq(Rows)
      BY <1>1, <2>1, SubSeqSeq DEF n
    <2>3. QED
      BY <2>2 DEF m
  <1>5. QED
    BY <1>2, <1>3, <1>4

LEMMA RecordsInductive == TurnInv /\ RecordsInv /\ [Next]_vars => RecordsInv'
  <1> SUFFICES ASSUME TurnInv, RecordsInv, [Next]_vars PROVE RecordsInv'
    OBVIOUS
  <1> DEFINE Same == UNCHANGED <<queues, records, lastResults, lastObs, policy>>
  <1>1. ASSUME Same, replayChannel' \in Seq(Rows) PROVE RecordsInv'
    BY <1>1 DEF RecordsInv
  <1>2. replayChannel \in Seq(Rows)
    BY DEF RecordsInv
  <1>3. CASE Interact
    BY <1>1, <1>2, <1>3 DEF Interact, policyVars, recordVars
  <1>4. CASE Generate
    BY <1>4, GenerateRecords
  <1>5. CASE ReplayBufferRun
    BY <1>1, <1>5, BatchOfRows DEF ReplayBufferRun, policyVars, recordVars
  <1>6. CASE Run
    BY <1>1, <1>2, <1>6
       DEF Run, RunTraining, StopEnv, StopPolicy, Finish, policyVars, recordVars
  <1>7. ASSUME NEW s \in Stages, SendData(s) PROVE RecordsInv'
    BY <1>7, SendDataRecords, TurnParts
  <1>8. CASE UNCHANGED vars
    BY <1>1, <1>2, <1>8 DEF vars, policyVars, recordVars
  <1>9. QED
    BY <1>3, <1>4, <1>5, <1>6, <1>7, <1>8 DEF Next

LEMMA RingInductive == RingInv /\ RecordsInv /\ [Next]_vars => RingInv'
  <1> SUFFICES ASSUME RingInv, RecordsInv, [Next]_vars PROVE RingInv'
    OBVIOUS
  <1>1. ASSUME UNCHANGED <<capacity, buffer, pos, size, latest>> PROVE RingInv'
    BY <1>1 DEF RingInv, Age
  <1>2. CASE Interact
    BY <1>1, <1>2 DEF Interact, bufferVars
  <1>3. CASE Generate
    BY <1>1, <1>3 DEF Generate, bufferVars
  <1>4. CASE ReplayBufferRun
    <2> DEFINE rows == SubSeq(replayChannel, 1, StageNum)
    <2>1. rows \in Seq(Rows)
      BY <1>4, BatchOfRows
    <2>2. InsertBatch(rows) \/ BatchTooLarge(rows)
      BY <1>4 DEF ReplayBufferRun, AddRolloutBatch
    <2> HIDE DEF rows
    <2>3. CASE InsertBatch(rows)
      BY <2>1, <2>3, InsertRing
    <2>4. CASE BatchTooLarge(rows)
      BY <1>1, <2>4 DEF BatchTooLarge
    <2>5. QED
      BY <2>2, <2>3, <2>4
  <1>5. CASE Run
    BY <1>1, <1>5 DEF Run, bufferVars
  <1>6. ASSUME NEW s \in Stages, SendData(s) PROVE RingInv'
    BY <1>1, <1>6 DEF SendData, bufferVars
  <1>7. CASE UNCHANGED vars
    BY <1>1, <1>7 DEF vars, bufferVars
  <1>8. QED
    BY <1>2, <1>3, <1>4, <1>5, <1>6, <1>7 DEF Next

(* What a record's fields say, in the words of the property.                *)
LEMMA RecordsHold == RecordsInv => RecordsOfOneStep
  <1> SUFFICES ASSUME RecordsInv, NEW s \in Stages, NEW n \in DOMAIN records[s]
               PROVE  LET r == records[s][n] IN
                        /\ r.logprobs = n /\ r.rewards = n
                        /\ r.transitions = [obs |-> n - 1, next_obs |-> n]
                        /\ r.inputs = [step |-> n, human |-> IF n % NChunkSteps = 0 THEN None ELSE n]
                        /\ r.flags = n - 1 - (n - 1) \div (NChunkSteps + 1)
    BY DEF RecordsOfOneStep
  <1>1. records[s] \in Seq([Fields -> Entries])
    BY DEF RecordsInv
  <1>2. n \in 1 .. Len(records[s]) /\ n \in Nat
    BY <1>1
  <1>3. \A f \in Fields : records[s][n][f] = Entry(f, n)
    BY <1>2 DEF RecordsInv, QueuesInv
  <1>4. QED
    BY <1>2, <1>3, EntryIs DEF Fields

-----------------------------------------------------------------------------
(* What a run of the pipeline never leaves: the ring holds the latest rows, *)
(* environment and policy take turns as the channels between them say, and  *)
(* queues and records hold each step's entry at that step's place.          *)
PipelineInv == RingInv /\ TurnInv /\ RecordsInv

LEMMA PipelineInvariance == Spec => []PipelineInv
  <1>1. Init => PipelineInv
    BY InitRing, InitTurn, InitRecords DEF PipelineInv
  <1>2. PipelineInv /\ [Next]_vars => PipelineInv'
    BY RingInductive, TurnInductive, RecordsInductive DEF PipelineInv
  <1>3. QED
    BY <1>1, <1>2, PTL DEF Spec

(* The replay buffer (SACReplayBuffer.add_rollout_batch) always holds the   *)
(* latest rows that were added, each at one place, wherever its writes wrap *)
(* around the end of the ring.                                              *)
THEOREM LatestRowsThm == Spec => []BufferHoldsLatest
  <1>1. PipelineInv => BufferHoldsLatest
    BY RingHoldsLatest DEF PipelineInv
  <1>2. QED
    BY <1>1, PipelineInvariance, PTL

(* The actions that AsyncEnvWorker takes from the channel are for the stage *)
(* and the step it takes them in, for any number of stages and chunks.      *)
THEOREM ActionsForTheStepThm == Spec => []ActionsForTheStep
  <1>1. PipelineInv => ActionsForTheStep
    BY TurnOfActions DEF PipelineInv
  <1>2. QED
    BY <1>1, PipelineInvariance, PTL

(* Every record that AsyncEmbodiedRolloutBuffer.run sends is put together   *)
(* from entries of one step, but for the flags, which lag as the property   *)
(* says.                                                                    *)
THEOREM RecordsOfOneStepThm == Spec => []RecordsOfOneStep
  <1>1. PipelineInv => RecordsOfOneStep
    BY RecordsHold DEF PipelineInv
  <1>2. QED
    BY <1>1, PipelineInvariance, PTL
=============================================================================

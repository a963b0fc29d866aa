-------------------------- MODULE DeviceLockProofs --------------------------
(***************************************************************************)
(* Proofs about the accelerator lock of module DeviceLock, for any number  *)
(* of workers and devices, any lists of accelerators and any kills.        *)
(***************************************************************************)
EXTENDS DeviceLock, Integers, SequencesExt, SequenceTheorems,
        WellFoundedInduction, TLAPS

-----------------------------------------------------------------------------
(* Sequences: the domain of what an operation returns, and its elements.   *)

(* A FIFO once its head has been taken.                                     *)
LEMMA TailOfSeq ==
  ASSUME NEW S, NEW s \in Seq(S), s # <<>>
  PROVE  /\ Tail(s) \in Seq(S)
         /\ Len(Tail(s)) = Len(s) - 1
         /\ DOMAIN Tail(s) = 1..(Len(s) - 1)
         /\ \A i \in DOMAIN Tail(s) : i + 1 \in DOMAIN s /\ Tail(s)[i] = s[i + 1]
         /\ 1 \in DOMAIN s /\ Head(s) = s[1] /\ Head(s) \in S
  OBVIOUS

(* ... and once one entry is added at its end.                              *)
LEMMA AppendToSeq ==
  ASSUME NEW S, NEW s \in Seq(S), NEW e \in S
  PROVE  /\ Append(s, e) \in Seq(S)
         /\ DOMAIN Append(s, e) = 1..(Len(s) + 1)
         /\ DOMAIN s = 1..Len(s)
         /\ \A i \in DOMAIN s : Append(s, e)[i] = s[i]
         /\ Append(s, e)[Len(s) + 1] = e
  OBVIOUS

(* ... and once several are added.                                          *)
LEMMA ConcatSeq ==
  ASSUME NEW S, NEW s \in Seq(S), NEW t \in Seq(S)
  PROVE  /\ s \o t \in Seq(S)
         /\ DOMAIN (s \o t) = 1..(Len(s) + Len(t))
         /\ \A i \in DOMAIN (s \o t) :
              (s \o t)[i] = IF i <= Len(s) THEN s[i] ELSE t[i - Len(s)]
         /\ \A i \in DOMAIN (s \o t) :
              IF i <= Len(s) THEN i \in DOMAIN s ELSE i - Len(s) \in DOMAIN t
  OBVIOUS

(* Removing one position.                                                   *)
LEMMA RemoveAtSeq ==
  ASSUME NEW S, NEW s \in Seq(S), NEW k \in 1..Len(s)
  PROVE  /\ RemoveAt(s, k) \in Seq(S)
         /\ DOMAIN RemoveAt(s, k) = 1..(Len(s) - 1)
         /\ \A i \in 1..(Len(s) - 1) :
              RemoveAt(s, k)[i] = IF i < k THEN s[i] ELSE s[i + 1]
  <1> DEFINE front == SubSeq(s, 1, k - 1)
             back == SubSeq(s, k + 1, Len(s))
             both == front \o back
  <1>1. k \in Nat /\ Len(s) \in Nat /\ 1 <= k /\ k <= Len(s)
    OBVIOUS
  <1>2. /\ front \in Seq(S) /\ Len(front) = k - 1
        /\ \A i \in 1..(k - 1) : front[i] = s[i]
    BY <1>1
  <1>3. /\ back \in Seq(S) /\ Len(back) = Len(s) - k
        /\ \A i \in 1..(Len(s) - k) : back[i] = s[k + i]
    BY <1>1
  <1>4. RemoveAt(s, k) = both
    BY DEF RemoveAt
  <1> HIDE DEF front, back
  <1>5. /\ both \in Seq(S) /\ Len(both) = Len(front) + Len(back)
        /\ \A i \in 1..(Len(front) + Len(back)) :
             both[i] = IF i <= Len(front) THEN front[i] ELSE back[i - Len(front)]
    BY <1>2, <1>3, ConcatProperties
  <1> HIDE DEF both
  <1>6. Len(both) = Len(s) - 1
    BY <1>1, <1>2, <1>3, <1>5
  <1>7. ASSUME NEW i \in 1..(Len(s) - 1)
        PROVE  both[i] = IF i < k THEN s[i] ELSE s[i + 1]
    <2>1. i \in 1..(Len(front) + Len(back))
      BY <1>1, <1>2, <1>3
    <2>2. CASE i < k
      <3>1. i <= Len(front) /\ i \in 1..(k - 1)
        BY <1>1, <1>2, <2>2
      <3>2. both[i] = front[i]
        BY <2>1, <3>1, <1>5
      <3>3. QED
        BY <2>2, <3>1, <3>2, <1>2
    <2>3. CASE ~(i < k)
      <3>1. /\ ~(i <= Len(front)) /\ i - Len(front) \in 1..(Len(s) - k)
            /\ k + (i - Len(front)) = i + 1
        BY <1>1, <1>2, <2>3
      <3>2. both[i] = back[i - Len(front)]
        BY <2>1, <3>1, <1>5
      <3>3. back[i - Len(front)] = s[k + (i - Len(front))]
        BY <3>1, <1>3
      <3>4. QED
        BY <2>3, <3>1, <3>2, <3>3
    <2>4. QED
      BY <2>2, <2>3
  <1>8. DOMAIN both = 1..(Len(s) - 1)
    BY <1>5, <1>6
  <1>9. QED
    BY <1>4, <1>5, <1>7, <1>8

Has(s, x) == \E i \in DOMAIN s : s[i] = x

Prec(s, x, y) == \E i, j \in DOMAIN s : i < j /\ s[i] = x /\ s[j] = y

LEMMA HasAppend ==
  ASSUME NEW S, NEW s \in Seq(S), NEW e \in S
  PROVE  /\ \A x : Has(Append(s, e), x) <=> Has(s, x) \/ x = e
         /\ \A x, y : Prec(Append(s, e), x, y) <=> Prec(s, x, y) \/ (Has(s, x) /\ y = e)
  <1> DEFINE r == Append(s, e)
             n == Len(s)
  <1>1. /\ DOMAIN r = 1..(n + 1) /\ DOMAIN s = 1..n /\ n \in Nat
        /\ \A i \in DOMAIN s : r[i] = s[i]
        /\ r[n + 1] = e
    BY AppendToSeq
  <1> HIDE DEF r, n
  <1>2. \A x : Has(r, x) <=> Has(s, x) \/ x = e
    BY <1>1 DEF Has
  <1>3. ASSUME NEW x, NEW y
        PROVE  Prec(r, x, y) <=> Prec(s, x, y) \/ (Has(s, x) /\ y = e)
    <2>1. ASSUME Prec(r, x, y) PROVE Prec(s, x, y) \/ (Has(s, x) /\ y = e)
      <3>1. PICK i \in DOMAIN r, j \in DOMAIN r : i < j /\ r[i] = x /\ r[j] = y
        BY <2>1 DEF Prec
      <3>2. i \in DOMAIN s /\ (j \in DOMAIN s \/ j = n + 1)
        BY <1>1, <3>1
      <3>3. QED
        BY <1>1, <3>1, <3>2 DEF Prec, Has
    <2>2. ASSUME Prec(s, x, y) PROVE Prec(r, x, y)
      BY <1>1, <2>2 DEF Prec
    <2>3. ASSUME Has(s, x), y = e PROVE Prec(r, x, y)
      <3>1. PICK i \in DOMAIN s : s[i] = x
        BY <2>3 DEF Has
      <3>2. i \in DOMAIN r /\ n + 1 \in DOMAIN r /\ i < n + 1
        BY <1>1
      <3>3. QED
        BY <1>1, <2>3, <3>1, <3>2 DEF Prec
    <2>4. QED
      BY <2>1, <2>2, <2>3
  <1>4. QED
    BY <1>2, <1>3 DEF r

LEMMA HasConcat ==
  ASSUME NEW S, NEW s \in Seq(S), NEW t \in Seq(S)
  PROVE  /\ \A x : Has(s \o t, x) <=> Has(s, x) \/ Has(t, x)
         /\ \A x, y : Prec(s, x, y) \/ (Has(s, x) /\ Has(t, y)) => Prec(s \o t, x, y)
  <1> DEFINE r == s \o t
             n == Len(s)
  <1>1. /\ DOMAIN r = 1..(n + Len(t)) /\ n \in Nat /\ Len(t) \in Nat
        /\ DOMAIN s = 1..n /\ DOMAIN t = 1..Len(t)
        /\ \A i \in DOMAIN r : r[i] = IF i <= n THEN s[i] ELSE t[i - n]
    BY ConcatSeq
  <1> HIDE DEF r, n
  <1>2. \A i \in DOMAIN s : i \in DOMAIN r /\ r[i] = s[i]
    BY <1>1
  <1>3. ASSUME NEW i \in DOMAIN t
        PROVE  n + i \in DOMAIN r /\ r[n + i] = t[i]
    <2>1. n + i \in DOMAIN r /\ ~(n + i <= n) /\ (n + i) - n = i
      BY <1>1
    <2>2. QED
      BY <1>1, <2>1
  <1>4. \A i \in DOMAIN r : i \in DOMAIN s \/ i - n \in DOMAIN t
    BY <1>1
  <1>5. \A i \in DOMAIN r : (i \in DOMAIN s /\ r[i] = s[i]) \/ (i - n \in DOMAIN t /\ r[i] = t[i - n])
    BY <1>1, <1>2, <1>4
  <1>6. \A x : Has(r, x) <=> Has(s, x) \/ Has(t, x)
    BY <1>2, <1>3, <1>5 DEF Has
  <1>7. ASSUME NEW x, NEW y, Prec(s, x, y) PROVE Prec(r, x, y)
    BY <1>2, <1>7 DEF Prec
  <1>8. ASSUME NEW x, NEW y, Has(s, x), Has(t, y) PROVE Prec(r, x, y)
    <2>1. PICK i \in DOMAIN s, j \in DOMAIN t : s[i] = x /\ t[j] = y
      BY <1>8 DEF Has
    <2>2. i < n + j
      BY <1>1
    <2>3. QED
      BY <1>2, <1>3, <2>1, <2>2 DEF Prec
  <1>9. QED
    BY <1>6, <1>7, <1>8 DEF r

LEMMA HasTail ==
  ASSUME NEW S, NEW s \in Seq(S), s # <<>>,
         \A i \in DOMAIN s : s[i] = Head(s) => i = 1
  PROVE  /\ \A x : Has(Tail(s), x) <=> Has(s, x) /\ x # Head(s)
         /\ \A x, y : Prec(s, x, y) => y # Head(s)
         /\ \A x, y : Prec(s, x, y) /\ x # Head(s) => Prec(Tail(s), x, y)
         /\ \A x, y : Prec(Tail(s), x, y) => Prec(s, x, y)
         /\ Has(s, Head(s))
  <1> DEFINE t == Tail(s)
             h == Head(s)
  <1>1. /\ DOMAIN t = 1..(Len(s) - 1) /\ DOMAIN s = 1..Len(s) /\ Len(s) \in Nat
        /\ \A i \in DOMAIN t : i + 1 \in DOMAIN s /\ t[i] = s[i + 1]
        /\ 1 \in DOMAIN s /\ h = s[1]
        /\ \A i \in DOMAIN s : s[i] = h => i = 1
    BY TailOfSeq
  <1> HIDE DEF t, h
  <1>2. ASSUME NEW i \in DOMAIN s, i # 1
        PROVE  i - 1 \in DOMAIN t /\ t[i - 1] = s[i]
    <2>1. i - 1 \in DOMAIN t /\ (i - 1) + 1 = i
      BY <1>1, <1>2
    <2>2. QED
      BY <1>1, <2>1
  <1>3. \A i \in DOMAIN t : i + 1 # 1 /\ t[i] # h
    BY <1>1
  <1>4. \A x : Has(t, x) <=> Has(s, x) /\ x # h
    BY <1>1, <1>2, <1>3 DEF Has
  <1>5. ASSUME NEW x, NEW y, Prec(s, x, y) PROVE y # h
    <2>1. PICK i \in DOMAIN s, j \in DOMAIN s : i < j /\ s[i] = x /\ s[j] = y
      BY <1>5 DEF Prec
    <2>2. j # 1
      BY <1>1, <2>1
    <2>3. QED
      BY <1>1, <2>1, <2>2
  <1>6. ASSUME NEW x, NEW y, Prec(s, x, y), x # h PROVE Prec(t, x, y)
    <2>1. PICK i \in DOMAIN s, j \in DOMAIN s : i < j /\ s[i] = x /\ s[j] = y
      BY <1>6 DEF Prec
    <2>2. i # 1 /\ j # 1 /\ i - 1 < j - 1
      BY <1>1, <1>6, <2>1
    <2>3. QED
      BY <1>2, <2>1, <2>2 DEF Prec
  <1>7. ASSUME NEW x, NEW y, Prec(t, x, y) PROVE Prec(s, x, y)
    <2>1. PICK i \in DOMAIN t, j \in DOMAIN t : i < j /\ t[i] = x /\ t[j] = y
      BY <1>7 DEF Prec
    <2>2. i + 1 < j + 1
      BY <1>1, <2>1
    <2>3. QED
      BY <1>1, <2>1, <2>2 DEF Prec
  <1>8. Has(s, h)
    BY <1>1 DEF Has
  <1>9. QED
    BY <1>4, <1>5, <1>6, <1>7, <1>8 DEF t, h

LEMMA HasRemoveAt ==
  ASSUME NEW S, NEW s \in Seq(S), NEW k \in 1..Len(s),
         \A i \in DOMAIN s : s[i] = s[k] => i = k
  PROVE  /\ \A x : Has(RemoveAt(s, k), x) <=> Has(s, x) /\ x # s[k]
         /\ \A x, y : Prec(RemoveAt(s, k), x, y) => Prec(s, x, y)
         /\ \A x, y : Prec(s, x, y) /\ x # s[k] /\ y # s[k] => Prec(RemoveAt(s, k), x, y)
  <1> DEFINE r == RemoveAt(s, k)
  <1>1. /\ DOMAIN r = 1..(Len(s) - 1)
        /\ \A i \in 1..(Len(s) - 1) : r[i] = IF i < k THEN s[i] ELSE s[i + 1]
    BY RemoveAtSeq
  <1>2. DOMAIN s = 1..Len(s) /\ Len(s) \in Nat
    OBVIOUS
  <1> HIDE DEF r
  <1> DEFINE up(i) == IF i < k THEN i ELSE i + 1
             down(i) == IF i < k THEN i ELSE i - 1
  <1>3. /\ \A i \in DOMAIN r : up(i) \in DOMAIN s /\ r[i] = s[up(i)] /\ up(i) # k
        /\ \A i, j \in DOMAIN r : i < j => up(i) < up(j)
    BY <1>1, <1>2
  <1>4. ASSUME NEW i \in DOMAIN s, i # k PROVE down(i) \in DOMAIN r /\ r[down(i)] = s[i]
    <2>1. CASE i < k
      BY <1>1, <1>2, <1>4, <2>1
    <2>2. CASE ~(i < k)
      <3>1. i - 1 \in DOMAIN r /\ ~(i - 1 < k) /\ (i - 1) + 1 = i
        BY <1>1, <1>2, <1>4, <2>2
      <3>2. QED
        BY <1>1, <1>2, <1>4, <2>2, <3>1
    <2>3. QED
      BY <2>1, <2>2
  <1>5. \A i, j \in DOMAIN s : i # k /\ j # k /\ i < j => down(i) < down(j)
    BY <1>2
  <1> HIDE DEF up, down
  <1>6. ASSUME NEW x
        PROVE  Has(r, x) <=> Has(s, x) /\ x # s[k]
    BY <1>3, <1>4 DEF Has
  <1>7. ASSUME NEW x, NEW y, Prec(r, x, y) PROVE Prec(s, x, y)
    <2>1. PICK i \in DOMAIN r, j \in DOMAIN r : i < j /\ r[i] = x /\ r[j] = y
      BY <1>7 DEF Prec
    <2>2. QED
      BY <1>3, <2>1 DEF Prec
  <1>8. ASSUME NEW x, NEW y, Prec(s, x, y), x # s[k], y # s[k] PROVE Prec(r, x, y)
    <2>1. PICK i \in DOMAIN s, j \in DOMAIN s : i < j /\ s[i] = x /\ s[j] = y
      BY <1>8 DEF Prec
    <2>2. i # k /\ j # k
      BY <1>8, <2>1
    <2>3. QED
      BY <1>4, <1>5, <2>1, <2>2 DEF Prec
  <1>9. QED
    BY <1>6, <1>7, <1>8 DEF r

LEMMA SeqIsItsEntries ==
  ASSUME NEW S, NEW s \in Seq(S), NEW n, DOMAIN s = 1..n
  PROVE  s = [i \in 1..n |-> s[i]]
  <1>1. s \in [1..Len(s) -> S] /\ DOMAIN s = 1..Len(s)
    OBVIOUS
  <1>2. QED
    BY <1>1

LEMMA PrecConcat ==
  ASSUME NEW S, NEW s \in Seq(S), NEW t \in Seq(S), NEW x, NEW y, Prec(s \o t, x, y)
  PROVE  Prec(s, x, y) \/ (Has(s, x) /\ Has(t, y)) \/ Prec(t, x, y)
  <1> DEFINE r == s \o t
             n == Len(s)
  <1>1. /\ DOMAIN r = 1..(n + Len(t)) /\ n \in Nat /\ Len(t) \in Nat
        /\ DOMAIN s = 1..n /\ DOMAIN t = 1..Len(t)
        /\ \A i \in DOMAIN r : r[i] = IF i <= n THEN s[i] ELSE t[i - n]
    BY ConcatSeq
  <1>2. PICK i \in DOMAIN r, j \in DOMAIN r : i < j /\ r[i] = x /\ r[j] = y
    BY DEF Prec
  <1> HIDE DEF r, n
  <1>3. CASE j <= n
    <2>1. i \in DOMAIN s /\ j \in DOMAIN s /\ s[i] = x /\ s[j] = y
      BY <1>1, <1>2, <1>3
    <2>2. QED
      BY <1>2, <2>1 DEF Prec
  <1>4. CASE ~(j <= n) /\ i <= n
    <2>1. i \in DOMAIN s /\ j - n \in DOMAIN t /\ s[i] = x /\ t[j - n] = y
      BY <1>1, <1>2, <1>4
    <2>2. QED
      BY <2>1 DEF Has
  <1>5. CASE ~(j <= n) /\ ~(i <= n)
    <2>1. /\ i - n \in DOMAIN t /\ j - n \in DOMAIN t /\ t[i - n] = x /\ t[j - n] = y
          /\ i - n < j - n
      BY <1>1, <1>2, <1>5
    <2>2. QED
      BY <2>1 DEF Prec
  <1>6. QED
    BY <1>3, <1>4, <1>5

-----------------------------------------------------------------------------
USE NoneAssumption

CallbackType == [op : Ops, w : Workers, d : Devices \cup {None}]

(* The children of a gather: one per device of the worker, all different.   *)
LEMMA GatherTasks ==
  ASSUME NEW op \in Ops, NEW w \in Workers
  PROVE  /\ Gather(op, w) \in Seq(CallbackType)
         /\ DOMAIN Gather(op, w) = 1..Len(Accel[w])
         /\ \A i \in DOMAIN Gather(op, w) :
              /\ Gather(op, w)[i].op = op /\ Gather(op, w)[i].w = w
              /\ Gather(op, w)[i].d \in DevicesOf(w)
              /\ Gather(op, w)[i].d \in Devices
         /\ \A i, j \in DOMAIN Gather(op, w) :
              Gather(op, w)[i].d = Gather(op, w)[j].d => i = j
  <1>1. /\ Accel[w] \in Seq(Devices)
        /\ \A i, j \in 1..Len(Accel[w]) : Accel[w][i] = Accel[w][j] => i = j
    BY AccelAssumption
  <1>2. Len(Accel[w]) \in Nat /\ \A i \in 1..Len(Accel[w]) : Accel[w][i] \in Devices
    BY <1>1
  <1>3. \A i \in 1..Len(Accel[w]) :
          /\ Gather(op, w)[i] = [op |-> op, w |-> w, d |-> Accel[w][i]]
          /\ Gather(op, w)[i] \in CallbackType
          /\ Accel[w][i] \in DevicesOf(w)
    BY <1>2 DEF Gather, Callback, CallbackType, DevicesOf
  <1>4. Gather(op, w) = [i \in 1..Len(Accel[w]) |-> Callback(op, w, Accel[w][i])]
    BY DEF Gather
  <1>5. DOMAIN Gather(op, w) = 1..Len(Accel[w])
    BY <1>4
  <1>6. Gather(op, w) \in Seq(CallbackType)
    <2>1. \A i \in 1..Len(Accel[w]) : Callback(op, w, Accel[w][i]) \in CallbackType
      BY <1>3, <1>4
    <2>2. QED
      BY <2>1, <1>2, <1>4
  <1>7. \A i \in 1..Len(Accel[w]) :
          /\ Gather(op, w)[i].op = op /\ Gather(op, w)[i].w = w
          /\ Gather(op, w)[i].d = Accel[w][i]
    BY <1>4 DEF Callback
  <1>8. \A i, j \in 1..Len(Accel[w]) :
          Gather(op, w)[i].d = Gather(op, w)[j].d => i = j
    BY <1>1, <1>7
  <1>9. \A i \in 1..Len(Accel[w]) :
          Gather(op, w)[i].d \in DevicesOf(w) /\ Gather(op, w)[i].d \in Devices
    BY <1>2, <1>3, <1>7
  <1>10. QED
    <2> HIDE DEF Gather
    <2> QED BY <1>5, <1>6, <1>7, <1>8, <1>9, Zenon

DevicesOfSubset == \A w \in Workers : DevicesOf(w) \subseteq Devices
LEMMA DevicesOfWorker == DevicesOfSubset
  BY AccelAssumption DEF DevicesOf, DevicesOfSubset

LEMMA InitInv == Init => IInv
  <1> SUFFICES ASSUME Init PROVE IInv
    OBVIOUS
  <1> USE DEF Init
  <1>1. TypeOK
    <2>1. /\ locked \in [Devices -> BOOLEAN]
          /\ owner \in [Devices -> Workers \cup {None}]
          /\ pc \in [Workers -> PC]
          /\ children \in [Workers -> SUBSET Devices]
          /\ raised \subseteq {"AssertionError", "RuntimeError"}
      BY DEF PC
    <2>2. ready \in Seq([op : Ops, w : Workers, d : Devices \cup {None}])
      OBVIOUS
    <2>3. arrival \in Seq(Workers)
      OBVIOUS
    <2>4. waiters \in [Devices -> Seq([w : Workers, done : BOOLEAN])]
      OBVIOUS
    <2>5. QED
      BY <2>1, <2>2, <2>3, <2>4 DEF TypeOK
  <1>2. DOMAIN ready = {} /\ \A d \in Devices : DOMAIN waiters[d] = {}
    OBVIOUS
  <1>3. ReadyInv /\ WokenInv /\ AsleepInv /\ WaitOnceInv /\ ResumeInv
    BY <1>2 DEF ReadyInv, WokenInv, AsleepInv, WaitOnceInv, ResumeInv
  <1>4. OwnerInv
    BY <1>2 DEF OwnerInv
  <1>5. QED
    BY <1>1, <1>3, <1>4 DEF IInv, NothingRaised

-----------------------------------------------------------------------------
WaiterType == [w : Workers, done : BOOLEAN]

LEMMA Types ==
  ASSUME TypeOK
  PROVE  /\ ready \in Seq(CallbackType)
         /\ DOMAIN ready = 1..Len(ready) /\ Len(ready) \in Nat
         /\ \A i \in DOMAIN ready :
              /\ ready[i] \in CallbackType
              /\ ready[i].op \in Ops /\ ready[i].w \in Workers
              /\ ready[i].d \in Devices \cup {None}
         /\ \A d \in Devices :
              /\ waiters[d] \in Seq(WaiterType)
              /\ DOMAIN waiters[d] = 1..Len(waiters[d]) /\ Len(waiters[d]) \in Nat
              /\ \A k \in DOMAIN waiters[d] :
                   /\ waiters[d][k] \in WaiterType
                   /\ waiters[d][k].w \in Workers /\ waiters[d][k].done \in BOOLEAN
  <1>1. ready \in Seq(CallbackType)
    BY DEF TypeOK, CallbackType
  <1>2. DOMAIN ready = 1..Len(ready) /\ Len(ready) \in Nat
    BY <1>1
  <1>3. \A i \in DOMAIN ready : ready[i] \in CallbackType
    BY <1>1
  <1>4. \A c \in CallbackType : c.op \in Ops /\ c.w \in Workers /\ c.d \in Devices \cup {None}
    BY DEF CallbackType
  <1>5. ASSUME NEW d \in Devices
        PROVE  /\ waiters[d] \in Seq(WaiterType)
               /\ DOMAIN waiters[d] = 1..Len(waiters[d]) /\ Len(waiters[d]) \in Nat
               /\ \A k \in DOMAIN waiters[d] : waiters[d][k] \in WaiterType
    <2>1. waiters[d] \in Seq(WaiterType)
      BY DEF TypeOK, WaiterType
    <2>2. QED
      BY <2>1
  <1>6. \A f \in WaiterType : f.w \in Workers /\ f.done \in BOOLEAN
    BY DEF WaiterType
  <1>7. QED
    BY <1>1, <1>2, <1>3, <1>4, <1>5, <1>6, Zenon

(* The head of the event loop's FIFO: whose it is, and that nothing else    *)
(* that is due clashes with it.                                             *)
LEMMA DueFacts ==
  ASSUME IInv, NEW op \in Ops, NEW w \in Workers, NEW d \in Devices \cup {None},
         Due(op, w, d)
  PROVE  /\ ready \in Seq(CallbackType) /\ ready # <<>>
         /\ 1 \in DOMAIN ready
         /\ ready[1] = [op |-> op, w |-> w, d |-> d]
         /\ pc[w] \in {Stage(op), "dead"}
         /\ op \in ChildOps => d \in children[w]
         /\ Tail(ready) \in Seq(CallbackType)
         /\ Len(Tail(ready)) \in Nat
         /\ DOMAIN Tail(ready) = 1..Len(Tail(ready))
         /\ \A i \in DOMAIN Tail(ready) :
              /\ i + 1 \in DOMAIN ready /\ Tail(ready)[i] = ready[i + 1]
              /\ ready[i + 1] \in CallbackType
              /\ ready[i + 1].w = w =>
                   /\ op \in ChildOps
                   /\ ready[i + 1].op \in ChildOps
                   /\ ready[i + 1].d # d
  <1>1. ready \in Seq(CallbackType) /\ ready # <<>>
    BY DEF IInv, TypeOK, CallbackType, Due
  <1>2. /\ Tail(ready) \in Seq(CallbackType)
        /\ DOMAIN Tail(ready) = 1..(Len(ready) - 1)
        /\ Len(Tail(ready)) = Len(ready) - 1
        /\ \A i \in DOMAIN Tail(ready) :
             i + 1 \in DOMAIN ready /\ Tail(ready)[i] = ready[i + 1]
        /\ 1 \in DOMAIN ready /\ Head(ready) = ready[1]
    BY <1>1, TailOfSeq, Zenon
  <1>3. Len(Tail(ready)) \in Nat /\ \A i \in DOMAIN ready : ready[i] \in CallbackType
    BY <1>1, <1>2
  <1>4. ready[1] = [op |-> op, w |-> w, d |-> d]
    BY <1>2 DEF Due, Callback
  <1>5. ready[1].op = op /\ ready[1].w = w /\ ready[1].d = d
    BY <1>4
  <1>6. pc[w] \in {Stage(op), "dead"} /\ (op \in ChildOps => d \in children[w])
    BY <1>2, <1>5, Zenon DEF IInv, ReadyInv
  <1>7. ASSUME NEW i \in DOMAIN Tail(ready), ready[i + 1].w = w
        PROVE  op \in ChildOps /\ ready[i + 1].op \in ChildOps /\ ready[i + 1].d # d
    <2>1. 1 # i + 1 /\ i + 1 \in DOMAIN ready
      BY <1>2
    <2>2. QED
      BY <1>2, <1>5, <1>7, <2>1 DEF IInv, ReadyInv
  <1>8. QED
    BY <1>1, <1>2, <1>3, <1>4, <1>6, <1>7

LEMMA Stages ==
  ASSUME NEW op \in Ops
  PROVE  /\ Stage(op) = "asking" <=> op = "acquire_devices"
         /\ Stage(op) = "leaving" <=> op = "release_devices"
         /\ Stage(op) = "freeing" <=> op = "release"
         /\ Stage(op) = "gathering" <=> op \in {"acquire", "resume"}
         /\ Stage(op) \in {"asking", "leaving", "freeing", "gathering"}
         /\ op \in ChildOps <=> Stage(op) \in {"freeing", "gathering"}
  BY DEF Ops, Stage, ChildOps

(* A worker's own step that touches neither the locks nor the event loop.   *)
LEMMA EnterInv ==
  ASSUME IInv, NEW w \in Workers, Enter(w)
  PROVE  IInv'
  <1> USE DEF IInv
  <1>1. TypeOK'
    BY DEF TypeOK, Enter, Goto, PC, lockVars
  <1>2. \A i \in DOMAIN ready : ready[i].w # w
    <2>1. \A i \in DOMAIN ready : ready[i].op \in Ops
      BY Types
    <2>2. ASSUME NEW i \in DOMAIN ready, ready[i].w = w
          PROVE  FALSE
      <3>1. pc[w] = "gathering" /\ children[w] = {}
        BY DEF Enter, Goto
      <3>2. Stage(ready[i].op) = "gathering"
        BY <2>2, <3>1 DEF ReadyInv
      <3>3. QED
        BY <2>1, <2>2, <3>1, <3>2, Stages DEF ReadyInv
    <2>3. QED
      BY <2>2
  <1>3. ReadyInv'
    BY <1>2 DEF ReadyInv, Enter, Goto, TypeOK
  <1>4. WokenInv' /\ AsleepInv' /\ WaitOnceInv'
    BY DEF WokenInv, AsleepInv, WaitOnceInv, Enter, Goto, TypeOK, lockVars
  <1>5. ResumeInv' /\ NothingRaised'
    BY DEF ResumeInv, Enter, lockVars, NothingRaised
  <1>6. OwnerInv'
    BY DEF OwnerInv, Enter, Goto, lockVars, TypeOK
  <1>7. \A v \in Workers : pc'[v] # "failed"
    BY DEF Enter, Goto, TypeOK
  <1>8. QED
    BY <1>1, <1>3, <1>4, <1>5, <1>6, <1>7

LEMMA LeftInv ==
  ASSUME IInv, NEW w \in Workers, Left(w)
  PROVE  IInv'
  <1> USE DEF IInv
  <1>1. TypeOK'
    BY DEF TypeOK, Left, Goto, PC, lockVars
  <1>2. \A i \in DOMAIN ready : ready[i].w # w
    BY DEF Left, Goto, ReadyInv, Stage, ChildOps, TypeOK, Ops
  <1>3. ReadyInv'
    BY <1>2 DEF ReadyInv, Left, Goto, TypeOK
  <1>4. WokenInv' /\ AsleepInv' /\ WaitOnceInv'
    BY DEF WokenInv, AsleepInv, WaitOnceInv, Left, Goto, TypeOK, lockVars
  <1>5. ResumeInv' /\ NothingRaised'
    BY DEF ResumeInv, Left, lockVars, NothingRaised
  <1>6. OwnerInv'
    BY DEF OwnerInv, Left, Goto, lockVars, TypeOK
  <1>7. \A v \in Workers : pc'[v] # "failed"
    BY DEF Left, Goto, TypeOK
  <1>8. QED
    BY <1>1, <1>3, <1>4, <1>5, <1>6, <1>7

LEMMA KillInv ==
  ASSUME IInv, NEW w \in Workers, Kill(w)
  PROVE  IInv'
  <1> USE DEF IInv
  <1>1. TypeOK'
    BY DEF TypeOK, Kill, PC, lockVars
  <1>2. ReadyInv'
    BY DEF ReadyInv, Kill, TypeOK
  <1>3. WokenInv' /\ AsleepInv' /\ WaitOnceInv'
    BY DEF WokenInv, AsleepInv, WaitOnceInv, Kill, TypeOK, lockVars
  <1>4. ResumeInv' /\ NothingRaised'
    BY DEF ResumeInv, Kill, lockVars, NothingRaised
  <1>5. OwnerInv'
    BY DEF OwnerInv, Kill, lockVars, TypeOK
  <1>6. \A v \in Workers : pc'[v] # "failed"
    BY DEF Kill, TypeOK
  <1>7. QED
    BY <1>1, <1>2, <1>3, <1>4, <1>5, <1>6

-----------------------------------------------------------------------------
(* Steps of a worker that send a call to the event loop.                    *)

LEMMA AskInv ==
  ASSUME IInv, NEW w \in Workers, Ask(w)
  PROVE  IInv'
  <1> USE DEF IInv
  <1> DEFINE c == Callback("acquire_devices", w, None)
  <1>1. c \in CallbackType /\ ready \in Seq(CallbackType)
    BY DEF Callback, CallbackType, Ops, TypeOK
  <1>2. /\ ready' \in Seq(CallbackType)
        /\ DOMAIN ready' = 1..(Len(ready) + 1) /\ DOMAIN ready = 1..Len(ready)
        /\ \A i \in DOMAIN ready : ready'[i] = ready[i]
        /\ ready'[Len(ready) + 1] = c
    BY <1>1, AppendToSeq DEF Ask
  <1>3. c.w = w /\ c.op = "acquire_devices"
    BY DEF Callback
  <1> HIDE DEF c
  <1>4. \A i \in DOMAIN ready : ready[i].w # w
    <2>1. \A i \in DOMAIN ready : ready[i].op \in Ops
      BY Types
    <2>2. \A i \in DOMAIN ready : ready[i].w = w => pc[w] \in {Stage(ready[i].op), "dead"}
      BY DEF ReadyInv
    <2>3. pc[w] = "out"
      BY DEF Ask, Goto
    <2>4. QED
      BY <2>1, <2>2, <2>3, Stages
  <1>5. \A i \in DOMAIN ready' : i \in DOMAIN ready \/ i = Len(ready) + 1
    BY <1>1, <1>2
  <1>6. Stage("acquire_devices") = "asking" /\ "acquire_devices" \notin ChildOps
    BY DEF Stage, ChildOps
  <1>7. pc \in [Workers -> PC] /\ pc' = [pc EXCEPT ![w] = "asking"]
    BY DEF TypeOK, Ask, Goto
  <1>8. TypeOK'
    BY <1>2 DEF TypeOK, Ask, Goto, PC, lockVars, CallbackType
  <1>9. ReadyInv'
    <2>1. /\ \A i \in DOMAIN ready :
               /\ pc'[ready[i].w] \in {Stage(ready[i].op), "dead"}
               /\ ready[i].op \in ChildOps => ready[i].d \in children'[ready[i].w]
          /\ pc'[w] = "asking"
      BY <1>4, <1>7 DEF ReadyInv, TypeOK, Ask
    <2>2. \A i \in DOMAIN ready' :
            /\ pc'[ready'[i].w] \in {Stage(ready'[i].op), "dead"}
            /\ ready'[i].op \in ChildOps => ready'[i].d \in children'[ready'[i].w]
      BY <1>2, <1>3, <1>5, <1>6, <2>1
    <2>3. \A i, j \in DOMAIN ready' :
            i # j /\ ready'[i].w = ready'[j].w => i \in DOMAIN ready /\ j \in DOMAIN ready
      BY <1>2, <1>3, <1>4, <1>5
    <2>4. QED
      BY <1>2, <2>2, <2>3 DEF ReadyInv
  <1>10. WokenInv' /\ AsleepInv' /\ WaitOnceInv'
    <2>1. waiters' = waiters /\ locked' = locked /\ children' = children
      BY DEF Ask, lockVars
    <2>2. ASSUME NEW d \in Devices, NEW k \in DOMAIN waiters[d], ~waiters[d][k].done
          PROVE  /\ pc'[waiters[d][k].w] \in {"gathering", "dead"}
                 /\ d \in children'[waiters[d][k].w]
                 /\ \A i \in DOMAIN ready' :
                      ready'[i].w = waiters[d][k].w =>
                        ready'[i].op \in ChildOps /\ ready'[i].d # d
      <3>1. pc[waiters[d][k].w] \in {"gathering", "dead"}
        BY <2>2 DEF AsleepInv
      <3>2. waiters[d][k].w # w
        BY <3>1 DEF Ask, Goto
      <3>3. QED
        BY <1>2, <1>3, <1>5, <1>7, <2>1, <2>2, <3>1, <3>2 DEF AsleepInv
    <2>3. AsleepInv'
      BY <2>1, <2>2 DEF AsleepInv
    <2>4. WokenInv'
      BY <1>2, <2>1 DEF WokenInv
    <2>5. QED
      BY <2>1, <2>3, <2>4 DEF WaitOnceInv
  <1>11. ResumeInv' /\ NothingRaised'
    BY <1>2, <1>3, <1>5 DEF ResumeInv, Ask, lockVars, NothingRaised
  <1>12. OwnerInv'
    BY <1>2, <1>3, <1>5, <1>7 DEF OwnerInv, Ask, lockVars, TypeOK
  <1>13. \A v \in Workers : pc'[v] # "failed"
    BY <1>7
  <1>14. QED
    BY <1>8, <1>9, <1>10, <1>11, <1>12, <1>13

LEMMA LeaveInv ==
  ASSUME IInv, NEW w \in Workers, Leave(w)
  PROVE  IInv'
  <1> USE DEF IInv
  <1> DEFINE c == Callback("release_devices", w, None)
  <1>1. c \in CallbackType /\ ready \in Seq(CallbackType)
    BY DEF Callback, CallbackType, Ops, TypeOK
  <1>2. /\ ready' \in Seq(CallbackType)
        /\ DOMAIN ready' = 1..(Len(ready) + 1) /\ DOMAIN ready = 1..Len(ready)
        /\ \A i \in DOMAIN ready : ready'[i] = ready[i]
        /\ ready'[Len(ready) + 1] = c
    BY <1>1, AppendToSeq DEF Leave
  <1>3. c.w = w /\ c.op = "release_devices"
    BY DEF Callback
  <1> HIDE DEF c
  <1>4. \A i \in DOMAIN ready : ready[i].w # w
    <2>1. \A i \in DOMAIN ready : ready[i].op \in Ops
      BY Types
    <2>2. \A i \in DOMAIN ready : ready[i].w = w => pc[w] \in {Stage(ready[i].op), "dead"}
      BY DEF ReadyInv
    <2>3. pc[w] = "holding"
      BY DEF Leave, Goto
    <2>4. QED
      BY <2>1, <2>2, <2>3, Stages
  <1>5. \A i \in DOMAIN ready' : i \in DOMAIN ready \/ i = Len(ready) + 1
    BY <1>1, <1>2
  <1>6. Stage("release_devices") = "leaving" /\ "release_devices" \notin ChildOps
    BY DEF Stage, ChildOps
  <1>7. pc \in [Workers -> PC] /\ pc' = [pc EXCEPT ![w] = "leaving"]
    BY DEF TypeOK, Leave, Goto
  <1>8. TypeOK'
    <2>1. arrival' \in Seq(Workers)
      <3>1. PICK i \in DOMAIN arrival : arrival' = RemoveAt(arrival, i)
        BY DEF Leave
      <3>2. arrival \in Seq(Workers) /\ i \in 1..Len(arrival)
        BY DEF TypeOK
      <3>3. QED
        BY <3>1, <3>2, RemoveAtSeq
    <2>2. QED
      BY <1>2, <2>1 DEF TypeOK, Leave, Goto, PC, lockVars, CallbackType
  <1>9. ReadyInv'
    <2>1. /\ \A i \in DOMAIN ready :
               /\ pc'[ready[i].w] \in {Stage(ready[i].op), "dead"}
               /\ ready[i].op \in ChildOps => ready[i].d \in children'[ready[i].w]
          /\ pc'[w] = "leaving"
      BY <1>4, <1>7 DEF ReadyInv, TypeOK, Leave
    <2>2. \A i \in DOMAIN ready' :
            /\ pc'[ready'[i].w] \in {Stage(ready'[i].op), "dead"}
            /\ ready'[i].op \in ChildOps => ready'[i].d \in children'[ready'[i].w]
      BY <1>2, <1>3, <1>5, <1>6, <2>1
    <2>3. \A i, j \in DOMAIN ready' :
            i # j /\ ready'[i].w = ready'[j].w => i \in DOMAIN ready /\ j \in DOMAIN ready
      BY <1>2, <1>3, <1>4, <1>5
    <2>4. QED
      BY <1>2, <2>2, <2>3 DEF ReadyInv
  <1>10. WokenInv' /\ AsleepInv' /\ WaitOnceInv'
    <2>1. waiters' = waiters /\ locked' = locked /\ children' = children
      BY DEF Leave, lockVars
    <2>2. ASSUME NEW d \in Devices, NEW k \in DOMAIN waiters[d], ~waiters[d][k].done
          PROVE  /\ pc'[waiters[d][k].w] \in {"gathering", "dead"}
                 /\ d \in children'[waiters[d][k].w]
                 /\ \A i \in DOMAIN ready' :
                      ready'[i].w = waiters[d][k].w =>
                        ready'[i].op \in ChildOps /\ ready'[i].d # d
      <3>1. pc[waiters[d][k].w] \in {"gathering", "dead"}
        BY <2>2 DEF AsleepInv
      <3>2. waiters[d][k].w # w
        BY <3>1 DEF Leave, Goto
      <3>3. QED
        BY <1>2, <1>3, <1>5, <1>7, <2>1, <2>2, <3>1, <3>2 DEF AsleepInv
    <2>3. AsleepInv'
      BY <2>1, <2>2 DEF AsleepInv
    <2>4. WokenInv'
      BY <1>2, <2>1 DEF WokenInv
    <2>5. QED
      BY <2>1, <2>3, <2>4 DEF WaitOnceInv
  <1>11. ResumeInv' /\ NothingRaised'
    BY <1>2, <1>3, <1>5 DEF ResumeInv, Leave, lockVars, NothingRaised
  <1>12. OwnerInv'
    <2>1. \A d \in DevicesOf(w) : owner[d] = w
      BY DEF OwnerInv, Leave, Goto
    <2>2. QED
      BY <1>2, <1>3, <1>5, <1>7, <2>1 DEF OwnerInv, Leave, lockVars, TypeOK
  <1>13. \A v \in Workers : pc'[v] # "failed"
    BY <1>7
  <1>14. QED
    BY <1>8, <1>9, <1>10, <1>11, <1>12, <1>13

-----------------------------------------------------------------------------
(* Steps of the event loop.                                                 *)

LEMMA AcquireDevicesInv ==
  ASSUME IInv, NEW w \in Workers, AcquireDevices(w)
  PROVE  IInv'
  <1> USE DEF IInv
  <1> DEFINE t == Tail(ready)
             g == Gather("acquire", w)
  <1>1. /\ ready \in Seq(CallbackType) /\ ready # <<>>
        /\ 1 \in DOMAIN ready
        /\ ready[1] = [op |-> "acquire_devices", w |-> w, d |-> None]
        /\ pc[w] \in {Stage("acquire_devices"), "dead"}
        /\ t \in Seq(CallbackType) /\ Len(t) \in Nat
        /\ DOMAIN t = 1..Len(t)
        /\ \A i \in DOMAIN t :
             /\ i + 1 \in DOMAIN ready /\ t[i] = ready[i + 1]
             /\ t[i].w # w
    <2>1. Due("acquire_devices", w, None) /\ "acquire_devices" \in Ops
      BY DEF AcquireDevices, Ops
    <2>2. "acquire_devices" \notin ChildOps
      BY DEF ChildOps
    <2>3. QED
      BY <2>1, <2>2, DueFacts
  <1>2. /\ g \in Seq(CallbackType) /\ Len(g) \in Nat
        /\ DOMAIN g = 1..Len(g)
        /\ \A i \in DOMAIN g : /\ g[i].op = "acquire" /\ g[i].w = w
                               /\ g[i].d \in DevicesOf(w) /\ g[i].d \in Devices
        /\ \A i, j \in DOMAIN g : g[i].d = g[j].d => i = j
    <2>1. "acquire" \in Ops
      BY DEF Ops
    <2> HIDE DEF g
    <2>2. g \in Seq(CallbackType)
      BY <2>1, GatherTasks DEF g
    <2>3. QED
      BY <2>1, <2>2, GatherTasks DEF g
  <1>3. ready' = t \o g
    BY DEF AcquireDevices
  <1> HIDE DEF t, g
  <1>4. /\ ready' \in Seq(CallbackType)
        /\ DOMAIN ready' = 1..(Len(t) + Len(g))
        /\ \A i \in DOMAIN ready' :
             IF i <= Len(t)
             THEN i \in DOMAIN t /\ ready'[i] = t[i]
             ELSE i - Len(t) \in DOMAIN g /\ ready'[i] = g[i - Len(t)]
    BY <1>1, <1>2, <1>3, ConcatSeq
  (* An entry is either an older one, of another worker, or a new child.    *)
  <1>5. \A i \in DOMAIN ready' :
          ready'[i].w # w =>
            \E k \in DOMAIN ready : k = i + 1 /\ ready'[i] = ready[k]
    BY <1>1, <1>2, <1>4
  <1>6. \A i \in DOMAIN ready' :
          ready'[i].w = w => /\ ready'[i].op = "acquire"
                             /\ ready'[i].d \in DevicesOf(w)
    BY <1>1, <1>2, <1>4
  <1>7. /\ pc \in [Workers -> PC] /\ children \in [Workers -> SUBSET Devices]
        /\ pc' = [pc EXCEPT ![w] = IF @ = "dead" THEN @ ELSE "gathering"]
        /\ children' = [children EXCEPT ![w] = DevicesOf(w)]
    BY DEF AcquireDevices, Await, TypeOK
  <1>8. locked' = locked /\ owner' = owner /\ waiters' = waiters /\ raised' = raised
    BY DEF AcquireDevices, lockVars
  <1>9. "acquire" \in ChildOps /\ Stage("acquire") = "gathering" /\ Stage("acquire_devices") = "asking"
    BY DEF ChildOps, Stage
  <1>10. TypeOK'
    BY <1>4, <1>7, <1>8, DevicesOfWorker
       DEF TypeOK, AcquireDevices, PC, CallbackType, DevicesOfSubset
  <1>11. ReadyInv'
    <2>1. ASSUME NEW i \in DOMAIN ready'
          PROVE  /\ pc'[ready'[i].w] \in {Stage(ready'[i].op), "dead"}
                 /\ ready'[i].op \in ChildOps => ready'[i].d \in children'[ready'[i].w]
      <3>1. CASE ready'[i].w = w
        BY <1>6, <1>7, <1>9, <3>1
      <3>2. CASE ready'[i].w # w
        BY <1>5, <1>7, <3>2, Types DEF ReadyInv
      <3>3. QED
        BY <3>1, <3>2
    <2>2. ASSUME NEW i \in DOMAIN ready', NEW j \in DOMAIN ready',
                 i # j, ready'[i].w = ready'[j].w
          PROVE  ready'[i].op \in ChildOps /\ ready'[i].d # ready'[j].d
      <3>1. CASE ready'[i].w = w
        <4>1. ~(i <= Len(t)) /\ ~(j <= Len(t))
          BY <1>1, <1>4, <2>2, <3>1
        <4>2. /\ i - Len(t) \in DOMAIN g /\ ready'[i] = g[i - Len(t)]
              /\ j - Len(t) \in DOMAIN g /\ ready'[j] = g[j - Len(t)]
          BY <1>4, <4>1
        <4>3. i - Len(t) # j - Len(t)
          BY <1>1, <1>2, <1>4, <2>2
        <4>4. ready'[i].d # ready'[j].d
          BY <1>2, <4>2, <4>3
        <4>5. QED
          BY <1>6, <1>9, <3>1, <4>4
      <3>2. CASE ready'[i].w # w
        <4>1. PICK k \in DOMAIN ready : k = i + 1 /\ ready'[i] = ready[k]
          BY <1>5, <3>2
        <4>2. PICK l \in DOMAIN ready : l = j + 1 /\ ready'[j] = ready[l]
          BY <1>5, <2>2, <3>2
        <4>3. k # l
          BY <1>1, <1>2, <1>4, <2>2, <4>1, <4>2
        <4>4. QED
          BY <2>2, <4>1, <4>2, <4>3 DEF ReadyInv
      <3>3. QED
        BY <3>1, <3>2
    <2>3. QED
      BY <2>1, <2>2 DEF ReadyInv
  <1>12. WokenInv' /\ AsleepInv' /\ WaitOnceInv'
    <2>1. ASSUME NEW d \in Devices, NEW k \in DOMAIN waiters[d], ~waiters[d][k].done
          PROVE  /\ pc'[waiters[d][k].w] \in {"gathering", "dead"}
                 /\ d \in children'[waiters[d][k].w]
                 /\ \A i \in DOMAIN ready' :
                      ready'[i].w = waiters[d][k].w =>
                        ready'[i].op \in ChildOps /\ ready'[i].d # d
      <3>1. waiters[d][k].w # w /\ waiters[d][k].w \in Workers
        <4>1. ready[1].w = w /\ ready[1].op \notin ChildOps
          BY <1>1 DEF ChildOps
        <4>2. QED
          BY <1>1, <2>1, <4>1, Types DEF AsleepInv
      <3>2. /\ pc[waiters[d][k].w] \in {"gathering", "dead"}
            /\ d \in children[waiters[d][k].w]
            /\ \A i \in DOMAIN ready :
                 ready[i].w = waiters[d][k].w => ready[i].op \in ChildOps /\ ready[i].d # d
        BY <2>1 DEF AsleepInv
      <3>3. /\ pc'[waiters[d][k].w] = pc[waiters[d][k].w]
            /\ children'[waiters[d][k].w] = children[waiters[d][k].w]
        BY <1>7, <3>1
      <3>4. \A i \in DOMAIN ready' :
              ready'[i].w = waiters[d][k].w =>
                ready'[i].op \in ChildOps /\ ready'[i].d # d
        BY <1>5, <3>1, <3>2
      <3>5. QED
        BY <3>2, <3>3, <3>4
    <2>2. AsleepInv'
      <3>1. waiters' = waiters
        BY <1>8
      <3>2. QED
        BY <2>1, <3>1 DEF AsleepInv
    <2>3. ASSUME NEW i \in DOMAIN ready, i # 1
          PROVE  i - 1 \in DOMAIN ready' /\ ready'[i - 1] = ready[i]
      <3>1. DOMAIN ready = 1..(Len(t) + 1)
        BY <1>1, TailOfSeq DEF t
      <3>2. i - 1 \in 1..Len(t) /\ (i - 1) + 1 = i
        BY <1>1, <2>3, <3>1
      <3>3. i - 1 \in DOMAIN ready' /\ i - 1 <= Len(t)
        BY <1>1, <1>2, <1>4, <3>2
      <3>4. QED
        BY <1>1, <1>4, <3>2, <3>3
    <2>4. ready[1].op # "resume"
      BY <1>1
    <2>5. WokenInv'
      BY <1>8, <2>3, <2>4 DEF WokenInv, Callback
    <2>6. QED
      BY <1>8, <2>2, <2>5 DEF WaitOnceInv
  <1>13. ResumeInv' /\ NothingRaised'
    <2>1. ASSUME NEW i \in DOMAIN ready', ready'[i].op = "resume"
          PROVE  \E k \in DOMAIN ready : ready'[i] = ready[k]
      BY <1>5, <1>6, <2>1
    <2>2. QED
      BY <1>8, <2>1 DEF ResumeInv, NothingRaised
  <1>14. OwnerInv'
    <2>1. \A i \in DOMAIN ready' : ready'[i].w = w => ready'[i].op = "acquire"
      BY <1>5, <1>6
    <2>2. pc'[w] \in {"gathering", "dead"}
      BY <1>7
    <2>3. \A v \in Workers : v # w => pc'[v] = pc[v] /\ children'[v] = children[v]
      BY <1>7
    <2>4. ASSUME NEW i \in DOMAIN ready'
          PROVE  /\ ready'[i].op = "release_devices" =>
                      \A d \in DevicesOf(ready'[i].w) : owner[d] = ready'[i].w
                 /\ ready'[i].op = "release" => owner[ready'[i].d] = ready'[i].w
      <3>1. CASE ready'[i].w = w
        BY <2>1, <3>1
      <3>2. CASE ready'[i].w # w
        BY <1>5, <1>6, <3>2 DEF OwnerInv
      <3>3. QED
        BY <3>1, <3>2
    <2>5. \A v \in Workers :
            /\ children'[v] \subseteq DevicesOf(v)
            /\ pc'[v] \in {"holding", "leaving"} =>
                 \A d \in DevicesOf(v) : owner[d] = v
            /\ pc'[v] = "gathering" =>
                 \A d \in DevicesOf(v) \ children'[v] : owner[d] = v
      BY <1>7, <2>2, <2>3 DEF OwnerInv
    <2>6. QED
      BY <1>8, <2>4, <2>5 DEF OwnerInv
  <1>15. \A v \in Workers : pc'[v] # "failed"
    BY <1>7
  <1>16. QED
    BY <1>10, <1>11, <1>12, <1>13, <1>14, <1>15

LEMMA ReleaseDevicesInv ==
  ASSUME IInv, NEW w \in Workers, ReleaseDevices(w)
  PROVE  IInv'
  <1> USE DEF IInv
  <1> DEFINE t == Tail(ready)
             g == Gather("release", w)
  <1>1. /\ ready \in Seq(CallbackType) /\ ready # <<>>
        /\ 1 \in DOMAIN ready
        /\ ready[1] = [op |-> "release_devices", w |-> w, d |-> None]
        /\ pc[w] \in {Stage("release_devices"), "dead"}
        /\ t \in Seq(CallbackType) /\ Len(t) \in Nat
        /\ DOMAIN t = 1..Len(t)
        /\ \A i \in DOMAIN t :
             /\ i + 1 \in DOMAIN ready /\ t[i] = ready[i + 1]
             /\ t[i].w # w
    <2>1. Due("release_devices", w, None) /\ "release_devices" \in Ops
      BY DEF ReleaseDevices, Ops
    <2>2. "release_devices" \notin ChildOps
      BY DEF ChildOps
    <2>3. QED
      BY <2>1, <2>2, DueFacts
  <1>2. /\ g \in Seq(CallbackType) /\ Len(g) \in Nat
        /\ DOMAIN g = 1..Len(g)
        /\ \A i \in DOMAIN g : /\ g[i].op = "release" /\ g[i].w = w
                               /\ g[i].d \in DevicesOf(w) /\ g[i].d \in Devices
        /\ \A i, j \in DOMAIN g : g[i].d = g[j].d => i = j
    <2>1. "release" \in Ops
      BY DEF Ops
    <2> HIDE DEF g
    <2>2. g \in Seq(CallbackType)
      BY <2>1, GatherTasks DEF g
    <2>3. QED
      BY <2>1, <2>2, GatherTasks DEF g
  <1>3. ready' = t \o g
    BY DEF ReleaseDevices
  <1> HIDE DEF t, g
  <1>4. /\ ready' \in Seq(CallbackType)
        /\ DOMAIN ready' = 1..(Len(t) + Len(g))
        /\ \A i \in DOMAIN ready' :
             IF i <= Len(t)
             THEN i \in DOMAIN t /\ ready'[i] = t[i]
             ELSE i - Len(t) \in DOMAIN g /\ ready'[i] = g[i - Len(t)]
    BY <1>1, <1>2, <1>3, ConcatSeq
  (* An entry is either an older one, of another worker, or a new child.    *)
  <1>5. \A i \in DOMAIN ready' :
          ready'[i].w # w =>
            \E k \in DOMAIN ready : k = i + 1 /\ ready'[i] = ready[k]
    BY <1>1, <1>2, <1>4
  <1>6. \A i \in DOMAIN ready' :
          ready'[i].w = w => /\ ready'[i].op = "release"
                             /\ ready'[i].d \in DevicesOf(w)
    BY <1>1, <1>2, <1>4
  <1>7. /\ pc \in [Workers -> PC] /\ children \in [Workers -> SUBSET Devices]
        /\ pc' = [pc EXCEPT ![w] = IF @ = "dead" THEN @ ELSE "freeing"]
        /\ children' = [children EXCEPT ![w] = DevicesOf(w)]
    BY DEF ReleaseDevices, Await, TypeOK
  <1>8. locked' = locked /\ owner' = owner /\ waiters' = waiters /\ raised' = raised
    BY DEF ReleaseDevices, lockVars
  <1>9. "release" \in ChildOps /\ Stage("release") = "freeing" /\ Stage("release_devices") = "leaving"
    BY DEF ChildOps, Stage
  <1>10. TypeOK'
    BY <1>4, <1>7, <1>8, DevicesOfWorker
       DEF TypeOK, ReleaseDevices, PC, CallbackType, DevicesOfSubset
  <1>11. ReadyInv'
    <2>1. ASSUME NEW i \in DOMAIN ready'
          PROVE  /\ pc'[ready'[i].w] \in {Stage(ready'[i].op), "dead"}
                 /\ ready'[i].op \in ChildOps => ready'[i].d \in children'[ready'[i].w]
      <3>1. CASE ready'[i].w = w
        BY <1>6, <1>7, <1>9, <3>1
      <3>2. CASE ready'[i].w # w
        BY <1>5, <1>7, <3>2, Types DEF ReadyInv
      <3>3. QED
        BY <3>1, <3>2
    <2>2. ASSUME NEW i \in DOMAIN ready', NEW j \in DOMAIN ready',
                 i # j, ready'[i].w = ready'[j].w
          PROVE  ready'[i].op \in ChildOps /\ ready'[i].d # ready'[j].d
      <3>1. CASE ready'[i].w = w
        <4>1. ~(i <= Len(t)) /\ ~(j <= Len(t))
          BY <1>1, <1>4, <2>2, <3>1
        <4>2. /\ i - Len(t) \in DOMAIN g /\ ready'[i] = g[i - Len(t)]
              /\ j - Len(t) \in DOMAIN g /\ ready'[j] = g[j - Len(t)]
          BY <1>4, <4>1
        <4>3. i - Len(t) # j - Len(t)
          BY <1>1, <1>2, <1>4, <2>2
        <4>4. ready'[i].d # ready'[j].d
          BY <1>2, <4>2, <4>3
        <4>5. QED
          BY <1>6, <1>9, <3>1, <4>4
      <3>2. CASE ready'[i].w # w
        <4>1. PICK k \in DOMAIN ready : k = i + 1 /\ ready'[i] = ready[k]
          BY <1>5, <3>2
        <4>2. PICK l \in DOMAIN ready : l = j + 1 /\ ready'[j] = ready[l]
          BY <1>5, <2>2, <3>2
        <4>3. k # l
          BY <1>1, <1>2, <1>4, <2>2, <4>1, <4>2
        <4>4. QED
          BY <2>2, <4>1, <4>2, <4>3 DEF ReadyInv
      <3>3. QED
        BY <3>1, <3>2
    <2>3. QED
      BY <2>1, <2>2 DEF ReadyInv
  <1>12. WokenInv' /\ AsleepInv' /\ WaitOnceInv'
    <2>1. ASSUME NEW d \in Devices, NEW k \in DOMAIN waiters[d], ~waiters[d][k].done
          PROVE  /\ pc'[waiters[d][k].w] \in {"gathering", "dead"}
                 /\ d \in children'[waiters[d][k].w]
                 /\ \A i \in DOMAIN ready' :
                      ready'[i].w = waiters[d][k].w =>
                        ready'[i].op \in ChildOps /\ ready'[i].d # d
      <3>1. waiters[d][k].w # w /\ waiters[d][k].w \in Workers
        <4>1. ready[1].w = w /\ ready[1].op \notin ChildOps
          BY <1>1 DEF ChildOps
        <4>2. QED
          BY <1>1, <2>1, <4>1, Types DEF AsleepInv
      <3>2. /\ pc[waiters[d][k].w] \in {"gathering", "dead"}
            /\ d \in children[waiters[d][k].w]
            /\ \A i \in DOMAIN ready :
                 ready[i].w = waiters[d][k].w => ready[i].op \in ChildOps /\ ready[i].d # d
        BY <2>1 DEF AsleepInv
      <3>3. /\ pc'[waiters[d][k].w] = pc[waiters[d][k].w]
            /\ children'[waiters[d][k].w] = children[waiters[d][k].w]
        BY <1>7, <3>1
      <3>4. \A i \in DOMAIN ready' :
              ready'[i].w = waiters[d][k].w =>
                ready'[i].op \in ChildOps /\ ready'[i].d # d
        BY <1>5, <3>1, <3>2
      <3>5. QED
        BY <3>2, <3>3, <3>4
    <2>2. AsleepInv'
      <3>1. waiters' = waiters
        BY <1>8
      <3>2. QED
        BY <2>1, <3>1 DEF AsleepInv
    <2>3. ASSUME NEW i \in DOMAIN ready, i # 1
          PROVE  i - 1 \in DOMAIN ready' /\ ready'[i - 1] = ready[i]
      <3>1. DOMAIN ready = 1..(Len(t) + 1)
        BY <1>1, TailOfSeq DEF t
      <3>2. i - 1 \in 1..Len(t) /\ (i - 1) + 1 = i
        BY <1>1, <2>3, <3>1
      <3>3. i - 1 \in DOMAIN ready' /\ i - 1 <= Len(t)
        BY <1>1, <1>2, <1>4, <3>2
      <3>4. QED
        BY <1>1, <1>4, <3>2, <3>3
    <2>4. ready[1].op # "resume"
      BY <1>1
    <2>5. WokenInv'
      BY <1>8, <2>3, <2>4 DEF WokenInv, Callback
    <2>6. QED
      BY <1>8, <2>2, <2>5 DEF WaitOnceInv
  <1>13. ResumeInv' /\ NothingRaised'
    <2>1. ASSUME NEW i \in DOMAIN ready', ready'[i].op = "resume"
          PROVE  \E k \in DOMAIN ready : ready'[i] = ready[k]
      BY <1>5, <1>6, <2>1
    <2>2. QED
      BY <1>8, <2>1 DEF ResumeInv, NothingRaised
  <1>14. OwnerInv'
    <2>1. \A d \in DevicesOf(w) : owner[d] = w
      BY <1>1 DEF OwnerInv
    <2>2. pc'[w] \in {"freeing", "dead"}
      BY <1>7
    <2>3. \A v \in Workers : v # w => pc'[v] = pc[v] /\ children'[v] = children[v]
      BY <1>7
    <2>4. ASSUME NEW i \in DOMAIN ready'
          PROVE  /\ ready'[i].op = "release_devices" =>
                      \A d \in DevicesOf(ready'[i].w) : owner[d] = ready'[i].w
                 /\ ready'[i].op = "release" => owner[ready'[i].d] = ready'[i].w
      <3>1. CASE ready'[i].w = w
        BY <1>5, <1>6, <2>1, <3>1
      <3>2. CASE ready'[i].w # w
        BY <1>5, <1>6, <3>2 DEF OwnerInv
      <3>3. QED
        BY <3>1, <3>2
    <2>5. \A v \in Workers :
            /\ children'[v] \subseteq DevicesOf(v)
            /\ pc'[v] \in {"holding", "leaving"} =>
                 \A d \in DevicesOf(v) : owner[d] = v
            /\ pc'[v] = "gathering" =>
                 \A d \in DevicesOf(v) \ children'[v] : owner[d] = v
      BY <1>7, <2>2, <2>3 DEF OwnerInv
    <2>6. QED
      BY <1>8, <2>4, <2>5 DEF OwnerInv
  <1>15. \A v \in Workers : pc'[v] # "failed"
    BY <1>7
  <1>16. QED
    BY <1>10, <1>11, <1>12, <1>13, <1>14, <1>15

(* What is left in the FIFO, rest, once a child's callback has been taken.  *)
LEMMA Consumed ==
  ASSUME IInv, NEW op \in ChildOps, NEW w \in Workers, NEW d \in Devices,
         Due(op, w, d)
  PROVE  LET rest == Tail(ready) IN
         /\ ready[1].op = op /\ ready[1].w = w /\ ready[1].d = d
         /\ 1 \in DOMAIN ready
         /\ pc[w] \in {Stage(op), "dead"} /\ d \in children[w]
         /\ rest \in Seq(CallbackType)
         /\ DOMAIN rest = 1..Len(rest) /\ Len(rest) \in Nat
         /\ \A i \in DOMAIN rest :
              /\ i + 1 \in DOMAIN ready /\ rest[i] = ready[i + 1]
              /\ rest[i].w \in Workers
              /\ rest[i].w = w => rest[i].op \in ChildOps /\ rest[i].d # d
         /\ \A i \in DOMAIN ready : i # 1 =>
              i - 1 \in DOMAIN rest /\ rest[i - 1] = ready[i]
  <1> DEFINE rest == Tail(ready)
  <1>1. op \in Ops
    BY DEF Ops, ChildOps
  <1>2. /\ ready \in Seq(CallbackType) /\ ready # <<>>
        /\ 1 \in DOMAIN ready
        /\ ready[1] = [op |-> op, w |-> w, d |-> d]
        /\ pc[w] \in {Stage(op), "dead"} /\ d \in children[w]
        /\ rest \in Seq(CallbackType)
        /\ Len(rest) \in Nat
        /\ DOMAIN rest = 1..Len(rest)
        /\ \A i \in DOMAIN rest :
             /\ i + 1 \in DOMAIN ready /\ rest[i] = ready[i + 1]
             /\ ready[i + 1] \in CallbackType
             /\ ready[i + 1].w = w =>
                  ready[i + 1].op \in ChildOps /\ ready[i + 1].d # d
    BY <1>1, DueFacts
  <1>3. ready[1].op = op /\ ready[1].w = w /\ ready[1].d = d
    BY <1>2
  <1>4. \A c \in CallbackType : c.w \in Workers
    BY DEF CallbackType
  <1>5. Len(rest) = Len(ready) - 1 /\ DOMAIN ready = 1..Len(ready)
    BY <1>2, TailOfSeq
  <1>6. ASSUME NEW i \in DOMAIN ready, i # 1
        PROVE  i - 1 \in DOMAIN rest /\ rest[i - 1] = ready[i]
    <2>1. i \in 1..Len(ready) /\ Len(ready) \in Nat
      BY <1>2, <1>5
    <2>2. i - 1 \in 1..Len(rest) /\ (i - 1) + 1 = i
      BY <1>5, <1>6, <2>1
    <2>3. QED
      BY <1>2, <2>2
  <1> HIDE DEF rest
  <1>7. QED
    BY <1>2, <1>3, <1>4, <1>6 DEF rest

LEMMA AcquireInv ==
  ASSUME IInv, NEW w \in Workers, NEW d \in Devices, Acquire(w, d)
  PROVE  IInv'
  <1> USE DEF IInv
  <1>1. /\ ready[1].op = "acquire" /\ ready[1].w = w /\ ready[1].d = d
        /\ 1 \in DOMAIN ready
        /\ pc[w] \in {"gathering", "dead"} /\ d \in children[w]
        /\ ready' \in Seq(CallbackType)
        /\ DOMAIN ready' = 1..Len(ready') /\ Len(ready') \in Nat
        /\ \A i \in DOMAIN ready' :
             /\ i + 1 \in DOMAIN ready /\ ready'[i] = ready[i + 1]
             /\ ready'[i].w \in Workers
             /\ ready'[i].w = w => ready'[i].op \in ChildOps /\ ready'[i].d # d
        /\ \A i \in DOMAIN ready : i # 1 =>
             i - 1 \in DOMAIN ready' /\ ready'[i - 1] = ready[i]
    <2>1. Due("acquire", w, d)
      BY DEF Acquire
    <2>2. "acquire" \in ChildOps /\ Stage("acquire") = "gathering"
      BY DEF ChildOps, Stage
    <2>3. ready' = Tail(ready)
      BY DEF Acquire
    <2> HIDE DEF IInv
    <2>4. QED
      BY <2>1, <2>2, <2>3, Consumed
  <1>2. pc' = pc /\ raised' = raised /\ arrival' = arrival
    BY DEF Acquire
  <1>3. NothingRaised' /\ \A v \in Workers : pc'[v] # "failed"
    BY <1>2 DEF NothingRaised
  (* Nobody waits for w at d yet.                                           *)
  <1>4. \A k \in DOMAIN waiters[d] : waiters[d][k].w # w
    <2>1. ASSUME NEW k \in DOMAIN waiters[d], waiters[d][k].w = w, waiters[d][k].done
          PROVE  FALSE
      <3>1. PICK i \in DOMAIN ready : ready[i] = Callback("resume", w, d)
        BY <2>1 DEF WokenInv
      <3>2. ready[i].op = "resume" /\ ready[i].w = w /\ ready[i].d = d
        BY <3>1 DEF Callback
      <3>3. QED
        BY <1>1, <3>2 DEF ReadyInv
    <2>2. ASSUME NEW k \in DOMAIN waiters[d], waiters[d][k].w = w, ~waiters[d][k].done
          PROVE  FALSE
      BY <1>1, <2>2 DEF AsleepInv
    <2>3. QED
      BY <2>1, <2>2
  (* The woken waiters keep their resumptions.                              *)
  <1>5. \A v \in Workers, e \in Devices :
          (\E i \in DOMAIN ready : ready[i] = Callback("resume", v, e)) =>
            \E i \in DOMAIN ready' : ready'[i] = Callback("resume", v, e)
    <2>1. \A v \in Workers, e \in Devices : ready[1] # Callback("resume", v, e)
      BY <1>1 DEF Callback
    <2>2. QED
      BY <1>1, <2>1
  <1>6. CASE \/ owner[d] = w
             \/ owner[d] # w /\ FreeForAll(d)
    <2>1. /\ waiters' = waiters
          /\ children' = [children EXCEPT ![w] = @ \ {d}]
      BY <1>6 DEF Acquire, ChildReturns, lockVars
    <2>2. /\ locked' \in [Devices -> BOOLEAN]
          /\ owner' \in [Devices -> Workers \cup {None}]
          /\ locked'[d] /\ owner'[d] = w
          /\ \A e \in Devices : e # d => locked'[e] = locked[e] /\ owner'[e] = owner[e]
          /\ ~locked[d] => waiters[d] = <<>>
          /\ owner[d] \in {None, w}
      <3>1. CASE owner[d] = w
        <4>1. locked' = locked /\ owner' = owner
          BY <3>1 DEF Acquire, lockVars
        <4>2. locked[d]
          BY <3>1 DEF OwnerInv
        <4>3. QED
          BY <3>1, <4>1, <4>2 DEF TypeOK
      <3>2. CASE owner[d] # w /\ FreeForAll(d)
        <4>1. /\ locked' = [locked EXCEPT ![d] = TRUE]
              /\ owner' = [owner EXCEPT ![d] = w]
          BY <3>2 DEF Acquire, TakeLock
        <4>2. ~locked[d] /\ waiters[d] = <<>> /\ owner[d] = None
          BY <3>2 DEF FreeForAll, OwnerInv
        <4>3. QED
          BY <4>1, <4>2 DEF TypeOK
      <3>3. QED
        BY <1>6, <3>1, <3>2
    <2>3. /\ children' \in [Workers -> SUBSET Devices]
          /\ \A v \in Workers : v # w => children'[v] = children[v]
          /\ children'[w] = children[w] \ {d}
      BY <2>1 DEF TypeOK
    <2>4. TypeOK'
      BY <1>1, <1>2, <2>1, <2>2, <2>3 DEF TypeOK, CallbackType
    <2>5. ReadyInv'
      <3>1. \A i \in DOMAIN ready' :
              /\ pc'[ready'[i].w] \in {Stage(ready'[i].op), "dead"}
              /\ ready'[i].op \in ChildOps => ready'[i].d \in children'[ready'[i].w]
        BY <1>1, <1>2, <2>3 DEF ReadyInv
      <3>2. \A i, j \in DOMAIN ready' :
              i # j /\ ready'[i].w = ready'[j].w =>
                ready'[i].op \in ChildOps /\ ready'[i].d # ready'[j].d
        BY <1>1 DEF ReadyInv
      <3>3. QED
        BY <3>1, <3>2 DEF ReadyInv
    <2>6. WokenInv'
      <3>1. ASSUME NEW e \in Devices, NEW k \in DOMAIN waiters[e], waiters[e][k].done
            PROVE  /\ k = 1 /\ ~locked'[e]
                   /\ \E i \in DOMAIN ready' :
                        ready'[i] = Callback("resume", waiters[e][k].w, e)
        <4>1. e # d
          BY <2>2, <3>1 DEF WokenInv
        <4>2. waiters[e][k].w \in Workers
          BY Types
        <4>3. QED
          BY <1>5, <2>2, <3>1, <4>1, <4>2 DEF WokenInv
      <3>2. QED
        BY <2>1, <3>1 DEF WokenInv
    <2>7. AsleepInv'
      <3>1. ASSUME NEW e \in Devices, NEW k \in DOMAIN waiters[e], ~waiters[e][k].done
            PROVE  /\ pc[waiters[e][k].w] \in {"gathering", "dead"}
                   /\ e \in children'[waiters[e][k].w]
                   /\ \A i \in DOMAIN ready' :
                        ready'[i].w = waiters[e][k].w =>
                          ready'[i].op \in ChildOps /\ ready'[i].d # e
        <4>1. waiters[e][k].w \in Workers /\ (e = d => waiters[e][k].w # w)
          BY <1>4, Types
        <4>2. QED
          BY <1>1, <2>3, <3>1, <4>1 DEF AsleepInv
      <3>2. QED
        BY <1>2, <2>1, <3>1 DEF AsleepInv
    <2>8. WaitOnceInv' /\ ResumeInv'
      BY <1>1, <2>1 DEF WaitOnceInv, ResumeInv
    <2>9. OwnerInv'
      <3>1. \A e \in Devices : locked'[e] <=> owner'[e] # None
        BY <2>2 DEF OwnerInv
      <3>2. ASSUME NEW v \in Workers
            PROVE  /\ children'[v] \subseteq DevicesOf(v)
                   /\ pc'[v] \in {"holding", "leaving"} =>
                        \A e \in DevicesOf(v) : owner'[e] = v
                   /\ pc'[v] = "gathering" =>
                        \A e \in DevicesOf(v) \ children'[v] : owner'[e] = v
        <4>1. DevicesOf(v) \subseteq Devices
          BY DevicesOfWorker DEF DevicesOfSubset
        <4>2. \A e \in Devices : owner[e] = v => owner'[e] = v
          BY <2>2
        <4>3. QED
          BY <1>2, <2>2, <2>3, <4>1, <4>2 DEF OwnerInv
      <3>3. ASSUME NEW i \in DOMAIN ready'
            PROVE  /\ ready'[i].op = "release_devices" =>
                        \A e \in DevicesOf(ready'[i].w) : owner'[e] = ready'[i].w
                   /\ ready'[i].op = "release" => owner'[ready'[i].d] = ready'[i].w
        <4>1. /\ ready'[i] = ready[i + 1] /\ i + 1 \in DOMAIN ready
              /\ ready'[i].w \in Workers
          BY <1>1
        <4>2. ready'[i].op = "release" => ready'[i].d \in Devices
          <5>1. ready'[i].op = "release" => ready'[i].op \in ChildOps
            BY DEF ChildOps
          <5>2. QED
            BY <4>1, <5>1 DEF ReadyInv, TypeOK
        <4>3. DevicesOf(ready'[i].w) \subseteq Devices
          BY <4>1, DevicesOfWorker DEF DevicesOfSubset
        <4>4. \A e \in Devices : owner[e] = ready'[i].w => owner'[e] = ready'[i].w
          BY <2>2, <4>1
        <4>5. QED
          BY <4>1, <4>2, <4>3, <4>4 DEF OwnerInv
      <3>4. QED
        BY <3>1, <3>2, <3>3 DEF OwnerInv
    <2>10. QED
      BY <1>3, <2>4, <2>5, <2>6, <2>7, <2>8, <2>9
  <1>7. CASE owner[d] # w /\ ~FreeForAll(d)
    <2> DEFINE f == [w |-> w, done |-> FALSE]
               q == waiters[d]
    <2>1. f \in WaiterType /\ f.w = w /\ ~f.done
      BY DEF WaiterType
    <2>2. /\ waiters' = [waiters EXCEPT ![d] = Append(@, f)]
          /\ locked' = locked /\ owner' = owner /\ children' = children
      BY <1>7 DEF Acquire
    <2>3. q \in Seq(WaiterType) /\ DOMAIN q = 1..Len(q) /\ Len(q) \in Nat
      BY Types
    <2>4. waiters'[d] = Append(q, f) /\ \A e \in Devices : e # d => waiters'[e] = waiters[e]
      BY <2>2 DEF TypeOK
    <2> HIDE DEF f, q
    <2>5. /\ waiters'[d] \in Seq(WaiterType)
          /\ DOMAIN waiters'[d] = 1..(Len(q) + 1)
          /\ \A k \in DOMAIN q : waiters'[d][k] = q[k]
          /\ waiters'[d][Len(q) + 1] = f
      BY <2>1, <2>3, <2>4, AppendToSeq
    (* A waiter is either an older one, or w's new one at the end.          *)
    <2>6. \A e \in Devices : \A k \in DOMAIN waiters'[e] :
            \/ k \in DOMAIN waiters[e] /\ waiters'[e][k] = waiters[e][k]
            \/ e = d /\ k = Len(q) + 1 /\ waiters'[e][k] = f
      BY <2>3, <2>4, <2>5 DEF q
    <2>7. waiters[d] # <<>> => waiters'[d] # <<>> /\ waiters'[d][1] = waiters[d][1]
      BY <2>3, <2>5 DEF q
    <2>8. TypeOK'
      <3>1. waiters' \in [Devices -> Seq(WaiterType)]
        BY <2>2, <2>4, <2>5, Types DEF TypeOK, WaiterType
      <3>2. QED
        BY <1>1, <1>2, <2>2, <3>1 DEF TypeOK, CallbackType, WaiterType
    <2>9. ReadyInv'
      BY <1>1, <1>2, <2>2 DEF ReadyInv
    <2>10. WokenInv'
      <3>1. ASSUME NEW e \in Devices, NEW k \in DOMAIN waiters'[e], waiters'[e][k].done
            PROVE  /\ k = 1 /\ ~locked'[e]
                   /\ \E i \in DOMAIN ready' :
                        ready'[i] = Callback("resume", waiters'[e][k].w, e)
        <4>1. k \in DOMAIN waiters[e] /\ waiters'[e][k] = waiters[e][k]
          BY <2>1, <2>6, <3>1
        <4>2. waiters[e][k].w \in Workers
          BY <4>1, Types
        <4>3. QED
          BY <1>5, <2>2, <3>1, <4>1, <4>2 DEF WokenInv
      <3>2. QED
        BY <3>1 DEF WokenInv
    <2>11. AsleepInv'
      <3>1. ASSUME NEW e \in Devices, NEW k \in DOMAIN waiters'[e], ~waiters'[e][k].done
            PROVE  /\ pc[waiters'[e][k].w] \in {"gathering", "dead"}
                   /\ e \in children[waiters'[e][k].w]
                   /\ \A i \in DOMAIN ready' :
                        ready'[i].w = waiters'[e][k].w =>
                          ready'[i].op \in ChildOps /\ ready'[i].d # e
        <4>1. CASE k \in DOMAIN waiters[e] /\ waiters'[e][k] = waiters[e][k]
          BY <1>1, <3>1, <4>1 DEF AsleepInv
        <4>2. CASE e = d /\ waiters'[e][k] = f
          BY <1>1, <2>1, <4>2
        <4>3. QED
          BY <2>6, <4>1, <4>2
      <3>2. QED
        BY <1>2, <2>2, <3>1 DEF AsleepInv
    <2>12. WaitOnceInv'
      <3>1. ASSUME NEW e \in Devices, NEW k \in DOMAIN waiters'[e], NEW l \in DOMAIN waiters'[e],
                   waiters'[e][k].w = waiters'[e][l].w
            PROVE  k = l
        BY <1>4, <2>1, <2>6, <3>1 DEF WaitOnceInv
      <3>2. QED
        BY <3>1 DEF WaitOnceInv
    <2>13. ResumeInv'
      <3>1. ASSUME NEW i \in DOMAIN ready', ready'[i].op = "resume"
            PROVE  /\ waiters'[ready'[i].d] # <<>>
                   /\ waiters'[ready'[i].d][1] = [w |-> ready'[i].w, done |-> TRUE]
        <4>1. ready'[i] = ready[i + 1] /\ i + 1 \in DOMAIN ready
          BY <1>1
        <4>2. ready'[i].d \in Devices
          <5>1. ready'[i].op \in ChildOps /\ ready'[i].w \in Workers
            BY <1>1, <3>1 DEF ChildOps
          <5>2. QED
            BY <4>1, <5>1 DEF ReadyInv, TypeOK
        <4>3. /\ waiters[ready'[i].d] # <<>>
              /\ waiters[ready'[i].d][1] = [w |-> ready'[i].w, done |-> TRUE]
          BY <3>1, <4>1 DEF ResumeInv
        <4>4. QED
          BY <2>4, <2>7, <4>2, <4>3
      <3>2. QED
        BY <3>1 DEF ResumeInv
    <2>14. OwnerInv'
      BY <1>1, <1>2, <2>2 DEF OwnerInv
    <2>15. QED
      BY <1>3, <2>8, <2>9, <2>10, <2>11, <2>12, <2>13, <2>14
  <1>8. QED
    BY <1>6, <1>7

LEMMA ResumeStepInv ==
  ASSUME IInv, NEW w \in Workers, NEW d \in Devices, Resume(w, d)
  PROVE  IInv'
  <1> USE DEF IInv
  <1>1. /\ ready[1].op = "resume" /\ ready[1].w = w /\ ready[1].d = d
        /\ 1 \in DOMAIN ready
        /\ pc[w] \in {"gathering", "dead"} /\ d \in children[w]
        /\ ready' \in Seq(CallbackType)
        /\ DOMAIN ready' = 1..Len(ready') /\ Len(ready') \in Nat
        /\ \A i \in DOMAIN ready' :
             /\ i + 1 \in DOMAIN ready /\ ready'[i] = ready[i + 1]
             /\ ready'[i].w \in Workers
             /\ ready'[i].w = w => ready'[i].op \in ChildOps /\ ready'[i].d # d
        /\ \A i \in DOMAIN ready : i # 1 =>
             i - 1 \in DOMAIN ready' /\ ready'[i - 1] = ready[i]
    <2>1. Due("resume", w, d)
      BY DEF Resume
    <2>2. "resume" \in ChildOps /\ Stage("resume") = "gathering"
      BY DEF ChildOps, Stage
    <2>3. ready' = Tail(ready)
      BY DEF Resume
    <2> HIDE DEF IInv
    <2>4. QED
      BY <2>1, <2>2, <2>3, Consumed
  <1> DEFINE q == waiters[d]
  <1>2. q \in Seq(WaiterType) /\ DOMAIN q = 1..Len(q) /\ Len(q) \in Nat
    BY Types
  (* It is the first waiter that resumes, and the lock is free.             *)
  <1>3. /\ q # <<>> /\ q[1] = [w |-> w, done |-> TRUE] /\ 1 \in DOMAIN q
        /\ q[1].w = w /\ q[1].done
        /\ ~locked[d] /\ owner[d] = None
    <2>1. q # <<>> /\ q[1] = [w |-> w, done |-> TRUE]
      BY <1>1 DEF ResumeInv
    <2>2. 1 \in DOMAIN q /\ q[1].w = w /\ q[1].done
      BY <1>2, <2>1
    <2>3. QED
      BY <2>1, <2>2 DEF WokenInv, OwnerInv
  <1>4. /\ waiters' = [waiters EXCEPT ![d] = RemoveAt(q, 1)]
        /\ locked' = [locked EXCEPT ![d] = TRUE]
        /\ owner' = [owner EXCEPT ![d] = w]
        /\ children' = [children EXCEPT ![w] = @ \ {d}]
        /\ pc' = pc /\ raised' = raised /\ arrival' = arrival
    <2>1. PICK k \in DOMAIN q : /\ q[k] = [w |-> w, done |-> TRUE]
                               /\ waiters' = [waiters EXCEPT ![d] = RemoveAt(@, k)]
      BY DEF Resume
    <2>2. k = 1
      BY <2>1 DEF WokenInv
    <2>3. QED
      BY <1>3, <2>1, <2>2 DEF Resume, TakeLock, ChildReturns
  <1> HIDE DEF q
  <1>5. /\ waiters'[d] \in Seq(WaiterType)
        /\ DOMAIN waiters'[d] = 1..(Len(q) - 1)
        /\ \A k \in DOMAIN waiters'[d] : k + 1 \in DOMAIN q /\ waiters'[d][k] = q[k + 1]
        /\ \A e \in Devices : e # d => waiters'[e] = waiters[e]
    <2>1. 1 \in 1..Len(q)
      BY <1>2, <1>3
    <2>2. /\ RemoveAt(q, 1) \in Seq(WaiterType)
          /\ DOMAIN RemoveAt(q, 1) = 1..(Len(q) - 1)
          /\ \A k \in 1..(Len(q) - 1) :
               RemoveAt(q, 1)[k] = IF k < 1 THEN q[k] ELSE q[k + 1]
      BY <1>2, <2>1, RemoveAtSeq
    <2>3. waiters'[d] = RemoveAt(q, 1) /\ \A e \in Devices : e # d => waiters'[e] = waiters[e]
      BY <1>4 DEF TypeOK
    <2>4. \A k \in 1..(Len(q) - 1) : ~(k < 1) /\ k + 1 \in 1..Len(q)
      BY <1>2
    <2>5. QED
      BY <1>2, <2>2, <2>3, <2>4
  (* Those that stay behind it sleep.                                       *)
  <1>6. \A k \in DOMAIN waiters'[d] : ~waiters'[d][k].done /\ waiters'[d][k].w # w
    <2>1. ASSUME NEW k \in DOMAIN waiters'[d]
          PROVE  ~waiters'[d][k].done /\ waiters'[d][k].w # w
      <3>1. k + 1 \in DOMAIN q /\ k + 1 # 1 /\ waiters'[d][k] = q[k + 1]
        BY <1>2, <1>5
      <3>2. QED
        BY <1>3, <3>1 DEF WokenInv, WaitOnceInv, q
    <2>2. QED
      BY <2>1
  <1>7. /\ locked' \in [Devices -> BOOLEAN]
        /\ owner' \in [Devices -> Workers \cup {None}]
        /\ children' \in [Workers -> SUBSET Devices]
        /\ locked'[d] /\ owner'[d] = w
        /\ \A e \in Devices : e # d => locked'[e] = locked[e] /\ owner'[e] = owner[e]
        /\ \A v \in Workers : v # w => children'[v] = children[v]
        /\ children'[w] = children[w] \ {d}
    BY <1>4 DEF TypeOK
  <1>8. TypeOK'
    <2>1. waiters' \in [Devices -> Seq(WaiterType)]
      BY <1>4, <1>5, Types DEF TypeOK, WaiterType
    <2>2. QED
      BY <1>1, <1>4, <1>7, <2>1 DEF TypeOK, CallbackType, WaiterType
  <1>9. ReadyInv'
    <2>1. \A i \in DOMAIN ready' :
            /\ pc'[ready'[i].w] \in {Stage(ready'[i].op), "dead"}
            /\ ready'[i].op \in ChildOps => ready'[i].d \in children'[ready'[i].w]
      BY <1>1, <1>4, <1>7 DEF ReadyInv
    <2>2. \A i, j \in DOMAIN ready' :
            i # j /\ ready'[i].w = ready'[j].w =>
              ready'[i].op \in ChildOps /\ ready'[i].d # ready'[j].d
      BY <1>1 DEF ReadyInv
    <2>3. QED
      BY <2>1, <2>2 DEF ReadyInv
  <1>10. WokenInv'
    <2>1. ASSUME NEW e \in Devices, NEW k \in DOMAIN waiters'[e], waiters'[e][k].done
          PROVE  /\ k = 1 /\ ~locked'[e]
                 /\ \E i \in DOMAIN ready' :
                      ready'[i] = Callback("resume", waiters'[e][k].w, e)
      <3>1. e # d /\ waiters'[e] = waiters[e]
        BY <1>5, <1>6, <2>1
      <3>2. /\ k = 1 /\ ~locked[e]
            /\ \E i \in DOMAIN ready : ready[i] = Callback("resume", waiters[e][k].w, e)
        BY <2>1, <3>1 DEF WokenInv
      <3>3. PICK i \in DOMAIN ready : ready[i] = Callback("resume", waiters[e][k].w, e)
        BY <3>2
      <3>4. ready[i].d = e
        BY <3>3 DEF Callback
      <3>5. i # 1
        BY <1>1, <3>1, <3>4
      <3>6. QED
        BY <1>1, <1>7, <3>1, <3>2, <3>3, <3>5
    <2>2. QED
      BY <2>1 DEF WokenInv
  <1>11. AsleepInv'
    <2>1. ASSUME NEW e \in Devices, NEW k \in DOMAIN waiters'[e], ~waiters'[e][k].done
          PROVE  /\ pc[waiters'[e][k].w] \in {"gathering", "dead"}
                 /\ e \in children'[waiters'[e][k].w]
                 /\ \A i \in DOMAIN ready' :
                      ready'[i].w = waiters'[e][k].w =>
                        ready'[i].op \in ChildOps /\ ready'[i].d # e
      <3>1. PICK l \in DOMAIN waiters[e] : waiters'[e][k] = waiters[e][l]
        BY <1>5 DEF q
      <3>2. waiters'[e][k].w \in Workers /\ (e = d => waiters'[e][k].w # w)
        BY <1>6, <3>1, Types
      <3>3. e \in children'[waiters'[e][k].w]
        BY <1>7, <2>1, <3>1, <3>2 DEF AsleepInv
      <3>4. QED
        BY <1>1, <2>1, <3>1, <3>3 DEF AsleepInv
    <2>2. QED
      BY <1>4, <2>1 DEF AsleepInv
  <1>12. WaitOnceInv'
    <2>1. ASSUME NEW e \in Devices, NEW k \in DOMAIN waiters'[e], NEW l \in DOMAIN waiters'[e],
                 waiters'[e][k].w = waiters'[e][l].w
          PROVE  k = l
      <3>1. CASE e = d
        <4>1. /\ k + 1 \in DOMAIN q /\ l + 1 \in DOMAIN q
              /\ q[k + 1].w = q[l + 1].w /\ k \in Nat /\ l \in Nat
          BY <1>2, <1>5, <2>1, <3>1
        <4>2. k + 1 = l + 1
          BY <4>1 DEF WaitOnceInv, q
        <4>3. QED
          BY <4>1, <4>2
      <3>2. CASE e # d
        BY <1>5, <2>1, <3>2 DEF WaitOnceInv
      <3>3. QED
        BY <3>1, <3>2
    <2>2. QED
      BY <2>1 DEF WaitOnceInv
  <1>13. ResumeInv'
    <2>1. ASSUME NEW i \in DOMAIN ready', ready'[i].op = "resume"
          PROVE  /\ waiters'[ready'[i].d] # <<>>
                 /\ waiters'[ready'[i].d][1] = [w |-> ready'[i].w, done |-> TRUE]
      <3>1. ready'[i] = ready[i + 1] /\ i + 1 \in DOMAIN ready
        BY <1>1
      <3>2. /\ waiters[ready'[i].d] # <<>>
            /\ waiters[ready'[i].d][1] = [w |-> ready'[i].w, done |-> TRUE]
        BY <2>1, <3>1 DEF ResumeInv
      <3>3. ready'[i].d # d
        <4>1. CASE ready'[i].d = d
          <5>1. ready'[i].w = w
            BY <1>3, <3>2, <4>1 DEF q
          <5>2. QED
            BY <1>1, <4>1, <5>1
        <4>2. QED
          BY <4>1
      <3>4. ready'[i].d \in Devices
        <4>1. ready'[i].op \in ChildOps /\ ready'[i].w \in Workers
          BY <1>1, <2>1 DEF ChildOps
        <4>2. QED
          BY <3>1, <4>1 DEF ReadyInv, TypeOK
      <3>5. QED
        BY <1>5, <3>2, <3>3, <3>4
    <2>2. QED
      BY <2>1 DEF ResumeInv
  <1>14. OwnerInv'
    <2>1. \A e \in Devices : locked'[e] <=> owner'[e] # None
      BY <1>7 DEF OwnerInv
    <2>2. ASSUME NEW v \in Workers
          PROVE  /\ children'[v] \subseteq DevicesOf(v)
                 /\ pc'[v] \in {"holding", "leaving"} =>
                      \A e \in DevicesOf(v) : owner'[e] = v
                 /\ pc'[v] = "gathering" =>
                      \A e \in DevicesOf(v) \ children'[v] : owner'[e] = v
      <3>1. DevicesOf(v) \subseteq Devices
        BY DevicesOfWorker DEF DevicesOfSubset
      <3>2. \A e \in Devices : owner[e] = v => owner'[e] = v
        BY <1>3, <1>7
      <3>3. QED
        BY <1>4, <1>7, <3>1, <3>2 DEF OwnerInv
    <2>3. ASSUME NEW i \in DOMAIN ready'
          PROVE  /\ ready'[i].op = "release_devices" =>
                      \A e \in DevicesOf(ready'[i].w) : owner'[e] = ready'[i].w
                 /\ ready'[i].op = "release" => owner'[ready'[i].d] = ready'[i].w
      <3>1. /\ ready'[i] = ready[i + 1] /\ i + 1 \in DOMAIN ready
            /\ ready'[i].w \in Workers
        BY <1>1
      <3>2. ready'[i].op = "release" => ready'[i].d \in Devices
        <4>1. ready'[i].op = "release" => ready'[i].op \in ChildOps
          BY DEF ChildOps
        <4>2. QED
          BY <3>1, <4>1 DEF ReadyInv, TypeOK
      <3>3. DevicesOf(ready'[i].w) \subseteq Devices
        BY <3>1, DevicesOfWorker DEF DevicesOfSubset
      <3>4. \A e \in Devices : owner[e] = ready'[i].w => owner'[e] = ready'[i].w
        BY <1>3, <1>7, <3>1
      <3>5. QED
        BY <3>1, <3>2, <3>3, <3>4 DEF OwnerInv
    <2>4. QED
      BY <2>1, <2>2, <2>3 DEF OwnerInv
  <1>15. NothingRaised' /\ \A v \in Workers : pc'[v] # "failed"
    BY <1>4 DEF NothingRaised
  <1>16. QED
    BY <1>8, <1>9, <1>10, <1>11, <1>12, <1>13, <1>14, <1>15

LEMMA ReleaseInv ==
  ASSUME IInv, NEW w \in Workers, NEW d \in Devices, Release(w, d)
  PROVE  IInv'
  <1> USE DEF IInv
  <1> DEFINE t == Tail(ready)
             q == waiters[d]
             v == q[1].w
  <1>1. /\ ready[1].op = "release" /\ ready[1].w = w /\ ready[1].d = d
        /\ 1 \in DOMAIN ready
        /\ pc[w] \in {"freeing", "dead"} /\ d \in children[w]
        /\ t \in Seq(CallbackType)
        /\ DOMAIN t = 1..Len(t) /\ Len(t) \in Nat
        /\ \A i \in DOMAIN t :
             /\ i + 1 \in DOMAIN ready /\ t[i] = ready[i + 1]
             /\ t[i].w \in Workers
             /\ t[i].w = w => t[i].op \in ChildOps /\ t[i].d # d
        /\ \A i \in DOMAIN ready : i # 1 =>
             i - 1 \in DOMAIN t /\ t[i - 1] = ready[i]
    <2>1. Due("release", w, d)
      BY DEF Release
    <2>2. "release" \in ChildOps /\ Stage("release") = "freeing"
      BY DEF ChildOps, Stage
    <2> HIDE DEF IInv
    <2>3. QED
      BY <2>1, <2>2, Consumed
  <1>2. q \in Seq(WaiterType) /\ DOMAIN q = 1..Len(q) /\ Len(q) \in Nat
    BY Types
  <1>3. owner[d] = w /\ locked[d]
    BY <1>1 DEF OwnerInv
  <1>4. \A k \in DOMAIN q : ~q[k].done /\ q[k].w # w /\ q[k].w \in Workers
    <2>1. ASSUME NEW k \in DOMAIN q
          PROVE  ~q[k].done /\ q[k].w # w /\ q[k].w \in Workers
      <3>1. ~q[k].done
        BY <1>3 DEF WokenInv
      <3>2. QED
        BY <1>1, <3>1, Types DEF AsleepInv
    <2>2. QED
      BY <2>1
  <1>5. /\ locked' = [locked EXCEPT ![d] = FALSE]
        /\ owner' = [owner EXCEPT ![d] = None]
        /\ children' = [children EXCEPT ![w] = @ \ {d}]
        /\ pc' = pc /\ raised' = raised /\ arrival' = arrival
        /\ WakeUpFirst(d)
    BY <1>3 DEF Release, ChildReturns
  <1>6. /\ locked' \in [Devices -> BOOLEAN]
        /\ owner' \in [Devices -> Workers \cup {None}]
        /\ children' \in [Workers -> SUBSET Devices]
        /\ ~locked'[d] /\ owner'[d] = None
        /\ \A e \in Devices : e # d => locked'[e] = locked[e] /\ owner'[e] = owner[e]
        /\ \A x \in Workers : x # w => children'[x] = children[x]
        /\ children'[w] = children[w] \ {d}
    BY <1>5 DEF TypeOK
  (* A callback due is an older one or the resumption of the first waiter.  *)
  <1>7. /\ ready' \in Seq(CallbackType)
        /\ \A i \in DOMAIN ready' :
             \/ /\ i \in DOMAIN t /\ ready'[i] = t[i]
             \/ /\ i = Len(t) + 1 /\ q # <<>>
                /\ ready'[i] = Callback("resume", v, d)
        /\ \A i \in DOMAIN t : i \in DOMAIN ready' /\ ready'[i] = t[i]
        /\ q # <<>> => /\ Len(t) + 1 \in DOMAIN ready'
                       /\ ready'[Len(t) + 1] = Callback("resume", v, d)
    <2>1. CASE q = <<>>
      <3>1. ready' = t
        BY <1>5, <2>1 DEF WakeUpFirst
      <3>2. QED
        BY <1>1, <2>1, <3>1
    <2>2. CASE q # <<>>
      <3>1. ready' = Append(t, Callback("resume", v, d))
        <4>1. Head(waiters[d]) = q[1] /\ ~q[1].done
          BY <1>2, <1>4, <2>2
        <4>2. QED
          BY <1>5, <2>2, <4>1 DEF WakeUpFirst
      <3>2. Callback("resume", v, d) \in CallbackType
        BY <1>2, <1>4, <2>2 DEF Callback, CallbackType, Ops
      <3> HIDE DEF t, q, v
      <3>3. QED
        BY <1>1, <2>2, <3>1, <3>2, AppendToSeq
    <2>3. QED
      BY <2>1, <2>2
  <1>8. Callback("resume", v, d).op = "resume" /\ Callback("resume", v, d).w = v
        /\ Callback("resume", v, d).d = d
    BY DEF Callback
  (* The waiters are the same; the first one at d is now woken.             *)
  <1>9. /\ \A e \in Devices : e # d => waiters'[e] = waiters[e]
        /\ q = <<>> => waiters'[d] = <<>>
        /\ waiters'[d] \in Seq(WaiterType) /\ waiters' \in [Devices -> Seq(WaiterType)]
        /\ DOMAIN waiters'[d] = DOMAIN q
        /\ q # <<>> => waiters'[d] # <<>> /\ waiters'[d][1] = [w |-> v, done |-> TRUE]
        /\ \A k \in DOMAIN q : /\ k # 1 => waiters'[d][k] = q[k]
                               /\ waiters'[d][k].w = q[k].w
    <2>1. CASE q = <<>>
      <3>1. waiters' = waiters
        BY <1>5, <2>1 DEF WakeUpFirst
      <3>2. waiters' \in [Devices -> Seq(WaiterType)]
        BY <3>1 DEF TypeOK, WaiterType
      <3>3. DOMAIN q = {}
        BY <2>1
      <3>4. QED
        BY <1>2, <2>1, <3>1, <3>2, <3>3
    <2>2. CASE q # <<>>
      <3>1. 1 \in DOMAIN q /\ q[1] \in WaiterType /\ ~q[1].done /\ Head(q) = q[1]
        BY <1>2, <1>4, <2>2
      <3>2. waiters' = [waiters EXCEPT ![d][1] = [w |-> @.w, done |-> TRUE]]
        BY <1>5, <2>2, <3>1 DEF WakeUpFirst
      <3>3. waiters' = [waiters EXCEPT ![d] = [q EXCEPT ![1] = [w |-> v, done |-> TRUE]]]
        BY <3>2
      <3>5. waiters'[d] = [q EXCEPT ![1] = [w |-> v, done |-> TRUE]]
        BY <3>3 DEF TypeOK
      <3>6. \A e \in Devices : e # d => waiters'[e] = waiters[e]
        BY <3>3 DEF TypeOK
      <3>7. v \in Workers /\ [w |-> v, done |-> TRUE] \in WaiterType
        BY <1>4, <3>1 DEF WaiterType
      <3>8. [w |-> v, done |-> TRUE].w = v /\ q[1].w = v
        OBVIOUS
      <3> HIDE DEF q, v
      <3>9. waiters'[d] \in Seq(WaiterType) /\ DOMAIN waiters'[d] = DOMAIN q
        BY <1>2, <3>1, <3>5, <3>7
      <3>10. waiters' \in [Devices -> Seq(WaiterType)]
        BY <3>3, <3>6, <3>9, Types DEF TypeOK, WaiterType
      <3>11. waiters'[d][1] = [w |-> v, done |-> TRUE] /\ waiters'[d] # <<>>
        BY <1>2, <3>1, <3>5, <3>9
      <3>12. \A k \in DOMAIN q : /\ k # 1 => waiters'[d][k] = q[k]
                               /\ waiters'[d][k].w = q[k].w
        BY <1>2, <3>1, <3>5, <3>8, <3>11
      <3>13. QED
        BY <2>2, <3>6, <3>9, <3>10, <3>11, <3>12
    <2>3. QED
      BY <2>1, <2>2
  <1> HIDE DEF t, q, v
  <1>10. q # <<>> => /\ v \in Workers /\ v # w /\ pc[v] \in {"gathering", "dead"}
                     /\ d \in children[v]
                     /\ \A i \in DOMAIN t : t[i].w = v => t[i].op \in ChildOps /\ t[i].d # d
    <2>1. ASSUME q # <<>>
          PROVE  /\ v \in Workers /\ v # w /\ pc[v] \in {"gathering", "dead"}
                 /\ d \in children[v]
                 /\ \A i \in DOMAIN t : t[i].w = v => t[i].op \in ChildOps /\ t[i].d # d
      <3>1. 1 \in DOMAIN waiters[d] /\ ~waiters[d][1].done /\ waiters[d][1].w = v
            /\ v \in Workers /\ v # w
        BY <1>2, <1>4, <2>1 DEF q, v
      <3>2. /\ pc[v] \in {"gathering", "dead"} /\ d \in children[v]
            /\ \A i \in DOMAIN ready : ready[i].w = v => ready[i].op \in ChildOps /\ ready[i].d # d
        BY <3>1 DEF AsleepInv
      <3>3. QED
        BY <1>1, <3>1, <3>2
    <2>2. QED
      BY <2>1
  <1>11. TypeOK'
    BY <1>5, <1>6, <1>7, <1>9 DEF TypeOK, CallbackType, WaiterType
  <1>12. ReadyInv'
    <2>1. ASSUME NEW i \in DOMAIN ready'
          PROVE  /\ pc'[ready'[i].w] \in {Stage(ready'[i].op), "dead"}
                 /\ ready'[i].op \in ChildOps => ready'[i].d \in children'[ready'[i].w]
      <3>1. CASE i \in DOMAIN t /\ ready'[i] = t[i]
        BY <1>1, <1>5, <1>6, <3>1 DEF ReadyInv
      <3>2. CASE q # <<>> /\ ready'[i] = Callback("resume", v, d)
        <4>1. Stage("resume") = "gathering"
          BY DEF Stage
        <4>2. QED
          BY <1>5, <1>6, <1>8, <1>10, <3>2, <4>1
      <3>3. QED
        BY <1>7, <3>1, <3>2
    <2>2. ASSUME NEW i \in DOMAIN ready', NEW j \in DOMAIN ready',
                 i # j, ready'[i].w = ready'[j].w
          PROVE  ready'[i].op \in ChildOps /\ ready'[i].d # ready'[j].d
      <3>1. CASE i \in DOMAIN t /\ ready'[i] = t[i] /\ j \in DOMAIN t /\ ready'[j] = t[j]
        <4>1. i + 1 \in DOMAIN ready /\ j + 1 \in DOMAIN ready /\ i + 1 # j + 1
          BY <1>1, <2>2, <3>1
        <4>2. QED
          BY <1>1, <2>2, <3>1, <4>1 DEF ReadyInv
      <3>2. CASE /\ i \in DOMAIN t /\ ready'[i] = t[i]
                 /\ q # <<>> /\ ready'[j] = Callback("resume", v, d)
        BY <1>8, <1>10, <2>2, <3>2
      <3>3. CASE /\ j \in DOMAIN t /\ ready'[j] = t[j]
                 /\ q # <<>> /\ ready'[i] = Callback("resume", v, d)
        BY <1>8, <1>10, <2>2, <3>3 DEF ChildOps
      <3>4. QED
        BY <1>7, <2>2, <3>1, <3>2, <3>3
    <2>3. QED
      BY <2>1, <2>2 DEF ReadyInv
  <1>13. WokenInv'
    <2>1. ASSUME NEW e \in Devices, NEW k \in DOMAIN waiters'[e], waiters'[e][k].done
          PROVE  /\ k = 1 /\ ~locked'[e]
                 /\ \E i \in DOMAIN ready' :
                      ready'[i] = Callback("resume", waiters'[e][k].w, e)
      <3>1. CASE e = d
        <4>1. k \in DOMAIN q /\ q # <<>> /\ k = 1
          BY <1>2, <1>4, <1>9, <2>1, <3>1
        <4>2. waiters'[e][k].w = v
          BY <1>9, <3>1, <4>1 DEF v
        <4>3. QED
          BY <1>6, <1>7, <3>1, <4>1, <4>2
      <3>2. CASE e # d
        <4>1. /\ waiters'[e] = waiters[e] /\ k = 1 /\ ~locked[e]
              /\ \E i \in DOMAIN ready : ready[i] = Callback("resume", waiters[e][k].w, e)
          BY <1>9, <2>1, <3>2 DEF WokenInv
        <4>2. PICK i \in DOMAIN ready : ready[i] = Callback("resume", waiters[e][k].w, e)
          BY <4>1
        <4>3. ready[i].op = "resume"
          BY <4>2 DEF Callback
        <4>4. i # 1
          BY <1>1, <4>3
        <4>5. QED
          BY <1>1, <1>6, <1>7, <3>2, <4>1, <4>2, <4>4
      <3>3. QED
        BY <3>1, <3>2
    <2>2. QED
      BY <2>1 DEF WokenInv
  <1>14. AsleepInv'
    <2>1. ASSUME NEW e \in Devices, NEW k \in DOMAIN waiters'[e], ~waiters'[e][k].done
          PROVE  /\ pc[waiters'[e][k].w] \in {"gathering", "dead"}
                 /\ e \in children'[waiters'[e][k].w]
                 /\ \A i \in DOMAIN ready' :
                      ready'[i].w = waiters'[e][k].w =>
                        ready'[i].op \in ChildOps /\ ready'[i].d # e
      <3>1. /\ k \in DOMAIN waiters[e] /\ ~waiters[e][k].done
            /\ waiters'[e][k].w = waiters[e][k].w /\ waiters[e][k].w \in Workers
            /\ e = d => waiters[e][k].w # w /\ k # 1
        <4>1. CASE e = d
          <5>1. k \in DOMAIN q /\ q # <<>>
            BY <1>2, <1>9, <4>1
          <5>2. k # 1
            BY <1>9, <2>1, <4>1, <5>1
          <5>3. QED
            BY <1>4, <1>9, <4>1, <5>1, <5>2 DEF q
        <4>2. CASE e # d
          BY <1>9, <2>1, <4>2, Types
        <4>3. QED
          BY <4>1, <4>2
      <3>2. /\ pc[waiters[e][k].w] \in {"gathering", "dead"}
            /\ e \in children[waiters[e][k].w]
            /\ \A i \in DOMAIN ready :
                 ready[i].w = waiters[e][k].w => ready[i].op \in ChildOps /\ ready[i].d # e
        BY <3>1 DEF AsleepInv
      <3>3. e \in children'[waiters[e][k].w]
        BY <1>6, <3>1, <3>2
      <3>4. ASSUME NEW i \in DOMAIN ready', ready'[i].w = waiters[e][k].w
            PROVE  ready'[i].op \in ChildOps /\ ready'[i].d # e
        <4>1. CASE i \in DOMAIN t /\ ready'[i] = t[i]
          BY <1>1, <3>2, <3>4, <4>1
        <4>2. CASE q # <<>> /\ ready'[i] = Callback("resume", v, d)
          <5>1. e # d
            <6>1. CASE e = d
              <7>1. 1 \in DOMAIN waiters[d] /\ waiters[d][1].w = waiters[d][k].w
                BY <1>2, <1>8, <3>4, <4>2, <6>1 DEF q, v
              <7>2. QED
                BY <3>1, <6>1, <7>1 DEF WaitOnceInv
            <6>2. QED
              BY <6>1
          <5>2. QED
            BY <1>8, <4>2, <5>1 DEF ChildOps
        <4>3. QED
          BY <1>7, <4>1, <4>2
      <3>5. QED
        BY <3>1, <3>2, <3>3, <3>4
    <2>2. QED
      BY <1>5, <2>1 DEF AsleepInv
  <1>15. WaitOnceInv'
    <2>1. ASSUME NEW e \in Devices, NEW k \in DOMAIN waiters'[e], NEW l \in DOMAIN waiters'[e],
                 waiters'[e][k].w = waiters'[e][l].w
          PROVE  k = l
      <3>1. CASE e = d
        BY <1>9, <2>1, <3>1 DEF WaitOnceInv, q
      <3>2. CASE e # d
        BY <1>9, <2>1, <3>2 DEF WaitOnceInv
      <3>3. QED
        BY <3>1, <3>2
    <2>2. QED
      BY <2>1 DEF WaitOnceInv
  <1>16. ResumeInv'
    <2>1. ASSUME NEW i \in DOMAIN ready', ready'[i].op = "resume"
          PROVE  /\ waiters'[ready'[i].d] # <<>>
                 /\ waiters'[ready'[i].d][1] = [w |-> ready'[i].w, done |-> TRUE]
      <3>1. CASE i \in DOMAIN t /\ ready'[i] = t[i]
        <4>1. /\ waiters[t[i].d] # <<>>
              /\ waiters[t[i].d][1] = [w |-> t[i].w, done |-> TRUE]
              /\ t[i].d \in Devices
          <5>1. t[i].op \in ChildOps /\ t[i].w \in Workers
            BY <1>1, <2>1, <3>1 DEF ChildOps
          <5>2. t[i].d \in Devices
            BY <1>1, <3>1, <5>1 DEF ReadyInv, TypeOK
          <5>3. QED
            BY <1>1, <2>1, <3>1, <5>2 DEF ResumeInv
        <4>2. t[i].d # d
          <5>1. CASE t[i].d = d
            <6>1. 1 \in DOMAIN q /\ q[1].done
              BY <1>2, <4>1, <5>1 DEF q
            <6>2. QED
              BY <1>4, <6>1
          <5>2. QED
            BY <5>1
        <4>3. QED
          BY <1>9, <3>1, <4>1, <4>2
      <3>2. CASE q # <<>> /\ ready'[i] = Callback("resume", v, d)
        BY <1>8, <1>9, <3>2
      <3>3. QED
        BY <1>7, <3>1, <3>2
    <2>2. QED
      BY <2>1 DEF ResumeInv
  <1>17. OwnerInv'
    <2>1. \A e \in Devices : locked'[e] <=> owner'[e] # None
      BY <1>6 DEF OwnerInv
    <2>2. ASSUME NEW x \in Workers
          PROVE  /\ children'[x] \subseteq DevicesOf(x)
                 /\ pc'[x] \in {"holding", "leaving"} =>
                      \A e \in DevicesOf(x) : owner'[e] = x
                 /\ pc'[x] = "gathering" =>
                      \A e \in DevicesOf(x) \ children'[x] : owner'[e] = x
      <3>1. DevicesOf(x) \subseteq Devices
        BY DevicesOfWorker DEF DevicesOfSubset
      <3>2. CASE x = w
        BY <1>1, <1>5, <1>6, <3>2 DEF OwnerInv
      <3>3. CASE x # w
        <4>1. \A e \in Devices : owner[e] = x => owner'[e] = x
          BY <1>3, <1>6, <3>3
        <4>2. QED
          BY <1>5, <1>6, <3>1, <3>3, <4>1 DEF OwnerInv
      <3>4. QED
        BY <3>2, <3>3
    <2>3. ASSUME NEW i \in DOMAIN ready'
          PROVE  /\ ready'[i].op = "release_devices" =>
                      \A e \in DevicesOf(ready'[i].w) : owner'[e] = ready'[i].w
                 /\ ready'[i].op = "release" => owner'[ready'[i].d] = ready'[i].w
      <3>1. CASE i \in DOMAIN t /\ ready'[i] = t[i]
        <4>1. t[i] = ready[i + 1] /\ i + 1 \in DOMAIN ready /\ t[i].w \in Workers
          BY <1>1, <3>1
        <4>2. DevicesOf(t[i].w) \subseteq Devices
          BY <4>1, DevicesOfWorker DEF DevicesOfSubset
        <4>3. CASE t[i].op = "release_devices"
          <5>1. t[i].w # w
            BY <1>1, <3>1, <4>3 DEF ChildOps
          <5>2. \A e \in DevicesOf(t[i].w) : owner[e] = t[i].w
            BY <4>1, <4>3 DEF OwnerInv
          <5>3. \A e \in DevicesOf(t[i].w) : e # d
            BY <1>3, <5>1, <5>2
          <5>4. QED
            BY <1>6, <3>1, <4>2, <4>3, <5>2, <5>3
        <4>4. CASE t[i].op = "release"
          <5>1. owner[t[i].d] = t[i].w /\ t[i].d \in Devices
            <6>1. t[i].op \in ChildOps
              BY <4>4 DEF ChildOps
            <6>2. QED
              BY <4>1, <4>4, <6>1 DEF OwnerInv, ReadyInv, TypeOK
          <5>2. t[i].d # d
            BY <1>1, <1>3, <3>1, <5>1
          <5>3. QED
            BY <1>6, <3>1, <4>4, <5>1, <5>2
        <4>5. QED
          BY <3>1, <4>3, <4>4
      <3>2. CASE ready'[i] = Callback("resume", v, d)
        BY <1>8, <3>2
      <3>3. QED
        BY <1>7, <3>1, <3>2
    <2>4. QED
      BY <2>1, <2>2, <2>3 DEF OwnerInv
  <1>18. NothingRaised' /\ \A x \in Workers : pc'[x] # "failed"
    BY <1>5 DEF NothingRaised
  <1>19. QED
    BY <1>11, <1>12, <1>13, <1>14, <1>15, <1>16, <1>17, <1>18

-----------------------------------------------------------------------------
(* The theorems.                                                            *)

LEMMA Inductive == IInv /\ [Next]_vars => IInv'
  <1> SUFFICES ASSUME IInv, [Next]_vars PROVE IInv'
    OBVIOUS
  <1>1. CASE UNCHANGED vars
    <2>1. /\ locked' = locked /\ owner' = owner /\ waiters' = waiters
          /\ ready' = ready /\ pc' = pc /\ children' = children
          /\ raised' = raised /\ arrival' = arrival
      BY <1>1 DEF vars
    <2>2. TypeOK'
      BY <2>1 DEF IInv, TypeOK
    <2>3. ReadyInv' /\ ResumeInv'
      BY <2>1 DEF IInv, ReadyInv, ResumeInv
    <2>4. OwnerInv' /\ NothingRaised'
      BY <2>1 DEF IInv, OwnerInv, NothingRaised
    <2>5. WokenInv' /\ AsleepInv' /\ WaitOnceInv'
      BY <2>1 DEF IInv, WokenInv, AsleepInv, WaitOnceInv
    <2>6. QED
      BY <2>1, <2>2, <2>3, <2>4, <2>5 DEF IInv
  <1>2. CASE EventLoop
    BY <1>2, AcquireDevicesInv, ReleaseDevicesInv, AcquireInv, ResumeStepInv, ReleaseInv
       DEF EventLoop
  <1>3. ASSUME NEW w \in Workers, Worker(w) PROVE IInv'
    BY <1>3, AskInv, EnterInv, LeaveInv, LeftInv, KillInv DEF Worker
  <1>4. QED
    BY <1>1, <1>2, <1>3 DEF Next

(* The inductive invariant holds of every behaviour: every call, waiter and *)
(* owner in the manager agrees with where the workers are.                  *)
THEOREM Invariance == Spec => []IInv
  BY InitInv, Inductive, PTL DEF Spec

(* However the manager's event loop orders the calls, no two workers are    *)
(* inside `with self.device_lock` on a common accelerator.                  *)
THEOREM Exclusion == Spec => []MutualExclusion
  <1>1. IInv => MutualExclusion
    <2> SUFFICES ASSUME IInv, NEW v \in Workers, NEW w \in Workers,
                        v # w, pc[v] = "holding", pc[w] = "holding",
                        NEW d \in DevicesOf(v) \cap DevicesOf(w)
                 PROVE  FALSE
      BY DEF MutualExclusion
    <2> QED BY DEF IInv, OwnerInv
  <1>2. QED
    BY <1>1, Invariance, PTL

(* The assertion in acquire and the errors in release cannot be raised.     *)
THEOREM NoErrors == Spec => []NothingRaised
  <1>1. IInv => NothingRaised
    BY DEF IInv
  <1>2. QED
    BY <1>1, Invariance, PTL

(* Every variable keeps its type.                                           *)
THEOREM TypeCorrect == Spec => []TypeOK
  <1>1. IInv => TypeOK
    BY DEF IInv
  <1>2. QED
    BY <1>1, Invariance, PTL

-----------------------------------------------------------------------------
(* First come, first served.  The standing requests, in the order of their  *)
(* arrival, against the lines at the devices and what is still due.         *)

Standing(w) == Has(arrival, w)
Before(v, w) == Prec(arrival, v, w)

IsDue(op, w, d) == Has(ready, Callback(op, w, d))
DueFirst(op, v, w, d) == Prec(ready, Callback(op, v, d), Callback(op, w, d))

Waiting(d) == [k \in DOMAIN waiters[d] |-> waiters[d][k].w]
WaitsAt(w, d) == Has(Waiting(d), w)
WaitsFirst(v, w, d) == Prec(Waiting(d), v, w)

(* A worker stands in line from its request until it leaves, and if it is   *)
(* killed meanwhile for ever; what is due for it tells which.               *)
StandingInv ==
  /\ \A i, j \in DOMAIN arrival : arrival[i] = arrival[j] => i = j
  /\ \A w \in Workers :
       /\ pc[w] \in {"asking", "gathering", "holding"} => Standing(w)
       /\ pc[w] \in {"out", "leaving", "freeing"} => ~Standing(w)
  /\ \A op \in Ops, w \in Workers, d \in Devices \cup {None} :
       IsDue(op, w, d) =>
         (Standing(w) <=> op \in {"acquire_devices", "acquire", "resume"})
  /\ \A w \in Workers, d \in Devices : WaitsAt(w, d) => Standing(w) /\ owner[d] # w

(* A device's owner needs it, and stands in line or is about to release it. *)
OwnersInv ==
  \A w \in Workers, d \in Devices : owner[d] = w =>
    /\ d \in DevicesOf(w)
    /\ Standing(w) \/ IsDue("release_devices", w, None) \/ IsDue("release", w, d)

(* A request stands somewhere for each of its devices.                      *)
PlaceInv ==
  \A w \in Workers : Standing(w) =>
    \A d \in DevicesOf(w) :
      owner[d] = w \/ WaitsAt(w, d) \/ IsDue("acquire", w, d)
        \/ IsDue("acquire_devices", w, None)

(* v is further than w for device d, wherever w is.                         *)
Further(v, w, d) ==
  /\ owner[d] # w
  /\ WaitsAt(w, d) => owner[d] = v \/ WaitsFirst(v, w, d)
  /\ IsDue("acquire", w, d) =>
       owner[d] = v \/ WaitsAt(v, d) \/ DueFirst("acquire", v, w, d)
  /\ IsDue("acquire_devices", w, None) =>
       owner[d] = v \/ WaitsAt(v, d) \/ IsDue("acquire", v, d)
         \/ DueFirst("acquire_devices", v, w, None)

OrderInv ==
  \A v, w \in Workers : Before(v, w) =>
    \A d \in DevicesOf(v) \cap DevicesOf(w) : Further(v, w, d)

QInv == StandingInv /\ OwnersInv /\ PlaceInv /\ OrderInv

LEMMA WaitingIs ==
  ASSUME TypeOK, NEW d \in Devices
  PROVE  /\ Waiting(d) \in Seq(Workers)
         /\ DOMAIN Waiting(d) = DOMAIN waiters[d] /\ Len(Waiting(d)) = Len(waiters[d])
         /\ \A k \in DOMAIN waiters[d] : Waiting(d)[k] = waiters[d][k].w
  <1>1. /\ DOMAIN waiters[d] = 1..Len(waiters[d]) /\ Len(waiters[d]) \in Nat
        /\ \A k \in DOMAIN waiters[d] : waiters[d][k].w \in Workers
    BY Types
  <1>2. Waiting(d) = [k \in 1..Len(waiters[d]) |-> waiters[d][k].w]
    BY <1>1 DEF Waiting
  <1>3. QED
    BY <1>1, <1>2

(* What the inductive invariant says of the calls that are due and of those *)
(* that wait, without their positions.                                      *)
CallsInv ==
  /\ \A op \in Ops, w \in Workers, d \in Devices \cup {None} :
       IsDue(op, w, d) =>
         /\ pc[w] \in {Stage(op), "dead"}
         /\ op \in ChildOps => d \in DevicesOf(w)
         /\ op = "release" => owner[d] = w
         /\ op = "release_devices" => \A e \in DevicesOf(w) : owner[e] = w
         /\ \A op2 \in Ops, e \in Devices \cup {None} :
              IsDue(op2, w, e) =>
                (op = op2 /\ d = e) \/ (op \in ChildOps /\ op2 \in ChildOps /\ d # e)
  /\ \A w \in Workers, d \in Devices :
       WaitsAt(w, d) =>
         /\ pc[w] \in {"gathering", "dead"}
         /\ d \in DevicesOf(w)
         /\ \A op \in Ops, e \in Devices \cup {None} :
              IsDue(op, w, e) => op \in ChildOps /\ (e = d => op = "resume")
  /\ \A w \in Workers : pc[w] \in {"holding", "leaving"} =>
       \A d \in DevicesOf(w) : owner[d] = w

LEMMA CallsOfInv == IInv => CallsInv
  <1> SUFFICES ASSUME IInv PROVE CallsInv
    OBVIOUS
  <1>0. TypeOK
    BY DEF IInv
  <1>1. ASSUME NEW op, NEW w, NEW d, IsDue(op, w, d)
        PROVE  \E i \in DOMAIN ready : ready[i].op = op /\ ready[i].w = w /\ ready[i].d = d
    BY <1>1 DEF IsDue, Has, Callback
  <1>2. \A w \in Workers : children[w] \subseteq DevicesOf(w)
    BY DEF IInv, OwnerInv
  <1>3. ASSUME NEW op \in Ops, NEW w \in Workers, NEW d \in Devices \cup {None}, IsDue(op, w, d)
        PROVE  /\ pc[w] \in {Stage(op), "dead"}
               /\ op \in ChildOps => d \in DevicesOf(w)
               /\ op = "release" => owner[d] = w
               /\ op = "release_devices" => \A e \in DevicesOf(w) : owner[e] = w
    <2>1. PICK i \in DOMAIN ready : ready[i].op = op /\ ready[i].w = w /\ ready[i].d = d
      BY <1>1, <1>3
    <2>2. QED
      BY <1>2, <2>1 DEF IInv, ReadyInv, OwnerInv
  <1>4. ASSUME NEW op \in Ops, NEW w \in Workers, NEW d \in Devices \cup {None}, IsDue(op, w, d),
               NEW op2 \in Ops, NEW e \in Devices \cup {None}, IsDue(op2, w, e)
        PROVE  (op = op2 /\ d = e) \/ (op \in ChildOps /\ op2 \in ChildOps /\ d # e)
    <2>1. PICK i \in DOMAIN ready : ready[i].op = op /\ ready[i].w = w /\ ready[i].d = d
      BY <1>1, <1>4
    <2>2. PICK j \in DOMAIN ready : ready[j].op = op2 /\ ready[j].w = w /\ ready[j].d = e
      BY <1>1, <1>4
    <2>3. CASE i = j
      BY <2>1, <2>2, <2>3
    <2>4. CASE i # j
      <3>1. \A k, l \in DOMAIN ready : k # l /\ ready[k].w = ready[l].w =>
              ready[k].op \in ChildOps /\ ready[k].d # ready[l].d
        BY DEF IInv, ReadyInv
      <3>2. QED
        BY <2>1, <2>2, <2>4, <3>1
    <2>5. QED
      BY <2>3, <2>4
  <1>5. ASSUME NEW w \in Workers, NEW d \in Devices, WaitsAt(w, d)
        PROVE  /\ pc[w] \in {"gathering", "dead"}
               /\ d \in DevicesOf(w)
               /\ \A op \in Ops, e \in Devices \cup {None} :
                    IsDue(op, w, e) => op \in ChildOps /\ (e = d => op = "resume")
    <2>1. PICK k \in DOMAIN waiters[d] : waiters[d][k].w = w
      BY <1>0, <1>5, WaitingIs DEF WaitsAt, Has
    <2>2. CASE waiters[d][k].done
      <3>1. PICK i \in DOMAIN ready : ready[i] = Callback("resume", w, d)
        BY <2>1, <2>2 DEF IInv, WokenInv
      <3>2. IsDue("resume", w, d) /\ "resume" \in Ops /\ "resume" \in ChildOps
        BY <3>1 DEF IsDue, Has, Ops, ChildOps
      <3>3. pc[w] \in {"gathering", "dead"}
        BY <1>3, <3>2, Stages
      <3>4. d \in DevicesOf(w)
        BY <1>3, <3>2
      <3>5. \A op \in Ops, e \in Devices \cup {None} :
              IsDue(op, w, e) => op \in ChildOps /\ (e = d => op = "resume")
        BY <1>4, <3>2
      <3>6. QED
        BY <3>3, <3>4, <3>5
    <2>3. CASE ~waiters[d][k].done
      <3>1. /\ pc[w] \in {"gathering", "dead"} /\ d \in children[w]
            /\ \A i \in DOMAIN ready :
                 ready[i].w = w => ready[i].op \in ChildOps /\ ready[i].d # d
        BY <2>1, <2>3 DEF IInv, AsleepInv
      <3>2. \A op \in Ops, e \in Devices \cup {None} :
              IsDue(op, w, e) => op \in ChildOps /\ e # d
        BY <1>1, <3>1
      <3>3. QED
        BY <1>2, <3>1, <3>2
    <2>4. QED
      BY <2>2, <2>3
  <1>6. \A w \in Workers : pc[w] \in {"holding", "leaving"} =>
          \A d \in DevicesOf(w) : owner[d] = w
    BY DEF IInv, OwnerInv
  <1>7. QED
    BY <1>3, <1>4, <1>5, <1>6 DEF CallsInv

(* The same callback, the same call.                                        *)
LEMMA SameCallback ==
  ASSUME NEW o1, NEW w1, NEW e1, NEW o2, NEW w2, NEW e2
  PROVE  Callback(o1, w1, e1) = Callback(o2, w2, e2) <=> o1 = o2 /\ w1 = w2 /\ e1 = e2
  BY DEF Callback

(* What is due after the head has run and put more callbacks at the end.    *)
LEMMA HeadRuns ==
  ASSUME IInv, NEW op \in Ops, NEW w \in Workers, NEW d \in Devices \cup {None},
         Due(op, w, d), NEW t \in Seq(CallbackType), ready' = Tail(ready) \o t
  PROVE  /\ IsDue(op, w, d)
         /\ \A c : Has(ready', c) <=> (Has(ready, c) /\ c # Callback(op, w, d)) \/ Has(t, c)
         /\ \A b, c : Prec(ready, b, c) => c # Callback(op, w, d)
         /\ \A b, c : Prec(ready, b, c) /\ b # Callback(op, w, d) => Prec(ready', b, c)
         /\ \A b, c : Has(ready, b) /\ b # Callback(op, w, d) /\ Has(t, c) => Prec(ready', b, c)
  <1> DEFINE h == Callback(op, w, d)
             u == Tail(ready)
  <1>1. ready \in Seq(CallbackType) /\ ready # <<>> /\ Head(ready) = h
    BY DueFacts DEF Due
  <1>2. \A i \in DOMAIN ready : ready[i] = Head(ready) => i = 1
    <2>1. \A i, j \in DOMAIN ready : i # j /\ ready[i].w = ready[j].w => ready[i].d # ready[j].d
      BY DEF IInv, ReadyInv
    <2>2. 1 \in DOMAIN ready /\ Head(ready) = ready[1]
      BY <1>1, TailOfSeq
    <2>3. QED
      BY <2>1, <2>2
  <1>3. /\ \A c : Has(u, c) <=> Has(ready, c) /\ c # h
        /\ \A b, c : Prec(ready, b, c) => c # h
        /\ \A b, c : Prec(ready, b, c) /\ b # h => Prec(u, b, c)
        /\ Has(ready, h)
    BY <1>1, <1>2, HasTail
  <1>4. u \in Seq(CallbackType)
    BY <1>1, TailOfSeq
  <1> HIDE DEF h, u
  <1>5. /\ \A c : Has(u \o t, c) <=> Has(u, c) \/ Has(t, c)
        /\ \A b, c : Prec(u, b, c) \/ (Has(u, b) /\ Has(t, c)) => Prec(u \o t, b, c)
    BY <1>4, HasConcat
  <1>6. ready' = u \o t
    BY DEF u
  <1>7. IsDue(op, w, d)
    BY <1>3 DEF h, IsDue
  <1>8. QED
    BY <1>3, <1>5, <1>6, <1>7 DEF h

LEMMA InitOrder == Init => QInv
  <1> SUFFICES ASSUME Init PROVE QInv
    OBVIOUS
  <1>1. /\ DOMAIN arrival = {} /\ DOMAIN ready = {}
        /\ \A d \in Devices : DOMAIN waiters[d] = {} /\ owner[d] = None
        /\ \A w \in Workers : pc[w] = "out"
    BY DEF Init
  <1>2. \A d \in Devices : DOMAIN Waiting(d) = {}
    BY <1>1 DEF Waiting
  <1>3. /\ \A w : ~Standing(w)
        /\ \A v, w : ~Before(v, w)
        /\ \A op, w, d : ~IsDue(op, w, d)
        /\ \A w : \A d \in Devices : ~WaitsAt(w, d)
    BY <1>1, <1>2 DEF Standing, Before, IsDue, WaitsAt, Has, Prec
  <1>4. StandingInv
    BY <1>1, <1>3 DEF StandingInv
  <1>5. OwnersInv /\ PlaceInv /\ OrderInv
    BY <1>1, <1>3 DEF OwnersInv, PlaceInv, OrderInv
  <1>6. QED
    BY <1>4, <1>5 DEF QInv

(* Steps that move a worker only.                                           *)
LEMMA MoveOrder ==
  ASSUME IInv, QInv, NEW w \in Workers, Enter(w) \/ Left(w) \/ Kill(w)
  PROVE  QInv'
  <1>1. /\ owner' = owner /\ waiters' = waiters /\ ready' = ready /\ arrival' = arrival
        /\ \A x \in Workers : x # w => pc'[x] = pc[x]
        /\ \/ pc'[w] = "dead" \/ (pc[w] = "gathering" /\ pc'[w] = "holding")
           \/ (pc[w] = "freeing" /\ pc'[w] = "out")
    BY DEF Enter, Left, Kill, Goto, lockVars, IInv, TypeOK
  <1>2. /\ \A x : Standing(x)' <=> Standing(x)
        /\ \A x, y : Before(x, y)' <=> Before(x, y)
        /\ \A op, x, d : IsDue(op, x, d)' <=> IsDue(op, x, d)
        /\ \A op, x, y, d : DueFirst(op, x, y, d)' <=> DueFirst(op, x, y, d)
    BY <1>1 DEF Standing, Before, IsDue, DueFirst
  <1>3. /\ \A x, d : WaitsAt(x, d)' <=> WaitsAt(x, d)
        /\ \A x, y, d : WaitsFirst(x, y, d)' <=> WaitsFirst(x, y, d)
    BY <1>1 DEF WaitsAt, WaitsFirst, Waiting
  <1>4. StandingInv /\ OwnersInv /\ PlaceInv /\ OrderInv
    BY DEF QInv
  <1> HIDE DEF Standing, Before, IsDue, DueFirst, WaitsAt, WaitsFirst
  <1>5. \A x \in Workers :
          /\ pc'[x] \in {"asking", "gathering", "holding"} => Standing(x)
          /\ pc'[x] \in {"out", "leaving", "freeing"} => ~Standing(x)
    BY <1>1, <1>4 DEF StandingInv
  <1>6. StandingInv'
    BY <1>1, <1>2, <1>3, <1>4, <1>5 DEF StandingInv
  <1>7. OwnersInv' /\ PlaceInv'
    BY <1>1, <1>2, <1>3, <1>4 DEF OwnersInv, PlaceInv
  <1>8. OrderInv'
    BY <1>1, <1>2, <1>3, <1>4 DEF OrderInv, Further
  <1>9. QED
    BY <1>6, <1>7, <1>8 DEF QInv

LEMMA AskOrder ==
  ASSUME IInv, QInv, NEW w \in Workers, Ask(w)
  PROVE  QInv'
  <1> DEFINE c == Callback("acquire_devices", w, None)
  <1>1. /\ owner' = owner /\ waiters' = waiters
        /\ ready' = Append(ready, c) /\ arrival' = Append(arrival, w)
        /\ pc[w] = "out" /\ pc'[w] = "asking"
        /\ \A x \in Workers : x # w => pc'[x] = pc[x]
    BY DEF Ask, Goto, lockVars, IInv, TypeOK
  <1>2. CallsInv /\ StandingInv /\ OwnersInv /\ PlaceInv /\ OrderInv
    BY CallsOfInv DEF QInv
  <1>3. arrival \in Seq(Workers) /\ ready \in Seq(CallbackType) /\ c \in CallbackType
    BY DEF IInv, TypeOK, CallbackType, Callback, Ops
  <1> HIDE DEF c
  <1>4. /\ \A x : Standing(x)' <=> Standing(x) \/ x = w
        /\ \A x, y : Before(x, y)' <=> Before(x, y) \/ (Standing(x) /\ y = w)
    BY <1>1, <1>3, HasAppend DEF Standing, Before
  <1>5. /\ \A x : Has(ready', x) <=> Has(ready, x) \/ x = c
        /\ \A x, y : Prec(ready', x, y) <=> Prec(ready, x, y) \/ (Has(ready, x) /\ y = c)
    BY <1>1, <1>3, HasAppend
  <1>6. /\ \A op, x, d : IsDue(op, x, d)' <=>
             IsDue(op, x, d) \/ (op = "acquire_devices" /\ x = w /\ d = None)
        /\ \A op, x, y, d : DueFirst(op, x, y, d) => DueFirst(op, x, y, d)'
        /\ \A v : IsDue("acquire_devices", v, None) =>
             DueFirst("acquire_devices", v, w, None)'
    BY <1>5, SameCallback DEF IsDue, DueFirst, c
  <1>7. /\ \A x, d : WaitsAt(x, d)' <=> WaitsAt(x, d)
        /\ \A x, y, d : WaitsFirst(x, y, d)' <=> WaitsFirst(x, y, d)
    BY <1>1 DEF WaitsAt, WaitsFirst, Waiting
  <1>8. \A i, j \in DOMAIN arrival' : arrival'[i] = arrival'[j] => i = j
    <2>1. /\ DOMAIN arrival' = 1..(Len(arrival) + 1) /\ DOMAIN arrival = 1..Len(arrival)
          /\ \A i \in DOMAIN arrival : arrival'[i] = arrival[i]
          /\ arrival'[Len(arrival) + 1] = w
      BY <1>1, <1>3, AppendToSeq
    <2>2. \A i \in DOMAIN arrival : arrival[i] # w
      BY <1>1, <1>2 DEF StandingInv, Standing, Has
    <2>3. \A i \in DOMAIN arrival' : i \in DOMAIN arrival \/ i = Len(arrival) + 1
      BY <1>3, <2>1
    <2>4. QED
      BY <1>2, <2>1, <2>2, <2>3 DEF StandingInv
  <1>9. ~Standing(w) /\ \A v : ~Before(v, w) /\ ~Before(w, v)
    <2>1. ~Standing(w)
      BY <1>1, <1>2 DEF StandingInv
    <2>2. QED
      BY <2>1 DEF Standing, Before, Has, Prec
  <1>10. \A x, y : Before(x, y) => Standing(x) /\ Standing(y)
    BY DEF Standing, Before, Has, Prec
  <1> HIDE DEF Standing, Before, IsDue, DueFirst, WaitsAt, WaitsFirst
  <1>11. /\ \A op \in Ops, d \in Devices \cup {None} : ~IsDue(op, w, d)
         /\ \A d \in Devices : ~WaitsAt(w, d)
    BY <1>1, <1>2, Stages DEF CallsInv
  <1>12. \A d \in Devices : owner[d] # w
    BY <1>2, <1>9, <1>11 DEF OwnersInv, Ops
  <1>13. StandingInv'
    <2>1. \A op \in Ops, x \in Workers, d \in Devices \cup {None} :
            IsDue(op, x, d)' =>
              (Standing(x)' <=> op \in {"acquire_devices", "acquire", "resume"})
      BY <1>2, <1>4, <1>6, <1>11 DEF StandingInv
    <2>2. \A x \in Workers :
            /\ pc'[x] \in {"asking", "gathering", "holding"} => Standing(x)'
            /\ pc'[x] \in {"out", "leaving", "freeing"} => ~Standing(x)'
      BY <1>1, <1>2, <1>4 DEF StandingInv
    <2>3. \A x \in Workers, d \in Devices : WaitsAt(x, d)' => Standing(x)' /\ owner'[d] # x
      BY <1>1, <1>2, <1>4, <1>7 DEF StandingInv
    <2>4. QED
      BY <1>8, <2>1, <2>2, <2>3 DEF StandingInv
  <1>14. OwnersInv'
    BY <1>1, <1>2, <1>4, <1>6 DEF OwnersInv
  <1>15. PlaceInv'
    BY <1>1, <1>2, <1>4, <1>6, <1>7 DEF PlaceInv
  <1>16. OrderInv'
    <2> SUFFICES ASSUME NEW v \in Workers, NEW y \in Workers, Before(v, y)',
                        NEW d \in DevicesOf(v) \cap DevicesOf(y)
                 PROVE  Further(v, y, d)'
      BY DEF OrderInv
    <2>1. d \in Devices
      BY DevicesOfWorker DEF DevicesOfSubset
    <2>2. CASE Before(v, y)
      <3>1. Further(v, y, d) /\ y # w
        BY <1>2, <1>9, <2>2 DEF OrderInv
      <3>2. QED
        BY <1>1, <1>6, <1>7, <3>1 DEF Further
    <2>3. CASE Standing(v) /\ y = w
      <3>1. \/ owner[d] = v \/ WaitsAt(v, d) \/ IsDue("acquire", v, d)
            \/ IsDue("acquire_devices", v, None)
        BY <1>2, <2>3 DEF PlaceInv
      <3>2. ~IsDue("acquire", w, d)' /\ ~WaitsAt(w, d)' /\ owner'[d] # w
        BY <1>1, <1>6, <1>7, <1>11, <1>12, <2>1 DEF Ops
      <3>3. QED
        BY <1>1, <1>6, <1>7, <2>3, <3>1, <3>2 DEF Further
    <2>4. QED
      BY <1>4, <2>2, <2>3
  <1>17. QED
    BY <1>13, <1>14, <1>15, <1>16 DEF QInv

LEMMA LeaveOrder ==
  ASSUME IInv, QInv, NEW w \in Workers, Leave(w)
  PROVE  QInv'
  <1> DEFINE c == Callback("release_devices", w, None)
  <1>1. /\ owner' = owner /\ waiters' = waiters /\ ready' = Append(ready, c)
        /\ pc[w] = "holding" /\ pc'[w] = "leaving"
        /\ \A x \in Workers : x # w => pc'[x] = pc[x]
    BY DEF Leave, Goto, lockVars, IInv, TypeOK
  <1>2. CallsInv /\ StandingInv /\ OwnersInv /\ PlaceInv /\ OrderInv
    BY CallsOfInv DEF QInv
  <1>3. arrival \in Seq(Workers) /\ ready \in Seq(CallbackType) /\ c \in CallbackType
    BY DEF IInv, TypeOK, CallbackType, Callback, Ops
  <1> HIDE DEF c
  <1>4. PICK k \in DOMAIN arrival : arrival[k] = w /\ arrival' = RemoveAt(arrival, k)
    BY DEF Leave
  <1>5. k \in 1..Len(arrival) /\ \A i \in DOMAIN arrival : arrival[i] = arrival[k] => i = k
    BY <1>2, <1>3 DEF StandingInv
  <1>6. /\ \A x : Standing(x)' <=> Standing(x) /\ x # w
        /\ \A x, y : Before(x, y)' => Before(x, y)
    <2>1. /\ \A x : Has(RemoveAt(arrival, k), x) <=> Has(arrival, x) /\ x # arrival[k]
          /\ \A x, y : Prec(RemoveAt(arrival, k), x, y) => Prec(arrival, x, y)
      BY <1>3, <1>5, HasRemoveAt
    <2>2. QED
      BY <1>4, <2>1 DEF Standing, Before
  <1>7. \A i, j \in DOMAIN arrival' : arrival'[i] = arrival'[j] => i = j
    <2>1. /\ DOMAIN arrival' = 1..(Len(arrival) - 1) /\ DOMAIN arrival = 1..Len(arrival)
          /\ Len(arrival) \in Nat
          /\ \A i \in 1..(Len(arrival) - 1) :
               arrival'[i] = IF i < k THEN arrival[i] ELSE arrival[i + 1]
      BY <1>3, <1>4, <1>5, RemoveAtSeq
    <2>2. \A i, j \in 1..Len(arrival) : arrival[i] = arrival[j] => i = j
      BY <1>2, <2>1 DEF StandingInv
    <2>3. QED
      BY <1>5, <2>1, <2>2
  <1>8. /\ \A x : Has(ready', x) <=> Has(ready, x) \/ x = c
        /\ \A x, y : Prec(ready', x, y) <=> Prec(ready, x, y) \/ (Has(ready, x) /\ y = c)
    BY <1>1, <1>3, HasAppend
  <1>9. /\ \A op, x, d : IsDue(op, x, d)' <=>
             IsDue(op, x, d) \/ (op = "release_devices" /\ x = w /\ d = None)
        /\ \A op, x, y, d : DueFirst(op, x, y, d) => DueFirst(op, x, y, d)'
    BY <1>8, SameCallback DEF IsDue, DueFirst, c
  <1>10. /\ \A x, d : WaitsAt(x, d)' <=> WaitsAt(x, d)
         /\ \A x, y, d : WaitsFirst(x, y, d)' <=> WaitsFirst(x, y, d)
    BY <1>1 DEF WaitsAt, WaitsFirst, Waiting
  <1>11. \A x, y : Before(x, y)' => Standing(x)' /\ Standing(y)'
    BY DEF Standing, Before, Has, Prec
  <1> HIDE DEF Standing, Before, IsDue, DueFirst, WaitsAt, WaitsFirst
  <1>12. /\ \A op \in Ops, d \in Devices \cup {None} : ~IsDue(op, w, d)
         /\ \A d \in Devices : ~WaitsAt(w, d)
    BY <1>1, <1>2, Stages DEF CallsInv
  <1>13. StandingInv'
    <2>1. \A op \in Ops, x \in Workers, d \in Devices \cup {None} :
            IsDue(op, x, d)' =>
              (Standing(x)' <=> op \in {"acquire_devices", "acquire", "resume"})
      BY <1>2, <1>6, <1>9, <1>12 DEF StandingInv
    <2>2. \A x \in Workers :
            /\ pc'[x] \in {"asking", "gathering", "holding"} => Standing(x)'
            /\ pc'[x] \in {"out", "leaving", "freeing"} => ~Standing(x)'
      BY <1>1, <1>2, <1>6 DEF StandingInv
    <2>3. \A x \in Workers, d \in Devices : WaitsAt(x, d)' => Standing(x)' /\ owner'[d] # x
      BY <1>1, <1>2, <1>6, <1>10, <1>12 DEF StandingInv
    <2>4. QED
      BY <1>7, <2>1, <2>2, <2>3 DEF StandingInv
  <1>14. OwnersInv'
    BY <1>1, <1>2, <1>6, <1>9 DEF OwnersInv
  <1>15. PlaceInv'
    BY <1>1, <1>2, <1>6, <1>9, <1>10 DEF PlaceInv
  <1>16. OrderInv'
    <2> SUFFICES ASSUME NEW v \in Workers, NEW y \in Workers, Before(v, y)',
                        NEW d \in DevicesOf(v) \cap DevicesOf(y)
                 PROVE  Further(v, y, d)'
      BY DEF OrderInv
    <2>1. Further(v, y, d) /\ y # w
      BY <1>2, <1>6, <1>11 DEF OrderInv
    <2>2. QED
      BY <1>1, <1>9, <1>10, <2>1 DEF Further
  <1>17. QED
    BY <1>13, <1>14, <1>15, <1>16 DEF QInv

(* The children of a gather are one callback for each device of the worker. *)
LEMMA GatherHas ==
  ASSUME NEW op \in Ops, NEW w \in Workers
  PROVE  /\ Gather(op, w) \in Seq(CallbackType)
         /\ \A o, x, d : Has(Gather(op, w), Callback(o, x, d)) <=>
                           o = op /\ x = w /\ d \in DevicesOf(w)
  <1>1. Gather(op, w) \in Seq(CallbackType) /\ DOMAIN Gather(op, w) = 1..Len(Accel[w])
    BY GatherTasks
  <1>2. \A i \in 1..Len(Accel[w]) : Gather(op, w)[i] = Callback(op, w, Accel[w][i])
    BY DEF Gather
  <1>3. ASSUME NEW o, NEW x, NEW d
        PROVE  Has(Gather(op, w), Callback(o, x, d)) <=> o = op /\ x = w /\ d \in DevicesOf(w)
    <2>1. Has(Gather(op, w), Callback(o, x, d)) <=>
            \E i \in 1..Len(Accel[w]) : Callback(op, w, Accel[w][i]) = Callback(o, x, d)
      BY <1>1, <1>2 DEF Has
    <2>2. QED
      BY <2>1, SameCallback DEF DevicesOf
  <1>4. QED
    BY <1>1, <1>3

LEMMA AcquireDevicesOrder ==
  ASSUME IInv, QInv, NEW w \in Workers, AcquireDevices(w)
  PROVE  QInv'
  <1>1. /\ owner' = owner /\ waiters' = waiters /\ arrival' = arrival
        /\ ready' = Tail(ready) \o Gather("acquire", w)
        /\ Due("acquire_devices", w, None)
        /\ pc'[w] \in {"gathering", "dead"}
        /\ \A x \in Workers : x # w => pc'[x] = pc[x]
    BY DEF AcquireDevices, Await, lockVars, IInv, TypeOK
  <1>2. CallsInv /\ StandingInv /\ OwnersInv /\ PlaceInv /\ OrderInv
    BY CallsOfInv DEF QInv
  <1>3. "acquire" \in Ops /\ "acquire_devices" \in Ops /\ None \in Devices \cup {None}
    BY DEF Ops
  <1>4. /\ Gather("acquire", w) \in Seq(CallbackType)
        /\ \A o, x, d : Has(Gather("acquire", w), Callback(o, x, d)) <=>
                          o = "acquire" /\ x = w /\ d \in DevicesOf(w)
    BY <1>3, GatherHas
  <1> DEFINE t == Gather("acquire", w)
             c == Callback("acquire_devices", w, None)
  <1> HIDE DEF t
  <1>5. t \in Seq(CallbackType) /\ ready' = Tail(ready) \o t
    BY <1>1, <1>4 DEF t
  <1>6. /\ IsDue("acquire_devices", w, None)
        /\ \A x : Has(ready', x) <=> (Has(ready, x) /\ x # c) \/ Has(t, x)
        /\ \A x, y : Prec(ready, x, y) => y # c
        /\ \A x, y : Prec(ready, x, y) /\ x # c => Prec(ready', x, y)
        /\ \A x, y : Has(ready, x) /\ x # c /\ Has(t, y) => Prec(ready', x, y)
    BY <1>1, <1>3, <1>5, HeadRuns
  <1>7. /\ \A op, x, d : IsDue(op, x, d)' <=>
             \/ IsDue(op, x, d) /\ ~(op = "acquire_devices" /\ x = w /\ d = None)
             \/ op = "acquire" /\ x = w /\ d \in DevicesOf(w)
        /\ \A x, y, d : DueFirst("acquire", x, y, d) => DueFirst("acquire", x, y, d)'
        /\ \A x, y : DueFirst("acquire_devices", x, y, None) =>
             y # w /\ (x # w => DueFirst("acquire_devices", x, y, None)')
        /\ \A x, d : IsDue("acquire", x, d) /\ d \in DevicesOf(w) =>
             DueFirst("acquire", x, w, d)'
    <2>1. \A op, x, d : IsDue(op, x, d)' <=>
             \/ IsDue(op, x, d) /\ ~(op = "acquire_devices" /\ x = w /\ d = None)
             \/ op = "acquire" /\ x = w /\ d \in DevicesOf(w)
      BY <1>4, <1>6, SameCallback DEF IsDue, t, c
    <2>2. \A x, y, d : DueFirst("acquire", x, y, d) => DueFirst("acquire", x, y, d)'
      BY <1>6, SameCallback DEF DueFirst, c
    <2>3. \A x, y : DueFirst("acquire_devices", x, y, None) =>
             y # w /\ (x # w => DueFirst("acquire_devices", x, y, None)')
      BY <1>6, SameCallback DEF DueFirst, c
    <2>4. ASSUME NEW x, NEW d, IsDue("acquire", x, d), d \in DevicesOf(w)
          PROVE  DueFirst("acquire", x, w, d)'
      <3>1. Has(ready, Callback("acquire", x, d)) /\ Callback("acquire", x, d) # c
        BY <2>4, SameCallback DEF IsDue, c
      <3>2. Has(t, Callback("acquire", w, d))
        BY <1>4, <2>4 DEF t
      <3>3. QED
        BY <1>6, <3>1, <3>2 DEF DueFirst
    <2>5. QED
      BY <2>1, <2>2, <2>3, <2>4
  <1>8. /\ \A x : Standing(x)' <=> Standing(x)
        /\ \A x, y : Before(x, y)' <=> Before(x, y)
        /\ \A x, d : WaitsAt(x, d)' <=> WaitsAt(x, d)
        /\ \A x, y, d : WaitsFirst(x, y, d)' <=> WaitsFirst(x, y, d)
    BY <1>1 DEF Standing, Before, WaitsAt, WaitsFirst, Waiting
  <1> HIDE DEF Standing, Before, IsDue, DueFirst, WaitsAt, WaitsFirst
  <1>9. Standing(w)
    BY <1>2, <1>3, <1>6 DEF StandingInv
  <1>10. StandingInv'
    <2>1. \A op \in Ops, x \in Workers, d \in Devices \cup {None} :
            IsDue(op, x, d)' =>
              (Standing(x)' <=> op \in {"acquire_devices", "acquire", "resume"})
      BY <1>2, <1>7, <1>8, <1>9 DEF StandingInv
    <2>2. \A x \in Workers :
            /\ pc'[x] \in {"asking", "gathering", "holding"} => Standing(x)'
            /\ pc'[x] \in {"out", "leaving", "freeing"} => ~Standing(x)'
      BY <1>1, <1>2, <1>8, <1>9 DEF StandingInv
    <2>3. /\ \A x \in Workers, d \in Devices : WaitsAt(x, d)' => Standing(x)' /\ owner'[d] # x
          /\ \A i, j \in DOMAIN arrival' : arrival'[i] = arrival'[j] => i = j
      BY <1>1, <1>2, <1>8 DEF StandingInv
    <2>4. QED
      BY <2>1, <2>2, <2>3 DEF StandingInv
  <1>11. OwnersInv'
    BY <1>1, <1>2, <1>7, <1>8 DEF OwnersInv
  <1>12. PlaceInv'
    BY <1>1, <1>2, <1>7, <1>8 DEF PlaceInv
  <1>13. OrderInv'
    <2> SUFFICES ASSUME NEW v \in Workers, NEW y \in Workers, Before(v, y)',
                        NEW d \in DevicesOf(v) \cap DevicesOf(y)
                 PROVE  Further(v, y, d)'
      BY DEF OrderInv
    <2>1. Further(v, y, d)
      BY <1>2, <1>8 DEF OrderInv
    <2>2. IsDue("acquire", y, d)' =>
            owner'[d] = v \/ WaitsAt(v, d)' \/ DueFirst("acquire", v, y, d)'
      BY <1>1, <1>6, <1>7, <1>8, <2>1 DEF Further
    <2>3. IsDue("acquire_devices", y, None)' =>
            owner'[d] = v \/ WaitsAt(v, d)' \/ IsDue("acquire", v, d)'
              \/ DueFirst("acquire_devices", v, y, None)'
      BY <1>1, <1>7, <1>8, <2>1 DEF Further
    <2>4. QED
      BY <1>1, <1>8, <2>1, <2>2, <2>3 DEF Further
  <1>14. QED
    BY <1>10, <1>11, <1>12, <1>13 DEF QInv

LEMMA ReleaseDevicesOrder ==
  ASSUME IInv, QInv, NEW w \in Workers, ReleaseDevices(w)
  PROVE  QInv'
  <1>1. /\ owner' = owner /\ waiters' = waiters /\ arrival' = arrival
        /\ ready' = Tail(ready) \o Gather("release", w)
        /\ Due("release_devices", w, None)
        /\ pc'[w] \in {"freeing", "dead"}
        /\ \A x \in Workers : x # w => pc'[x] = pc[x]
    BY DEF ReleaseDevices, Await, lockVars, IInv, TypeOK
  <1>2. CallsInv /\ StandingInv /\ OwnersInv /\ PlaceInv /\ OrderInv
    BY CallsOfInv DEF QInv
  <1>3. "release" \in Ops /\ "release_devices" \in Ops /\ None \in Devices \cup {None}
    BY DEF Ops
  <1>4. /\ Gather("release", w) \in Seq(CallbackType)
        /\ \A o, x, d : Has(Gather("release", w), Callback(o, x, d)) <=>
                          o = "release" /\ x = w /\ d \in DevicesOf(w)
    BY <1>3, GatherHas
  <1> DEFINE t == Gather("release", w)
             c == Callback("release_devices", w, None)
  <1> HIDE DEF t
  <1>5. t \in Seq(CallbackType) /\ ready' = Tail(ready) \o t
    BY <1>1, <1>4 DEF t
  <1>6. /\ IsDue("release_devices", w, None)
        /\ \A x : Has(ready', x) <=> (Has(ready, x) /\ x # c) \/ Has(t, x)
        /\ \A x, y : Prec(ready, x, y) /\ x # c => Prec(ready', x, y)
    BY <1>1, <1>3, <1>5, HeadRuns
  <1>7. /\ \A op, x, d : IsDue(op, x, d)' <=>
             \/ IsDue(op, x, d) /\ ~(op = "release_devices" /\ x = w /\ d = None)
             \/ op = "release" /\ x = w /\ d \in DevicesOf(w)
        /\ \A op, x, y, d : op # "release_devices" /\ DueFirst(op, x, y, d) =>
             DueFirst(op, x, y, d)'
    <2>1. \A op, x, d : IsDue(op, x, d)' <=>
             \/ IsDue(op, x, d) /\ ~(op = "release_devices" /\ x = w /\ d = None)
             \/ op = "release" /\ x = w /\ d \in DevicesOf(w)
      BY <1>4, <1>6, SameCallback DEF IsDue, t, c
    <2>2. \A op, x, y, d : op # "release_devices" /\ DueFirst(op, x, y, d) =>
             DueFirst(op, x, y, d)'
      BY <1>6, SameCallback DEF DueFirst, c
    <2>3. QED
      BY <2>1, <2>2
  <1>8. /\ \A x : Standing(x)' <=> Standing(x)
        /\ \A x, y : Before(x, y)' <=> Before(x, y)
        /\ \A x, d : WaitsAt(x, d)' <=> WaitsAt(x, d)
        /\ \A x, y, d : WaitsFirst(x, y, d)' <=> WaitsFirst(x, y, d)
    BY <1>1 DEF Standing, Before, WaitsAt, WaitsFirst, Waiting
  <1> HIDE DEF Standing, Before, IsDue, DueFirst, WaitsAt, WaitsFirst
  <1>9. ~Standing(w)
    BY <1>2, <1>3, <1>6 DEF StandingInv
  <1>10. StandingInv'
    <2>1. \A op \in Ops, x \in Workers, d \in Devices \cup {None} :
            IsDue(op, x, d)' =>
              (Standing(x)' <=> op \in {"acquire_devices", "acquire", "resume"})
      BY <1>2, <1>7, <1>8, <1>9 DEF StandingInv
    <2>2. \A x \in Workers :
            /\ pc'[x] \in {"asking", "gathering", "holding"} => Standing(x)'
            /\ pc'[x] \in {"out", "leaving", "freeing"} => ~Standing(x)'
      BY <1>1, <1>2, <1>8, <1>9 DEF StandingInv
    <2>3. /\ \A x \in Workers, d \in Devices : WaitsAt(x, d)' => Standing(x)' /\ owner'[d] # x
          /\ \A i, j \in DOMAIN arrival' : arrival'[i] = arrival'[j] => i = j
      BY <1>1, <1>2, <1>8 DEF StandingInv
    <2>4. QED
      BY <2>1, <2>2, <2>3 DEF StandingInv
  <1>11. OwnersInv'
    BY <1>1, <1>2, <1>7, <1>8 DEF OwnersInv
  <1>12. PlaceInv'
    BY <1>1, <1>2, <1>7, <1>8 DEF PlaceInv
  <1>13. OrderInv'
    BY <1>1, <1>2, <1>7, <1>8 DEF OrderInv, Further
  <1>14. QED
    BY <1>10, <1>11, <1>12, <1>13 DEF QInv

(* The same when the head puts nothing at the end.                          *)
LEMMA HeadTaken ==
  ASSUME IInv, NEW op \in Ops, NEW w \in Workers, NEW d \in Devices \cup {None},
         Due(op, w, d), ready' = Tail(ready)
  PROVE  /\ IsDue(op, w, d)
         /\ \A c : Has(ready', c) <=> Has(ready, c) /\ c # Callback(op, w, d)
         /\ \A b, c : Prec(ready, b, c) => c # Callback(op, w, d)
         /\ \A b, c : Prec(ready, b, c) /\ b # Callback(op, w, d) => Prec(ready', b, c)
  <1> DEFINE t == <<>>
  <1>1. Tail(ready) \in Seq(CallbackType)
    BY DueFacts
  <1>2. Tail(ready) = Tail(ready) \o t
    BY <1>1
  <1>3. t \in Seq(CallbackType) /\ \A c : ~Has(t, c)
    BY DEF Has
  <1> HIDE DEF t
  <1>4. ready' = Tail(ready) \o t
    BY <1>2
  <1>5. /\ IsDue(op, w, d)
        /\ \A c : Has(ready', c) <=> (Has(ready, c) /\ c # Callback(op, w, d)) \/ Has(t, c)
        /\ \A b, c : Prec(ready, b, c) => c # Callback(op, w, d)
        /\ \A b, c : Prec(ready, b, c) /\ b # Callback(op, w, d) => Prec(ready', b, c)
    BY <1>3, <1>4, HeadRuns
  <1>6. QED
    BY <1>3, <1>5

LEMMA AcquireOrder ==
  ASSUME IInv, QInv, NEW w \in Workers, NEW d \in Devices, Acquire(w, d)
  PROVE  QInv'
  <1>1. /\ pc' = pc /\ arrival' = arrival /\ ready' = Tail(ready)
        /\ Due("acquire", w, d)
        /\ \A e \in Devices : e # d => owner'[e] = owner[e] /\ waiters'[e] = waiters[e]
        /\ \/ /\ owner[d] = w /\ owner'[d] = owner[d] /\ waiters'[d] = waiters[d]
           \/ /\ owner[d] # w /\ owner[d] = None /\ waiters[d] = <<>>
              /\ owner'[d] = w /\ waiters'[d] = waiters[d]
           \/ /\ owner[d] # w /\ owner'[d] = owner[d]
              /\ waiters'[d] = Append(waiters[d], [w |-> w, done |-> FALSE])
    BY DEF Acquire, FreeForAll, TakeLock, lockVars, IInv, TypeOK, OwnerInv
  <1>2. CallsInv /\ StandingInv /\ OwnersInv /\ PlaceInv /\ OrderInv
    BY CallsOfInv DEF QInv
  <1>3. "acquire" \in Ops /\ d \in Devices \cup {None}
    BY DEF Ops
  <1> DEFINE c == Callback("acquire", w, d)
  <1>4. /\ IsDue("acquire", w, d)
        /\ \A x : Has(ready', x) <=> Has(ready, x) /\ x # c
        /\ \A x, y : Prec(ready, x, y) => y # c
        /\ \A x, y : Prec(ready, x, y) /\ x # c => Prec(ready', x, y)
    BY <1>1, <1>3, HeadTaken
  <1> HIDE DEF c
  <1>5. /\ \A op, x, e : IsDue(op, x, e)' <=>
             IsDue(op, x, e) /\ ~(op = "acquire" /\ x = w /\ e = d)
        /\ \A x, y, e : DueFirst("acquire", x, y, e) =>
             /\ ~(y = w /\ e = d)
             /\ ~(x = w /\ e = d) => DueFirst("acquire", x, y, e)'
        /\ \A x, y, e : DueFirst("acquire_devices", x, y, e) =>
             DueFirst("acquire_devices", x, y, e)'
    <2>1. \A op, x, e : IsDue(op, x, e)' <=>
             IsDue(op, x, e) /\ ~(op = "acquire" /\ x = w /\ e = d)
      BY <1>4, SameCallback DEF IsDue, c
    <2>2. \A x, y, e : DueFirst("acquire", x, y, e) =>
             /\ ~(y = w /\ e = d)
             /\ ~(x = w /\ e = d) => DueFirst("acquire", x, y, e)'
      BY <1>4, SameCallback DEF DueFirst, c
    <2>3. \A x, y, e : DueFirst("acquire_devices", x, y, e) =>
             DueFirst("acquire_devices", x, y, e)'
      BY <1>4, SameCallback DEF DueFirst, c
    <2>4. QED
      BY <2>1, <2>2, <2>3
  <1>6. /\ \A x : Standing(x)' <=> Standing(x)
        /\ \A x, y : Before(x, y)' <=> Before(x, y)
    BY <1>1 DEF Standing, Before
  <1>7. \A e \in Devices : e # d =>
          /\ \A x : WaitsAt(x, e)' <=> WaitsAt(x, e)
          /\ \A x, y : WaitsFirst(x, y, e)' <=> WaitsFirst(x, y, e)
    BY <1>1 DEF WaitsAt, WaitsFirst, Waiting
  <1>8. /\ waiters'[d] = waiters[d] =>
             /\ \A x : WaitsAt(x, d)' <=> WaitsAt(x, d)
             /\ \A x, y : WaitsFirst(x, y, d)' <=> WaitsFirst(x, y, d)
        /\ waiters[d] = <<>> => \A x : ~WaitsAt(x, d)
    <2>1. waiters'[d] = waiters[d] =>
            /\ \A x : WaitsAt(x, d)' <=> WaitsAt(x, d)
            /\ \A x, y : WaitsFirst(x, y, d)' <=> WaitsFirst(x, y, d)
      BY DEF WaitsAt, WaitsFirst, Waiting
    <2>2. waiters[d] = <<>> => DOMAIN Waiting(d) = {}
      BY DEF Waiting
    <2>3. QED
      BY <2>1, <2>2 DEF WaitsAt, Has
  <1>9. ASSUME waiters'[d] = Append(waiters[d], [w |-> w, done |-> FALSE])
        PROVE  /\ \A x : WaitsAt(x, d)' <=> WaitsAt(x, d) \/ x = w
               /\ \A x, y : WaitsFirst(x, y, d)' <=>
                              WaitsFirst(x, y, d) \/ (WaitsAt(x, d) /\ y = w)
    <2>1. /\ Waiting(d) \in Seq(Workers) /\ Len(Waiting(d)) = Len(waiters[d])
          /\ DOMAIN Waiting(d) = 1..Len(waiters[d])
          /\ \A k \in 1..Len(waiters[d]) : Waiting(d)[k] = waiters[d][k].w
          /\ waiters[d] \in Seq(WaiterType) /\ [w |-> w, done |-> FALSE] \in WaiterType
      BY WaitingIs, Types DEF IInv, WaiterType
    <2>2. /\ DOMAIN (waiters'[d]) = 1..(Len(waiters[d]) + 1)
          /\ \A k \in 1..Len(waiters[d]) : waiters'[d][k] = waiters[d][k]
          /\ waiters'[d][Len(waiters[d]) + 1] = [w |-> w, done |-> FALSE]
      BY <1>9, <2>1, AppendToSeq
    <2>3. /\ DOMAIN (Append(Waiting(d), w)) = 1..(Len(waiters[d]) + 1)
          /\ \A k \in 1..Len(waiters[d]) : Append(Waiting(d), w)[k] = waiters[d][k].w
          /\ Append(Waiting(d), w)[Len(waiters[d]) + 1] = w
          /\ Append(Waiting(d), w) \in Seq(Workers) /\ Len(waiters[d]) \in Nat
      BY <2>1, AppendToSeq
    <2>4. Waiting(d)' = [k \in 1..(Len(waiters[d]) + 1) |-> waiters'[d][k].w]
      BY <2>2 DEF Waiting
    <2>5. Waiting(d)' = Append(Waiting(d), w)
      <3>1. \A k \in 1..(Len(waiters[d]) + 1) :
              k \in 1..Len(waiters[d]) \/ k = Len(waiters[d]) + 1
        BY <2>3
      <3>2. \A k \in 1..(Len(waiters[d]) + 1) : waiters'[d][k].w = Append(Waiting(d), w)[k]
        BY <2>2, <2>3, <3>1
      <3>3. Append(Waiting(d), w) =
              [k \in 1..(Len(waiters[d]) + 1) |-> Append(Waiting(d), w)[k]]
        BY <2>3, SeqIsItsEntries
      <3>4. QED
        BY <2>4, <3>2, <3>3
    <2>6. QED
      BY <2>1, <2>5, HasAppend DEF WaitsAt, WaitsFirst
  <1> HIDE DEF Standing, Before, IsDue, DueFirst, WaitsAt, WaitsFirst
  <1>10. Standing(w) /\ d \in DevicesOf(w)
    BY <1>2, <1>3, <1>4 DEF StandingInv, CallsInv, ChildOps
  <1>11. /\ \A i, j \in DOMAIN arrival' : arrival'[i] = arrival'[j] => i = j
         /\ \A x \in Workers :
              /\ pc'[x] \in {"asking", "gathering", "holding"} => Standing(x)'
              /\ pc'[x] \in {"out", "leaving", "freeing"} => ~Standing(x)'
         /\ \A op \in Ops, x \in Workers, e \in Devices \cup {None} :
              IsDue(op, x, e)' =>
                (Standing(x)' <=> op \in {"acquire_devices", "acquire", "resume"})
    BY <1>1, <1>2, <1>5, <1>6 DEF StandingInv
  <1>12. \A x \in Workers : ~WaitsFirst(x, w, d) /\ ~WaitsAt(w, d)
    <2>1. ~WaitsAt(w, d)
      BY <1>2, <1>3, <1>4 DEF CallsInv
    <2>2. QED
      BY <2>1 DEF WaitsAt, WaitsFirst, Has, Prec
  (* Nothing changes at the other devices. *)
  <1>13. ASSUME NEW v \in Workers, NEW y \in Workers, Before(v, y),
                NEW e \in DevicesOf(v) \cap DevicesOf(y), e # d
         PROVE  Further(v, y, e)'
    <2>1. e \in Devices /\ Further(v, y, e)
      BY <1>2, <1>13, DevicesOfWorker DEF DevicesOfSubset, OrderInv
    <2>2. QED
      BY <1>1, <1>5, <1>7, <1>13, <2>1 DEF Further
  <1>14. ASSUME \A x \in Workers : WaitsAt(x, d)' => Standing(x)' /\ owner'[d] # x,
                \A x \in Workers : owner'[d] = x =>
                  /\ d \in DevicesOf(x)
                  /\ Standing(x) \/ IsDue("release_devices", x, None) \/ IsDue("release", x, d),
                \A x \in Workers : Standing(x) /\ d \in DevicesOf(x) =>
                  owner'[d] = x \/ WaitsAt(x, d)' \/ IsDue("acquire", x, d)'
                    \/ IsDue("acquire_devices", x, None)',
                \A v, y \in Workers : Before(v, y) /\ d \in DevicesOf(v) \cap DevicesOf(y)
                  => Further(v, y, d)'
         PROVE  QInv'
    <2>1. StandingInv'
      BY <1>1, <1>2, <1>6, <1>7, <1>11, <1>14 DEF StandingInv
    <2>2. OwnersInv'
      BY <1>1, <1>2, <1>5, <1>6, <1>14 DEF OwnersInv
    <2>3. PlaceInv'
      <3> SUFFICES ASSUME NEW x \in Workers, Standing(x)', NEW e \in DevicesOf(x)
                   PROVE  owner'[e] = x \/ WaitsAt(x, e)' \/ IsDue("acquire", x, e)'
                            \/ IsDue("acquire_devices", x, None)'
        BY DEF PlaceInv
      <3>1. e \in Devices
        BY DevicesOfWorker DEF DevicesOfSubset
      <3>2. CASE e # d
        BY <1>1, <1>2, <1>5, <1>6, <1>7, <3>1, <3>2 DEF PlaceInv
      <3>3. QED
        BY <1>6, <1>14, <3>2
    <2>4. OrderInv'
      BY <1>6, <1>13, <1>14 DEF OrderInv
    <2>5. QED
      BY <2>1, <2>2, <2>3, <2>4 DEF QInv
  <1>15. \A v, y \in Workers : Before(v, y) /\ d \in DevicesOf(v) \cap DevicesOf(y) =>
           Further(v, y, d)
    BY <1>2 DEF OrderInv
  <1>16. \A x \in Workers : Standing(x) /\ d \in DevicesOf(x) =>
           owner[d] = x \/ WaitsAt(x, d) \/ IsDue("acquire", x, d)
             \/ IsDue("acquire_devices", x, None)
    BY <1>2 DEF PlaceInv
  <1>17. /\ \A x \in Workers : WaitsAt(x, d) => Standing(x) /\ owner[d] # x
    BY <1>2 DEF StandingInv
  <1>18. CASE owner[d] = w /\ owner'[d] = owner[d] /\ waiters'[d] = waiters[d]
    <2>1. \A x \in Workers : WaitsAt(x, d)' => Standing(x)' /\ owner'[d] # x
      BY <1>6, <1>8, <1>17, <1>18
    <2>2. \A x \in Workers : owner'[d] = x => d \in DevicesOf(x) /\ Standing(x)
      BY <1>10, <1>18
    <2>3. \A x \in Workers : Standing(x) /\ d \in DevicesOf(x) =>
            owner'[d] = x \/ WaitsAt(x, d)' \/ IsDue("acquire", x, d)'
              \/ IsDue("acquire_devices", x, None)'
      BY <1>5, <1>8, <1>16, <1>18
    <2>4. \A v, y \in Workers : Before(v, y) /\ d \in DevicesOf(v) \cap DevicesOf(y) =>
            Further(v, y, d)'
      BY <1>5, <1>8, <1>15, <1>18 DEF Further
    <2>5. QED
      BY <1>14, <2>1, <2>2, <2>3, <2>4
  <1>19. CASE /\ owner[d] = None /\ waiters[d] = <<>>
              /\ owner'[d] = w /\ waiters'[d] = waiters[d]
    <2>1. \A x \in Workers : ~WaitsAt(x, d)' /\ ~WaitsAt(x, d)
      BY <1>8, <1>19
    <2>2. \A x \in Workers : owner'[d] = x => d \in DevicesOf(x) /\ Standing(x)
      BY <1>10, <1>19
    <2>3. \A x \in Workers : Standing(x) /\ d \in DevicesOf(x) =>
            owner'[d] = x \/ WaitsAt(x, d)' \/ IsDue("acquire", x, d)'
              \/ IsDue("acquire_devices", x, None)'
      BY <1>5, <1>16, <1>19, <2>1
    <2>4. ASSUME NEW v \in Workers, NEW y \in Workers, Before(v, y),
                 d \in DevicesOf(v) \cap DevicesOf(y)
          PROVE  Further(v, y, d)'
      <3>1. Further(v, y, d)
        BY <1>15, <2>4
      <3>2. y # w
        BY <1>4, <1>5, <1>19, <2>1, <3>1 DEF Further
      <3>3. QED
        BY <1>5, <1>19, <2>1, <3>1, <3>2 DEF Further
    <2>5. QED
      BY <1>14, <2>1, <2>2, <2>3, <2>4
  <1>20. CASE /\ owner[d] # w /\ owner'[d] = owner[d]
              /\ waiters'[d] = Append(waiters[d], [w |-> w, done |-> FALSE])
    <2>0. /\ \A x : WaitsAt(x, d)' <=> WaitsAt(x, d) \/ x = w
          /\ \A x, y : WaitsFirst(x, y, d)' <=>
                         WaitsFirst(x, y, d) \/ (WaitsAt(x, d) /\ y = w)
      BY <1>9, <1>20
    <2>1. \A x \in Workers : WaitsAt(x, d)' => Standing(x)' /\ owner'[d] # x
      BY <1>6, <1>10, <1>17, <1>20, <2>0
    <2>2. \A x \in Workers : owner'[d] = x =>
            /\ d \in DevicesOf(x)
            /\ Standing(x) \/ IsDue("release_devices", x, None) \/ IsDue("release", x, d)
      BY <1>2, <1>20 DEF OwnersInv
    <2>3. \A x \in Workers : Standing(x) /\ d \in DevicesOf(x) =>
            owner'[d] = x \/ WaitsAt(x, d)' \/ IsDue("acquire", x, d)'
              \/ IsDue("acquire_devices", x, None)'
      BY <1>5, <1>16, <1>20, <2>0
    <2>4. ASSUME NEW v \in Workers, NEW y \in Workers, Before(v, y),
                 d \in DevicesOf(v) \cap DevicesOf(y)
          PROVE  Further(v, y, d)'
      <3>1. Further(v, y, d)
        BY <1>15, <2>4
      <3>2. CASE y = w
        <4>1. owner[d] = v \/ WaitsAt(v, d)
          BY <1>4, <1>5, <3>1, <3>2 DEF Further
        <4>2. QED
          BY <1>5, <1>20, <2>0, <3>1, <3>2, <4>1 DEF Further
      <3>3. CASE y # w
        BY <1>5, <1>20, <2>0, <3>1, <3>3 DEF Further
      <3>4. QED
        BY <3>2, <3>3
    <2>5. QED
      BY <1>14, <2>1, <2>2, <2>3, <2>4
  <1>21. QED
    BY <1>1, <1>18, <1>19, <1>20

LEMMA ResumeOrder ==
  ASSUME IInv, QInv, NEW w \in Workers, NEW d \in Devices, Resume(w, d)
  PROVE  QInv'
  <1>0. /\ waiters[d] # <<>> /\ waiters[d][1] = [w |-> w, done |-> TRUE]
        /\ 1 \in DOMAIN waiters[d] /\ waiters[d] \in Seq(WaiterType)
        /\ \A k \in DOMAIN waiters[d] : waiters[d][k].w = w => k = 1
        /\ owner[d] = None
    <2>1. "resume" \in Ops /\ d \in Devices \cup {None} /\ Due("resume", w, d)
      BY DEF Ops, Resume
    <2>2. 1 \in DOMAIN ready /\ ready[1] = [op |-> "resume", w |-> w, d |-> d]
      BY <2>1, DueFacts
    <2>3. ready[1].op = "resume" /\ ready[1].w = w /\ ready[1].d = d
      BY <2>2
    <2>4. waiters[d] # <<>> /\ waiters[d][1] = [w |-> w, done |-> TRUE]
      BY <2>2, <2>3 DEF IInv, ResumeInv
    <2>5. waiters[d] \in Seq(WaiterType) /\ DOMAIN waiters[d] = 1..Len(waiters[d])
      BY Types DEF IInv
    <2>6. 1 \in DOMAIN waiters[d]
      BY <2>4, <2>5
    <2>7. waiters[d][1].w = w /\ waiters[d][1].done
      BY <2>4
    <2>8. \A k \in DOMAIN waiters[d] : waiters[d][k].w = w => k = 1
      BY <2>6, <2>7 DEF IInv, WaitOnceInv
    <2>9. owner[d] = None
      BY <2>6, <2>7 DEF IInv, WokenInv, OwnerInv
    <2>10. QED
      BY <2>4, <2>5, <2>6, <2>8, <2>9
  <1>1. /\ pc' = pc /\ arrival' = arrival /\ ready' = Tail(ready)
        /\ Due("resume", w, d)
        /\ \A e \in Devices : e # d => owner'[e] = owner[e] /\ waiters'[e] = waiters[e]
        /\ owner'[d] = w
        /\ waiters'[d] = RemoveAt(waiters[d], 1)
    <2>1. PICK i \in DOMAIN waiters[d] :
            /\ waiters[d][i] = [w |-> w, done |-> TRUE]
            /\ waiters' = [waiters EXCEPT ![d] = RemoveAt(@, i)]
      BY DEF Resume
    <2>2. i = 1
      BY <1>0, <2>1
    <2>3. QED
      BY <1>0, <2>1, <2>2 DEF Resume, TakeLock, IInv, TypeOK
  <1>2. CallsInv /\ StandingInv /\ OwnersInv /\ PlaceInv /\ OrderInv
    BY CallsOfInv DEF QInv
  <1>3. "resume" \in Ops /\ d \in Devices \cup {None}
    BY DEF Ops
  <1> DEFINE c == Callback("resume", w, d)
  <1>4. /\ IsDue("resume", w, d)
        /\ \A x : Has(ready', x) <=> Has(ready, x) /\ x # c
        /\ \A x, y : Prec(ready, x, y) /\ x # c => Prec(ready', x, y)
    BY <1>1, <1>3, HeadTaken
  <1> HIDE DEF c
  <1>5. /\ \A op, x, e : IsDue(op, x, e)' <=>
             IsDue(op, x, e) /\ ~(op = "resume" /\ x = w /\ e = d)
        /\ \A op, x, y, e : op # "resume" /\ DueFirst(op, x, y, e) => DueFirst(op, x, y, e)'
    <2>1. \A op, x, e : IsDue(op, x, e)' <=>
             IsDue(op, x, e) /\ ~(op = "resume" /\ x = w /\ e = d)
      BY <1>4, SameCallback DEF IsDue, c
    <2>2. \A op, x, y, e : op # "resume" /\ DueFirst(op, x, y, e) => DueFirst(op, x, y, e)'
      BY <1>4, SameCallback DEF DueFirst, c
    <2>3. QED
      BY <2>1, <2>2
  <1>6. /\ \A x : Standing(x)' <=> Standing(x)
        /\ \A x, y : Before(x, y)' <=> Before(x, y)
    BY <1>1 DEF Standing, Before
  <1>7. \A e \in Devices : e # d =>
          /\ \A x : WaitsAt(x, e)' <=> WaitsAt(x, e)
          /\ \A x, y : WaitsFirst(x, y, e)' <=> WaitsFirst(x, y, e)
    BY <1>1 DEF WaitsAt, WaitsFirst, Waiting
  <1>8. /\ \A x : WaitsAt(x, d)' <=> WaitsAt(x, d) /\ x # w
        /\ \A x, y : WaitsFirst(x, y, d) /\ x # w /\ y # w => WaitsFirst(x, y, d)'
        /\ WaitsAt(w, d) /\ \A x : ~WaitsFirst(x, w, d)
    <2> DEFINE s == Waiting(d)
               n == Len(waiters[d])
    <2>1. /\ s \in Seq(Workers) /\ Len(s) = n /\ n \in Nat
          /\ DOMAIN s = 1..n /\ DOMAIN waiters[d] = 1..n
          /\ \A k \in 1..n : s[k] = waiters[d][k].w
      BY WaitingIs, Types DEF IInv
    <2>2. 1 \in 1..n /\ s[1] = w /\ \A k \in DOMAIN s : s[k] = s[1] => k = 1
      BY <1>0, <2>1
    <2> HIDE DEF s
    <2>3. /\ DOMAIN (waiters'[d]) = 1..(n - 1)
          /\ \A k \in 1..(n - 1) : waiters'[d][k] = waiters[d][k + 1]
      <3>1. /\ DOMAIN RemoveAt(waiters[d], 1) = 1..(n - 1)
            /\ \A k \in 1..(n - 1) : RemoveAt(waiters[d], 1)[k] =
                 IF k < 1 THEN waiters[d][k] ELSE waiters[d][k + 1]
        BY <1>0, <2>2, RemoveAtSeq
      <3>2. QED
        BY <1>1, <2>1, <3>1
    <2>4. /\ RemoveAt(s, 1) \in Seq(Workers)
          /\ DOMAIN RemoveAt(s, 1) = 1..(n - 1)
          /\ \A k \in 1..(n - 1) : RemoveAt(s, 1)[k] = s[k + 1]
      <3>1. /\ RemoveAt(s, 1) \in Seq(Workers)
            /\ DOMAIN RemoveAt(s, 1) = 1..(n - 1)
            /\ \A k \in 1..(n - 1) : RemoveAt(s, 1)[k] =
                 IF k < 1 THEN s[k] ELSE s[k + 1]
        BY <2>1, <2>2, RemoveAtSeq
      <3>2. QED
        BY <2>1, <3>1
    <2>5. Waiting(d)' = RemoveAt(s, 1)
      <3>1. Waiting(d)' = [k \in 1..(n - 1) |-> waiters'[d][k].w]
        BY <2>3 DEF Waiting
      <3>2. \A k \in 1..(n - 1) : waiters'[d][k].w = RemoveAt(s, 1)[k]
        <4>1. \A k \in 1..(n - 1) : k + 1 \in 1..n
          BY <2>1
        <4>2. QED
          BY <2>1, <2>3, <2>4, <4>1
      <3>3. RemoveAt(s, 1) = [k \in 1..(n - 1) |-> RemoveAt(s, 1)[k]]
        BY <2>4, SeqIsItsEntries
      <3>4. QED
        BY <3>1, <3>2, <3>3
    <2>6. /\ \A x : Has(RemoveAt(s, 1), x) <=> Has(s, x) /\ x # w
          /\ \A x, y : Prec(s, x, y) /\ x # w /\ y # w => Prec(RemoveAt(s, 1), x, y)
      <3>1. /\ \A x : Has(RemoveAt(s, 1), x) <=> Has(s, x) /\ x # s[1]
            /\ \A x, y : Prec(s, x, y) /\ x # s[1] /\ y # s[1] => Prec(RemoveAt(s, 1), x, y)
        BY <2>1, <2>2, HasRemoveAt
      <3>2. QED
        BY <2>2, <3>1
    <2>7. Has(s, w) /\ \A x : ~Prec(s, x, w)
      <3>1. Has(s, w)
        BY <2>1, <2>2 DEF Has
      <3>2. ASSUME NEW i \in DOMAIN s, NEW j \in DOMAIN s, i < j, s[j] = w PROVE FALSE
        BY <2>1, <2>2, <3>2
      <3>3. QED
        BY <3>1, <3>2 DEF Prec
    <2>8. QED
      BY <2>5, <2>6, <2>7 DEF WaitsAt, WaitsFirst, s
  <1> HIDE DEF Standing, Before, IsDue, DueFirst, WaitsAt, WaitsFirst
  <1>9. Standing(w) /\ d \in DevicesOf(w)
    BY <1>2, <1>3, <1>4 DEF StandingInv, CallsInv, ChildOps
  <1>10. StandingInv'
    <2>1. \A op \in Ops, x \in Workers, e \in Devices \cup {None} :
            IsDue(op, x, e)' =>
              (Standing(x)' <=> op \in {"acquire_devices", "acquire", "resume"})
      BY <1>2, <1>5, <1>6 DEF StandingInv
    <2>2. \A x \in Workers, e \in Devices : WaitsAt(x, e)' => Standing(x)' /\ owner'[e] # x
      BY <1>1, <1>2, <1>6, <1>7, <1>8 DEF StandingInv
    <2>3. QED
      BY <1>1, <1>2, <1>6, <2>1, <2>2 DEF StandingInv
  <1>11. OwnersInv'
    BY <1>1, <1>2, <1>5, <1>6, <1>9 DEF OwnersInv
  <1>12. PlaceInv'
    <2> SUFFICES ASSUME NEW x \in Workers, Standing(x)', NEW e \in DevicesOf(x)
                 PROVE  owner'[e] = x \/ WaitsAt(x, e)' \/ IsDue("acquire", x, e)'
                          \/ IsDue("acquire_devices", x, None)'
      BY DEF PlaceInv
    <2>1. e \in Devices
      BY DevicesOfWorker DEF DevicesOfSubset
    <2>2. owner[e] = x \/ WaitsAt(x, e) \/ IsDue("acquire", x, e)
            \/ IsDue("acquire_devices", x, None)
      BY <1>2, <1>6 DEF PlaceInv
    <2>3. CASE e = d
      BY <1>0, <1>1, <1>5, <1>8, <2>2, <2>3
    <2>4. CASE e # d
      BY <1>1, <1>5, <1>7, <2>1, <2>2, <2>4
    <2>5. QED
      BY <2>3, <2>4
  <1>13. OrderInv'
    <2> SUFFICES ASSUME NEW v \in Workers, NEW y \in Workers, Before(v, y)',
                        NEW e \in DevicesOf(v) \cap DevicesOf(y)
                 PROVE  Further(v, y, e)'
      BY DEF OrderInv
    <2>1. e \in Devices /\ Further(v, y, e)
      BY <1>2, <1>6, DevicesOfWorker DEF DevicesOfSubset, OrderInv
    <2>2. CASE e = d
      <3>1. y # w
        BY <1>0, <1>8, <2>1, <2>2 DEF Further
      <3>2. WaitsAt(v, d) => owner'[d] = v \/ WaitsAt(v, d)'
        BY <1>1, <1>8
      <3>3. WaitsAt(y, d)' => owner'[d] = v \/ WaitsFirst(v, y, d)'
        BY <1>0, <1>1, <1>8, <2>1, <2>2, <3>1 DEF Further
      <3>4. IsDue("acquire", y, d)' =>
              owner'[d] = v \/ WaitsAt(v, d)' \/ DueFirst("acquire", v, y, d)'
        BY <1>0, <1>5, <2>1, <2>2, <3>2 DEF Further
      <3>5. IsDue("acquire_devices", y, None)' =>
              owner'[d] = v \/ WaitsAt(v, d)' \/ IsDue("acquire", v, d)'
                \/ DueFirst("acquire_devices", v, y, None)'
        BY <1>0, <1>5, <2>1, <2>2, <3>2 DEF Further
      <3>6. owner'[d] # y
        BY <1>1, <3>1
      <3>7. QED
        BY <2>2, <3>3, <3>4, <3>5, <3>6 DEF Further
    <2>3. CASE e # d
      BY <1>1, <1>5, <1>7, <2>1, <2>3 DEF Further
    <2>4. QED
      BY <2>2, <2>3
  <1>14. QED
    BY <1>10, <1>11, <1>12, <1>13 DEF QInv

LEMMA ReleaseOrder ==
  ASSUME IInv, QInv, NEW w \in Workers, NEW d \in Devices, Release(w, d)
  PROVE  QInv'
  <1>2. CallsInv /\ StandingInv /\ OwnersInv /\ PlaceInv /\ OrderInv
    BY CallsOfInv DEF QInv
  <1>3. "release" \in Ops /\ "resume" \in Ops /\ d \in Devices \cup {None}
    BY DEF Ops
  <1>4. Due("release", w, d) /\ IsDue("release", w, d)
    <2>1. Due("release", w, d)
      BY DEF Release
    <2>2. ready \in Seq(CallbackType) /\ ready # <<>> /\ 1 \in DOMAIN ready
          /\ ready[1] = Callback("release", w, d)
      BY <1>3, <2>1, DueFacts DEF Callback
    <2>3. QED
      BY <2>1, <2>2 DEF IsDue, Has
  <1>5. owner[d] = w /\ locked[d]
    BY <1>2, <1>3, <1>4 DEF CallsInv, IInv, OwnerInv
  <1>6. /\ pc' = pc /\ arrival' = arrival
        /\ \A e \in Devices : e # d => owner'[e] = owner[e]
        /\ owner'[d] = None /\ WakeUpFirst(d)
    BY <1>5 DEF Release, IInv, TypeOK
  <1>7. /\ Tail(ready) \in Seq(CallbackType)
        /\ waiters[d] \in Seq(WaiterType)
        /\ waiters[d] # <<>> =>
             /\ 1 \in DOMAIN waiters[d] /\ Head(waiters[d]) = waiters[d][1]
             /\ Head(waiters[d]) \in WaiterType
    <2>1. Tail(ready) \in Seq(CallbackType)
      BY <1>3, <1>4, DueFacts
    <2>2. waiters[d] \in Seq(WaiterType)
      BY Types DEF IInv
    <2>3. QED
      BY <2>1, <2>2, TailOfSeq
  <1> DEFINE v == Head(waiters[d]).w
             r == Callback("resume", v, d)
  (* At most the first waiter's resumption is put at the end. *)
  <1>8. PICK t \in Seq(CallbackType) :
          /\ ready' = Tail(ready) \o t
          /\ \A x : Has(t, x) => x = r /\ WaitsAt(v, d) /\ v \in Workers
    <2>1. CASE waiters[d] # <<>> /\ ~Head(waiters[d]).done
      <3>1. v \in Workers /\ r \in CallbackType
        BY <1>3, <1>7, <2>1 DEF WaiterType, Callback, CallbackType
      <3>2. Has(Waiting(d), v)
        BY <1>7, <2>1, WaitingIs DEF Has, IInv
      <3>3. ready' = Append(Tail(ready), r)
        BY <1>6, <2>1 DEF WakeUpFirst
      <3> HIDE DEF r, v
      <3>4. /\ <<r>> \in Seq(CallbackType) /\ \A x : Has(<<r>>, x) => x = r
            /\ Append(Tail(ready), r) = Tail(ready) \o <<r>>
        <4>1. <<r>> \in Seq(CallbackType) /\ \A x : Has(<<r>>, x) => x = r
          BY <3>1 DEF Has
        <4> DEFINE u == Tail(ready)
        <4>2. u \in Seq(CallbackType)
          BY <1>7
        <4> HIDE DEF u
        <4>3. Append(u, r) = u \o <<r>>
          BY <3>1, <4>2
        <4>4. QED
          BY <4>1, <4>3 DEF u
      <3>5. QED
        BY <3>1, <3>2, <3>3, <3>4 DEF WaitsAt
    <2>2. CASE ~(waiters[d] # <<>> /\ ~Head(waiters[d]).done)
      <3>1. ready' = Tail(ready)
        BY <1>6, <2>2 DEF WakeUpFirst
      <3>2. Tail(ready) = Tail(ready) \o <<>> /\ <<>> \in Seq(CallbackType)
        BY <1>7
      <3>3. \A x : ~Has(<<>>, x)
        BY DEF Has
      <3>4. QED
        BY <3>1, <3>2, <3>3
    <2>3. QED
      BY <2>1, <2>2
  <1> DEFINE c == Callback("release", w, d)
  <1>9. /\ \A x : Has(ready', x) <=> (Has(ready, x) /\ x # c) \/ Has(t, x)
        /\ \A x, y : Prec(ready, x, y) /\ x # c => Prec(ready', x, y)
    BY <1>3, <1>4, <1>8, HeadRuns
  <1> HIDE DEF c, v
  <1>10. /\ \A op, x, e : IsDue(op, x, e) /\ ~(op = "release" /\ x = w /\ e = d) =>
              IsDue(op, x, e)'
         /\ \A op, x, e : IsDue(op, x, e)' =>
              \/ IsDue(op, x, e)
              \/ op = "resume" /\ WaitsAt(x, d) /\ x \in Workers
         /\ \A op, x, y, e : op # "release" /\ DueFirst(op, x, y, e) => DueFirst(op, x, y, e)'
    <2>1. \A op, x, e : IsDue(op, x, e) /\ ~(op = "release" /\ x = w /\ e = d) =>
              IsDue(op, x, e)'
      BY <1>9, SameCallback DEF IsDue, c
    <2>2. \A op, x, e : IsDue(op, x, e)' =>
              \/ IsDue(op, x, e)
              \/ op = "resume" /\ WaitsAt(x, d) /\ x \in Workers
      BY <1>8, <1>9, SameCallback DEF IsDue
    <2>3. \A op, x, y, e : op # "release" /\ DueFirst(op, x, y, e) => DueFirst(op, x, y, e)'
      BY <1>9, SameCallback DEF DueFirst, c
    <2>4. QED
      BY <2>1, <2>2, <2>3
  <1> HIDE DEF r
  <1>11. /\ \A x : Standing(x)' <=> Standing(x)
         /\ \A x, y : Before(x, y)' <=> Before(x, y)
    BY <1>6 DEF Standing, Before
  <1>12. \A e \in Devices : Waiting(e)' = Waiting(e)
    <2> SUFFICES ASSUME NEW e \in Devices PROVE Waiting(e)' = Waiting(e)
      OBVIOUS
    <2>1. CASE waiters'[e] = waiters[e]
      BY <2>1 DEF Waiting
    <2>2. CASE waiters'[e] # waiters[e]
      <3>1. /\ e = d /\ waiters[d] # <<>>
            /\ waiters'[d] = [waiters[d] EXCEPT ![1] =
                                 [w |-> waiters[d][1].w, done |-> TRUE]]
        BY <1>6, <2>2 DEF WakeUpFirst, IInv, TypeOK
      <3>2. DOMAIN (waiters'[d]) = DOMAIN waiters[d]
        BY <3>1
      <3>3. \A k \in DOMAIN waiters[d] : waiters'[d][k].w = waiters[d][k].w
        BY <1>7, <3>1
      <3>4. QED
        BY <3>1, <3>2, <3>3 DEF Waiting
    <2>3. QED
      BY <2>1, <2>2
  <1>13. \A e \in Devices :
           /\ \A x : WaitsAt(x, e)' <=> WaitsAt(x, e)
           /\ \A x, y : WaitsFirst(x, y, e)' <=> WaitsFirst(x, y, e)
    BY <1>12 DEF WaitsAt, WaitsFirst
  <1>14. \A x, y : Before(x, y) => Standing(x)
    BY DEF Standing, Before, Has, Prec
  <1> HIDE DEF Standing, Before, IsDue, DueFirst, WaitsAt, WaitsFirst
  <1>15. ~Standing(w)
    BY <1>2, <1>3, <1>4 DEF StandingInv
  <1>16. StandingInv'
    <2>1. \A op \in Ops, x \in Workers, e \in Devices \cup {None} :
            IsDue(op, x, e)' =>
              (Standing(x)' <=> op \in {"acquire_devices", "acquire", "resume"})
      BY <1>2, <1>10, <1>11 DEF StandingInv
    <2>2. \A x \in Workers, e \in Devices : WaitsAt(x, e)' => Standing(x)' /\ owner'[e] # x
      BY <1>2, <1>6, <1>11, <1>13 DEF StandingInv
    <2>3. QED
      BY <1>2, <1>6, <1>11, <2>1, <2>2 DEF StandingInv
  <1>17. OwnersInv'
    BY <1>2, <1>6, <1>10, <1>11 DEF OwnersInv
  <1>18. PlaceInv'
    <2> SUFFICES ASSUME NEW x \in Workers, Standing(x)', NEW e \in DevicesOf(x)
                 PROVE  owner'[e] = x \/ WaitsAt(x, e)' \/ IsDue("acquire", x, e)'
                          \/ IsDue("acquire_devices", x, None)'
      BY DEF PlaceInv
    <2>1. e \in Devices
      BY DevicesOfWorker DEF DevicesOfSubset
    <2>2. owner[e] = x \/ WaitsAt(x, e) \/ IsDue("acquire", x, e)
            \/ IsDue("acquire_devices", x, None)
      BY <1>2, <1>11 DEF PlaceInv
    <2>3. owner[e] = x => e # d
      BY <1>5, <1>11, <1>15
    <2>4. QED
      BY <1>6, <1>10, <1>13, <2>1, <2>2, <2>3
  <1>19. OrderInv'
    <2> SUFFICES ASSUME NEW x \in Workers, NEW y \in Workers, Before(x, y)',
                        NEW e \in DevicesOf(x) \cap DevicesOf(y)
                 PROVE  Further(x, y, e)'
      BY DEF OrderInv
    <2>1. e \in Devices /\ Further(x, y, e) /\ x # w
      BY <1>2, <1>11, <1>14, <1>15, DevicesOfWorker DEF DevicesOfSubset, OrderInv
    <2>2. owner[e] = x => owner'[e] = x
      BY <1>5, <1>6, <2>1
    <2>3. owner'[e] # y
      BY <1>6, <2>1 DEF Further
    <2>4. IsDue("acquire", y, e)' => IsDue("acquire", y, e)
      BY <1>10
    <2>5. IsDue("acquire_devices", y, None)' => IsDue("acquire_devices", y, None)
      BY <1>10
    <2>6. QED
      BY <1>10, <1>13, <2>1, <2>2, <2>3, <2>4, <2>5 DEF Further
  <1>20. QED
    BY <1>16, <1>17, <1>18, <1>19 DEF QInv

LEMMA OrderInductive == IInv /\ QInv /\ [Next]_vars => QInv'
  <1> SUFFICES ASSUME IInv, QInv, [Next]_vars PROVE QInv'
    OBVIOUS
  <1>1. CASE UNCHANGED vars
    <2>1. /\ owner' = owner /\ waiters' = waiters /\ ready' = ready /\ pc' = pc
          /\ arrival' = arrival
      BY <1>1 DEF vars
    <2>2. /\ \A x : Standing(x)' <=> Standing(x)
          /\ \A x, y : Before(x, y)' <=> Before(x, y)
          /\ \A op, x, d : IsDue(op, x, d)' <=> IsDue(op, x, d)
          /\ \A op, x, y, d : DueFirst(op, x, y, d)' <=> DueFirst(op, x, y, d)
          /\ \A x, d : WaitsAt(x, d)' <=> WaitsAt(x, d)
          /\ \A x, y, d : WaitsFirst(x, y, d)' <=> WaitsFirst(x, y, d)
      BY <2>1 DEF Standing, Before, IsDue, DueFirst, WaitsAt, WaitsFirst, Waiting
    <2> HIDE DEF Standing, Before, IsDue, DueFirst, WaitsAt, WaitsFirst
    <2>3. StandingInv'
      BY <2>1, <2>2 DEF QInv, StandingInv
    <2>4. OwnersInv' /\ PlaceInv'
      BY <2>1, <2>2 DEF QInv, OwnersInv, PlaceInv
    <2>5. OrderInv'
      BY <2>1, <2>2 DEF QInv, OrderInv, Further
    <2>6. QED
      BY <2>3, <2>4, <2>5 DEF QInv
  <1>2. CASE EventLoop
    BY <1>2, AcquireDevicesOrder, ReleaseDevicesOrder, AcquireOrder, ResumeOrder, ReleaseOrder
       DEF EventLoop
  <1>3. ASSUME NEW w \in Workers, Worker(w) PROVE QInv'
    BY <1>3, AskOrder, MoveOrder, LeaveOrder DEF Worker
  <1>4. QED
    BY <1>1, <1>2, <1>3 DEF Next

(* The standing requests are served at every device in the order in which   *)
(* they arrived.                                                            *)
THEOREM OrderInvariance == Spec => []QInv
  BY InitOrder, OrderInductive, Invariance, PTL DEF Spec

LEMMA AheadMeans ==
  ASSUME IInv, NEW v \in Workers, NEW w \in Workers, NEW d \in Devices, Ahead(v, w, d)
  PROVE  WaitsAt(w, d) /\ (owner[d] = v \/ WaitsFirst(v, w, d))
  <1> DEFINE s == IF owner[d] = None THEN <<>> ELSE <<owner[d]>>
             t == Waiting(d)
  <1>1. t \in Seq(Workers) /\ owner[d] \in Workers \cup {None}
    BY WaitingIs DEF IInv, TypeOK
  <1>2. s \in Seq(Workers) /\ ~Prec(s, v, w) /\ (Has(s, v) => owner[d] = v)
    <2>1. CASE owner[d] = None
      BY <2>1 DEF Prec, Has
    <2>2. CASE owner[d] # None
      <3>1. s = <<owner[d]>> /\ owner[d] \in Workers
        BY <1>1, <2>2
      <3>2. QED
        BY <3>1 DEF Prec, Has
    <2>3. QED
      BY <2>1, <2>2
  <1>3. Prec(s \o t, v, w)
    BY DEF Ahead, Line, Waiting, Prec
  <1> HIDE DEF s, t
  <1>4. Prec(s, v, w) \/ (Has(s, v) /\ Has(t, w)) \/ Prec(t, v, w)
    BY <1>1, <1>2, <1>3, PrecConcat
  <1>5. Prec(t, v, w) => Has(t, w)
    BY DEF Prec, Has
  <1>6. QED
    BY <1>2, <1>4, <1>5 DEF WaitsAt, WaitsFirst, t

(* Whatever the lists of accelerators and the order of the calls, two       *)
(* workers stand in the same order in the lines of all devices they share.  *)
THEOREM SameOrder == Spec => []SameOrderEverywhere
  <1>1. ASSUME IInv, QInv, NEW v \in Workers, NEW w \in Workers, NEW d \in Devices,
               Before(v, w), Ahead(w, v, d)
        PROVE  FALSE
    <2>1. /\ WaitsAt(v, d) /\ (owner[d] = w \/ WaitsFirst(w, v, d))
          /\ WaitsFirst(w, v, d) => WaitsAt(w, d)
      BY <1>1, AheadMeans DEF WaitsFirst, WaitsAt, Prec, Has
    <2>2. d \in DevicesOf(v)
      BY <1>1, <2>1, CallsOfInv DEF CallsInv
    <2>3. d \in DevicesOf(w)
      BY <1>1, <2>1, CallsOfInv DEF CallsInv, QInv, OwnersInv
    <2>4. Further(v, w, d)
      BY <1>1, <2>2, <2>3 DEF QInv, OrderInv
    <2>5. owner[d] # w /\ WaitsFirst(w, v, d) /\ WaitsAt(w, d)
      BY <2>1, <2>4 DEF Further
    <2>6. owner[d] # v
      BY <1>1, <2>1 DEF QInv, StandingInv
    <2>7. WaitsFirst(v, w, d)
      BY <2>4, <2>5, <2>6 DEF Further
    <2>8. /\ \A k, l \in DOMAIN Waiting(d) : Waiting(d)[k] = Waiting(d)[l] => k = l
          /\ DOMAIN Waiting(d) = 1..Len(Waiting(d)) /\ Len(Waiting(d)) \in Nat
      <3>1. /\ Waiting(d) \in Seq(Workers) /\ DOMAIN Waiting(d) = DOMAIN waiters[d]
            /\ \A k \in DOMAIN waiters[d] : Waiting(d)[k] = waiters[d][k].w
        BY <1>1, WaitingIs DEF IInv
      <3>2. QED
        BY <1>1, <3>1 DEF IInv, WaitOnceInv
    <2>9. PICK i, j \in DOMAIN Waiting(d) : i < j /\ Waiting(d)[i] = v /\ Waiting(d)[j] = w
      BY <2>7 DEF WaitsFirst, Prec
    <2>10. PICK k, l \in DOMAIN Waiting(d) : k < l /\ Waiting(d)[k] = w /\ Waiting(d)[l] = v
      BY <2>5 DEF WaitsFirst, Prec
    <2>11. QED
      BY <2>8, <2>9, <2>10
  <1>2. ASSUME IInv, QInv PROVE SameOrderEverywhere
    <2> SUFFICES ASSUME NEW v \in Workers, NEW w \in Workers, NEW d \in Devices, NEW e \in Devices,
                        v # w, Ahead(v, w, d), Ahead(w, v, e)
                 PROVE  FALSE
      BY DEF SameOrderEverywhere
    <2>1. Standing(w) /\ Standing(v)
      BY <1>2, AheadMeans DEF QInv, StandingInv
    <2>2. Before(v, w) \/ Before(w, v)
      <3>1. PICK i, j \in DOMAIN arrival : arrival[i] = v /\ arrival[j] = w
        BY <2>1 DEF Standing, Has
      <3>2. i \in Nat /\ j \in Nat /\ i # j
        BY <1>2, <3>1 DEF IInv, TypeOK
      <3>3. i < j \/ j < i
        BY <3>2
      <3>4. QED
        BY <3>1, <3>3 DEF Before, Prec
    <2>3. QED
      BY <1>1, <1>2, <2>2
  <1>3. QED
    BY <1>2, Invariance, OrderInvariance, PTL

(* The manager, its event loop and the workers behave as a lock on sets of  *)
(* devices that serves its requests in the order of their arrival.          *)
THEOREM MutexImplemented == Spec => Promise!Spec
  <1> DEFINE phase == [w \in Workers |-> Phase(w)]
  <1>1. Init => Promise!Init
    BY DEF Init, Promise!Init, Phase
  <1>2. IInv /\ QInv /\ IInv' /\ [Next]_vars => [Promise!Next]_<<phase, arrival>>
    <2> SUFFICES ASSUME IInv, QInv, IInv', [Next]_vars
                 PROVE  [Promise!Next]_<<phase, arrival>>
      OBVIOUS
    <2>0. pc \in [Workers -> PC] /\ \A w \in Workers : Phase(w) =
             IF pc[w] \in {"asking", "gathering"} THEN "waiting"
             ELSE IF pc[w] = "holding" THEN "holding"
             ELSE IF pc[w] = "dead" THEN "dead" ELSE "idle"
      BY DEF Phase, IInv, TypeOK
    <2>1. CASE UNCHANGED vars
      BY <2>1 DEF vars, Phase
    <2>2. ASSUME NEW w \in Workers, Ask(w) PROVE Promise!Next
      <3>1. /\ phase[w] = "idle" /\ phase' = [phase EXCEPT ![w] = "waiting"]
            /\ arrival' = Append(arrival, w)
        BY <2>0, <2>2 DEF Ask, Goto, Phase
      <3>2. Promise!Ask(w)
        BY <3>1 DEF Promise!Ask
      <3>3. QED
        BY <3>2 DEF Promise!Next
    <2>3. ASSUME NEW w \in Workers, Enter(w) PROVE Promise!Next
      <3>1. /\ phase[w] = "waiting" /\ phase' = [phase EXCEPT ![w] = "holding"]
            /\ arrival' = arrival
        BY <2>0, <2>3 DEF Enter, Goto, Phase
      <3>2. ASSUME NEW i \in DOMAIN arrival, NEW j \in DOMAIN arrival, i < j, arrival[j] = w
            PROVE  DevicesOf(arrival[i]) \cap DevicesOf(w) = {}
        <4>1. Before(arrival[i], w) /\ arrival[i] \in Workers
          BY <3>2 DEF Before, Prec, IInv, TypeOK
        <4>2. \A d \in DevicesOf(w) : owner[d] = w
          BY <2>3 DEF Enter, Goto, IInv, OwnerInv
        <4>3. QED
          BY <4>1, <4>2 DEF QInv, OrderInv, Further
      <3>3. \A i, j \in DOMAIN arrival :
              i < j /\ arrival[j] = w => ~Promise!Compete(arrival[i], w)
        <4>1. \A i \in DOMAIN arrival : arrival[i] \in Workers
          BY DEF IInv, TypeOK
        <4>2. QED
          BY <3>2, <4>1 DEF Promise!Compete
      <3>4. Promise!Grant(w)
        BY <3>1, <3>3 DEF Promise!Grant
      <3>5. QED
        BY <3>4 DEF Promise!Next
    <2>4. ASSUME NEW w \in Workers, Leave(w) PROVE Promise!Next
      <3>1. /\ phase[w] = "holding" /\ phase' = [phase EXCEPT ![w] = "idle"]
            /\ \E i \in DOMAIN arrival : arrival[i] = w /\ arrival' = RemoveAt(arrival, i)
        BY <2>0, <2>4 DEF Leave, Goto, Phase
      <3>2. Promise!Leave(w)
        BY <3>1 DEF Promise!Leave, Promise!RemoveAt, RemoveAt
      <3>3. QED
        BY <3>2 DEF Promise!Next
    <2>5. ASSUME NEW w \in Workers, Kill(w) PROVE Promise!Next
      <3>1. /\ w \in Mortal /\ phase[w] # "dead" /\ phase' = [phase EXCEPT ![w] = "dead"]
            /\ arrival' = arrival
        BY <2>0, <2>5 DEF Kill, Phase
      <3>2. Promise!Die(w)
        BY <3>1 DEF Promise!Die
      <3>3. QED
        BY <3>2 DEF Promise!Next
    <2>6. ASSUME NEW w \in Workers, Left(w) PROVE UNCHANGED <<phase, arrival>>
      BY <2>0, <2>6 DEF Left, Goto, Phase
    <2>7. ASSUME NEW w \in Workers, AcquireDevices(w) PROVE UNCHANGED <<phase, arrival>>
      <3>1. pc[w] \in {Stage("acquire_devices"), "dead"}
        BY <2>7, DueFacts DEF AcquireDevices, Ops
      <3>2. pc[w] \in {"asking", "dead"}
        BY <3>1 DEF Stage
      <3>3. QED
        BY <2>0, <2>7, <3>2 DEF AcquireDevices, Await, Phase
    <2>8. ASSUME NEW w \in Workers, ReleaseDevices(w) PROVE UNCHANGED <<phase, arrival>>
      <3>1. pc[w] \in {Stage("release_devices"), "dead"}
        BY <2>8, DueFacts DEF ReleaseDevices, Ops
      <3>2. pc[w] \in {"leaving", "dead"}
        BY <3>1 DEF Stage
      <3>3. QED
        BY <2>0, <2>8, <3>2 DEF ReleaseDevices, Await, Phase
    <2>9. ASSUME NEW w \in Workers, NEW d \in Devices,
                 Acquire(w, d) \/ Resume(w, d) \/ Release(w, d)
          PROVE  UNCHANGED <<phase, arrival>>
      <3>1. arrival' = arrival /\ raised' = {} /\ (raised' = raised => pc' = pc)
        <4>1. raised' = {} /\ raised = {}
          BY DEF IInv, NothingRaised
        <4>2. arrival' = arrival /\ (pc' = pc \/ raised' # {})
          BY <2>9 DEF Acquire, Resume, Release, Raise
        <4>3. QED
          BY <4>1, <4>2
      <3>2. pc' = pc
        BY <3>1 DEF IInv, NothingRaised
      <3>3. QED
        BY <3>1, <3>2 DEF Phase
    <2>10. QED
      BY <2>1, <2>2, <2>3, <2>4, <2>5, <2>6, <2>7, <2>8, <2>9 DEF Next, Worker, EventLoop
  <1>3. QED
    BY <1>1, <1>2, Invariance, OrderInvariance, PTL DEF Spec, Promise!Spec, Promise!vars
=============================================================================

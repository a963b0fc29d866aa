---------------------------- MODULE ChannelProofs ----------------------------
(***************************************************************************)
(* Proofs about a channel, for any calls, requests and capacity.  Of the   *)
(* queues, ChannelQueue: items are neither lost nor doubled, nobody sleeps *)
(* in vain, a batch keeps its contract, and the event loop implements      *)
(* BoundedQueue.  Of the workers around them, Channel, for any workers of  *)
(* the habits Disciplined names: each call gets its own, no answer goes    *)
(* astray, and the puts of a worker under a key are accepted in order.     *)
(***************************************************************************)
EXTENDS Channel, Integers, SequencesExt, SequenceTheorems,
        WellFoundedInduction, TLAPS, FiniteSetTheorems

-----------------------------------------------------------------------------
(* Sequences: the domain of what an operation returns, and its elements.   *)

(* A FIFO once its head has been taken.                                     *)
LEMMA TailOfSeq ==
  ASSUME NEW S, NEW s \in Seq(S), s # <<>>
  PROVE  /\ Tail(s) \in Seq(S)
         /\ Len(Tail(s)) = Len(s) - 1
         /\ DOMAIN Tail(s) = 1..(Len(s) - 1)
         /\ \A i \in DOMAIN Tail(s) : i + 1 \in DOMAIN s /\ Tail(s)[i] = s[i + 1]
         /\ 1 \in DOMAIN s /\ Head(s) = s[1] /\ Head(s) \in S
  OBVIOUS

(* ... and once one entry is added at its end.                              *)
LEMMA AppendToSeq ==
  ASSUME NEW S, NEW s \in Seq(S), NEW e \in S
  PROVE  /\ Append(s, e) \in Seq(S)
         /\ DOMAIN Append(s, e) = 1..(Len(s) + 1)
         /\ DOMAIN s = 1..Len(s)
         /\ \A i \in DOMAIN s : Append(s, e)[i] = s[i]
         /\ Append(s, e)[Len(s) + 1] = e
  OBVIOUS

(* ... and once several are added.                                          *)
LEMMA ConcatSeq ==
  ASSUME NEW S, NEW s \in Seq(S), NEW t \in Seq(S)
  PROVE  /\ s \o t \in Seq(S)
         /\ DOMAIN (s \o t) = 1..(Len(s) + Len(t))
         /\ \A i \in DOMAIN (s \o t) :
              (s \o t)[i] = IF i <= Len(s) THEN s[i] ELSE t[i - Len(s)]
         /\ \A i \in DOMAIN (s \o t) :
              IF i <= Len(s) THEN i \in DOMAIN s ELSE i - Len(s) \in DOMAIN t
  OBVIOUS

Has(s, x) == \E i \in DOMAIN s : s[i] = x

Prec(s, x, y) == \E i, j \in DOMAIN s : i < j /\ s[i] = x /\ s[j] = y

LEMMA HasAppend ==
  ASSUME NEW S, NEW s \in Seq(S), NEW e \in S
  PROVE  /\ \A x : Has(Append(s, e), x) <=> Has(s, x) \/ x = e
         /\ \A x, y : Prec(Append(s, e), x, y) <=> Prec(s, x, y) \/ (Has(s, x) /\ y = e)
  <1> DEFINE r == Append(s, e)
             n == Len(s)
  <1>1. /\ DOMAIN r = 1..(n + 1) /\ DOMAIN s = 1..n /\ n \in Nat
        /\ \A i \in DOMAIN s : r[i] = s[i]
        /\ r[n + 1] = e
    BY AppendToSeq
  <1> HIDE DEF r, n
  <1>2. \A x : Has(r, x) <=> Has(s, x) \/ x = e
    BY <1>1 DEF Has
  <1>3. ASSUME NEW x, NEW y
        PROVE  Prec(r, x, y) <=> Prec(s, x, y) \/ (Has(s, x) /\ y = e)
    <2>1. ASSUME Prec(r, x, y) PROVE Prec(s, x, y) \/ (Has(s, x) /\ y = e)
      <3>1. PICK i \in DOMAIN r, j \in DOMAIN r : i < j /\ r[i] = x /\ r[j] = y
        BY <2>1 DEF Prec
      <3>2. i \in DOMAIN s /\ (j \in DOMAIN s \/ j = n + 1)
        BY <1>1, <3>1
      <3>3. QED
        BY <1>1, <3>1, <3>2 DEF Prec, Has
    <2>2. ASSUME Prec(s, x, y) PROVE Prec(r, x, y)
      BY <1>1, <2>2 DEF Prec
    <2>3. ASSUME Has(s, x), y = e PROVE Prec(r, x, y)
      <3>1. PICK i \in DOMAIN s : s[i] = x
        BY <2>3 DEF Has
      <3>2. i \in DOMAIN r /\ n + 1 \in DOMAIN r /\ i < n + 1
        BY <1>1
      <3>3. QED
        BY <1>1, <2>3, <3>1, <3>2 DEF Prec
    <2>4. QED
      BY <2>1, <2>2, <2>3
  <1>4. QED
    BY <1>2, <1>3 DEF r

LEMMA HasConcat ==
  ASSUME NEW S, NEW s \in Seq(S), NEW t \in Seq(S)
  PROVE  /\ \A x : Has(s \o t, x) <=> Has(s, x) \/ Has(t, x)
         /\ \A x, y : Prec(s, x, y) \/ (Has(s, x) /\ Has(t, y)) => Prec(s \o t, x, y)
  <1> DEFINE r == s \o t
             n == Len(s)
  <1>1. /\ DOMAIN r = 1..(n + Len(t)) /\ n \in Nat /\ Len(t) \in Nat
        /\ DOMAIN s = 1..n /\ DOMAIN t = 1..Len(t)
        /\ \A i \in DOMAIN r : r[i] = IF i <= n THEN s[i] ELSE t[i - n]
    BY ConcatSeq
  <1> HIDE DEF r, n
  <1>2. \A i \in DOMAIN s : i \in DOMAIN r /\ r[i] = s[i]
    BY <1>1
  <1>3. ASSUME NEW i \in DOMAIN t
        PROVE  n + i \in DOMAIN r /\ r[n + i] = t[i]
    <2>1. n + i \in DOMAIN r /\ ~(n + i <= n) /\ (n + i) - n = i
      BY <1>1
    <2>2. QED
      BY <1>1, <2>1
  <1>4. \A i \in DOMAIN r : i \in DOMAIN s \/ i - n \in DOMAIN t
    BY <1>1
  <1>5. \A i \in DOMAIN r : (i \in DOMAIN s /\ r[i] = s[i]) \/ (i - n \in DOMAIN t /\ r[i] = t[i - n])
    BY <1>1, <1>2, <1>4
  <1>6. \A x : Has(r, x) <=> Has(s, x) \/ Has(t, x)
    BY <1>2, <1>3, <1>5 DEF Has
  <1>7. ASSUME NEW x, NEW y, Prec(s, x, y) PROVE Prec(r, x, y)
    BY <1>2, <1>7 DEF Prec
  <1>8. ASSUME NEW x, NEW y, Has(s, x), Has(t, y) PROVE Prec(r, x, y)
    <2>1. PICK i \in DOMAIN s, j \in DOMAIN t : s[i] = x /\ t[j] = y
      BY <1>8 DEF Has
    <2>2. i < n + j
      BY <1>1
    <2>3. QED
      BY <1>2, <1>3, <2>1, <2>2 DEF Prec
  <1>9. QED
    BY <1>6, <1>7, <1>8 DEF r

LEMMA HasTail ==
  ASSUME NEW S, NEW s \in Seq(S), s # <<>>,
         \A i \in DOMAIN s : s[i] = Head(s) => i = 1
  PROVE  /\ \A x : Has(Tail(s), x) <=> Has(s, x) /\ x # Head(s)
         /\ \A x, y : Prec(s, x, y) => y # Head(s)
         /\ \A x, y : Prec(s, x, y) /\ x # Head(s) => Prec(Tail(s), x, y)
         /\ \A x, y : Prec(Tail(s), x, y) => Prec(s, x, y)
         /\ Has(s, Head(s))
  <1> DEFINE t == Tail(s)
             h == Head(s)
  <1>1. /\ DOMAIN t = 1..(Len(s) - 1) /\ DOMAIN s = 1..Len(s) /\ Len(s) \in Nat
        /\ \A i \in DOMAIN t : i + 1 \in DOMAIN s /\ t[i] = s[i + 1]
        /\ 1 \in DOMAIN s /\ h = s[1]
        /\ \A i \in DOMAIN s : s[i] = h => i = 1
    BY TailOfSeq
  <1> HIDE DEF t, h
  <1>2. ASSUME NEW i \in DOMAIN s, i # 1
        PROVE  i - 1 \in DOMAIN t /\ t[i - 1] = s[i]
    <2>1. i - 1 \in DOMAIN t /\ (i - 1) + 1 = i
      BY <1>1, <1>2
    <2>2. QED
      BY <1>1, <2>1
  <1>3. \A i \in DOMAIN t : i + 1 # 1 /\ t[i] # h
    BY <1>1
  <1>4. \A x : Has(t, x) <=> Has(s, x) /\ x # h
    BY <1>1, <1>2, <1>3 DEF Has
  <1>5. ASSUME NEW x, NEW y, Prec(s, x, y) PROVE y # h
    <2>1. PICK i \in DOMAIN s, j \in DOMAIN s : i < j /\ s[i] = x /\ s[j] = y
      BY <1>5 DEF Prec
    <2>2. j # 1
      BY <1>1, <2>1
    <2>3. QED
      BY <1>1, <2>1, <2>2
  <1>6. ASSUME NEW x, NEW y, Prec(s, x, y), x # h PROVE Prec(t, x, y)
    <2>1. PICK i \in DOMAIN s, j \in DOMAIN s : i < j /\ s[i] = x /\ s[j] = y
      BY <1>6 DEF Prec
    <2>2. i # 1 /\ j # 1 /\ i - 1 < j - 1
      BY <1>1, <1>6, <2>1
    <2>3. QED
      BY <1>2, <2>1, <2>2 DEF Prec
  <1>7. ASSUME NEW x, NEW y, Prec(t, x, y) PROVE Prec(s, x, y)
    <2>1. PICK i \in DOMAIN t, j \in DOMAIN t : i < j /\ t[i] = x /\ t[j] = y
      BY <1>7 DEF Prec
    <2>2. i + 1 < j + 1
      BY <1>1, <2>1
    <2>3. QED
      BY <1>1, <2>1, <2>2 DEF Prec
  <1>8. Has(s, h)
    BY <1>1 DEF Has
  <1>9. QED
    BY <1>4, <1>5, <1>6, <1>7, <1>8 DEF t, h

LEMMA SubSeqSeq ==
  ASSUME NEW S, NEW s \in Seq(S), NEW m \in 1 .. Len(s) + 1, NEW n \in m - 1 .. Len(s)
  PROVE  /\ SubSeq(s, m, n) \in Seq(S)
         /\ Len(SubSeq(s, m, n)) = n - m + 1
         /\ DOMAIN SubSeq(s, m, n) = 1 .. n - m + 1
         /\ \A k \in 1 .. n - m + 1 : SubSeq(s, m, n)[k] = s[m + k - 1]
  OBVIOUS

Totals(f, s) ==
  f = [n \in 0..Len(s) |-> IF n = 0 THEN 0 ELSE f[n - 1] + s[n]]

(* A set of naturals with an element has a least one.                       *)
LEMMA LeastNat ==
  ASSUME NEW S \in SUBSET Nat, S # {}
  PROVE  \E n \in S : \A m \in S : n <= m
<1>1. PICK n \in S : \A m \in S : ~(<<m, n>> \in OpToRel(<, Nat))
  BY NatLessThanWellFounded, WFMin
<1>2. ASSUME NEW m \in S PROVE n <= m
  <2>1. ~(m < n)
    BY <1>1, <1>2 DEF OpToRel
  <2> QED  BY <2>1
<1> QED  BY <1>2

LEMMA TotalsValues ==
  ASSUME NEW s \in Seq(Nat), NEW f, Totals(f, s)
  PROVE  /\ DOMAIN f = 0..Len(s) /\ f[0] = 0
         /\ \A n \in 1..Len(s) : f[n] = f[n - 1] + s[n]
<1> DEFINE g == [n \in 0..Len(s) |-> IF n = 0 THEN 0 ELSE f[n - 1] + s[n]]
<1>1. f = g
  BY DEF Totals
<1>2. g[0] = 0 /\ \A n \in 1..Len(s) : g[n] = f[n - 1] + s[n]
  OBVIOUS
<1> QED  BY <1>1, <1>2

LEMMA TotalsExtend ==
  ASSUME NEW s \in Seq(Nat), NEW x \in Nat, NEW f, Totals(f, s), f[Len(s)] \in Nat
  PROVE  \E g : /\ Totals(g, Append(s, x))
                /\ g[Len(s) + 1] = f[Len(s)] + x
<1> DEFINE l == Len(s)
           t == Append(s, x)
           g == [n \in 0..(l + 1) |-> IF n = l + 1 THEN f[l] + x ELSE f[n]]
<1>1. /\ DOMAIN f = 0..l /\ f[0] = 0
      /\ \A n \in 1..l : f[n] = f[n - 1] + s[n]
  BY TotalsValues
<1>2. /\ l \in Nat /\ Len(t) = l + 1 /\ t[l + 1] = x
      /\ \A n \in 1..l : t[n] = s[n]
  OBVIOUS
<1>3. ASSUME NEW n \in 0..(l + 1)
      PROVE  g[n] = IF n = 0 THEN 0 ELSE g[n - 1] + t[n]
  <2>1. CASE n = 0
    BY <2>1, <1>1, <1>2
  <2>2. CASE n = l + 1
    BY <2>2, <1>2
  <2>3. CASE n \in 1..l
    BY <2>3, <1>1, <1>2
  <2> QED  BY <2>1, <2>2, <2>3, <1>2
<1>4. g = [n \in 0..Len(t) |-> IF n = 0 THEN 0 ELSE g[n - 1] + t[n]]
  BY <1>2, <1>3
<1>5. g[l + 1] = f[l] + x
  BY <1>2
<1> QED  BY <1>4, <1>5 DEF Totals

LEMMA TotalsExist ==
  ASSUME NEW s \in Seq(Nat)
  PROVE  \E f : Totals(f, s) /\ f[Len(s)] \in Nat
<1> DEFINE Good(t) == \E f : Totals(f, t) /\ f[Len(t)] \in Nat
           Bad == {n \in Nat : \E t \in Seq(Nat) : Len(t) = n /\ ~Good(t)}
<1> HIDE DEF Good
<1> SUFFICES ASSUME ~Good(s) PROVE FALSE
  BY DEF Good
<1>1. Bad # {} /\ Bad \in SUBSET Nat
  OBVIOUS
<1>2. PICK n \in Bad : \A m \in Bad : n <= m
  <2> HIDE DEF Bad
  <2> QED  BY ONLY <1>1, LeastNat
<1>3. PICK t \in Seq(Nat) : Len(t) = n /\ ~Good(t)
  BY <1>2
<1>4. n \in Nat
  BY <1>2
<1>5. CASE n = 0
  <2> DEFINE z == [i \in 0..0 |-> 0]
  <2>1. z = [i \in 0..Len(t) |-> IF i = 0 THEN 0 ELSE z[i - 1] + t[i]]
    BY <1>3, <1>5
  <2>2. z[Len(t)] \in Nat
    BY <1>3, <1>5
  <2> QED  BY <1>3, <2>1, <2>2 DEF Good, Totals
<1>6. CASE n # 0
  <2> DEFINE u == SubSeq(t, 1, n - 1)
             x == t[n]
  <2>1. u \in Seq(Nat) /\ Len(u) = n - 1 /\ x \in Nat /\ n - 1 \in Nat /\ ~(n <= n - 1)
    BY <1>3, <1>4, <1>6
  <2>2. t = Append(u, x)
    BY <1>3, <1>4, <1>6
  <2> HIDE DEF u, x
  <2>3. n - 1 \notin Bad
    <3> HIDE DEF Bad
    <3> QED  BY <1>2, <2>1
  <2>4. Good(u)
    BY <2>1, <2>3
  <2>5. PICK f : Totals(f, u) /\ f[Len(u)] \in Nat
    BY <2>4 DEF Good
  <2>6. PICK g : Totals(g, t) /\ g[Len(u) + 1] = f[Len(u)] + x
    BY <2>1, <2>2, <2>5, TotalsExtend
  <2>7. Len(u) + 1 = Len(t)
    BY <2>1, <1>3, <1>4
  <2>8. g[Len(t)] \in Nat
    BY <2>1, <2>5, <2>6, <2>7
  <2> QED  BY <1>3, <2>6, <2>8 DEF Good
<1> QED  BY <1>5, <1>6

LEMMA TotalsUnique ==
  ASSUME NEW s \in Seq(Nat), NEW f, NEW g, Totals(f, s), Totals(g, s)
  PROVE  f = g
<1> DEFINE Bad == {n \in 0..Len(s) : f[n] # g[n]}
<1>1. /\ DOMAIN f = 0..Len(s) /\ f[0] = 0
      /\ \A n \in 1..Len(s) : f[n] = f[n - 1] + s[n]
  BY TotalsValues
<1>2. /\ DOMAIN g = 0..Len(s) /\ g[0] = 0
      /\ \A n \in 1..Len(s) : g[n] = g[n - 1] + s[n]
  BY TotalsValues
<1>3. Bad = {}
  <2> SUFFICES ASSUME Bad # {} PROVE FALSE
    OBVIOUS
  <2>1. Bad \in SUBSET Nat
    OBVIOUS
  <2>2. PICK n \in Bad : \A m \in Bad : n <= m
    <3> HIDE DEF Bad
    <3> QED  BY ONLY <2>1, Bad # {}, LeastNat
  <2>3. n \in 1..Len(s) /\ f[n] # g[n]
    BY <2>2, <1>1, <1>2
  <2>4. n - 1 \in 0..Len(s) /\ ~(n <= n - 1)
    BY <2>3
  <2>5. n - 1 \notin Bad
    <3> HIDE DEF Bad
    <3> QED  BY <2>2, <2>4
  <2>6. f[n - 1] = g[n - 1]
    BY <2>4, <2>5
  <2> QED  BY <2>3, <2>6, <1>1, <1>2
<1>4. f = [n \in 0..Len(s) |-> f[n]] /\ g = [n \in 0..Len(s) |-> g[n]]
  BY DEF Totals
<1>5. \A n \in 0..Len(s) : f[n] = g[n]
  BY <1>3
<1> QED  BY <1>4, <1>5

LEMMA SumIsTotal ==
  ASSUME NEW s \in Seq(Nat), NEW f, Totals(f, s)
  PROVE  SumOf(s) = f[Len(s)]
<1> DEFINE h == CHOOSE h : Totals(h, s)
<1>1. Totals(h, s)
  <2> HIDE DEF h
  <2>1. Totals(f, s)
    OBVIOUS
  <2> QED  BY <2>1 DEF h
<1>2. SumOf(s) = h[Len(s)]
  BY DEF SumOf, Totals
<1> HIDE DEF h
<1>3. h = f
  BY <1>1, TotalsUnique
<1> QED  BY <1>2, <1>3

LEMMA SumEmpty == SumOf(<<>>) = 0
<1>1. PICK f : Totals(f, <<>>)
  BY TotalsExist, <<>> \in Seq(Nat)
<1>2. f[0] = 0
  BY <1>1, TotalsValues, <<>> \in Seq(Nat)
<1> QED  BY <1>1, <1>2, SumIsTotal, <<>> \in Seq(Nat), Len(<<>>) = 0

LEMMA SumAppend ==
  ASSUME NEW s \in Seq(Nat), NEW x \in Nat
  PROVE  SumOf(s) \in Nat /\ SumOf(Append(s, x)) = SumOf(s) + x
<1>1. PICK f : Totals(f, s) /\ f[Len(s)] \in Nat
  BY TotalsExist
<1>2. SumOf(s) = f[Len(s)]
  BY <1>1, SumIsTotal
<1>3. PICK g : Totals(g, Append(s, x)) /\ g[Len(s) + 1] = f[Len(s)] + x
  BY <1>1, TotalsExtend
<1>4. Append(s, x) \in Seq(Nat) /\ Len(Append(s, x)) = Len(s) + 1
  OBVIOUS
<1>5. SumOf(Append(s, x)) = g[Len(s) + 1]
  BY <1>3, <1>4, SumIsTotal
<1> QED  BY <1>1, <1>2, <1>3, <1>5

-----------------------------------------------------------------------------
NoRepeat(s) == \A i, j \in DOMAIN s : s[i] = s[j] => i = j

LEMMA HasIn ==
  ASSUME NEW S, NEW s \in Seq(S)
  PROVE  \A x : Has(s, x) => x \in S
  BY DEF Has

LEMMA FirstAndAfter ==
  ASSUME NEW S, NEW s \in Seq(S), NEW n \in Nat
  PROVE  LET f == FirstOf(s, n)
             a == After(s, n)
             m == IF n < Len(s) THEN n ELSE Len(s)
         IN /\ f \in Seq(S) /\ a \in Seq(S) /\ m \in 0..Len(s)
            /\ DOMAIN f = 1..m /\ Len(f) = m
            /\ DOMAIN a = 1..(Len(s) - m) /\ Len(a) = Len(s) - m
            /\ \A i \in 1..m : f[i] = s[i]
            /\ \A i \in 1..(Len(s) - m) : a[i] = s[m + i]
            /\ DOMAIN s = 1..Len(s)
<1> DEFINE m == IF n < Len(s) THEN n ELSE Len(s)
<1>1. m \in 0..Len(s) /\ Len(s) \in Nat /\ DOMAIN s = 1..Len(s)
  OBVIOUS
<1>2. FirstOf(s, n) = SubSeq(s, 1, m)
  BY DEF FirstOf
<1>3. After(s, n) = SubSeq(s, m + 1, Len(s))
  <2>1. CASE n < Len(s)
    BY <2>1 DEF After
  <2>2. CASE ~(n < Len(s))
    BY <2>2 DEF After
  <2> QED  BY <2>1, <2>2
<1> HIDE DEF m
<1>4. /\ SubSeq(s, 1, m) \in Seq(S) /\ Len(SubSeq(s, 1, m)) = m
      /\ DOMAIN SubSeq(s, 1, m) = 1..m
      /\ \A i \in 1..m : SubSeq(s, 1, m)[i] = s[i]
  BY <1>1
<1>5. /\ SubSeq(s, m + 1, Len(s)) \in Seq(S)
      /\ Len(SubSeq(s, m + 1, Len(s))) = Len(s) - m
      /\ DOMAIN SubSeq(s, m + 1, Len(s)) = 1..(Len(s) - m)
      /\ \A i \in 1..(Len(s) - m) : SubSeq(s, m + 1, Len(s))[i] = s[m + i]
  <2> DEFINE l == Len(s)
             t == SubSeq(s, m + 1, l)
  <2>1. /\ m + 1 \in 1..(l + 1) /\ l \in ((m + 1) - 1)..l
        /\ (l - (m + 1)) + 1 = l - m
    BY <1>1
  <2>2. /\ t \in Seq(S) /\ Len(t) = (l - (m + 1)) + 1
        /\ DOMAIN t = 1..((l - (m + 1)) + 1)
        /\ \A i \in 1..((l - (m + 1)) + 1) : t[i] = s[((m + 1) + i) - 1]
    BY <2>1, SubSeqSeq
  <2> HIDE DEF l, t
  <2>3. \A i \in 1..(l - m) : t[i] = s[m + i]
    <3>1. l \in Nat
      BY DEF l
    <3>2. \A i \in 1..(l - m) : ((m + 1) + i) - 1 = m + i
      BY <3>1, <1>1
    <3> QED  BY <2>1, <2>2, <3>2
  <2> QED  BY <2>1, <2>2, <2>3 DEF l, t
<1> DEFINE f == FirstOf(s, n)
           a == After(s, n)
<1>6. /\ f \in Seq(S) /\ Len(f) = m /\ DOMAIN f = 1..m
      /\ \A i \in 1..m : f[i] = s[i]
  BY <1>2, <1>4
<1>7. /\ a \in Seq(S) /\ Len(a) = Len(s) - m /\ DOMAIN a = 1..(Len(s) - m)
      /\ \A i \in 1..(Len(s) - m) : a[i] = s[m + i]
  BY <1>3, <1>5
<1> HIDE DEF f, a
<1> QED  BY <1>1, <1>6, <1>7 DEF m, f, a

(* The first n sleepers and the rest share a sequence without repetition.   *)
LEMMA Parted ==
  ASSUME NEW S, NEW s \in Seq(S), NEW n \in Nat
  PROVE  /\ \A x : Has(s, x) <=> Has(FirstOf(s, n), x) \/ Has(After(s, n), x)
         /\ NoRepeat(s) => /\ NoRepeat(FirstOf(s, n)) /\ NoRepeat(After(s, n))
                           /\ \A x : ~(Has(FirstOf(s, n), x) /\ Has(After(s, n), x))
<1> DEFINE f == FirstOf(s, n)
           a == After(s, n)
           m == IF n < Len(s) THEN n ELSE Len(s)
<1>1. /\ m \in 0..Len(s) /\ DOMAIN f = 1..m /\ DOMAIN a = 1..(Len(s) - m)
      /\ \A i \in 1..m : f[i] = s[i]
      /\ \A i \in 1..(Len(s) - m) : a[i] = s[m + i]
      /\ DOMAIN s = 1..Len(s) /\ Len(s) \in Nat
  BY FirstAndAfter
<1> HIDE DEF f, a, m
<1>2. \A x : Has(s, x) <=> Has(f, x) \/ Has(a, x)
  <2>1. ASSUME NEW x, NEW i \in 1..Len(s), s[i] = x PROVE Has(f, x) \/ Has(a, x)
    <3>1. CASE i <= m
      BY <3>1, <2>1, <1>1 DEF Has
    <3>2. CASE i > m
      <4>1. i - m \in 1..(Len(s) - m) /\ m + (i - m) = i
        BY <3>2, <1>1
      <4>2. a[i - m] = x
        BY <4>1, <2>1, <1>1
      <4> QED  BY <4>1, <4>2, <1>1 DEF Has
    <3> QED  BY <3>1, <3>2, <1>1
  <2>2. ASSUME NEW x, Has(f, x) PROVE Has(s, x)
    BY <2>2, <1>1 DEF Has
  <2>3. ASSUME NEW x, Has(a, x) PROVE Has(s, x)
    <3>1. PICK i \in 1..(Len(s) - m) : a[i] = x
      BY <2>3, <1>1 DEF Has
    <3>2. m + i \in 1..Len(s) /\ s[m + i] = x
      BY <3>1, <1>1
    <3> QED  BY <3>2, <1>1 DEF Has
  <2> QED  BY <2>1, <2>2, <2>3, <1>1 DEF Has
<1>3. ASSUME NoRepeat(s)
      PROVE  /\ NoRepeat(f) /\ NoRepeat(a)
             /\ \A x : ~(Has(f, x) /\ Has(a, x))
  <2>1. \A i \in 1..m : i \in DOMAIN s
    BY <1>1
  <2>2. \A i \in 1..(Len(s) - m) : m + i \in DOMAIN s
    BY <1>1
  <2>3. NoRepeat(f)
    BY <2>1, <1>1, <1>3 DEF NoRepeat
  <2>4. NoRepeat(a)
    <3>1. ASSUME NEW i \in 1..(Len(s) - m), NEW j \in 1..(Len(s) - m), a[i] = a[j]
          PROVE  i = j
      <4>1. m + i = m + j
        BY <3>1, <2>2, <1>1, <1>3 DEF NoRepeat
      <4> QED  BY <4>1, <1>1
    <3> QED  BY <3>1, <1>1 DEF NoRepeat
  <2>5. ASSUME NEW x, NEW i \in 1..m, NEW j \in 1..(Len(s) - m), f[i] = x, a[j] = x
        PROVE  FALSE
    <3>1. i = m + j
      BY <2>5, <2>1, <2>2, <1>1, <1>3 DEF NoRepeat
    <3> QED  BY <3>1, <1>1
  <2> QED  BY <2>3, <2>4, <2>5, <1>1 DEF Has
<1> QED  BY <1>2, <1>3 DEF f, a

LEMMA NoRepeatConcat ==
  ASSUME NEW S, NEW s \in Seq(S), NEW t \in Seq(S), NoRepeat(s), NoRepeat(t),
         \A x : ~(Has(s, x) /\ Has(t, x))
  PROVE  NoRepeat(s \o t)
<1> DEFINE u == s \o t
           l == Len(s)
<1>1. /\ DOMAIN u = 1..(l + Len(t)) /\ l \in Nat /\ Len(t) \in Nat
      /\ DOMAIN s = 1..l /\ DOMAIN t = 1..Len(t)
      /\ \A i \in DOMAIN u : u[i] = IF i <= l THEN s[i] ELSE t[i - l]
      /\ \A i \in DOMAIN u : IF i <= l THEN i \in DOMAIN s ELSE i - l \in DOMAIN t
  BY ConcatSeq
<1> HIDE DEF u, l
<1>2. ASSUME NEW i \in DOMAIN u, NEW j \in DOMAIN u, u[i] = u[j], i <= l, j <= l
      PROVE  i = j
  BY <1>2, <1>1 DEF NoRepeat
<1>3. ASSUME NEW i \in DOMAIN u, NEW j \in DOMAIN u, u[i] = u[j], ~(i <= l), ~(j <= l)
      PROVE  i = j
  <2>1. i - l = j - l
    BY <1>3, <1>1 DEF NoRepeat
  <2> QED  BY <2>1, <1>1
<1>4. ASSUME NEW i \in DOMAIN u, NEW j \in DOMAIN u, u[i] = u[j], i <= l, ~(j <= l)
      PROVE  FALSE
  <2>1. Has(s, u[i]) /\ Has(t, u[i])
    BY <1>4, <1>1 DEF Has
  <2> QED  BY <2>1
<1>5. \A i, j \in DOMAIN u : u[i] = u[j] => i = j
  BY <1>2, <1>3, <1>4
<1> QED  BY <1>5 DEF NoRepeat, u

LEMMA NoRepeatTail ==
  ASSUME NEW S, NEW s \in Seq(S), s # <<>>, NoRepeat(s)
  PROVE  /\ Tail(s) \in Seq(S) /\ NoRepeat(Tail(s))
         /\ Head(s) \in S /\ Has(s, Head(s))
         /\ \A x : Has(Tail(s), x) <=> Has(s, x) /\ x # Head(s)
<1> DEFINE t == Tail(s)
<1>1. /\ t \in Seq(S) /\ DOMAIN t = 1..(Len(s) - 1)
      /\ \A i \in DOMAIN t : i + 1 \in DOMAIN s /\ t[i] = s[i + 1]
      /\ 1 \in DOMAIN s /\ Head(s) = s[1] /\ Head(s) \in S
  BY TailOfSeq
<1>2. \A i \in DOMAIN s : s[i] = Head(s) => i = 1
  BY <1>1 DEF NoRepeat
<1>3. \A x : Has(t, x) <=> Has(s, x) /\ x # Head(s)
  BY <1>2, HasTail
<1>4. Has(s, Head(s))
  BY <1>2, HasTail
<1> HIDE DEF t
<1>5. ASSUME NEW i \in DOMAIN t, NEW j \in DOMAIN t, t[i] = t[j]
      PROVE  i = j
  <2>1. i + 1 = j + 1
    BY <1>5, <1>1 DEF NoRepeat
  <2>2. i \in Int /\ j \in Int
    BY <1>1
  <2> QED  BY <2>1, <2>2
<1>6. NoRepeat(t)
  BY <1>5 DEF NoRepeat
<1> QED  BY <1>1, <1>3, <1>4, <1>6 DEF t

LEMMA NoRepeatAppend ==
  ASSUME NEW S, NEW s \in Seq(S), NEW c \in S, NoRepeat(s), ~Has(s, c)
  PROVE  /\ Append(s, c) \in Seq(S) /\ NoRepeat(Append(s, c))
         /\ \A x : Has(Append(s, c), x) <=> Has(s, x) \/ x = c
<1> DEFINE t == Append(s, c)
<1>1. \A x : Has(t, x) <=> Has(s, x) \/ x = c
  BY HasAppend
<1>2. /\ DOMAIN t = 1..(Len(s) + 1) /\ DOMAIN s = 1..Len(s) /\ Len(s) \in Nat
      /\ \A i \in DOMAIN s : t[i] = s[i]
      /\ t[Len(s) + 1] = c /\ t \in Seq(S)
  BY AppendToSeq
<1> HIDE DEF t
<1>3. \A i \in DOMAIN s : s[i] # c
  BY DEF Has
<1>4. ASSUME NEW i \in DOMAIN t, NEW j \in DOMAIN t, t[i] = t[j] PROVE i = j
  <2>1. CASE i = Len(s) + 1 /\ j = Len(s) + 1
    BY <2>1
  <2>2. CASE i = Len(s) + 1 /\ j \in DOMAIN s
    BY <2>2, <1>2, <1>3, <1>4
  <2>3. CASE i \in DOMAIN s /\ j = Len(s) + 1
    BY <2>3, <1>2, <1>3, <1>4
  <2>4. CASE i \in DOMAIN s /\ j \in DOMAIN s
    BY <2>4, <1>2, <1>4 DEF NoRepeat
  <2> QED  BY <2>1, <2>2, <2>3, <2>4, <1>2
<1>5. NoRepeat(t)
  BY <1>4 DEF NoRepeat
<1> QED  BY <1>1, <1>2, <1>5 DEF t

(* The event loop after one call of it has run and woken up n sleepers.     *)
LEMMA WakeSeq ==
  ASSUME NEW S, NEW rd \in Seq(S), rd # <<>>, NoRepeat(rd),
         NEW s \in Seq(S), NoRepeat(s), \A x : ~(Has(s, x) /\ Has(rd, x)), NEW n \in Nat
  PROVE  /\ Tail(rd) \o FirstOf(s, n) \in Seq(S)
         /\ NoRepeat(Tail(rd) \o FirstOf(s, n))
         /\ \A x : Has(Tail(rd) \o FirstOf(s, n), x)
                     <=> (Has(rd, x) /\ x # Head(rd)) \/ Has(FirstOf(s, n), x)
<1> DEFINE t == Tail(rd)
           f == FirstOf(s, n)
<1>1. /\ t \in Seq(S) /\ NoRepeat(t)
      /\ \A x : Has(t, x) <=> Has(rd, x) /\ x # Head(rd)
  BY NoRepeatTail
<1>2. f \in Seq(S)
  BY FirstAndAfter
<1>3. NoRepeat(f) /\ \A x : Has(f, x) => Has(s, x)
  BY Parted
<1> HIDE DEF t, f
<1>4. \A x : ~(Has(t, x) /\ Has(f, x))
  BY <1>1, <1>3
<1>5. t \o f \in Seq(S) /\ NoRepeat(t \o f)
  BY <1>1, <1>2, <1>3, <1>4, NoRepeatConcat
<1>6. \A x : Has(t \o f, x) <=> Has(t, x) \/ Has(f, x)
  BY <1>1, <1>2, HasConcat
<1> QED  BY <1>1, <1>5, <1>6 DEF t, f

LEMMA FirstOfNone ==
  ASSUME NEW S, NEW s \in Seq(S), NEW t \in Seq(S)
  PROVE  s \o FirstOf(t, 0) = s /\ After(t, 0) = t
  BY DEF FirstOf, After

-----------------------------------------------------------------------------
(* Where the calls that have not returned are: in the event loop's FIFO or  *)
(* asleep, each in one place, as a get of its key or a put.                 *)

Sleepers(R, P, rd, s, k, ops) ==
  /\ NoRepeat(s)
  /\ \A c : Has(s, c) =>
       /\ P[c] = "running" /\ R[c].op \in ops /\ R[c].key = k
       /\ ~Has(rd, c)

Gets == {"get", "get_batch"}

Loop(R, P, rd, G, W) ==
  /\ NoRepeat(rd)
  /\ \A c : Has(rd, c) => P[c] = "running"
  /\ \A k \in Keys : /\ Sleepers(R, P, rd, G[k], k, Gets)
                     /\ Sleepers(R, P, rd, W[k], k, {"put"})

Lists == [Keys -> Seq(Calls)]

Nowhere(c, rd, G, W) ==
  ~Has(rd, c) /\ \A k \in Keys : ~Has(G[k], c) /\ ~Has(W[k], c)

(* What P becomes when the call at the head of rd has run.                  *)
Ran(P, rd, Q) == \A c \in Calls : c = Head(rd) \/ Q[c] = P[c]

LEMMA SleepersWake ==
  ASSUME NEW R, NEW P, NEW Q, NEW rd \in Seq(Calls), rd # <<>>, NoRepeat(rd), Ran(P, rd, Q),
         NEW s \in Seq(Calls), NEW k, NEW ops, Sleepers(R, P, rd, s, k, ops), NEW n \in Nat
  PROVE  Sleepers(R, Q, Tail(rd) \o FirstOf(s, n), After(s, n), k, ops)
<1> DEFINE rd2 == Tail(rd) \o FirstOf(s, n)
           s2 == After(s, n)
<1>1. /\ \A x : ~(Has(s, x) /\ Has(rd, x)) /\ NoRepeat(s)
      /\ \A c : Has(s, c) => P[c] = "running" /\ R[c].op \in ops /\ R[c].key = k
  BY DEF Sleepers
<1>2. \A x : Has(rd2, x) <=> (Has(rd, x) /\ x # Head(rd)) \/ Has(FirstOf(s, n), x)
  BY <1>1, WakeSeq
<1>3. /\ \A x : Has(s2, x) => Has(s, x) /\ ~Has(FirstOf(s, n), x)
      /\ NoRepeat(s2)
  BY <1>1, Parted
<1>4. Has(rd, Head(rd))
  BY NoRepeatTail
<1> HIDE DEF rd2, s2
<1>5. ASSUME NEW c, Has(s2, c)
      PROVE  Q[c] = "running" /\ R[c].op \in ops /\ R[c].key = k /\ ~Has(rd2, c)
  <2>1. Has(s, c) /\ ~Has(rd, c) /\ ~Has(FirstOf(s, n), c)
    BY <1>1, <1>3, <1>5
  <2>2. c # Head(rd) /\ c \in Calls
    BY <2>1, <1>4, HasIn
  <2> QED  BY <2>1, <2>2, <1>1, <1>2 DEF Ran
<1> QED  BY <1>3, <1>5 DEF Sleepers, rd2, s2

LEMMA SleepersStay ==
  ASSUME NEW R, NEW P, NEW Q, NEW rd \in Seq(Calls), rd # <<>>, NoRepeat(rd), Ran(P, rd, Q),
         NEW s \in Seq(Calls), NEW k, NEW ops, Sleepers(R, P, rd, s, k, ops), NEW n \in Nat,
         NEW t \in Seq(Calls), NEW j, NEW others, Sleepers(R, P, rd, t, j, others),
         j # k \/ ops \cap others = {}
  PROVE  Sleepers(R, Q, Tail(rd) \o FirstOf(s, n), t, j, others)
<1> DEFINE rd2 == Tail(rd) \o FirstOf(s, n)
<1>1. /\ \A x : ~(Has(s, x) /\ Has(rd, x)) /\ NoRepeat(s)
      /\ \A c : Has(s, c) => R[c].op \in ops /\ R[c].key = k
  BY DEF Sleepers
<1>2. \A x : Has(rd2, x) <=> (Has(rd, x) /\ x # Head(rd)) \/ Has(FirstOf(s, n), x)
  BY <1>1, WakeSeq
<1>3. \A x : Has(FirstOf(s, n), x) => Has(s, x)
  BY Parted
<1>4. Has(rd, Head(rd))
  BY NoRepeatTail
<1>5. /\ \A c : Has(t, c) => P[c] = "running" /\ R[c].op \in others /\ R[c].key = j /\ ~Has(rd, c)
      /\ NoRepeat(t)
  BY DEF Sleepers
<1> HIDE DEF rd2
<1>6. ASSUME NEW c, Has(t, c)
      PROVE  Q[c] = "running" /\ ~Has(rd2, c)
  <2>1. P[c] = "running" /\ c # Head(rd) /\ ~Has(rd, c) /\ c \in Calls
    BY <1>4, <1>5, <1>6, HasIn
  <2>2. ~Has(s, c)
    BY <1>1, <1>5, <1>6
  <2> QED  BY <2>1, <2>2, <1>2, <1>3 DEF Ran
<1> QED  BY <1>5, <1>6 DEF Sleepers, rd2

LEMMA SleepersFall ==
  ASSUME NEW R, NEW P, NEW rd, NEW s \in Seq(Calls), NEW k, NEW ops,
         Sleepers(R, P, rd, s, k, ops),
         NEW c \in Calls, ~Has(rd, c), ~Has(s, c), P[c] = "running", R[c].op \in ops, R[c].key = k
  PROVE  Sleepers(R, P, rd, Append(s, c), k, ops)
<1>1. NoRepeat(s)
  BY DEF Sleepers
<1>2. NoRepeat(Append(s, c)) /\ \A x : Has(Append(s, c), x) <=> Has(s, x) \/ x = c
  BY <1>1, NoRepeatAppend
<1> QED  BY <1>2 DEF Sleepers

LEMMA LoopWakesGets ==
  ASSUME NEW R, NEW P, NEW Q, NEW rd \in Seq(Calls), NEW G \in Lists, NEW W \in Lists,
         Loop(R, P, rd, G, W), rd # <<>>, Ran(P, rd, Q), NEW k \in Keys, NEW n \in Nat
  PROVE  LET rd2 == Tail(rd) \o FirstOf(G[k], n)
             G2 == [G EXCEPT ![k] = After(@, n)]
         IN /\ rd2 \in Seq(Calls) /\ G2 \in Lists
            /\ Loop(R, Q, rd2, G2, W) /\ Nowhere(Head(rd), rd2, G2, W)
<1> DEFINE rd2 == Tail(rd) \o FirstOf(G[k], n)
           G2 == [G EXCEPT ![k] = After(@, n)]
           c == Head(rd)
<1>1. /\ NoRepeat(rd) /\ \A x : Has(rd, x) => P[x] = "running"
      /\ \A j \in Keys : Sleepers(R, P, rd, G[j], j, Gets) /\ Sleepers(R, P, rd, W[j], j, {"put"})
  BY DEF Loop
<1>2. /\ G[k] \in Seq(Calls) /\ \A x : ~(Has(G[k], x) /\ Has(rd, x)) /\ NoRepeat(G[k])
      /\ \A x : Has(G[k], x) => P[x] = "running"
  BY <1>1 DEF Lists, Sleepers
<1>3. /\ rd2 \in Seq(Calls) /\ NoRepeat(rd2)
      /\ \A x : Has(rd2, x) <=> (Has(rd, x) /\ x # c) \/ Has(FirstOf(G[k], n), x)
  BY <1>1, <1>2, WakeSeq
<1>4. \A x : Has(FirstOf(G[k], n), x) => Has(G[k], x)
  BY <1>2, Parted
<1>5. Has(rd, c)
  BY <1>1, NoRepeatTail
<1>6. After(G[k], n) \in Seq(Calls) /\ \A x : Has(After(G[k], n), x) => Has(G[k], x)
  BY <1>2, Parted, FirstAndAfter
<1>7. G2 \in Lists /\ G2[k] = After(G[k], n) /\ \A j \in Keys \ {k} : G2[j] = G[j]
  BY <1>6 DEF Lists
<1>8. Gets \cap {"put"} = {}
  BY DEF Gets
<1>9. ASSUME NEW j \in Keys
      PROVE  Sleepers(R, Q, rd2, G2[j], j, Gets) /\ Sleepers(R, Q, rd2, W[j], j, {"put"})
  <2>0. G[j] \in Seq(Calls) /\ W[j] \in Seq(Calls)
    BY DEF Lists
  <2>1. Sleepers(R, Q, rd2, W[j], j, {"put"})
    BY <2>0, <1>1, <1>2, <1>8, SleepersStay
  <2>2. CASE j = k
    <3>1. Sleepers(R, Q, rd2, After(G[k], n), k, Gets)
      BY <1>1, <1>2, SleepersWake
    <3> QED  BY <2>1, <2>2, <3>1, <1>7
  <2>3. CASE j # k
    <3>1. Sleepers(R, Q, rd2, G[j], j, Gets)
      BY <2>0, <1>1, <1>2, <2>3, SleepersStay
    <3> QED  BY <2>1, <2>3, <3>1, <1>7
  <2> QED  BY <2>2, <2>3
<1>10. \A x : Has(rd2, x) => Q[x] = "running"
  <2>1. ASSUME NEW x, Has(rd2, x) PROVE Q[x] = "running"
    <3> HIDE DEF rd2
    <3>1. x # c /\ (Has(rd, x) \/ Has(G[k], x)) /\ x \in Calls
      BY <1>2, <1>3, <1>4, <1>5, <2>1, HasIn
    <3>2. P[x] = "running"
      BY <1>1, <1>2, <3>1
    <3> QED  BY <3>1, <3>2 DEF Ran
  <2> QED  BY <2>1
<1>11. ~Has(rd2, c)
  BY <1>2, <1>3, <1>4, <1>5
<1>12. \A j \in Keys : ~Has(G[j], c) /\ ~Has(W[j], c)
  BY <1>1, <1>5 DEF Sleepers
<1>13. \A j \in Keys : ~Has(G2[j], c)
  BY <1>6, <1>7, <1>12
<1> HIDE DEF rd2, G2, c
<1>14. Loop(R, Q, rd2, G2, W)
  BY <1>3, <1>9, <1>10 DEF Loop
<1>15. Nowhere(c, rd2, G2, W)
  BY <1>11, <1>12, <1>13 DEF Nowhere
<1> QED  BY <1>3, <1>7, <1>14, <1>15 DEF rd2, G2, c

LEMMA LoopWakesPuts ==
  ASSUME NEW R, NEW P, NEW Q, NEW rd \in Seq(Calls), NEW G \in Lists, NEW W \in Lists,
         Loop(R, P, rd, G, W), rd # <<>>, Ran(P, rd, Q), NEW k \in Keys, NEW n \in Nat
  PROVE  LET rd2 == Tail(rd) \o FirstOf(W[k], n)
             W2 == [W EXCEPT ![k] = After(@, n)]
         IN /\ rd2 \in Seq(Calls) /\ W2 \in Lists
            /\ Loop(R, Q, rd2, G, W2) /\ Nowhere(Head(rd), rd2, G, W2)
<1> DEFINE rd2 == Tail(rd) \o FirstOf(W[k], n)
           W2 == [W EXCEPT ![k] = After(@, n)]
           c == Head(rd)
<1>1. /\ NoRepeat(rd) /\ \A x : Has(rd, x) => P[x] = "running"
      /\ \A j \in Keys : Sleepers(R, P, rd, G[j], j, Gets) /\ Sleepers(R, P, rd, W[j], j, {"put"})
  BY DEF Loop
<1>2. /\ W[k] \in Seq(Calls) /\ \A x : ~(Has(W[k], x) /\ Has(rd, x)) /\ NoRepeat(W[k])
      /\ \A x : Has(W[k], x) => P[x] = "running"
  BY <1>1 DEF Lists, Sleepers
<1>3. /\ rd2 \in Seq(Calls) /\ NoRepeat(rd2)
      /\ \A x : Has(rd2, x) <=> (Has(rd, x) /\ x # c) \/ Has(FirstOf(W[k], n), x)
  BY <1>1, <1>2, WakeSeq
<1>4. \A x : Has(FirstOf(W[k], n), x) => Has(W[k], x)
  BY <1>2, Parted
<1>5. Has(rd, c)
  BY <1>1, NoRepeatTail
<1>6. After(W[k], n) \in Seq(Calls) /\ \A x : Has(After(W[k], n), x) => Has(W[k], x)
  BY <1>2, Parted, FirstAndAfter
<1>7. W2 \in Lists /\ W2[k] = After(W[k], n) /\ \A j \in Keys \ {k} : W2[j] = W[j]
  BY <1>6 DEF Lists
<1>8. Gets \cap {"put"} = {}
  BY DEF Gets
<1>9. ASSUME NEW j \in Keys
      PROVE  Sleepers(R, Q, rd2, G[j], j, Gets) /\ Sleepers(R, Q, rd2, W2[j], j, {"put"})
  <2>0. G[j] \in Seq(Calls) /\ W[j] \in Seq(Calls)
    BY DEF Lists
  <2>1. Sleepers(R, Q, rd2, G[j], j, Gets)
    BY <2>0, <1>1, <1>2, <1>8, SleepersStay
  <2>2. CASE j = k
    <3>1. Sleepers(R, Q, rd2, After(W[k], n), k, {"put"})
      BY <1>1, <1>2, SleepersWake
    <3> QED  BY <2>1, <2>2, <3>1, <1>7
  <2>3. CASE j # k
    <3>1. Sleepers(R, Q, rd2, W[j], j, {"put"})
      BY <2>0, <1>1, <1>2, <2>3, SleepersStay
    <3> QED  BY <2>1, <2>3, <3>1, <1>7
  <2> QED  BY <2>2, <2>3
<1>10. \A x : Has(rd2, x) => Q[x] = "running"
  <2>1. ASSUME NEW x, Has(rd2, x) PROVE Q[x] = "running"
    <3> HIDE DEF rd2
    <3>1. x # c /\ (Has(rd, x) \/ Has(W[k], x)) /\ x \in Calls
      BY <1>2, <1>3, <1>4, <1>5, <2>1, HasIn
    <3>2. P[x] = "running"
      BY <1>1, <1>2, <3>1
    <3> QED  BY <3>1, <3>2 DEF Ran
  <2> QED  BY <2>1
<1>11. ~Has(rd2, c)
  BY <1>2, <1>3, <1>4, <1>5
<1>12. \A j \in Keys : ~Has(G[j], c) /\ ~Has(W[j], c)
  BY <1>1, <1>5 DEF Sleepers
<1>13. \A j \in Keys : ~Has(W2[j], c)
  BY <1>6, <1>7, <1>12
<1> HIDE DEF rd2, W2, c
<1>14. Loop(R, Q, rd2, G, W2)
  BY <1>3, <1>9, <1>10 DEF Loop
<1>15. Nowhere(c, rd2, G, W2)
  BY <1>11, <1>12, <1>13 DEF Nowhere
<1> QED  BY <1>3, <1>7, <1>14, <1>15 DEF rd2, W2, c

LEMMA LoopRuns ==
  ASSUME NEW R, NEW P, NEW Q, NEW rd \in Seq(Calls), NEW G \in Lists, NEW W \in Lists,
         Loop(R, P, rd, G, W), rd # <<>>, Ran(P, rd, Q), NEW k \in Keys
  PROVE  /\ Tail(rd) \in Seq(Calls)
         /\ Loop(R, Q, Tail(rd), G, W) /\ Nowhere(Head(rd), Tail(rd), G, W)
<1>1. Tail(rd) \in Seq(Calls) /\ G[k] \in Seq(Calls)
  BY TailOfSeq DEF Lists
<1>2. Tail(rd) \o FirstOf(G[k], 0) = Tail(rd) /\ After(G[k], 0) = G[k]
  BY <1>1, FirstOfNone
<1>3. [G EXCEPT ![k] = After(@, 0)] = G
  BY <1>2 DEF Lists
<1>4. LET rd2 == Tail(rd) \o FirstOf(G[k], 0)
          G2 == [G EXCEPT ![k] = After(@, 0)]
      IN Loop(R, Q, rd2, G2, W) /\ Nowhere(Head(rd), rd2, G2, W)
  BY LoopWakesGets
<1> QED  BY <1>1, <1>2, <1>3, <1>4

(* A call that is nowhere falls asleep, as a get or as a put.               *)
LEMMA LoopSleepsGet ==
  ASSUME NEW R, NEW P, NEW rd \in Seq(Calls), NEW G \in Lists, NEW W \in Lists,
         Loop(R, P, rd, G, W), NEW c \in Calls, Nowhere(c, rd, G, W),
         NEW k \in Keys, P[c] = "running", R[c].op \in Gets, R[c].key = k
  PROVE  /\ [G EXCEPT ![k] = Append(@, c)] \in Lists
         /\ Loop(R, P, rd, [G EXCEPT ![k] = Append(@, c)], W)
<1> DEFINE G2 == [G EXCEPT ![k] = Append(@, c)]
<1>1. G[k] \in Seq(Calls) /\ Append(G[k], c) \in Seq(Calls)
  BY DEF Lists
<1>2. G2 \in Lists /\ G2[k] = Append(G[k], c) /\ \A j \in Keys \ {k} : G2[j] = G[j]
  BY <1>1 DEF Lists
<1>3. /\ NoRepeat(rd) /\ \A x : Has(rd, x) => P[x] = "running"
      /\ \A j \in Keys : Sleepers(R, P, rd, G[j], j, Gets) /\ Sleepers(R, P, rd, W[j], j, {"put"})
  BY DEF Loop
<1>4. ~Has(rd, c) /\ ~Has(G[k], c)
  BY DEF Nowhere
<1>5. Sleepers(R, P, rd, Append(G[k], c), k, Gets)
  BY <1>1, <1>3, <1>4, SleepersFall
<1> HIDE DEF G2
<1>6. \A j \in Keys : Sleepers(R, P, rd, G2[j], j, Gets)
  BY <1>2, <1>3, <1>5
<1>7. Loop(R, P, rd, G2, W)
  BY <1>3, <1>6 DEF Loop
<1> QED  BY <1>2, <1>7 DEF G2

LEMMA LoopSleepsPut ==
  ASSUME NEW R, NEW P, NEW rd \in Seq(Calls), NEW G \in Lists, NEW W \in Lists,
         Loop(R, P, rd, G, W), NEW c \in Calls, Nowhere(c, rd, G, W),
         NEW k \in Keys, P[c] = "running", R[c].op = "put", R[c].key = k
  PROVE  /\ [W EXCEPT ![k] = Append(@, c)] \in Lists
         /\ Loop(R, P, rd, G, [W EXCEPT ![k] = Append(@, c)])
<1> DEFINE W2 == [W EXCEPT ![k] = Append(@, c)]
<1>1. W[k] \in Seq(Calls) /\ Append(W[k], c) \in Seq(Calls)
  BY DEF Lists
<1>2. W2 \in Lists /\ W2[k] = Append(W[k], c) /\ \A j \in Keys \ {k} : W2[j] = W[j]
  BY <1>1 DEF Lists
<1>3. /\ NoRepeat(rd) /\ \A x : Has(rd, x) => P[x] = "running"
      /\ \A j \in Keys : Sleepers(R, P, rd, G[j], j, Gets) /\ Sleepers(R, P, rd, W[j], j, {"put"})
  BY DEF Loop
<1>4. ~Has(rd, c) /\ ~Has(W[k], c) /\ R[c].op \in {"put"}
  BY DEF Nowhere
<1>5. Sleepers(R, P, rd, Append(W[k], c), k, {"put"})
  BY <1>1, <1>3, <1>4, SleepersFall
<1> HIDE DEF W2
<1>6. \A j \in Keys : Sleepers(R, P, rd, W2[j], j, {"put"})
  BY <1>2, <1>3, <1>5
<1>7. Loop(R, P, rd, G, W2)
  BY <1>3, <1>6 DEF Loop
<1> QED  BY <1>2, <1>7 DEF W2

(* A call that arrives joins the event loop.                                *)
LEMMA LoopCalls ==
  ASSUME NEW R, NEW P \in [Calls -> PC], NEW rd \in Seq(Calls), NEW G \in Lists, NEW W \in Lists,
         Loop(R, P, rd, G, W), NEW c \in Calls, P[c] = "idle", NEW S,
         R \in [Calls -> S], NEW r \in S
  PROVE  /\ Append(rd, c) \in Seq(Calls)
         /\ Loop([R EXCEPT ![c] = r], [P EXCEPT ![c] = "running"], Append(rd, c), G, W)
         /\ ~Has(rd, c)
<1> DEFINE rd2 == Append(rd, c)
           R2 == [R EXCEPT ![c] = r]
           P2 == [P EXCEPT ![c] = "running"]
<1>1. /\ NoRepeat(rd) /\ \A x : Has(rd, x) => P[x] = "running"
      /\ \A j \in Keys : Sleepers(R, P, rd, G[j], j, Gets) /\ Sleepers(R, P, rd, W[j], j, {"put"})
  BY DEF Loop
<1>2. ~Has(rd, c)
  BY <1>1
<1>3. rd2 \in Seq(Calls) /\ NoRepeat(rd2) /\ \A x : Has(rd2, x) <=> Has(rd, x) \/ x = c
  BY <1>1, <1>2, NoRepeatAppend
<1>4. P2[c] = "running" /\ \A x \in Calls \ {c} : P2[x] = P[x] /\ R2[x] = R[x]
  OBVIOUS
<1>5. ASSUME NEW s \in Seq(Calls), NEW j, NEW ops, Sleepers(R, P, rd, s, j, ops)
      PROVE  Sleepers(R2, P2, rd2, s, j, ops)
  <2> HIDE DEF rd2, R2, P2
  <2>1. \A x : Has(s, x) => x \in Calls
    BY DEF Has
  <2>2. \A x : Has(s, x) => x # c
    BY <1>5 DEF Sleepers
  <2> QED  BY <2>1, <2>2, <1>3, <1>4, <1>5 DEF Sleepers
<1>6. \A j \in Keys : G[j] \in Seq(Calls) /\ W[j] \in Seq(Calls)
  BY DEF Lists
<1> HIDE DEF rd2, R2, P2
<1>7. \A j \in Keys : Sleepers(R2, P2, rd2, G[j], j, Gets) /\ Sleepers(R2, P2, rd2, W[j], j, {"put"})
  BY <1>1, <1>5, <1>6
<1>8. \A x : Has(rd2, x) => P2[x] = "running"
  <2>1. \A x : Has(rd, x) => x \in Calls
    BY DEF Has
  <2> QED  BY <2>1, <1>1, <1>3, <1>4
<1>9. Loop(R2, P2, rd2, G, W)
  BY <1>3, <1>7, <1>8 DEF Loop
<1> QED  BY <1>2, <1>3, <1>9 DEF rd2, R2, P2

-----------------------------------------------------------------------------
(* Where the items are: each in one place.                                  *)

IsItem(R, i) == i \in Calls /\ R[i] # None /\ R[i].op \in Puts

Places(R, h, q) ==
  /\ \A c \in Calls : /\ NoRepeat(h[c])
                      /\ \A x : Has(h[c], x) => IsItem(R, x)
  /\ \A k \in Keys : /\ NoRepeat(q[k])
                     /\ \A x : Has(q[k], x) => IsItem(R, x) /\ R[x].key = k
  /\ \A c, d \in Calls : \A x : Has(h[c], x) /\ Has(h[d], x) => c = d
  /\ \A c \in Calls, k \in Keys : \A x : ~(Has(h[c], x) /\ Has(q[k], x))
  /\ \A i : IsItem(R, i) => (\E c \in Calls : Has(h[c], i)) \/ Has(q[R[i].key], i)

LEMMA PlacesTake ==
  ASSUME NEW R, NEW h \in [Calls -> Seq(Calls)], NEW q \in Lists, Places(R, h, q),
         \A i : IsItem(R, i) => R[i].key \in Keys,
         NEW c \in Calls, NEW k \in Keys, NEW n \in Nat
  PROVE  /\ [h EXCEPT ![c] = @ \o FirstOf(q[k], n)] \in [Calls -> Seq(Calls)]
         /\ [q EXCEPT ![k] = After(@, n)] \in Lists
         /\ Places(R, [h EXCEPT ![c] = @ \o FirstOf(q[k], n)], [q EXCEPT ![k] = After(@, n)])
<1> DEFINE f == FirstOf(q[k], n)
           a == After(q[k], n)
           h2 == [h EXCEPT ![c] = @ \o f]
           q2 == [q EXCEPT ![k] = After(@, n)]
<1>1. q[k] \in Seq(Calls) /\ h[c] \in Seq(Calls)
  BY DEF Lists
<1>2. f \in Seq(Calls) /\ a \in Seq(Calls)
  BY <1>1, FirstAndAfter
<1>3. /\ \A d \in Calls : /\ NoRepeat(h[d])
                          /\ \A x : Has(h[d], x) => IsItem(R, x)
      /\ \A j \in Keys : /\ NoRepeat(q[j])
                         /\ \A x : Has(q[j], x) => IsItem(R, x) /\ R[x].key = j
      /\ \A b, d \in Calls : \A x : Has(h[b], x) /\ Has(h[d], x) => b = d
      /\ \A d \in Calls, j \in Keys : \A x : ~(Has(h[d], x) /\ Has(q[j], x))
      /\ \A i : IsItem(R, i) => (\E d \in Calls : Has(h[d], i)) \/ Has(q[R[i].key], i)
  BY DEF Places
<1>4. /\ \A x : Has(q[k], x) <=> Has(f, x) \/ Has(a, x)
      /\ NoRepeat(f) /\ NoRepeat(a) /\ \A x : ~(Has(f, x) /\ Has(a, x))
  BY <1>1, <1>3, Parted
<1>5. h[c] \o f \in Seq(Calls) /\ \A x : Has(h[c] \o f, x) <=> Has(h[c], x) \/ Has(f, x)
  BY <1>1, <1>2, HasConcat
<1>6. /\ h2 \in [Calls -> Seq(Calls)] /\ h2[c] = h[c] \o f
      /\ \A d \in Calls \ {c} : h2[d] = h[d]
  BY <1>5
<1>7. q2 \in Lists /\ q2[k] = a /\ \A j \in Keys \ {k} : q2[j] = q[j]
  BY <1>2 DEF Lists
<1> HIDE DEF f, a, h2, q2
<1>8. NoRepeat(h[c] \o f)
  BY <1>1, <1>2, <1>3, <1>4, NoRepeatConcat
<1>9. /\ \A x : Has(h2[c], x) <=> Has(h[c], x) \/ Has(f, x)
      /\ \A d \in Calls \ {c} : \A x : Has(h2[d], x) <=> Has(h[d], x)
      /\ \A x : Has(q[k], x) <=> Has(f, x) \/ Has(q2[k], x)
      /\ \A x : ~(Has(f, x) /\ Has(q2[k], x))
      /\ \A j \in Keys \ {k} : \A x : Has(q2[j], x) <=> Has(q[j], x)
  BY <1>4, <1>5, <1>6, <1>7
<1>10. \A d \in Calls : NoRepeat(h2[d]) /\ \A x : Has(h2[d], x) => IsItem(R, x)
  BY <1>3, <1>6, <1>8, <1>9
<1>11. \A j \in Keys : NoRepeat(q2[j]) /\ \A x : Has(q2[j], x) => IsItem(R, x) /\ R[x].key = j
  BY <1>3, <1>4, <1>7, <1>9
<1>12. ASSUME NEW b \in Calls, NEW d \in Calls, NEW x, Has(h2[b], x), Has(h2[d], x)
       PROVE  b = d
  <2>1. CASE Has(f, x)
    <3>1. \A e \in Calls : ~Has(h[e], x)
      BY <2>1, <1>3, <1>9
    <3>2. \A e \in Calls : Has(h2[e], x) => e = c
      BY <3>1, <1>9
    <3> QED  BY <3>2, <1>12
  <2>2. CASE ~Has(f, x)
    <3>1. Has(h[b], x) /\ Has(h[d], x)
      BY <2>2, <1>9, <1>12
    <3> QED  BY <3>1, <1>3
  <2> QED  BY <2>1, <2>2
<1>13. ASSUME NEW d \in Calls, NEW j \in Keys, NEW x, Has(h2[d], x), Has(q2[j], x)
       PROVE  FALSE
  <2>1. Has(q[j], x)
    BY <1>9, <1>13
  <2>2. Has(f, x) /\ d = c
    BY <2>1, <1>3, <1>9, <1>13
  <2>3. j = k
    <3>1. \A i \in Keys : \A y : Has(q[i], y) => R[y].key = i
      BY <1>3
    <3>2. Has(q[k], x)
      BY <2>2, <1>9
    <3> QED  BY ONLY <3>1, <3>2, <2>1, j \in Keys, k \in Keys
  <2> QED  BY <2>2, <2>3, <1>9, <1>13
<1>14. ASSUME NEW i, IsItem(R, i)
       PROVE  (\E d \in Calls : Has(h2[d], i)) \/ Has(q2[R[i].key], i)
  <2>1. CASE \E d \in Calls : Has(h[d], i)
    BY <2>1, <1>9
  <2>2. CASE Has(q[R[i].key], i)
    BY <2>2, <1>9, <1>14
  <2> QED  BY <2>1, <2>2, <1>3, <1>14
<1>15. Places(R, h2, q2)
  BY <1>10, <1>11, <1>12, <1>13, <1>14 DEF Places
<1> QED  BY <1>6, <1>7, <1>15 DEF f, h2, q2

LEMMA PlacesPut ==
  ASSUME NEW R, NEW h \in [Calls -> Seq(Calls)], NEW q \in Lists, Places(R, h, q),
         \A i : IsItem(R, i) => R[i].key \in Keys,
         NEW c \in Calls, h[c] = <<c>>
  PROVE  LET k == R[c].key
             h2 == [h EXCEPT ![c] = <<>>]
             q2 == [q EXCEPT ![k] = Append(@, c)]
         IN /\ k \in Keys /\ h2 \in [Calls -> Seq(Calls)] /\ q2 \in Lists
            /\ Places(R, h2, q2)
<1> DEFINE k == R[c].key
           h2 == [h EXCEPT ![c] = <<>>]
           q2 == [q EXCEPT ![k] = Append(@, c)]
<1>1. /\ \A d \in Calls : /\ NoRepeat(h[d])
                          /\ \A x : Has(h[d], x) => IsItem(R, x)
      /\ \A j \in Keys : /\ NoRepeat(q[j])
                         /\ \A x : Has(q[j], x) => IsItem(R, x) /\ R[x].key = j
      /\ \A b, d \in Calls : \A x : Has(h[b], x) /\ Has(h[d], x) => b = d
      /\ \A d \in Calls, j \in Keys : \A x : ~(Has(h[d], x) /\ Has(q[j], x))
      /\ \A i : IsItem(R, i) => (\E d \in Calls : Has(h[d], i)) \/ Has(q[R[i].key], i)
  BY DEF Places
<1>2. \A x : Has(<<c>>, x) <=> x = c
  BY DEF Has
<1>3. \A x : ~Has(<<>>, x)
  BY DEF Has
<1>4. IsItem(R, c) /\ k \in Keys
  BY <1>1, <1>2
<1>5. q[k] \in Seq(Calls) /\ ~Has(q[k], c)
  <2> HIDE DEF k
  <2>1. Has(h[c], c)
    BY <1>2
  <2>2. \A j \in Keys : ~(Has(h[c], c) /\ Has(q[j], c))
    BY <1>1
  <2> QED  BY <1>4, <2>1, <2>2 DEF Lists
<1>6. /\ Append(q[k], c) \in Seq(Calls) /\ NoRepeat(Append(q[k], c))
      /\ \A x : Has(Append(q[k], c), x) <=> Has(q[k], x) \/ x = c
  BY <1>1, <1>4, <1>5, NoRepeatAppend
<1>7. /\ h2 \in [Calls -> Seq(Calls)] /\ h2[c] = <<>>
      /\ \A d \in Calls \ {c} : h2[d] = h[d]
  OBVIOUS
<1>8. q2 \in Lists /\ q2[k] = Append(q[k], c) /\ \A j \in Keys \ {k} : q2[j] = q[j]
  BY <1>4, <1>6 DEF Lists
<1> HIDE DEF h2, q2
<1>9. /\ \A x : ~Has(h2[c], x)
      /\ \A d \in Calls \ {c} : \A x : Has(h2[d], x) <=> Has(h[d], x)
      /\ \A x : Has(q2[k], x) <=> Has(q[k], x) \/ x = c
      /\ \A j \in Keys \ {k} : \A x : Has(q2[j], x) <=> Has(q[j], x)
  BY <1>3, <1>6, <1>7, <1>8
<1>16. /\ \A d \in Calls : Has(h[d], c) => d = c
       /\ \A j \in Keys : ~Has(q[j], c)
  <2>1. Has(h[c], c)
    BY <1>2
  <2>2. \A b, d \in Calls : \A x : Has(h[b], x) /\ Has(h[d], x) => b = d
    BY <1>1
  <2>3. \A j \in Keys : \A x : ~(Has(h[c], x) /\ Has(q[j], x))
    BY <1>1
  <2> QED  BY ONLY <2>1, <2>2, <2>3, c \in Calls
<1>10. \A d \in Calls : NoRepeat(h2[d]) /\ \A x : Has(h2[d], x) => IsItem(R, x)
  <2>1. NoRepeat(<<>>)
    BY DEF NoRepeat
  <2> QED  BY <2>1, <1>1, <1>7, <1>9
<1>11. \A j \in Keys : NoRepeat(q2[j]) /\ \A x : Has(q2[j], x) => IsItem(R, x) /\ R[x].key = j
  <2>1. \A j \in Keys : NoRepeat(q2[j])
    BY <1>1, <1>6, <1>8
  <2>2. ASSUME NEW j \in Keys, NEW x, Has(q2[j], x)
        PROVE  IsItem(R, x) /\ R[x].key = j
    <3>1. CASE Has(q[j], x)
      BY <3>1, <1>1
    <3>2. CASE j = k /\ x = c
      BY <3>2, <1>4
    <3> HIDE DEF k
    <3> QED  BY <3>1, <3>2, <2>2, <1>9
  <2> QED  BY <2>1, <2>2
<1>12. ASSUME NEW b \in Calls, NEW d \in Calls, NEW x, Has(h2[b], x), Has(h2[d], x)
       PROVE  b = d
  <2>1. Has(h[b], x) /\ Has(h[d], x)
    BY <1>9, <1>12
  <2> QED  BY <2>1, <1>1
<1>13. ASSUME NEW d \in Calls, NEW j \in Keys, NEW x, Has(h2[d], x), Has(q2[j], x)
       PROVE  FALSE
  <2>1. d # c /\ Has(h[d], x)
    BY <1>9, <1>13
  <2>2. Has(q[j], x) \/ x = c
    <3> HIDE DEF k
    <3> QED  BY <1>9, <1>13
  <2>3. ~(Has(h[d], x) /\ Has(q[j], x))
    BY <1>1
  <2> QED  BY ONLY <2>1, <2>2, <2>3, <1>16, d \in Calls
<1>14. ASSUME NEW i, IsItem(R, i)
       PROVE  (\E d \in Calls : Has(h2[d], i)) \/ Has(q2[R[i].key], i)
  <2>1. CASE i = c
    BY <2>1, <1>9
  <2>2. CASE i # c /\ \E d \in Calls : Has(h[d], i)
    BY <2>2, <1>2, <1>9
  <2>3. CASE Has(q[R[i].key], i)
    BY <2>3, <1>9, <1>14
  <2> QED  BY <2>1, <2>2, <2>3, <1>1, <1>14
<1>15. Places(R, h2, q2)
  BY <1>10, <1>11, <1>12, <1>13, <1>14 DEF Places
<1> QED  BY <1>4, <1>7, <1>8, <1>15 DEF h2, q2

LEMMA PlacesCall ==
  ASSUME NEW S, NEW R \in [Calls -> S], NEW h \in [Calls -> Seq(Calls)], NEW q,
         Places(R, h, q), NEW c \in Calls, R[c] = None, h[c] = <<>>, NEW r \in S, r # None
  PROVE  LET R2 == [R EXCEPT ![c] = r]
             h2 == [h EXCEPT ![c] = IF r.op \in Puts THEN <<c>> ELSE <<>>]
         IN /\ h2 \in [Calls -> Seq(Calls)]
            /\ Places(R2, h2, q)
<1> DEFINE R2 == [R EXCEPT ![c] = r]
           h2 == [h EXCEPT ![c] = IF r.op \in Puts THEN <<c>> ELSE <<>>]
<1>1. /\ \A d \in Calls : /\ NoRepeat(h[d])
                          /\ \A x : Has(h[d], x) => IsItem(R, x)
      /\ \A j \in Keys : /\ NoRepeat(q[j])
                         /\ \A x : Has(q[j], x) => IsItem(R, x) /\ R[x].key = j
      /\ \A b, d \in Calls : \A x : Has(h[b], x) /\ Has(h[d], x) => b = d
      /\ \A d \in Calls, j \in Keys : \A x : ~(Has(h[d], x) /\ Has(q[j], x))
      /\ \A i : IsItem(R, i) => (\E d \in Calls : Has(h[d], i)) \/ Has(q[R[i].key], i)
  BY DEF Places
<1>2. /\ \A x : Has(<<c>>, x) <=> x = c
      /\ \A x : ~Has(<<>>, x)
      /\ NoRepeat(<<>>) /\ NoRepeat(<<c>>)
  BY DEF Has, NoRepeat
<1>3. /\ R2[c] = r /\ \A d \in Calls \ {c} : R2[d] = R[d]
      /\ h2 \in [Calls -> Seq(Calls)] /\ h2[c] = (IF r.op \in Puts THEN <<c>> ELSE <<>>)
      /\ \A d \in Calls \ {c} : h2[d] = h[d]
  OBVIOUS
<1> HIDE DEF R2, h2
<1>4. ~IsItem(R, c)
  BY DEF IsItem
<1>5. /\ \A x : IsItem(R, x) => IsItem(R2, x) /\ x # c /\ R2[x] = R[x]
      /\ \A x : IsItem(R2, x) => x = c \/ IsItem(R, x)
      /\ r.op \in Puts <=> IsItem(R2, c)
  BY <1>3, <1>4 DEF IsItem
<1>6. /\ \A x : Has(h2[c], x) <=> x = c /\ r.op \in Puts
      /\ \A d \in Calls \ {c} : \A x : Has(h2[d], x) <=> Has(h[d], x)
  BY <1>2, <1>3
<1>7. /\ \A d \in Calls : ~Has(h[d], c)
      /\ \A j \in Keys : ~Has(q[j], c)
  BY <1>1, <1>4
<1>8. \A d \in Calls : NoRepeat(h2[d]) /\ \A x : Has(h2[d], x) => IsItem(R2, x)
  BY <1>1, <1>2, <1>3, <1>5, <1>6
<1>9. \A j \in Keys : NoRepeat(q[j]) /\ \A x : Has(q[j], x) => IsItem(R2, x) /\ R2[x].key = j
  BY <1>1, <1>5
<1>10. ASSUME NEW b \in Calls, NEW d \in Calls, NEW x, Has(h2[b], x), Has(h2[d], x)
       PROVE  b = d
  <2>1. CASE x = c
    BY <2>1, <1>6, <1>7, <1>10
  <2>2. CASE x # c
    <3>1. Has(h[b], x) /\ Has(h[d], x)
      BY <2>2, <1>6, <1>10
    <3> QED  BY <3>1, <1>1
  <2> QED  BY <2>1, <2>2
<1>11. ASSUME NEW d \in Calls, NEW j \in Keys, NEW x, Has(h2[d], x), Has(q[j], x)
       PROVE  FALSE
  <2>1. x # c
    BY <1>7, <1>11
  <2>2. Has(h[d], x)
    BY <2>1, <1>6, <1>11
  <2>3. ~(Has(h[d], x) /\ Has(q[j], x))
    BY <1>1
  <2> QED  BY <2>2, <2>3, <1>11
<1>12. ASSUME NEW i, IsItem(R2, i)
       PROVE  (\E d \in Calls : Has(h2[d], i)) \/ Has(q[R2[i].key], i)
  <2>1. CASE i = c
    BY <2>1, <1>5, <1>6, <1>12
  <2>2. CASE IsItem(R, i)
    <3>1. i # c /\ R2[i] = R[i]
      BY <2>2, <1>5
    <3>2. CASE Has(q[R[i].key], i)
      BY <3>1, <3>2
    <3>3. CASE \E d \in Calls : Has(h[d], i)
      <4>1. PICK d \in Calls : Has(h[d], i)
        BY <3>3
      <4>2. Has(h2[d], i)
        BY <4>1, <1>2, <1>6
      <4> QED  BY <4>2
    <3> QED  BY <2>2, <3>2, <3>3, <1>1
  <2> QED  BY <2>1, <2>2, <1>5, <1>12
<1>13. Places(R2, h2, q)
  BY <1>8, <1>9, <1>10, <1>11, <1>12 DEF Places
<1> QED  BY <1>3, <1>13 DEF R2, h2

(* The positions of item i.                                                 *)
InHands(h, i) == {p \in Calls \X (1..Cardinality(Calls)) :
                    p[2] \in DOMAIN h[p[1]] /\ h[p[1]][p[2]] = i}
InQueue(q, k, i) == {n \in DOMAIN q[k] : q[k][n] = i}

LEMMA PlacesCounted ==
  ASSUME NEW R, NEW h \in [Calls -> Seq(Calls)], NEW q \in Lists, Places(R, h, q),
         \A i : IsItem(R, i) => R[i].key \in Keys,
         NEW i, IsItem(R, i)
  PROVE  Cardinality(InHands(h, i)) + Cardinality(InQueue(q, R[i].key, i)) = 1
<1> DEFINE k == R[i].key
           A == InHands(h, i)
           B == InQueue(q, k, i)
<1>1. /\ \A d \in Calls : NoRepeat(h[d])
      /\ NoRepeat(q[k])
      /\ \A b, d \in Calls : Has(h[b], i) /\ Has(h[d], i) => b = d
      /\ \A d \in Calls : ~(Has(h[d], i) /\ Has(q[k], i))
      /\ (\E d \in Calls : Has(h[d], i)) \/ Has(q[k], i)
  BY DEF Places
<1>2. CASE Has(q[k], i)
  <2>1. PICK n \in DOMAIN q[k] : q[k][n] = i
    BY <1>2 DEF Has
  <2>2. B = {n}
    BY <2>1, <1>1 DEF NoRepeat, InQueue
  <2>3. A = {}
    BY <1>1, <1>2 DEF Has, InHands
  <2>4. Cardinality(B) = 1 /\ Cardinality(A) = 0
    BY <2>2, <2>3, FS_Singleton, FS_EmptySet
  <2> HIDE DEF A, B
  <2> QED  BY <2>4 DEF A, B
<1>3. CASE \E d \in Calls : Has(h[d], i)
  <2>0. PICK d \in Calls : Has(h[d], i)
    BY <1>3
  <2>1. PICK n \in DOMAIN h[d] : h[d][n] = i
    BY <2>0 DEF Has
  <2>2. h[d] \in Seq(Calls)
    OBVIOUS
  <2>3. n \in 1..Cardinality(Calls)
    <3>1. /\ DOMAIN h[d] = 1..Len(h[d]) /\ Len(h[d]) \in Nat
          /\ \A m \in 1..Len(h[d]) : h[d][m] \in Calls
      BY <2>2
    <3>2. h[d] \in Injection(1..Len(h[d]), Calls)
      <4>1. h[d] \in [1..Len(h[d]) -> Calls]
        BY <2>2
      <4>2. \A a, b \in 1..Len(h[d]) : h[d][a] = h[d][b] => a = b
        BY <3>1, <1>1 DEF NoRepeat
      <4> QED  BY <4>1, <4>2 DEF Injection, IsInjective
    <3>3. Cardinality(1..Len(h[d])) <= Cardinality(Calls)
      BY <3>2, FS_Injection, CallsAssumption
    <3>4. Cardinality(1..Len(h[d])) = Len(h[d])
      <4>1. Cardinality(1..Len(h[d])) = IF 1 > Len(h[d]) THEN 0 ELSE (Len(h[d]) - 1) + 1
        BY <3>1, FS_Interval
      <4> QED  BY <4>1, <3>1
    <3>5. Cardinality(Calls) \in Nat
      BY FS_CardinalityType, CallsAssumption
    <3> QED  BY <2>1, <3>1, <3>3, <3>4, <3>5
  <2>4. A = {<<d, n>>}
    <3>1. <<d, n>> \in A
      BY <2>1, <2>3 DEF InHands
    <3>2. ASSUME NEW p \in A PROVE p = <<d, n>>
      <4>1. p \in Calls \X (1..Cardinality(Calls)) /\ p[2] \in DOMAIN h[p[1]] /\ h[p[1]][p[2]] = i
        BY <3>2 DEF InHands
      <4>2. p[1] \in Calls /\ p = <<p[1], p[2]>>
        BY <4>1
      <4>3. Has(h[p[1]], i) /\ Has(h[d], i)
        BY <4>1, <2>1 DEF Has
      <4>4. p[1] = d
        BY <4>2, <4>3, <1>1
      <4>5. p[2] = n
        BY <4>1, <4>4, <2>1, <1>1 DEF NoRepeat
      <4> QED  BY <4>2, <4>4, <4>5
    <3> QED  BY <3>1, <3>2
  <2>5. B = {}
    BY <1>1, <2>1 DEF Has, InQueue
  <2>6. Cardinality(A) = 1 /\ Cardinality(B) = 0
    BY <2>4, <2>5, FS_Singleton, FS_EmptySet
  <2> HIDE DEF A, B
  <2> QED  BY <2>6 DEF A, B
<1> QED  BY <1>1, <1>2, <1>3

-----------------------------------------------------------------------------
(* How many calls of a set the event loop is about to run.                  *)

Due(A, rd) == Cardinality({x \in A : Has(rd, x)})

LEMMA DueIsNat ==
  ASSUME NEW A \in SUBSET Calls, NEW rd
  PROVE  /\ Due(A, rd) \in Nat /\ IsFiniteSet({x \in A : Has(rd, x)})
         /\ Due(A, <<>>) = 0
<1>1. {x \in A : Has(rd, x)} \in SUBSET Calls
  OBVIOUS
<1>2. IsFiniteSet({x \in A : Has(rd, x)})
  BY <1>1, CallsAssumption, FS_Subset
<1>3. {x \in A : Has(<<>>, x)} = {}
  BY DEF Has
<1> QED  BY <1>2, <1>3, FS_CardinalityType, FS_EmptySet DEF Due

LEMMA DueMore ==
  ASSUME NEW A \in SUBSET Calls, NEW B \in SUBSET Calls, NEW rd, NEW rd2,
         \A x \in A : Has(rd, x) => x \in B /\ Has(rd2, x)
  PROVE  Due(A, rd) <= Due(B, rd2)
<1> DEFINE C == {x \in A : Has(rd, x)}
           D == {x \in B : Has(rd2, x)}
<1>1. C \in SUBSET D
  OBVIOUS
<1>2. IsFiniteSet(D)
  BY DueIsNat
<1> HIDE DEF C, D
<1>3. Cardinality(C) <= Cardinality(D)
  BY <1>1, <1>2, FS_Subset
<1> QED  BY <1>3 DEF Due, C, D

LEMMA DueTail ==
  ASSUME NEW A \in SUBSET Calls, NEW rd \in Seq(Calls), rd # <<>>, NoRepeat(rd)
  PROVE  Due(A, Tail(rd)) = IF Head(rd) \in A THEN Due(A, rd) - 1 ELSE Due(A, rd)
<1> DEFINE D == {x \in A : Has(rd, x)}
           E == {x \in A : Has(Tail(rd), x)}
<1>1. /\ Has(rd, Head(rd))
      /\ \A x : Has(Tail(rd), x) <=> Has(rd, x) /\ x # Head(rd)
  BY NoRepeatTail
<1>2. E = D \ {Head(rd)} /\ (Head(rd) \in D <=> Head(rd) \in A)
  BY <1>1
<1>3. IsFiniteSet(D)
  BY DueIsNat
<1> HIDE DEF D, E
<1>4. Cardinality(E) = IF Head(rd) \in D THEN Cardinality(D) - 1 ELSE Cardinality(D)
  BY <1>2, <1>3, FS_RemoveElement
<1> QED  BY <1>2, <1>4 DEF Due, D, E

(* A sequence without repetition has as many entries as it is long.         *)
LEMMA EntriesCounted ==
  ASSUME NEW s \in Seq(Calls), NoRepeat(s)
  PROVE  Cardinality({x \in Calls : Has(s, x)}) = Len(s)
<1> DEFINE E == {x \in Calls : Has(s, x)}
<1>1. /\ DOMAIN s = 1..Len(s) /\ Len(s) \in Nat
      /\ \A i \in 1..Len(s) : s[i] \in Calls
  OBVIOUS
<1>2. s \in [1..Len(s) -> E]
  <2>1. \A i \in 1..Len(s) : s[i] \in E
    BY <1>1 DEF Has
  <2>2. s = [i \in 1..Len(s) |-> s[i]]
    OBVIOUS
  <2> HIDE DEF E
  <2> QED  BY <2>1, <2>2
<1>3. \A i, j \in 1..Len(s) : s[i] = s[j] => i = j
  BY <1>1 DEF NoRepeat
<1>4. \A x \in E : \E i \in 1..Len(s) : s[i] = x
  BY <1>1 DEF Has
<1> HIDE DEF E
<1>5. s \in Bijection(1..Len(s), E)
  BY <1>2, <1>3, <1>4 DEF Bijection, Injection, Surjection, IsInjective
<1>6. ExistsBijection(1..Len(s), E)
  BY <1>5 DEF ExistsBijection
<1>7. IsFiniteSet(1..Len(s)) /\ Cardinality(1..Len(s)) = Len(s)
  <2>1. /\ IsFiniteSet(1..Len(s))
        /\ Cardinality(1..Len(s)) = IF 1 > Len(s) THEN 0 ELSE (Len(s) - 1) + 1
    BY <1>1, FS_Interval
  <2> QED  BY <2>1, <1>1
<1>8. Cardinality(E) = Cardinality(1..Len(s))
  BY <1>6, <1>7, FS_Bijection
<1> QED  BY <1>7, <1>8 DEF E

LEMMA DueWake ==
  ASSUME NEW A \in SUBSET Calls, NEW rd \in Seq(Calls), rd # <<>>, NoRepeat(rd),
         NEW s \in Seq(Calls), NoRepeat(s), \A x : ~(Has(s, x) /\ Has(rd, x)), NEW n \in Nat
  PROVE  LET rd2 == Tail(rd) \o FirstOf(s, n)
         IN /\ (\A x : Has(s, x) => x \in A)
                 => Due(A, rd2) = Due(A, Tail(rd)) + IF n < Len(s) THEN n ELSE Len(s)
            /\ (\A x : Has(s, x) => x \notin A) => Due(A, rd2) = Due(A, Tail(rd))
<1> DEFINE f == FirstOf(s, n)
           t == Tail(rd)
           rd2 == t \o f
           m == IF n < Len(s) THEN n ELSE Len(s)
           D == {x \in A : Has(rd2, x)}
           E == {x \in A : Has(t, x)}
           F == {x \in Calls : Has(f, x)}
<1>1. /\ NoRepeat(f) /\ \A x : Has(f, x) => Has(s, x)
  BY Parted
<1>2. f \in Seq(Calls) /\ Len(f) = m
  BY FirstAndAfter
<1>3. \A x : Has(t, x) <=> Has(rd, x) /\ x # Head(rd)
  BY NoRepeatTail
<1>4. \A x : Has(rd2, x) <=> Has(t, x) \/ Has(f, x)
  BY <1>3, WakeSeq
<1>5. Cardinality(F) = Len(f)
  BY <1>1, <1>2, EntriesCounted
<1>6. \A x : Has(f, x) => x \in Calls
  BY <1>2 DEF Has
<1>7. IsFiniteSet(E) /\ IsFiniteSet(F)
  BY DueIsNat, CallsAssumption, FS_Subset
<1>8. ASSUME \A x : Has(s, x) => x \in A
      PROVE  Due(A, rd2) = Due(A, t) + m
  <2>1. D = E \cup F /\ E \cap F = {}
    <3> HIDE DEF rd2, f, t
    <3> QED  BY <1>1, <1>3, <1>4, <1>6, <1>8
  <2> HIDE DEF D, E, F
  <2>2. Cardinality(D) = Cardinality(E) + Cardinality(F) - Cardinality(E \cap F)
    BY <2>1, <1>7, FS_Union
  <2>3. Cardinality(E \cap F) = 0
    BY <2>1, FS_EmptySet
  <2>4. Cardinality(E) \in Nat /\ Cardinality(F) \in Nat
    BY <1>7, FS_CardinalityType
  <2>5. Cardinality(D) = Cardinality(E) + m
    <3> HIDE DEF m, f
    <3> QED  BY <2>2, <2>3, <2>4, <1>2, <1>5
  <2> QED  BY <2>5 DEF Due, D, E
<1>9. ASSUME \A x : Has(s, x) => x \notin A
      PROVE  Due(A, rd2) = Due(A, t)
  <2>1. D = E
    <3> HIDE DEF rd2, f, t
    <3> QED  BY <1>1, <1>4, <1>9
  <2> HIDE DEF D, E
  <2> QED  BY <2>1 DEF Due, D, E
<1> QED  BY <1>8, <1>9

-----------------------------------------------------------------------------
(* What a batch takes.                                                      *)

LEMMA GreatestInRange ==
  ASSUME NEW L \in Nat, NEW Z \in SUBSET (0..L), Z # {}
  PROVE  Max(Z) \in Z /\ \A z \in Z : z <= Max(Z)
<1> DEFINE D == {L - z : z \in Z}
<1>1. D \in SUBSET Nat /\ D # {}
  <2>1. \A z \in Z : L - z \in Nat
    OBVIOUS
  <2> QED  BY <2>1
<1>2. PICK d \in D : \A e \in D : d <= e
  <2> HIDE DEF D
  <2> QED  BY ONLY <1>1, LeastNat
<1>3. PICK m \in Z : d = L - m
  BY <1>2
<1>4. ASSUME NEW z \in Z PROVE m >= z
  <2>1. L - m <= L - z
    BY <1>2, <1>3
  <2>2. m \in Int /\ z \in Int
    OBVIOUS
  <2> QED  BY ONLY <2>1, <2>2, L \in Nat
<1>5. \E x \in Z : \A y \in Z : x >= y
  BY <1>4
<1>6. Max(Z) \in Z /\ \A z \in Z : Max(Z) >= z
  BY <1>5 DEF Max
<1> HIDE DEF D
<1>7. Max(Z) \in Int /\ \A z \in Z : z \in Int
  <2>1. 0..L \subseteq Int
    OBVIOUS
  <2> QED  BY ONLY <2>1, <1>6, Z \in SUBSET (0..L)
<1> QED  BY ONLY <1>6, <1>7

(* What c would hold after n more items.                                    *)
Batch(c, n) == held[c] \o FirstOf(queue[Key(c)], n)

BatchFits(c, n) ==
  /\ \A i \in 1..n : TotalWeight(Batch(c, i)) <= Weight(c)
  /\ \A i \in 2..n : TotalWeight(Batch(c, i - 1)) < Weight(c)

LEMMA BatchSizeIs ==
  ASSUME NEW c \in Calls, queue[Key(c)] \in Seq(Calls)
  PROVE  /\ BatchSize(c) \in 0..Len(queue[Key(c)])
         /\ BatchFits(c, BatchSize(c))
         /\ \A m \in 0..Len(queue[Key(c)]) : BatchFits(c, m) => m <= BatchSize(c)
<1> DEFINE L == Len(queue[Key(c)])
           Z == {n \in 0..L : BatchFits(c, n)}
<1>1. BatchSize(c) = Max(Z)
  BY DEF BatchSize, BatchFits, Batch
<1>2. L \in Nat
  OBVIOUS
<1>3. BatchFits(c, 0)
  BY DEF BatchFits
<1>4. Z \in SUBSET (0..L) /\ Z # {}
  BY <1>2, <1>3
<1> HIDE DEF Z
<1>5. Max(Z) \in Z /\ \A z \in Z : z <= Max(Z)
  BY <1>2, <1>4, GreatestInRange
<1> QED  BY <1>1, <1>5 DEF Z

LEMMA TotalIsNat ==
  ASSUME NEW items \in Seq(Calls), \A x : Has(items, x) => Weight(x) \in Nat
  PROVE  /\ TotalWeight(items) \in Nat
         /\ \A x \in Calls : Weight(x) \in Nat
              => TotalWeight(Append(items, x)) = TotalWeight(items) + Weight(x)
<1> DEFINE w == [n \in DOMAIN items |-> Weight(items[n])]
<1>1. \A n \in DOMAIN items : Weight(items[n]) \in Nat
  BY DEF Has
<1>2. DOMAIN items = 1..Len(items) /\ Len(items) \in Nat
  OBVIOUS
<1>3. w \in Seq(Nat) /\ Len(w) = Len(items)
  BY <1>1, <1>2
<1>4. TotalWeight(items) = SumOf(w)
  BY DEF TotalWeight
<1>5. SumOf(w) \in Nat
  <2> HIDE DEF w
  <2>1. 0 \in Nat
    OBVIOUS
  <2> QED  BY ONLY <1>3, <2>1, SumAppend
<1>6. ASSUME NEW x \in Calls, Weight(x) \in Nat
      PROVE  TotalWeight(Append(items, x)) = TotalWeight(items) + Weight(x)
  <2> DEFINE t == Append(items, x)
             v == [n \in DOMAIN t |-> Weight(t[n])]
             u == Append(w, Weight(x))
  <2>1. /\ DOMAIN t = 1..(Len(items) + 1) /\ t[Len(items) + 1] = x
        /\ \A i \in 1..Len(items) : t[i] = items[i]
    BY <1>2
  <2>2. /\ DOMAIN u = 1..(Len(items) + 1) /\ u[Len(items) + 1] = Weight(x)
        /\ \A i \in 1..Len(items) : u[i] = w[i]
        /\ u = [i \in DOMAIN u |-> u[i]]
    <3>1. w \in Seq(Nat) /\ Weight(x) \in Nat
      BY <1>3, <1>6
    <3>2. u \in Seq(Nat) /\ Len(u) = Len(w) + 1
      BY <3>1, AppendToSeq
    <3> HIDE DEF w
    <3>3. /\ DOMAIN u = 1..(Len(w) + 1) /\ DOMAIN w = 1..Len(w)
          /\ u[Len(w) + 1] = Weight(x)
          /\ \A i \in DOMAIN w : u[i] = w[i]
      BY <3>1, AppendToSeq
    <3> HIDE DEF u
    <3>4. u = [i \in DOMAIN u |-> u[i]]
      BY <3>2
    <3> QED  BY <3>3, <3>4, <1>3
  <2>3. \A i \in 1..Len(items) : w[i] = Weight(items[i])
    BY <1>2
  <2>4. ASSUME NEW i \in 1..(Len(items) + 1) PROVE Weight(t[i]) = u[i]
    <3>1. CASE i = Len(items) + 1
      BY <3>1, <2>1, <2>2
    <3>2. CASE i \in 1..Len(items)
      BY <3>2, <2>1, <2>2, <2>3
    <3> QED  BY <3>1, <3>2, <1>2
  <2> HIDE DEF t, u
  <2>5. v = u
    BY <2>1, <2>2, <2>4
  <2>6. TotalWeight(t) = SumOf(u)
    BY <2>5 DEF TotalWeight
  <2> HIDE DEF w
  <2>7. SumOf(u) = SumOf(w) + Weight(x)
    BY <1>3, <1>6, SumAppend DEF u
  <2> QED  BY <2>6, <2>7, <1>4 DEF t
<1> QED  BY <1>4, <1>5, <1>6

LEMMA TotalEmpty == TotalWeight(<<>>) = 0
<1>1. [n \in DOMAIN <<>> |-> Weight(<<>>[n])] = <<>>
  OBVIOUS
<1> QED  BY <1>1, SumEmpty DEF TotalWeight

LEMMA ConcatAppend ==
  ASSUME NEW S, NEW s \in Seq(S), NEW t \in Seq(S), NEW e \in S
  PROVE  s \o Append(t, e) = Append(s \o t, e)
  OBVIOUS

LEMMA ConcatLen ==
  ASSUME NEW S, NEW s \in Seq(S), NEW t \in Seq(S)
  PROVE  s \o t \in Seq(S) /\ Len(s) \in Nat /\ Len(s \o t) = Len(s) + Len(t)
  OBVIOUS

LEMMA BatchGrows ==
  ASSUME NEW c \in Calls, held[c] \in Seq(Calls), queue[Key(c)] \in Seq(Calls)
  PROVE  LET q == queue[Key(c)]
         IN /\ Batch(c, 0) = held[c] /\ Batch(c, Len(q)) = held[c] \o q
            /\ \A n \in 0..Len(q) :
                 /\ Batch(c, n) \in Seq(Calls)
                 /\ \A x : Has(Batch(c, n), x) => Has(held[c], x) \/ Has(q, x)
                 /\ n > 0 => Batch(c, n) # <<>>
            /\ \A n \in 0..(Len(q) - 1) :
                 /\ Batch(c, n + 1) = Append(Batch(c, n), q[n + 1])
                 /\ q[n + 1] \in Calls /\ Has(q, q[n + 1])
<1> DEFINE q == queue[Key(c)]
<1>1. held[c] \in Seq(Calls) /\ q \in Seq(Calls) /\ Len(q) \in Nat
  OBVIOUS
<1> HIDE DEF q
<1>2. FirstOf(q, 0) = <<>> /\ FirstOf(q, Len(q)) = q
  BY <1>1 DEF FirstOf
<1>3. Batch(c, 0) = held[c] /\ Batch(c, Len(q)) = held[c] \o q
  <2>1. held[c] \o <<>> = held[c]
    BY <1>1
  <2> QED  BY <2>1, <1>2 DEF Batch, q
<1>4. ASSUME NEW n \in 0..Len(q)
      PROVE  /\ Batch(c, n) \in Seq(Calls)
             /\ \A x : Has(Batch(c, n), x) => Has(held[c], x) \/ Has(q, x)
             /\ n > 0 => Batch(c, n) # <<>>
  <2> DEFINE f == FirstOf(q, n)
  <2>1. n \in Nat
    BY <1>1
  <2>2. f \in Seq(Calls) /\ (\A x : Has(f, x) => Has(q, x)) /\ Len(f) = n
    <3>1. Len(f) = IF n < Len(q) THEN n ELSE Len(q)
      BY <1>1, <2>1, FirstAndAfter
    <3> QED  BY <3>1, <1>1, <2>1, Parted, FirstAndAfter
  <2>3. Batch(c, n) = held[c] \o f
    BY DEF Batch, q
  <2> HIDE DEF f
  <2>4. \A x : Has(held[c] \o f, x) <=> Has(held[c], x) \/ Has(f, x)
    BY <1>1, <2>2, HasConcat
  <2>5. held[c] \o f \in Seq(Calls) /\ Len(held[c] \o f) = Len(held[c]) + n /\ Len(held[c]) \in Nat
    <3> DEFINE h == held[c]
    <3>1. h \in Seq(Calls)
      BY <1>1
    <3> HIDE DEF h
    <3>2. h \o f \in Seq(Calls) /\ Len(h) \in Nat /\ Len(h \o f) = Len(h) + Len(f)
      BY ONLY <3>1, <2>2, ConcatLen
    <3> QED  BY <3>2, <2>2 DEF h
  <2>6. n > 0 => held[c] \o f # <<>>
    <3>1. n > 0 => Len(held[c] \o f) # 0
      BY <2>1, <2>5
    <3>2. Len(<<>>) = 0
      OBVIOUS
    <3> QED  BY <3>1, <3>2
  <2> QED  BY <2>2, <2>3, <2>4, <2>5, <2>6
<1>5. ASSUME NEW n \in 0..(Len(q) - 1)
      PROVE  /\ Batch(c, n + 1) = Append(Batch(c, n), q[n + 1])
             /\ q[n + 1] \in Calls /\ Has(q, q[n + 1])
  <2>1. n + 1 \in DOMAIN q /\ q[n + 1] \in Calls
    BY <1>1
  <2>2. FirstOf(q, n) = SubSeq(q, 1, n) /\ FirstOf(q, n + 1) = SubSeq(q, 1, n + 1)
    BY <1>1 DEF FirstOf
  <2>3. SubSeq(q, 1, n + 1) = Append(SubSeq(q, 1, n), q[n + 1]) /\ SubSeq(q, 1, n) \in Seq(Calls)
    BY <1>1
  <2>4. \A s \in Seq(Calls) : held[c] \o Append(s, q[n + 1]) = Append(held[c] \o s, q[n + 1])
    <3> DEFINE h == held[c]
               e == q[n + 1]
    <3>1. h \in Seq(Calls) /\ e \in Calls
      BY <1>1, <2>1
    <3> HIDE DEF h, e
    <3>2. \A s \in Seq(Calls) : h \o Append(s, e) = Append(h \o s, e)
      BY ONLY <3>1, ConcatAppend
    <3> QED  BY <3>2 DEF h, e
  <2> QED  BY <2>1, <2>2, <2>3, <2>4 DEF Batch, Has, q
<1> QED  BY <1>3, <1>4, <1>5 DEF q

BatchEnds(c) ==
  LET q == queue[Key(c)] n == BatchSize(c)
  IN n < Len(q) \/ (n > 0 /\ TotalWeight(held[c] \o q) >= Weight(c))

(* What get_batch's loop guarantees when it stops, and when it has to wait. *)
LEMMA BatchTaken ==
  ASSUME NEW c \in Calls, held[c] \in Seq(Calls), queue[Key(c)] \in Seq(Calls),
         Weight(c) \in Nat,
         \A x : Has(held[c], x) \/ Has(queue[Key(c)], x) => Weight(x) \in Nat,
         held[c] = <<>> \/ TotalWeight(held[c]) < Weight(c)
  PROVE  LET q == queue[Key(c)]
             n == BatchSize(c)
             b == Batch(c, n)
         IN /\ n \in 0..Len(q) /\ TotalWeight(b) \in Nat
            /\ TotalWeight(b) <= Weight(c)
            /\ BatchEnds(c) => \/ TotalWeight(b) = Weight(c)
                               \/ n < Len(q) /\ TotalWeight(b) + Weight(q[n + 1]) > Weight(c)
            /\ ~BatchEnds(c) => n = Len(q) /\ (b = <<>> \/ TotalWeight(b) < Weight(c))
<1> DEFINE q == queue[Key(c)]
           n == BatchSize(c)
           T(i) == TotalWeight(Batch(c, i))
           w == Weight(c)
           L == Len(q)
<1>1. /\ Batch(c, 0) = held[c] /\ Batch(c, L) = held[c] \o q
      /\ \A i \in 0..L :
           /\ Batch(c, i) \in Seq(Calls)
           /\ \A x : Has(Batch(c, i), x) => Has(held[c], x) \/ Has(q, x)
           /\ i > 0 => Batch(c, i) # <<>>
      /\ \A i \in 0..(L - 1) :
           /\ Batch(c, i + 1) = Append(Batch(c, i), q[i + 1])
           /\ q[i + 1] \in Calls /\ Has(q, q[i + 1])
  BY BatchGrows
<1>2. /\ n \in 0..L
      /\ \A i \in 1..n : T(i) <= w
      /\ \A i \in 2..n : T(i - 1) < w
      /\ \A m \in 0..L : BatchFits(c, m) => m <= n
  BY BatchSizeIs DEF BatchFits
<1>3. L \in Nat /\ w \in Nat
  OBVIOUS
<1>4. \A i \in 0..L : T(i) \in Nat
  BY <1>1, TotalIsNat
<1>5. \A i \in 0..(L - 1) : T(i + 1) = T(i) + Weight(q[i + 1]) /\ Weight(q[i + 1]) \in Nat
  <2>1. ASSUME NEW i \in 0..(L - 1)
        PROVE  T(i + 1) = T(i) + Weight(q[i + 1]) /\ Weight(q[i + 1]) \in Nat
    <3>1. Weight(q[i + 1]) \in Nat /\ q[i + 1] \in Calls
      BY <1>1
    <3>2. i \in 0..L
      BY <1>3
    <3>3. /\ Batch(c, i) \in Seq(Calls)
          /\ \A x : Has(Batch(c, i), x) => Weight(x) \in Nat
      BY <3>2, <1>1
    <3>4. TotalWeight(Append(Batch(c, i), q[i + 1])) = TotalWeight(Batch(c, i)) + Weight(q[i + 1])
      BY <3>1, <3>3, TotalIsNat
    <3> QED  BY <3>1, <3>4, <1>1
  <2> QED  BY <2>1
<1>6. \A m \in 0..L : (\A i \in 1..m : T(i) <= w) /\ (\A i \in 2..m : T(i - 1) < w) => m <= n
  BY <1>2 DEF BatchFits
<1>7. T(0) = 0 \/ T(0) < w
  BY <1>1, TotalEmpty
<1>8. BatchEnds(c) <=> n < L \/ (n > 0 /\ T(L) >= w)
  BY <1>1 DEF BatchEnds
<1>9. n = 0 => Batch(c, n) = <<>> \/ T(n) < w
  BY <1>1
<1> HIDE DEF n, T, w, L
<1>10. T(n) <= w
  BY <1>2, <1>3, <1>4, <1>7
<1>11. n < L => T(n) = w \/ T(n) + Weight(q[n + 1]) > w
  <2> SUFFICES ASSUME n < L, T(n) < w, ~(T(n) + Weight(q[n + 1]) > w) PROVE FALSE
    BY <1>2, <1>3, <1>4, <1>10
  <2>1. n \in 0..(L - 1) /\ n + 1 \in 0..L /\ ~(n + 1 <= n)
    BY <1>2, <1>3
  <2>2. T(n + 1) <= w
    <3>1. T(n + 1) = T(n) + Weight(q[n + 1]) /\ Weight(q[n + 1]) \in Nat
      BY <2>1, <1>5
    <3>2. T(n) \in Nat
      BY <1>2, <1>4
    <3> QED  BY ONLY <3>1, <3>2, <1>3, ~(T(n) + Weight(q[n + 1]) > w)
  <2>3. \A i \in 1..(n + 1) : T(i) <= w
    BY <2>1, <2>2, <1>2
  <2>4. \A i \in 2..(n + 1) : T(i - 1) < w
    <3>1. \A i \in 2..(n + 1) : i \in 2..n \/ i - 1 = n
      BY <2>1
    <3> QED  BY <3>1, <1>2
  <2> QED  BY <2>1, <2>3, <2>4, <1>6
<1>12. n = L /\ n > 0 /\ T(L) >= w => T(n) = w
  BY <1>2, <1>3, <1>4, <1>10
<1>13. BatchEnds(c) => T(n) = w \/ (n < L /\ T(n) + Weight(q[n + 1]) > w)
  BY <1>2, <1>3, <1>8, <1>11, <1>12
<1>14. ~BatchEnds(c) => n = L /\ (Batch(c, n) = <<>> \/ T(n) < w)
  BY <1>2, <1>3, <1>4, <1>8, <1>9
<1> QED  BY <1>2, <1>4, <1>10, <1>13, <1>14 DEF n, T, w, L

-----------------------------------------------------------------------------
(* The inductive invariant.                                                 *)

(* What is in the hands of a call that has not returned.                    *)
Hands ==
  \A c \in Calls :
    /\ request[c] = None <=> pc[c] = "idle"
    /\ pc[c] = "idle" => held[c] = <<>>
    /\ pc[c] = "running" /\ request[c].op \in Puts => held[c] = <<c>>
    /\ pc[c] = "running" /\ request[c].op \in {"get", "get_nowait"} => held[c] = <<>>
    /\ pc[c] = "running" /\ request[c].op = "get_batch" =>
         held[c] = <<>> \/ TotalWeight(held[c]) < Weight(c)

PutsOf(R, k) == {c \in Calls : R[c].op \in Puts /\ R[c].key = k}
GetsOf(R, k) == {c \in Calls : R[c].op \notin Puts /\ R[c].key = k}

(* If a put sleeps, the puts about to run can take all the room there is.   *)
RoomOK(k) ==
  putters[k] # <<>> =>
    MaxSize > 0 /\ MaxSize - Len(queue[k]) <= Due(PutsOf(request, k), ready)

(* If a get sleeps, those about to run can take all the items there are.    *)
ItemsOK(k) ==
  (\E c : Has(getters[k], c) /\ request[c].op = "get") /\ ~BrokeOff(k) =>
    Len(queue[k]) <= Due(GetsOf(request, k), ready)

Inv ==
  /\ TypeOK
  /\ Loop(request, pc, ready, getters, putters)
  /\ Places(request, held, queue)
  /\ Hands
  /\ \A k \in Keys : RoomOK(k) /\ ItemsOK(k)

LEMMA ItemFacts ==
  ASSUME TypeOK, NEW i \in Calls, request[i] # None
  PROVE  /\ request[i] \in Requests /\ request[i].op \in Ops
         /\ Key(i) \in Keys /\ Weight(i) \in Nat
<1>1. request[i] \in Requests
  BY DEF TypeOK
<1> QED  BY <1>1, RequestsAssumption DEF Key, Weight

LEMMA ListTypes ==
  ASSUME TypeOK
  PROVE  /\ queue \in Lists /\ getters \in Lists /\ putters \in Lists
         /\ held \in [Calls -> Seq(Calls)] /\ ready \in Seq(Calls)
         /\ \A k \in Keys : /\ queue[k] \in Seq(Calls) /\ Len(queue[k]) \in Nat
                            /\ getters[k] \in Seq(Calls) /\ putters[k] \in Seq(Calls)
         /\ \A i : IsItem(request, i) => request[i].key \in Keys /\ Weight(i) \in Nat
<1>1. \A i : IsItem(request, i) => request[i].key \in Keys /\ Weight(i) \in Nat
  BY ItemFacts DEF IsItem, Key
<1> QED  BY <1>1 DEF TypeOK, Lists

(* What is known when call c runs.                                          *)
LEMMA Runs ==
  ASSUME Inv, NEW c \in Calls, NEW ops, Running(c, ops)
  PROVE  /\ ready # <<>> /\ c = Head(ready) /\ pc[c] = "running"
         /\ request[c] # None /\ request[c].op \in ops \cap Ops
         /\ Key(c) \in Keys /\ Weight(c) \in Nat
         /\ NoRepeat(ready)
         /\ \A Q : (\A x \in Calls \ {c} : Q[x] = pc[x]) => Ran(pc, ready, Q)
         /\ held[c] \in Seq(Calls)
         /\ \A x : Has(held[c], x) \/ Has(queue[Key(c)], x) => Weight(x) \in Nat
<1>1. TypeOK /\ Loop(request, pc, ready, getters, putters) /\ Hands /\ Places(request, held, queue)
  BY DEF Inv
<1>2. ready # <<>> /\ c = Head(ready) /\ request[c].op \in ops
  BY DEF Running
<1>3. ready \in Seq(Calls) /\ NoRepeat(ready) /\ \A x : Has(ready, x) => pc[x] = "running"
  BY <1>1, ListTypes DEF Loop
<1>4. Has(ready, c)
  BY <1>2, <1>3, NoRepeatTail
<1>5. pc[c] = "running"
  BY <1>3, <1>4
<1>6. request[c] # None
  BY <1>1, <1>5 DEF Hands
<1>7. request[c].op \in Ops /\ Key(c) \in Keys /\ Weight(c) \in Nat
  BY <1>1, <1>6, ItemFacts
<1>8. \A Q : (\A x \in Calls \ {c} : Q[x] = pc[x]) => Ran(pc, ready, Q)
  BY <1>2 DEF Ran
<1>9. held[c] \in Seq(Calls)
  BY <1>1 DEF TypeOK
<1>10. \A x : Has(held[c], x) \/ Has(queue[Key(c)], x) => Weight(x) \in Nat
  BY <1>1, <1>7, ListTypes DEF Places
<1> QED  BY <1>2, <1>3, <1>5, <1>6, <1>7, <1>8, <1>9, <1>10

-----------------------------------------------------------------------------
(* How a step changes the number of puts and of gets about to run.          *)

One(b) == IF b THEN 1 ELSE 0
Least(m, n) == IF m < n THEN m ELSE n

LEMMA LeastOne ==
  ASSUME NEW n \in Nat, n # 0
  PROVE  Least(1, n) = 1
  BY DEF Least

LEMMA DueAfterGets ==
  ASSUME NEW R, NEW P, NEW rd \in Seq(Calls), NEW G \in Lists, NEW W \in Lists,
         Loop(R, P, rd, G, W), rd # <<>>, NEW k \in Keys, NEW n \in Nat, NEW j \in Keys
  PROVE  LET rd2 == Tail(rd) \o FirstOf(G[k], n)
         IN /\ Due(PutsOf(R, j), rd2) = Due(PutsOf(R, j), rd) - One(Head(rd) \in PutsOf(R, j))
            /\ Due(GetsOf(R, j), rd2) = (Due(GetsOf(R, j), rd) - One(Head(rd) \in GetsOf(R, j)))
                                          + (IF j = k THEN Least(n, Len(G[k])) ELSE 0)
<1> DEFINE rd2 == Tail(rd) \o FirstOf(G[k], n)
           s == G[k]
<1>1. /\ NoRepeat(rd) /\ NoRepeat(s) /\ s \in Seq(Calls)
      /\ \A x : Has(s, x) => R[x].op \in Gets /\ R[x].key = k /\ ~Has(rd, x)
  BY DEF Loop, Sleepers, Lists
<1>2. PutsOf(R, j) \in SUBSET Calls /\ GetsOf(R, j) \in SUBSET Calls
  BY DEF PutsOf, GetsOf
<1>3. \A x : Has(s, x) => x \in Calls
  BY <1>1, HasIn
<1>4. \A x : Has(s, x) => x \notin PutsOf(R, j)
  BY <1>1 DEF PutsOf, Puts, Gets
<1>5. j = k => \A x : Has(s, x) => x \in GetsOf(R, j)
  BY <1>1, <1>3 DEF GetsOf, Puts, Gets
<1>6. j # k => \A x : Has(s, x) => x \notin GetsOf(R, j)
  BY <1>1 DEF GetsOf
<1> DEFINE p == Due(PutsOf(R, j), rd)
           g == Due(GetsOf(R, j), rd)
<1>7. Due(PutsOf(R, j), Tail(rd)) = IF Head(rd) \in PutsOf(R, j) THEN p - 1 ELSE p
  BY <1>1, <1>2, DueTail
<1>8. Due(GetsOf(R, j), Tail(rd)) = IF Head(rd) \in GetsOf(R, j) THEN g - 1 ELSE g
  BY <1>1, <1>2, DueTail
<1>9. p \in Nat /\ g \in Nat
  BY <1>2, DueIsNat
<1>10. Due(PutsOf(R, j), rd2) = Due(PutsOf(R, j), Tail(rd))
  BY <1>1, <1>2, <1>4, DueWake
<1>11. j # k => Due(GetsOf(R, j), rd2) = Due(GetsOf(R, j), Tail(rd))
  BY <1>1, <1>2, <1>6, DueWake
<1>12. j = k => Due(GetsOf(R, j), rd2) = Due(GetsOf(R, j), Tail(rd)) + Least(n, Len(s))
  BY <1>1, <1>2, <1>5, DueWake DEF Least
<1>13. Least(n, Len(s)) \in Nat
  BY <1>1 DEF Least
<1> HIDE DEF rd2, s, p, g
<1>14. Due(PutsOf(R, j), rd2) = p - One(Head(rd) \in PutsOf(R, j))
  BY <1>7, <1>9, <1>10 DEF One
<1>15. Due(GetsOf(R, j), Tail(rd)) = g - One(Head(rd) \in GetsOf(R, j))
  BY <1>8, <1>9 DEF One
<1>16. g - One(Head(rd) \in GetsOf(R, j)) \in Int
  BY <1>9 DEF One
<1>17. Due(GetsOf(R, j), rd2) = (g - One(Head(rd) \in GetsOf(R, j)))
                                  + (IF j = k THEN Least(n, Len(s)) ELSE 0)
  <2>1. CASE j = k
    BY <2>1, <1>12, <1>15
  <2>2. CASE j # k
    BY <2>2, <1>11, <1>15, <1>16
  <2> QED  BY <2>1, <2>2
<1> QED  BY <1>14, <1>17 DEF rd2, s, p, g

LEMMA DueAfterPuts ==
  ASSUME NEW R, NEW P, NEW rd \in Seq(Calls), NEW G \in Lists, NEW W \in Lists,
         Loop(R, P, rd, G, W), rd # <<>>, NEW k \in Keys, NEW n \in Nat, NEW j \in Keys
  PROVE  LET rd2 == Tail(rd) \o FirstOf(W[k], n)
         IN /\ Due(GetsOf(R, j), rd2) = Due(GetsOf(R, j), rd) - One(Head(rd) \in GetsOf(R, j))
            /\ Due(PutsOf(R, j), rd2) = (Due(PutsOf(R, j), rd) - One(Head(rd) \in PutsOf(R, j)))
                                          + (IF j = k THEN Least(n, Len(W[k])) ELSE 0)
<1> DEFINE rd2 == Tail(rd) \o FirstOf(W[k], n)
           s == W[k]
<1>1. /\ NoRepeat(rd) /\ NoRepeat(s) /\ s \in Seq(Calls)
      /\ \A x : Has(s, x) => R[x].op = "put" /\ R[x].key = k /\ ~Has(rd, x)
  BY DEF Loop, Sleepers, Lists
<1>2. PutsOf(R, j) \in SUBSET Calls /\ GetsOf(R, j) \in SUBSET Calls
  BY DEF PutsOf, GetsOf
<1>3. \A x : Has(s, x) => x \in Calls
  BY <1>1, HasIn
<1>4. \A x : Has(s, x) => x \notin GetsOf(R, j)
  BY <1>1 DEF GetsOf, Puts
<1>5. j = k => \A x : Has(s, x) => x \in PutsOf(R, j)
  BY <1>1, <1>3 DEF PutsOf, Puts
<1>6. j # k => \A x : Has(s, x) => x \notin PutsOf(R, j)
  BY <1>1 DEF PutsOf
<1> DEFINE p == Due(PutsOf(R, j), rd)
           g == Due(GetsOf(R, j), rd)
<1>7. Due(PutsOf(R, j), Tail(rd)) = IF Head(rd) \in PutsOf(R, j) THEN p - 1 ELSE p
  BY <1>1, <1>2, DueTail
<1>8. Due(GetsOf(R, j), Tail(rd)) = IF Head(rd) \in GetsOf(R, j) THEN g - 1 ELSE g
  BY <1>1, <1>2, DueTail
<1>9. p \in Nat /\ g \in Nat
  BY <1>2, DueIsNat
<1>10. Due(GetsOf(R, j), rd2) = Due(GetsOf(R, j), Tail(rd))
  BY <1>1, <1>2, <1>4, DueWake
<1>11. j # k => Due(PutsOf(R, j), rd2) = Due(PutsOf(R, j), Tail(rd))
  BY <1>1, <1>2, <1>6, DueWake
<1>12. j = k => Due(PutsOf(R, j), rd2) = Due(PutsOf(R, j), Tail(rd)) + Least(n, Len(s))
  BY <1>1, <1>2, <1>5, DueWake DEF Least
<1>13. Least(n, Len(s)) \in Nat
  BY <1>1 DEF Least
<1> HIDE DEF rd2, s, p, g
<1>14. Due(GetsOf(R, j), rd2) = g - One(Head(rd) \in GetsOf(R, j))
  BY <1>8, <1>9, <1>10 DEF One
<1>15. Due(PutsOf(R, j), Tail(rd)) = p - One(Head(rd) \in PutsOf(R, j))
  BY <1>7, <1>9 DEF One
<1>16. p - One(Head(rd) \in PutsOf(R, j)) \in Int
  BY <1>9 DEF One
<1>17. Due(PutsOf(R, j), rd2) = (p - One(Head(rd) \in PutsOf(R, j)))
                                  + (IF j = k THEN Least(n, Len(s)) ELSE 0)
  <2>1. CASE j = k
    BY <2>1, <1>12, <1>15
  <2>2. CASE j # k
    BY <2>2, <1>11, <1>15, <1>16
  <2> QED  BY <2>1, <2>2
<1> QED  BY <1>14, <1>17 DEF rd2, s, p, g

(* A broken-off batch stays one.                                            *)
LEMMA StaysBrokeOff ==
  ASSUME NEW c \in Calls, pc[c] = "running", request' = request,
         \A x \in Calls \ {c} : pc'[x] = pc[x] /\ held'[x] = held[x],
         NEW k, BrokeOff(k)
  PROVE  BrokeOff(k)'
<1>1. PICK x \in Calls : /\ pc[x] = "done" /\ request[x].op = "get_batch" /\ Key(x) = k
                         /\ held[x] = <<>> \/ TotalWeight(held[x]) < Weight(x)
  BY DEF BrokeOff
<1>2. x # c
  BY <1>1
<1>3. pc'[x] = pc[x] /\ held'[x] = held[x]
  BY <1>2
<1>4. TotalWeight(held[x])' = TotalWeight(held[x]) /\ Weight(x)' = Weight(x) /\ Key(x)' = Key(x)
  BY <1>3 DEF TotalWeight, Weight, Key
<1> QED  BY <1>1, <1>3, <1>4 DEF BrokeOff

-----------------------------------------------------------------------------
(* The steps.                                                               *)

LEMMA InvParts ==
  ASSUME Inv
  PROVE  /\ TypeOK /\ Loop(request, pc, ready, getters, putters)
         /\ Places(request, held, queue) /\ Hands
         /\ \A k \in Keys : RoomOK(k) /\ ItemsOK(k)
  BY DEF Inv

(* A put that finds room.                                                   *)
LEMMA PutWithRoom ==
  ASSUME Inv, NEW c \in Calls, Running(c, Puts), ~Full(Key(c)),
         queue' = [queue EXCEPT ![Key(c)] = Append(@, c)],
         held' = [held EXCEPT ![c] = <<>>],
         WakeUp(getters, Key(c), 1), Return(c, "done"), UNCHANGED <<request, putters>>
  PROVE  Inv'
<1> DEFINE k == Key(c)
<1>1. /\ TypeOK /\ Loop(request, pc, ready, getters, putters)
      /\ Places(request, held, queue) /\ Hands
      /\ \A j \in Keys : RoomOK(j) /\ ItemsOK(j)
  BY InvParts
<1>2. /\ queue \in Lists /\ getters \in Lists /\ putters \in Lists
      /\ held \in [Calls -> Seq(Calls)] /\ ready \in Seq(Calls)
      /\ \A j \in Keys : /\ queue[j] \in Seq(Calls) /\ Len(queue[j]) \in Nat
                         /\ getters[j] \in Seq(Calls) /\ putters[j] \in Seq(Calls)
      /\ \A i : IsItem(request, i) => request[i].key \in Keys
  BY <1>1, ListTypes
<1>3. /\ ready # <<>> /\ c = Head(ready) /\ pc[c] = "running"
      /\ request[c] # None /\ request[c].op \in Puts
      /\ k \in Keys
      /\ \A Q : (\A x \in Calls \ {c} : Q[x] = pc[x]) => Ran(pc, ready, Q)
  BY Runs
<1>4. pc' = [pc EXCEPT ![c] = "done"] /\ pc \in [Calls -> PC]
  BY <1>1 DEF Return, TypeOK
<1>5. /\ getters' = [getters EXCEPT ![k] = After(@, 1)]
      /\ ready' = Tail(ready) \o FirstOf(getters[k], 1)
      /\ request' = request /\ putters' = putters
  BY DEF WakeUp
<1>6. held[c] = <<c>>
  BY <1>1, <1>3 DEF Hands
<1>7. Ran(pc, ready, pc')
  BY <1>3, <1>4
<1>8. /\ ready' \in Seq(Calls) /\ getters' \in Lists
      /\ Loop(request, pc', ready', getters', putters)
  BY <1>1, <1>2, <1>3, <1>5, <1>7, LoopWakesGets
<1>9. /\ held' \in [Calls -> Seq(Calls)] /\ queue' \in Lists
      /\ Places(request, held', queue')
  BY <1>1, <1>2, <1>6, PlacesPut DEF Key
<1>10. Len(queue'[k]) = Len(queue[k]) + 1 /\ \A j \in Keys \ {k} : queue'[j] = queue[j]
  <2>1. queue'[k] = Append(queue[k], c)
    BY <1>2, <1>3 DEF Lists
  <2>2. Len(Append(queue[k], c)) = Len(queue[k]) + 1
    BY <1>2, <1>3
  <2> QED  BY <2>1, <2>2, <1>2 DEF Lists
<1> HIDE DEF k
<1>11. TypeOK'
  <2>1. MaxSize > 0 => \A j \in Keys : Len(queue'[j]) <= MaxSize
    <3> SUFFICES ASSUME MaxSize > 0, NEW j \in Keys PROVE Len(queue'[j]) <= MaxSize
      OBVIOUS
    <3>1. CASE j = k
      <4>1. ~(Len(queue[k]) >= MaxSize)
        BY DEF Full, k
      <4> QED  BY <4>1, <3>1, <1>2, <1>3, <1>10, MaxSizeAssumption
    <3>2. CASE j # k
      BY <3>2, <1>1, <1>10 DEF TypeOK
    <3> QED  BY <3>1, <3>2
  <2>2. pc' \in [Calls -> PC]
    BY <1>4 DEF PC
  <2> QED  BY <2>1, <2>2, <1>1, <1>2, <1>5, <1>8, <1>9 DEF TypeOK, Lists
<1>12. Hands'
  <2> SUFFICES ASSUME NEW x \in Calls
               PROVE  /\ request[x] = None <=> pc'[x] = "idle"
                      /\ pc'[x] = "idle" => held'[x] = <<>>
                      /\ pc'[x] = "running" /\ request[x].op \in Puts => held'[x] = <<x>>
                      /\ pc'[x] = "running" /\ request[x].op \in {"get", "get_nowait"} => held'[x] = <<>>
                      /\ pc'[x] = "running" /\ request[x].op = "get_batch" =>
                           held'[x] = <<>> \/ TotalWeight(held[x])' < Weight(x)'
    BY <1>5 DEF Hands
  <2>1. CASE x = c
    BY <2>1, <1>3, <1>4
  <2>2. CASE x # c
    <3>1. pc'[x] = pc[x] /\ held'[x] = held[x]
      BY <2>2, <1>2, <1>4
    <3>2. TotalWeight(held[x])' = TotalWeight(held[x]) /\ Weight(x)' = Weight(x)
      BY <3>1, <1>5 DEF TotalWeight, Weight
    <3> QED  BY <3>1, <3>2, <1>1 DEF Hands
  <2> QED  BY <2>1, <2>2
<1>13. ASSUME NEW j \in Keys
       PROVE  RoomOK(j)' /\ ItemsOK(j)'
  <2> DEFINE p == Due(PutsOf(request, j), ready)
             g == Due(GetsOf(request, j), ready)
             p2 == Due(PutsOf(request, j), ready')
             g2 == Due(GetsOf(request, j), ready')
  <2>1. /\ p2 = p - One(c \in PutsOf(request, j))
        /\ g2 = (g - One(c \in GetsOf(request, j)))
                  + (IF j = k THEN Least(1, Len(getters[k])) ELSE 0)
    <3> DEFINE rd2 == Tail(ready) \o FirstOf(getters[k], 1)
    <3>1. /\ ready \in Seq(Calls) /\ getters \in Lists /\ putters \in Lists
          /\ Loop(request, pc, ready, getters, putters) /\ ready # <<>>
          /\ k \in Keys /\ 1 \in Nat /\ j \in Keys
      BY <1>1, <1>2, <1>3
    <3>2. /\ Due(PutsOf(request, j), rd2)
               = Due(PutsOf(request, j), ready) - One(Head(ready) \in PutsOf(request, j))
          /\ Due(GetsOf(request, j), rd2)
               = (Due(GetsOf(request, j), ready) - One(Head(ready) \in GetsOf(request, j)))
                   + (IF j = k THEN Least(1, Len(getters[k])) ELSE 0)
      BY ONLY <3>1, DueAfterGets
    <3>3. ready' = rd2 /\ c = Head(ready)
      BY <1>3, <1>5
    <3> QED  BY <3>2, <3>3
  <2>2. p \in Nat /\ g \in Nat /\ p2 \in Nat /\ g2 \in Nat
    BY DueIsNat DEF PutsOf, GetsOf
  <2>3. (c \in PutsOf(request, j) <=> j = k) /\ c \notin GetsOf(request, j)
    BY <1>3 DEF PutsOf, GetsOf, Key, k
  <2> DEFINE l == Len(queue[j])
             l2 == Len(queue'[j])
  <2> HIDE DEF p, g, p2, g2
  <2>4. /\ j = k => p2 = p - 1 /\ g2 = g + Least(1, Len(getters[k])) /\ l2 = l + 1
        /\ j # k => p2 = p /\ g2 = g /\ l2 = l
    BY <2>1, <2>2, <2>3, <1>10 DEF One
  <2>5. l \in Nat
    BY <1>2
  <2> HIDE DEF l, l2
  <2>7. RoomOK(j)'
    <3> SUFFICES ASSUME putters[j] # <<>>
                 PROVE  MaxSize > 0 /\ MaxSize - Len(queue'[j]) <= p2
      BY <1>5 DEF RoomOK, p2
    <3>1. MaxSize > 0 /\ MaxSize - l <= p
      BY <1>1 DEF RoomOK, p, l
    <3>2. MaxSize - l2 <= p2
      BY ONLY <3>1, <2>2, <2>4, <2>5, MaxSizeAssumption
    <3> QED  BY <3>1, <3>2 DEF l2
  <2>8. ItemsOK(j)'
    <3> SUFFICES ASSUME NEW x, Has(getters'[j], x), request[x].op = "get", ~BrokeOff(j)'
                 PROVE  Len(queue'[j]) <= g2
      BY <1>5 DEF ItemsOK, g2
    <3>1. Has(getters[j], x)
      <4>1. CASE j = k
        <5>1. getters'[j] = After(getters[j], 1)
          BY <4>1, <1>2, <1>3, <1>5 DEF Lists
        <5> QED  BY <5>1, <1>2, Parted
      <4>2. CASE j # k
        BY <4>2, <1>2, <1>3, <1>5 DEF Lists
      <4> QED  BY <4>1, <4>2
    <3>2. ~BrokeOff(j)
      <4>1. \A y \in Calls \ {c} : pc'[y] = pc[y] /\ held'[y] = held[y]
        BY <1>2, <1>4
      <4> QED  BY <4>1, <1>3, <1>5, StaysBrokeOff
    <3>3. l <= g
      BY <3>1, <3>2, <1>1 DEF ItemsOK, g, l
    <3>4. j = k => Least(1, Len(getters[k])) = 1
      <4>1. Len(getters[j]) \in Nat /\ Len(getters[j]) # 0
        BY <3>1, <1>2 DEF Has
      <4> QED  BY <4>1, LeastOne
    <3>5. l2 <= g2
      BY ONLY <3>3, <3>4, <2>2, <2>4, <2>5
    <3> QED  BY <3>5 DEF l2
  <2> QED  BY <2>7, <2>8
<1> QED  BY <1>5, <1>8, <1>9, <1>11, <1>12, <1>13 DEF Inv

(* What the counts become when nothing is put, taken or woken.              *)
LEMMA DueAfterNone ==
  ASSUME NEW R, NEW P, NEW rd \in Seq(Calls), NEW G \in Lists, NEW W \in Lists,
         Loop(R, P, rd, G, W), rd # <<>>, NEW j \in Keys
  PROVE  /\ Due(PutsOf(R, j), Tail(rd)) = Due(PutsOf(R, j), rd) - One(Head(rd) \in PutsOf(R, j))
         /\ Due(GetsOf(R, j), Tail(rd)) = Due(GetsOf(R, j), rd) - One(Head(rd) \in GetsOf(R, j))
<1>1. Tail(rd) \in Seq(Calls) /\ G[j] \in Seq(Calls) /\ W[j] \in Seq(Calls)
  BY TailOfSeq DEF Lists
<1>2. Tail(rd) \o FirstOf(G[j], 0) = Tail(rd) /\ Tail(rd) \o FirstOf(W[j], 0) = Tail(rd)
  BY <1>1, FirstOfNone
<1>3. 0 \in Nat
  OBVIOUS
<1> DEFINE g == Tail(rd) \o FirstOf(G[j], 0)
           w == Tail(rd) \o FirstOf(W[j], 0)
<1>4. Due(PutsOf(R, j), g) = Due(PutsOf(R, j), rd) - One(Head(rd) \in PutsOf(R, j))
  BY <1>3, DueAfterGets
<1>5. Due(GetsOf(R, j), w) = Due(GetsOf(R, j), rd) - One(Head(rd) \in GetsOf(R, j))
  BY <1>3, DueAfterPuts
<1> QED  BY <1>2, <1>4, <1>5

(* What Hands says of the others does not change.                           *)
LEMMA HandsOfOthers ==
  ASSUME Hands, request' = request, NEW x \in Calls, pc'[x] = pc[x], held'[x] = held[x]
  PROVE  /\ request'[x] = None <=> pc'[x] = "idle"
         /\ pc'[x] = "idle" => held'[x] = <<>>
         /\ pc'[x] = "running" /\ request'[x].op \in Puts => held'[x] = <<x>>
         /\ pc'[x] = "running" /\ request'[x].op \in {"get", "get_nowait"} => held'[x] = <<>>
         /\ pc'[x] = "running" /\ request'[x].op = "get_batch" =>
              held'[x] = <<>> \/ TotalWeight(held[x])' < Weight(x)'
<1>1. TotalWeight(held[x])' = TotalWeight(held[x]) /\ Weight(x)' = Weight(x)
  BY DEF TotalWeight, Weight
<1> QED  BY <1>1 DEF Hands

(* A put that finds the queue full sleeps or is refused.                    *)
LEMMA PutWithoutRoom ==
  ASSUME Inv, NEW c \in Calls, Running(c, Puts), Full(Key(c)),
         IF request[c].op = "put" THEN Sleep(putters, Key(c), c) /\ UNCHANGED pc
                                  ELSE Return(c, "QueueFull") /\ UNCHANGED putters,
         held' = [held EXCEPT ![c] = <<c>>], ready' = Tail(ready),
         UNCHANGED <<request, queue, getters>>
  PROVE  Inv'
<1> DEFINE k == Key(c)
<1>1. /\ TypeOK /\ Loop(request, pc, ready, getters, putters)
      /\ Places(request, held, queue) /\ Hands
      /\ \A j \in Keys : RoomOK(j) /\ ItemsOK(j)
  BY InvParts
<1>2. /\ queue \in Lists /\ getters \in Lists /\ putters \in Lists
      /\ held \in [Calls -> Seq(Calls)] /\ ready \in Seq(Calls)
      /\ \A j \in Keys : /\ queue[j] \in Seq(Calls) /\ Len(queue[j]) \in Nat
                         /\ getters[j] \in Seq(Calls) /\ putters[j] \in Seq(Calls)
  BY <1>1, ListTypes
<1>3. /\ ready # <<>> /\ c = Head(ready) /\ pc[c] = "running"
      /\ request[c] # None /\ request[c].op \in Puts
      /\ k \in Keys
      /\ \A Q : (\A x \in Calls \ {c} : Q[x] = pc[x]) => Ran(pc, ready, Q)
  BY Runs
<1>4. request' = request /\ queue' = queue /\ getters' = getters
  OBVIOUS
<1>5. held' = held
  <2>1. held[c] = <<c>>
    BY <1>1, <1>3 DEF Hands
  <2> QED  BY <2>1, <1>2
<1>6. pc' \in [Calls -> PC] /\ \A x \in Calls \ {c} : pc'[x] = pc[x]
  <2>1. pc \in [Calls -> PC]
    BY <1>1 DEF TypeOK
  <2> QED  BY <2>1 DEF Return, PC
<1>7. Ran(pc, ready, pc')
  BY <1>3, <1>6
<1>8. /\ Tail(ready) \in Seq(Calls)
      /\ Loop(request, pc', Tail(ready), getters, putters)
      /\ Nowhere(c, Tail(ready), getters, putters)
  BY <1>1, <1>2, <1>3, <1>7, LoopRuns
<1>9. /\ putters' \in Lists /\ Loop(request, pc', ready', getters, putters')
      /\ \A j \in Keys \ {k} : putters'[j] = putters[j]
  <2>1. CASE request[c].op = "put"
    <3>1. putters' = [putters EXCEPT ![k] = Append(@, c)] /\ pc' = pc
      BY <2>1 DEF Sleep
    <3>2. pc'[c] = "running" /\ request[c].key = k
      BY <3>1, <1>3 DEF Key
    <3>3. /\ [putters EXCEPT ![k] = Append(@, c)] \in Lists
          /\ Loop(request, pc', Tail(ready), getters, [putters EXCEPT ![k] = Append(@, c)])
      BY <3>2, <2>1, <1>2, <1>3, <1>8, LoopSleepsPut
    <3> QED  BY <3>1, <3>3, <1>2 DEF Lists
  <2>2. CASE request[c].op # "put"
    BY <2>2, <1>2, <1>8
  <2> QED  BY <2>1, <2>2
<1> HIDE DEF k
<1>10. TypeOK'
  BY <1>1, <1>2, <1>4, <1>5, <1>6, <1>8, <1>9 DEF TypeOK, Lists
<1>11. Hands'
  <2> SUFFICES ASSUME NEW x \in Calls
               PROVE  /\ request'[x] = None <=> pc'[x] = "idle"
                      /\ pc'[x] = "idle" => held'[x] = <<>>
                      /\ pc'[x] = "running" /\ request'[x].op \in Puts => held'[x] = <<x>>
                      /\ pc'[x] = "running" /\ request'[x].op \in {"get", "get_nowait"} => held'[x] = <<>>
                      /\ pc'[x] = "running" /\ request'[x].op = "get_batch" =>
                           held'[x] = <<>> \/ TotalWeight(held[x])' < Weight(x)'
    BY DEF Hands
  <2>1. CASE pc'[x] = pc[x]
    BY <2>1, <1>1, <1>5, HandsOfOthers
  <2>2. CASE x = c /\ pc'[x] = "QueueFull"
    BY <2>2, <1>3, <1>4
  <2>3. pc'[c] = pc[c] \/ pc'[c] = "QueueFull"
    <3>1. pc \in [Calls -> PC]
      BY <1>1 DEF TypeOK
    <3> QED  BY <3>1 DEF Return
  <2> QED  BY <2>1, <2>2, <2>3, <1>6
<1>12. ASSUME NEW j \in Keys
       PROVE  RoomOK(j)' /\ ItemsOK(j)'
  <2> DEFINE p == Due(PutsOf(request, j), ready)
             g == Due(GetsOf(request, j), ready)
             p2 == Due(PutsOf(request, j), ready')
             g2 == Due(GetsOf(request, j), ready')
             l == Len(queue[j])
  <2>1. /\ p2 = p - One(c \in PutsOf(request, j))
        /\ g2 = g - One(c \in GetsOf(request, j))
    BY <1>1, <1>2, <1>3, DueAfterNone
  <2>2. p \in Nat /\ g \in Nat /\ p2 \in Nat /\ g2 \in Nat
    BY DueIsNat DEF PutsOf, GetsOf
  <2>3. (c \in PutsOf(request, j) <=> j = k) /\ c \notin GetsOf(request, j)
    BY <1>3 DEF PutsOf, GetsOf, Key, k
  <2>4. l \in Nat
    BY <1>2
  <2> HIDE DEF p, g, p2, g2, l
  <2>5. (j # k => p2 = p) /\ g2 = g
    BY <2>1, <2>2, <2>3 DEF One
  <2>6. RoomOK(j)'
    <3> SUFFICES ASSUME putters'[j] # <<>>
                 PROVE  MaxSize > 0 /\ MaxSize - l <= p2
      BY <1>4 DEF RoomOK, p2, l
    <3>1. CASE j = k
      <4>1. MaxSize > 0 /\ l >= MaxSize
        BY <3>1 DEF Full, k, l
      <4> QED  BY ONLY <4>1, <2>2, <2>4, MaxSizeAssumption
    <3>2. CASE j # k
      <4>1. MaxSize > 0 /\ MaxSize - l <= p
        BY <3>2, <1>1, <1>9 DEF RoomOK, p, l
      <4> QED  BY <4>1, <3>2, <2>5
    <3> QED  BY <3>1, <3>2
  <2>7. ItemsOK(j)'
    <3> SUFFICES ASSUME NEW x, Has(getters[j], x), request[x].op = "get", ~BrokeOff(j)'
                 PROVE  l <= g2
      BY <1>4 DEF ItemsOK, g2, l
    <3>1. ~BrokeOff(j)
      BY <1>3, <1>4, <1>5, <1>6, StaysBrokeOff
    <3>2. l <= g
      BY <3>1, <1>1 DEF ItemsOK, g, l
    <3> QED  BY <3>2, <2>5
  <2> QED  BY <2>6, <2>7
<1> QED  BY <1>1, <1>4, <1>5, <1>9, <1>10, <1>11, <1>12 DEF Inv

(* A get that finds the queue empty sleeps or is refused.                   *)
LEMMA GetWithoutItem ==
  ASSUME Inv, NEW c \in Calls, Running(c, {"get", "get_nowait"}), queue[Key(c)] = <<>>,
         IF request[c].op = "get" THEN Sleep(getters, Key(c), c) /\ UNCHANGED pc
                                  ELSE Return(c, "QueueEmpty") /\ UNCHANGED getters,
         ready' = Tail(ready),
         UNCHANGED <<request, held, queue, putters>>
  PROVE  Inv'
<1> DEFINE k == Key(c)
<1>1. /\ TypeOK /\ Loop(request, pc, ready, getters, putters)
      /\ Places(request, held, queue) /\ Hands
      /\ \A j \in Keys : RoomOK(j) /\ ItemsOK(j)
  BY InvParts
<1>2. /\ queue \in Lists /\ getters \in Lists /\ putters \in Lists
      /\ held \in [Calls -> Seq(Calls)] /\ ready \in Seq(Calls)
      /\ \A j \in Keys : /\ queue[j] \in Seq(Calls) /\ Len(queue[j]) \in Nat
                         /\ getters[j] \in Seq(Calls) /\ putters[j] \in Seq(Calls)
      /\ \A i : IsItem(request, i) => request[i].key \in Keys
  BY <1>1, ListTypes
<1>3. /\ ready # <<>> /\ c = Head(ready) /\ pc[c] = "running"
      /\ request[c] # None /\ request[c].op \in {"get", "get_nowait"}
      /\ k \in Keys
      /\ \A Q : (\A x \in Calls \ {c} : Q[x] = pc[x]) => Ran(pc, ready, Q)
  BY Runs
<1>4. request' = request /\ queue' = queue /\ putters' = putters
  OBVIOUS
<1>5. held' = held
  OBVIOUS
<1>6. pc' \in [Calls -> PC] /\ \A x \in Calls \ {c} : pc'[x] = pc[x]
  <2>1. pc \in [Calls -> PC]
    BY <1>1 DEF TypeOK
  <2> QED  BY <2>1 DEF Return, PC
<1>7. Ran(pc, ready, pc')
  BY <1>3, <1>6
<1>8. /\ Tail(ready) \in Seq(Calls)
      /\ Loop(request, pc', Tail(ready), getters, putters)
      /\ Nowhere(c, Tail(ready), getters, putters)
  BY <1>1, <1>2, <1>3, <1>7, LoopRuns
<1>9. /\ getters' \in Lists /\ Loop(request, pc', ready', getters', putters)
      /\ \A j \in Keys \ {k} : getters'[j] = getters[j]
  <2>1. CASE request[c].op = "get"
    <3>1. getters' = [getters EXCEPT ![k] = Append(@, c)] /\ pc' = pc
      BY <2>1 DEF Sleep
    <3>2. pc'[c] = "running" /\ request[c].key = k /\ request[c].op \in Gets
      BY <2>1, <3>1, <1>3 DEF Key, Gets
    <3>3. /\ [getters EXCEPT ![k] = Append(@, c)] \in Lists
          /\ Loop(request, pc', Tail(ready), [getters EXCEPT ![k] = Append(@, c)], putters)
      BY <3>2, <1>2, <1>3, <1>8, LoopSleepsGet
    <3> QED  BY <3>1, <3>3, <1>2 DEF Lists
  <2>2. CASE request[c].op # "get"
    BY <2>2, <1>2, <1>8
  <2> QED  BY <2>1, <2>2
<1> HIDE DEF k
<1>10. TypeOK'
  BY <1>1, <1>2, <1>4, <1>5, <1>6, <1>8, <1>9 DEF TypeOK, Lists
<1>11. Hands'
  <2> SUFFICES ASSUME NEW x \in Calls
               PROVE  /\ request'[x] = None <=> pc'[x] = "idle"
                      /\ pc'[x] = "idle" => held'[x] = <<>>
                      /\ pc'[x] = "running" /\ request'[x].op \in Puts => held'[x] = <<x>>
                      /\ pc'[x] = "running" /\ request'[x].op \in {"get", "get_nowait"} => held'[x] = <<>>
                      /\ pc'[x] = "running" /\ request'[x].op = "get_batch" =>
                           held'[x] = <<>> \/ TotalWeight(held[x])' < Weight(x)'
    BY DEF Hands
  <2>1. CASE pc'[x] = pc[x]
    BY <2>1, <1>1, <1>5, HandsOfOthers
  <2>2. CASE x = c /\ pc'[x] = "QueueEmpty"
    BY <2>2, <1>3, <1>4
  <2>3. pc'[c] = pc[c] \/ pc'[c] = "QueueEmpty"
    <3>1. pc \in [Calls -> PC]
      BY <1>1 DEF TypeOK
    <3> QED  BY <3>1 DEF Return
  <2> QED  BY <2>1, <2>2, <2>3, <1>6
<1>12. ASSUME NEW j \in Keys
       PROVE  RoomOK(j)' /\ ItemsOK(j)'
  <2> DEFINE p == Due(PutsOf(request, j), ready)
             g == Due(GetsOf(request, j), ready)
             p2 == Due(PutsOf(request, j), ready')
             g2 == Due(GetsOf(request, j), ready')
             l == Len(queue[j])
  <2>1. /\ p2 = p - One(c \in PutsOf(request, j))
        /\ g2 = g - One(c \in GetsOf(request, j))
    BY <1>1, <1>2, <1>3, DueAfterNone
  <2>2. p \in Nat /\ g \in Nat /\ p2 \in Nat /\ g2 \in Nat
    BY DueIsNat DEF PutsOf, GetsOf
  <2>3. (c \in GetsOf(request, j) <=> j = k) /\ c \notin PutsOf(request, j)
    BY <1>3 DEF PutsOf, GetsOf, Puts, Key, k
  <2>4. j = k => l = 0
    BY DEF k
  <2> HIDE DEF p, g, p2, g2, l
  <2>5. (j # k => g2 = g) /\ p2 = p
    BY <2>1, <2>2, <2>3 DEF One
  <2>6. RoomOK(j)'
    <3> SUFFICES ASSUME putters[j] # <<>>
                 PROVE  MaxSize > 0 /\ MaxSize - l <= p2
      BY <1>4 DEF RoomOK, p2, l
    <3> QED  BY <2>5, <1>1 DEF RoomOK, p, l
  <2>7. ItemsOK(j)'
    <3>1. CASE j = k
      <4>1. l <= g2
        BY ONLY <3>1, <2>2, <2>4
      <4> QED  BY <4>1, <1>4 DEF ItemsOK, g2, l
    <3>2. CASE j # k
      <4> SUFFICES ASSUME NEW x, Has(getters[j], x), request[x].op = "get", ~BrokeOff(j)'
                   PROVE  l <= g2
        BY <3>2, <1>4, <1>9 DEF ItemsOK, g2, l
      <4>1. ~BrokeOff(j)
        BY <1>3, <1>4, <1>5, <1>6, StaysBrokeOff
      <4>2. l <= g
        BY <4>1, <1>1 DEF ItemsOK, g, l
      <4> QED  BY <4>2, <3>2, <2>5
    <3> QED  BY <3>1, <3>2
  <2> QED  BY <2>6, <2>7
<1> QED  BY <1>1, <1>4, <1>5, <1>9, <1>10, <1>11, <1>12 DEF Inv

(* A get or a batch takes n items, wakes as many puts, and returns, or goes *)
(* back to sleep.                                                           *)
LEMMA GetWithItems ==
  ASSUME Inv, NEW c \in Calls, Running(c, {"get", "get_nowait", "get_batch"}),
         NEW n \in 0..Len(queue[Key(c)]), TakeItems(c, Key(c), n), request' = request,
         \/ Return(c, "done") /\ UNCHANGED getters
         \/ /\ request[c].op = "get_batch"
            /\ Sleep(getters, Key(c), c) /\ UNCHANGED pc
            /\ held'[c] = <<>> \/ TotalWeight(held'[c]) < Weight(c),
         n = 0 => queue[Key(c)] = <<>> \/ BrokeOff(Key(c))'
  PROVE  Inv'
<1> DEFINE k == Key(c)
<1>1. /\ TypeOK /\ Loop(request, pc, ready, getters, putters)
      /\ Places(request, held, queue) /\ Hands
      /\ \A j \in Keys : RoomOK(j) /\ ItemsOK(j)
  BY InvParts
<1>2. /\ queue \in Lists /\ getters \in Lists /\ putters \in Lists
      /\ held \in [Calls -> Seq(Calls)] /\ ready \in Seq(Calls)
      /\ \A j \in Keys : /\ queue[j] \in Seq(Calls) /\ Len(queue[j]) \in Nat
                         /\ getters[j] \in Seq(Calls) /\ putters[j] \in Seq(Calls)
      /\ \A i : IsItem(request, i) => request[i].key \in Keys
  BY <1>1, ListTypes
<1>3. /\ ready # <<>> /\ c = Head(ready) /\ pc[c] = "running"
      /\ request[c] # None /\ request[c].op \in {"get", "get_nowait", "get_batch"}
      /\ k \in Keys
      /\ \A Q : (\A x \in Calls \ {c} : Q[x] = pc[x]) => Ran(pc, ready, Q)
  BY Runs
<1>4. /\ held' = [held EXCEPT ![c] = @ \o FirstOf(queue[k], n)]
      /\ queue' = [queue EXCEPT ![k] = After(@, n)]
      /\ putters' = [putters EXCEPT ![k] = After(@, n)]
      /\ ready' = Tail(ready) \o FirstOf(putters[k], n)
      /\ request' = request
  BY DEF TakeItems, WakeUp
<1>5. n \in Nat
  BY <1>2, <1>3
<1>6. pc' \in [Calls -> PC] /\ (\A x \in Calls \ {c} : pc'[x] = pc[x]) /\ pc'[c] \in {"running", "done"}
  <2>1. pc \in [Calls -> PC]
    BY <1>1 DEF TypeOK
  <2> QED  BY <2>1, <1>3 DEF Return, PC
<1>7. Ran(pc, ready, pc')
  BY <1>3, <1>6
<1>8. /\ ready' \in Seq(Calls) /\ putters' \in Lists
      /\ Loop(request, pc', ready', getters, putters')
      /\ Nowhere(c, ready', getters, putters')
  BY <1>1, <1>2, <1>3, <1>4, <1>5, <1>7, LoopWakesPuts
<1>9. /\ getters' \in Lists /\ Loop(request, pc', ready', getters', putters')
      /\ \A j \in Keys : \A x : Has(getters'[j], x) => Has(getters[j], x) \/ request[x].op # "get"
  <2>1. CASE UNCHANGED getters
    BY <2>1, <1>2, <1>8
  <2>2. CASE request[c].op = "get_batch" /\ Sleep(getters, Key(c), c) /\ UNCHANGED pc
    <3>1. getters' = [getters EXCEPT ![k] = Append(@, c)] /\ pc' = pc
      BY <2>2 DEF Sleep
    <3>2. pc'[c] = "running" /\ request[c].key = k /\ request[c].op \in Gets
      BY <2>2, <3>1, <1>3 DEF Key, Gets
    <3>3. /\ [getters EXCEPT ![k] = Append(@, c)] \in Lists
          /\ Loop(request, pc', ready', [getters EXCEPT ![k] = Append(@, c)], putters')
      BY <3>2, <1>2, <1>3, <1>8, LoopSleepsGet
    <3>4. \A x : Has(Append(getters[k], c), x) <=> Has(getters[k], x) \/ x = c
      BY <1>2, <1>3, HasAppend
    <3>5. getters'[k] = Append(getters[k], c) /\ \A j \in Keys \ {k} : getters'[j] = getters[j]
      BY <3>1, <1>2, <1>3 DEF Lists
    <3>6. request[c].op # "get"
      BY <2>2
    <3> HIDE DEF k
    <3>7. \A j \in Keys : \A x : Has(getters'[j], x) => Has(getters[j], x) \/ request[x].op # "get"
      BY <3>4, <3>5, <3>6
    <3> QED  BY <3>1, <3>3, <3>7
  <2> QED  BY <2>1, <2>2
<1>10. /\ held' \in [Calls -> Seq(Calls)] /\ queue' \in Lists
       /\ Places(request, held', queue')
  BY <1>1, <1>2, <1>3, <1>4, <1>5, PlacesTake
<1> DEFINE q == queue[k]
<1>11. /\ Len(queue'[k]) = Len(queue[k]) - n
       /\ \A j \in Keys \ {k} : queue'[j] = queue[j] /\ putters'[j] = putters[j]
       /\ putters'[k] = After(putters[k], n)
  <2>1. queue'[k] = After(q, n)
    BY <1>2, <1>3, <1>4 DEF Lists
  <2>2. Len(After(q, n)) = Len(q) - (IF n < Len(q) THEN n ELSE Len(q))
    <3>1. q \in Seq(Calls) /\ n \in Nat
      BY <1>2, <1>3, <1>5
    <3>2. QED
      BY ONLY <3>1, FirstAndAfter
  <2>3. n \in 0..Len(q) /\ Len(q) \in Nat
    BY <1>2, <1>3
  <2>4. (IF n < Len(q) THEN n ELSE Len(q)) = n
    BY ONLY <2>3
  <2>5. \A j \in Keys \ {k} : queue'[j] = queue[j] /\ putters'[j] = putters[j]
    BY <1>2, <1>4 DEF Lists
  <2>6. putters'[k] = After(putters[k], n)
    BY <1>2, <1>3, <1>4 DEF Lists
  <2> QED  BY <2>1, <2>2, <2>4, <2>5, <2>6
<1>12. n \in 0..Len(queue[k])
  OBVIOUS
<1>13. n = 0 => queue[k] = <<>> \/ BrokeOff(k)'
  OBVIOUS
<1> HIDE DEF k, q
<1>14. TypeOK'
  <2>1. MaxSize > 0 => \A j \in Keys : Len(queue'[j]) <= MaxSize
    <3> SUFFICES ASSUME MaxSize > 0, NEW j \in Keys PROVE Len(queue'[j]) <= MaxSize
      OBVIOUS
    <3>1. Len(queue[j]) <= MaxSize /\ Len(queue[j]) \in Nat
      BY <1>1, <1>2 DEF TypeOK
    <3>2. CASE j = k
      <4>1. Len(queue'[j]) = Len(queue[j]) - n
        BY <3>2, <1>11
      <4> QED  BY ONLY <3>1, <4>1, <1>5, MaxSizeAssumption
    <3>3. CASE j # k
      BY <3>3, <3>1, <1>11
    <3> QED  BY <3>2, <3>3
  <2> QED  BY <2>1, <1>1, <1>2, <1>4, <1>6, <1>8, <1>9, <1>10 DEF TypeOK, Lists
<1>15. Hands'
  <2> SUFFICES ASSUME NEW x \in Calls
               PROVE  /\ request'[x] = None <=> pc'[x] = "idle"
                      /\ pc'[x] = "idle" => held'[x] = <<>>
                      /\ pc'[x] = "running" /\ request'[x].op \in Puts => held'[x] = <<x>>
                      /\ pc'[x] = "running" /\ request'[x].op \in {"get", "get_nowait"} => held'[x] = <<>>
                      /\ pc'[x] = "running" /\ request'[x].op = "get_batch" =>
                           held'[x] = <<>> \/ TotalWeight(held[x])' < Weight(x)'
    BY DEF Hands
  <2>1. CASE x # c
    <3>1. pc'[x] = pc[x] /\ held'[x] = held[x]
      BY <2>1, <1>2, <1>4, <1>6
    <3> QED  BY <3>1, <1>1, HandsOfOthers
  <2>2. CASE x = c /\ Return(c, "done")
    <3>1. pc'[c] = "done"
      <4>1. pc \in [Calls -> PC]
        BY <1>1 DEF TypeOK
      <4> QED  BY <4>1, <2>2 DEF Return
    <3> QED  BY <2>2, <3>1, <1>3, <1>4
  <2>3. CASE /\ x = c /\ request[c].op = "get_batch" /\ UNCHANGED pc
             /\ held'[c] = <<>> \/ TotalWeight(held'[c]) < Weight(c)
    <3>1. TotalWeight(held[c])' = TotalWeight(held'[c]) /\ Weight(c)' = Weight(c)
      BY <1>4 DEF TotalWeight, Weight
    <3> QED  BY <2>3, <3>1, <1>3, <1>4 DEF Puts
  <2> QED  BY <2>1, <2>2, <2>3
<1>16. ASSUME NEW j \in Keys
       PROVE  RoomOK(j)' /\ ItemsOK(j)'
  <2> DEFINE p == Due(PutsOf(request, j), ready)
             g == Due(GetsOf(request, j), ready)
             p2 == Due(PutsOf(request, j), ready')
             g2 == Due(GetsOf(request, j), ready')
             l == Len(queue[j])
             l2 == Len(queue'[j])
             m == Len(putters[k])
  <2>1. /\ g2 = g - One(c \in GetsOf(request, j))
        /\ p2 = (p - One(c \in PutsOf(request, j)))
                  + (IF j = k THEN Least(n, m) ELSE 0)
    <3> DEFINE rd2 == Tail(ready) \o FirstOf(putters[k], n)
    <3>1. /\ ready \in Seq(Calls) /\ getters \in Lists /\ putters \in Lists
          /\ Loop(request, pc, ready, getters, putters) /\ ready # <<>>
          /\ k \in Keys /\ n \in Nat /\ j \in Keys
      BY <1>1, <1>2, <1>3, <1>5
    <3>2. /\ Due(GetsOf(request, j), rd2)
               = Due(GetsOf(request, j), ready) - One(Head(ready) \in GetsOf(request, j))
          /\ Due(PutsOf(request, j), rd2)
               = (Due(PutsOf(request, j), ready) - One(Head(ready) \in PutsOf(request, j)))
                   + (IF j = k THEN Least(n, Len(putters[k])) ELSE 0)
      BY ONLY <3>1, DueAfterPuts
    <3>3. ready' = rd2 /\ c = Head(ready)
      BY <1>3, <1>4
    <3> QED  BY <3>2, <3>3
  <2>2. p \in Nat /\ g \in Nat /\ p2 \in Nat /\ g2 \in Nat
    BY DueIsNat DEF PutsOf, GetsOf
  <2>3. (c \in GetsOf(request, j) <=> j = k) /\ c \notin PutsOf(request, j)
    BY <1>3 DEF PutsOf, GetsOf, Puts, Key, k
  <2>4. l \in Nat /\ m \in Nat
    BY <1>2, <1>3
  <2>5. (j = k => l2 = l - n /\ n \in 0..l) /\ (j # k => l2 = l)
    BY <1>11, <1>12
  <2> HIDE DEF p, g, p2, g2, l, l2, m
  <2>6. /\ j = k => p2 = p + Least(n, m) /\ g2 = g - 1
        /\ j # k => p2 = p /\ g2 = g
    BY <2>1, <2>2, <2>3 DEF One
  <2>7. RoomOK(j)'
    <3> SUFFICES ASSUME putters'[j] # <<>>
                 PROVE  MaxSize > 0 /\ MaxSize - l2 <= p2
      BY <1>4 DEF RoomOK, p2, l2
    <3>1. CASE j = k
      <4>1. n < m
        <5>1. After(putters[k], n) \in Seq(Calls) /\ Len(After(putters[k], n)) = m - (IF n < m THEN n ELSE m)
          <6>1. putters[k] \in Seq(Calls) /\ n \in Nat /\ m = Len(putters[k])
            BY <1>2, <1>3, <1>5 DEF m
          <6>2. QED
            BY ONLY <6>1, FirstAndAfter
        <5>2. Len(After(putters[k], n)) # 0
          BY <5>1, <3>1, <1>11
        <5> QED  BY ONLY <5>1, <5>2, <2>4, <1>5
      <4>2. putters[j] # <<>>
        <5>1. m # 0
          BY ONLY <4>1, <2>4, <1>5
        <5> QED  BY <5>1, <3>1 DEF m
      <4>3. MaxSize > 0 /\ MaxSize - l <= p
        BY <4>2, <1>1 DEF RoomOK, p, l
      <4>4. Least(n, m) = n
        BY <4>1 DEF Least
      <4> QED  BY ONLY <4>3, <4>4, <3>1, <2>2, <2>4, <2>5, <2>6, <1>5, MaxSizeAssumption
    <3>2. CASE j # k
      <4>1. MaxSize > 0 /\ MaxSize - l <= p
        BY <3>2, <1>1, <1>11 DEF RoomOK, p, l
      <4> QED  BY <4>1, <3>2, <2>5, <2>6
    <3> QED  BY <3>1, <3>2
  <2>8. ItemsOK(j)'
    <3> SUFFICES ASSUME NEW x, Has(getters'[j], x), request[x].op = "get", ~BrokeOff(j)'
                 PROVE  l2 <= g2
      BY <1>4 DEF ItemsOK, g2, l2
    <3>1. Has(getters[j], x)
      BY <1>9
    <3>2. ~BrokeOff(j)
      <4>1. \A y \in Calls \ {c} : pc'[y] = pc[y] /\ held'[y] = held[y]
        BY <1>2, <1>4, <1>6
      <4> QED  BY <4>1, <1>3, <1>4, StaysBrokeOff
    <3>3. l <= g
      BY <3>1, <3>2, <1>1 DEF ItemsOK, g, l
    <3>4. CASE j # k
      BY <3>3, <3>4, <2>5, <2>6
    <3>5. CASE j = k /\ n # 0
      BY ONLY <3>3, <3>5, <2>2, <2>4, <2>5, <2>6, <1>5
    <3>6. CASE j = k /\ n = 0
      <4>1. queue[k] = <<>>
        BY <3>6, <1>4, <1>13 DEF BrokeOff, k, Key
      <4>2. l = 0
        BY <4>1, <3>6 DEF l
      <4> QED  BY ONLY <4>2, <3>6, <2>2, <2>5
    <3> QED  BY <3>4, <3>5, <3>6
  <2> QED  BY <2>7, <2>8
<1> QED  BY <1>4, <1>9, <1>10, <1>14, <1>15, <1>16 DEF Inv

(* A new call.                                                              *)
LEMMA InvCall ==
  ASSUME Inv, NEW c \in Calls, NEW r \in Requests, Call(c, r)
  PROVE  Inv'
<1> DEFINE S == Requests \cup {None}
<1>1. /\ TypeOK /\ Loop(request, pc, ready, getters, putters)
      /\ Places(request, held, queue) /\ Hands
      /\ \A j \in Keys : RoomOK(j) /\ ItemsOK(j)
  BY InvParts
<1>2. /\ queue \in Lists /\ getters \in Lists /\ putters \in Lists
      /\ held \in [Calls -> Seq(Calls)] /\ ready \in Seq(Calls)
  BY <1>1, ListTypes
<1>3. request \in [Calls -> S] /\ pc \in [Calls -> PC]
  BY <1>1 DEF TypeOK
<1>4. /\ request' = [request EXCEPT ![c] = r] /\ pc' = [pc EXCEPT ![c] = "running"]
      /\ held' = [held EXCEPT ![c] = IF r.op \in Puts THEN <<c>> ELSE <<>>]
      /\ ready' = Append(ready, c)
      /\ queue' = queue /\ getters' = getters /\ putters' = putters
      /\ request[c] = None
  BY DEF Call
<1>5. pc[c] = "idle" /\ held[c] = <<>> /\ r # None /\ r \in S
  BY <1>1, <1>4, NoneAssumption DEF Hands
<1>6. /\ ready' \in Seq(Calls) /\ Loop(request', pc', ready', getters, putters)
      /\ ~Has(ready, c)
  <2> HIDE DEF S
  <2> QED  BY <1>1, <1>2, <1>3, <1>4, <1>5, LoopCalls
<1>7. held' \in [Calls -> Seq(Calls)] /\ Places(request', held', queue)
  <2> HIDE DEF S
  <2> QED  BY <1>1, <1>2, <1>3, <1>4, <1>5, PlacesCall
<1>8. TypeOK'
  BY <1>1, <1>3, <1>4, <1>6, <1>7 DEF TypeOK, PC
(* The items in the hands of the others are older.                          *)
<1>9. \A x \in Calls \ {c} :
        /\ request'[x] = request[x] /\ pc'[x] = pc[x] /\ held'[x] = held[x]
        /\ TotalWeight(held[x])' = TotalWeight(held[x])
        /\ Weight(x)' = Weight(x) /\ Key(x)' = Key(x)
  <2> SUFFICES ASSUME NEW x \in Calls \ {c}
               PROVE  /\ request'[x] = request[x] /\ pc'[x] = pc[x] /\ held'[x] = held[x]
                      /\ TotalWeight(held[x])' = TotalWeight(held[x])
                      /\ Weight(x)' = Weight(x) /\ Key(x)' = Key(x)
    OBVIOUS
  <2>1. request'[x] = request[x] /\ pc'[x] = pc[x] /\ held'[x] = held[x]
    BY <1>2, <1>3, <1>4
  <2>2. \A n \in DOMAIN held[x] : request'[held[x][n]].weight = request[held[x][n]].weight
    <3> SUFFICES ASSUME NEW n \in DOMAIN held[x]
                 PROVE  request'[held[x][n]].weight = request[held[x][n]].weight
      OBVIOUS
    <3>1. IsItem(request, held[x][n])
      BY <1>1 DEF Places, Has
    <3>2. held[x][n] \in Calls \ {c}
      BY <3>1, <1>4 DEF IsItem
    <3> QED  BY <3>2, <1>3, <1>4
  <2>3. [n \in DOMAIN held[x] |-> request'[held[x][n]].weight]
          = [n \in DOMAIN held[x] |-> request[held[x][n]].weight]
    BY <2>2
  <2>4. TotalWeight(held[x])' = TotalWeight(held[x])
    BY <2>1, <2>3 DEF TotalWeight, Weight
  <2> QED  BY <2>1, <2>4 DEF Weight, Key
<1>10. /\ request'[c] = r /\ pc'[c] = "running" /\ held'[c] = IF r.op \in Puts THEN <<c>> ELSE <<>>
  BY <1>2, <1>3, <1>4
<1>11. Hands'
  <2> SUFFICES ASSUME NEW x \in Calls
               PROVE  /\ request'[x] = None <=> pc'[x] = "idle"
                      /\ pc'[x] = "idle" => held'[x] = <<>>
                      /\ pc'[x] = "running" /\ request'[x].op \in Puts => held'[x] = <<x>>
                      /\ pc'[x] = "running" /\ request'[x].op \in {"get", "get_nowait"} => held'[x] = <<>>
                      /\ pc'[x] = "running" /\ request'[x].op = "get_batch" =>
                           held'[x] = <<>> \/ TotalWeight(held[x])' < Weight(x)'
    BY DEF Hands
  <2>1. CASE x # c
    BY <2>1, <1>1, <1>9 DEF Hands
  <2>2. CASE x = c
    BY <2>2, <1>5, <1>10 DEF Puts
  <2> QED  BY <2>1, <2>2
<1>12. \A x : Has(ready', x) <=> Has(ready, x) \/ x = c
  BY <1>2, <1>4, HasAppend
<1>13. ASSUME NEW j \in Keys
       PROVE  RoomOK(j)' /\ ItemsOK(j)'
  <2> DEFINE p == Due(PutsOf(request, j), ready)
             g == Due(GetsOf(request, j), ready)
             p2 == Due(PutsOf(request', j), ready')
             g2 == Due(GetsOf(request', j), ready')
             l == Len(queue[j])
  <2>1. \A x : Has(ready, x) => Has(ready', x) /\ request'[x] = request[x]
    BY <1>2, <1>6, <1>9, <1>12, HasIn
  <2>2. p <= p2
    <3>1. PutsOf(request, j) \in SUBSET Calls /\ PutsOf(request', j) \in SUBSET Calls
      BY DEF PutsOf
    <3>2. \A x \in PutsOf(request, j) : Has(ready, x) => x \in PutsOf(request', j) /\ Has(ready', x)
      BY <2>1 DEF PutsOf
    <3> QED  BY <3>1, <3>2, DueMore
  <2>3. g <= g2
    <3>1. GetsOf(request, j) \in SUBSET Calls /\ GetsOf(request', j) \in SUBSET Calls
      BY DEF GetsOf
    <3>2. \A x \in GetsOf(request, j) : Has(ready, x) => x \in GetsOf(request', j) /\ Has(ready', x)
      BY <2>1 DEF GetsOf
    <3> QED  BY <3>1, <3>2, DueMore
  <2>4. p \in Nat /\ g \in Nat /\ p2 \in Nat /\ g2 \in Nat
    BY DueIsNat DEF PutsOf, GetsOf
  <2>5. l \in Nat
    BY <1>2 DEF Lists
  <2> HIDE DEF p, g, p2, g2, l
  <2>6. RoomOK(j)'
    <3> SUFFICES ASSUME putters[j] # <<>>
                 PROVE  MaxSize > 0 /\ MaxSize - l <= p2
      BY <1>4 DEF RoomOK, p2, l
    <3>1. MaxSize > 0 /\ MaxSize - l <= p
      BY <1>1 DEF RoomOK, p, l
    <3> QED  BY ONLY <3>1, <2>2, <2>4, <2>5, MaxSizeAssumption
  <2>7. ItemsOK(j)'
    <3> SUFFICES ASSUME NEW x, Has(getters[j], x), request'[x].op = "get", ~BrokeOff(j)'
                 PROVE  l <= g2
      BY <1>4 DEF ItemsOK, g2, l
    <3>1. pc[x] = "running"
      BY <1>1 DEF Loop, Sleepers
    <3>2. x \in Calls \ {c}
      BY <3>1, <1>2, <1>5, HasIn DEF Lists
    <3>3. request[x].op = "get"
      BY <3>2, <1>9
    <3>4. ~BrokeOff(j)
      <4> SUFFICES ASSUME NEW y \in Calls, pc[y] = "done", request[y].op = "get_batch", Key(y) = j,
                          held[y] = <<>> \/ TotalWeight(held[y]) < Weight(y)
                   PROVE  BrokeOff(j)'
        BY DEF BrokeOff
      <4>1. y # c
        BY <1>5
      <4>2. /\ pc'[y] = "done" /\ request'[y].op = "get_batch" /\ Key(y)' = j
            /\ held'[y] = <<>> \/ TotalWeight(held[y])' < Weight(y)'
        BY <4>1, <1>9
      <4> QED  BY <4>2 DEF BrokeOff
    <3>5. l <= g
      BY <3>3, <3>4, <1>1 DEF ItemsOK, g, l
    <3> QED  BY ONLY <3>5, <2>3, <2>4, <2>5
  <2> QED  BY <2>6, <2>7
<1> QED  BY <1>4, <1>6, <1>7, <1>8, <1>11, <1>13 DEF Inv

LEMMA InvInit == Init => Inv
<1> SUFFICES ASSUME Init PROVE Inv
  OBVIOUS
<1>1. TypeOK
  BY MaxSizeAssumption DEF Init, TypeOK, PC
<1>2. Loop(request, pc, ready, getters, putters)
  BY DEF Init, Loop, Sleepers, NoRepeat, Has
<1>3. Places(request, held, queue)
  BY DEF Init, Places, NoRepeat, Has, IsItem
<1>4. Hands
  BY DEF Init, Hands
<1>5. ASSUME NEW k \in Keys PROVE RoomOK(k) /\ ItemsOK(k)
  <2>1. RoomOK(k)
    BY DEF Init, RoomOK
  <2>2. ItemsOK(k)
    BY DEF Init, ItemsOK, Has
  <2> QED  BY <2>1, <2>2
<1> QED  BY <1>1, <1>2, <1>3, <1>4, <1>5 DEF Inv

LEMMA InvPut ==
  ASSUME Inv, NEW c \in Calls, Put(c)
  PROVE  Inv'
<1>1. Running(c, Puts) /\ PutItem(c, c) /\ UNCHANGED request
  BY DEF Put
<1>2. CASE ~Full(Key(c))
  <2>1. /\ queue' = [queue EXCEPT ![Key(c)] = Append(@, c)]
        /\ held' = [held EXCEPT ![c] = <<>>]
        /\ WakeUp(getters, Key(c), 1) /\ Return(c, "done") /\ UNCHANGED putters
    BY <1>1, <1>2 DEF PutItem
  <2> QED  BY <1>1, <1>2, <2>1, PutWithRoom
<1>3. CASE Full(Key(c))
  <2>1. /\ IF request[c].op = "put"
           THEN Sleep(putters, Key(c), c) /\ UNCHANGED pc
           ELSE Return(c, "QueueFull") /\ UNCHANGED putters
        /\ held' = [held EXCEPT ![c] = <<c>>]
        /\ ready' = Tail(ready)
        /\ UNCHANGED <<queue, getters>>
    BY <1>1, <1>3 DEF PutItem
  <2> QED  BY <1>1, <1>3, <2>1, PutWithoutRoom
<1> QED  BY <1>2, <1>3

LEMMA InvGet ==
  ASSUME Inv, NEW c \in Calls, Get(c)
  PROVE  Inv'
<1>1. Running(c, {"get", "get_nowait"}) /\ request' = request
  BY DEF Get
<1>2. CASE queue[Key(c)] # <<>>
  <2>1. TakeItems(c, Key(c), 1) /\ Return(c, "done") /\ UNCHANGED getters
    BY <1>2 DEF Get
  <2>2. Running(c, {"get", "get_nowait", "get_batch"})
    BY <1>1 DEF Running
  <2>3. 1 \in 0..Len(queue[Key(c)])
    <3>1. queue[Key(c)] \in Seq(Calls)
      BY <1>1, Runs, InvParts, ListTypes
    <3> QED  BY <3>1, <1>2
  <2> QED  BY <1>1, <2>1, <2>2, <2>3, GetWithItems
<1>3. CASE queue[Key(c)] = <<>>
  <2>1. /\ IF request[c].op = "get"
           THEN Sleep(getters, Key(c), c) /\ UNCHANGED pc
           ELSE Return(c, "QueueEmpty") /\ UNCHANGED getters
        /\ ready' = Tail(ready)
        /\ UNCHANGED <<held, queue, putters>>
    BY <1>3 DEF Get
  <2> QED  BY <1>1, <1>3, <2>1, GetWithoutItem
<1> QED  BY <1>2, <1>3

(* What a step of get_batch does.                                           *)
LEMMA BatchStep ==
  ASSUME Inv, NEW c \in Calls, GetBatch(c)
  PROVE  LET q == queue[Key(c)]
             n == BatchSize(c)
             b == Batch(c, n)
         IN /\ Running(c, {"get_batch"}) /\ request' = request
            /\ request[c].op = "get_batch" /\ pc[c] = "running"
            /\ Key(c) \in Keys /\ q \in Seq(Calls)
            /\ n \in 0..Len(q) /\ TakeItems(c, Key(c), n)
            /\ held'[c] = b /\ TotalWeight(b) \in Nat /\ TotalWeight(b) <= Weight(c)
            /\ Weight(c) \in Nat
            /\ \/ /\ Return(c, "done") /\ UNCHANGED getters
                  /\ \/ TotalWeight(b) = Weight(c)
                     \/ n < Len(q) /\ TotalWeight(b) + Weight(q[n + 1]) > Weight(c)
               \/ /\ Sleep(getters, Key(c), c) /\ UNCHANGED pc /\ n = Len(q)
                  /\ b = <<>> \/ TotalWeight(b) < Weight(c)
            /\ n = 0 => q = <<>> \/ (Return(c, "done") /\ held'[c] = held[c])
            /\ held[c] = <<>> \/ TotalWeight(held[c]) < Weight(c)
<1> DEFINE q == queue[Key(c)]
           n == BatchSize(c)
           b == Batch(c, n)
<1>1. Running(c, {"get_batch"}) /\ request' = request /\ TakeItems(c, Key(c), n)
  BY DEF GetBatch
<1>2. IF BatchEnds(c) THEN Return(c, "done") /\ UNCHANGED getters
                      ELSE Sleep(getters, Key(c), c) /\ UNCHANGED pc
  BY DEF GetBatch, BatchEnds
<1>3. /\ request[c].op = "get_batch" /\ pc[c] = "running" /\ request[c] # None
      /\ Key(c) \in Keys /\ Weight(c) \in Nat /\ held[c] \in Seq(Calls)
      /\ \A x : Has(held[c], x) \/ Has(q, x) => Weight(x) \in Nat
  BY <1>1, Runs
<1>4. q \in Seq(Calls) /\ held \in [Calls -> Seq(Calls)]
  BY <1>3, InvParts, ListTypes
<1>5. held[c] = <<>> \/ TotalWeight(held[c]) < Weight(c)
  BY <1>3, InvParts DEF Hands
<1>6. /\ n \in 0..Len(q) /\ TotalWeight(b) \in Nat /\ TotalWeight(b) <= Weight(c)
      /\ BatchEnds(c) => \/ TotalWeight(b) = Weight(c)
                         \/ n < Len(q) /\ TotalWeight(b) + Weight(q[n + 1]) > Weight(c)
      /\ ~BatchEnds(c) => n = Len(q) /\ (b = <<>> \/ TotalWeight(b) < Weight(c))
  BY <1>3, <1>4, <1>5, BatchTaken
<1>7. held'[c] = b
  BY <1>1, <1>4 DEF TakeItems, Batch
<1>8. n = 0 => b = held[c]
  BY <1>3, <1>4, BatchGrows
<1>9. n = 0 => q = <<>> \/ BatchEnds(c)
  <2>1. CASE BatchEnds(c)
    BY <2>1
  <2>2. CASE ~BatchEnds(c)
    BY <2>2, <1>4, <1>6
  <2> QED  BY <2>1, <2>2
<1> HIDE DEF q, n, b
<1>10. \/ /\ Return(c, "done") /\ UNCHANGED getters
          /\ \/ TotalWeight(b) = Weight(c)
             \/ n < Len(q) /\ TotalWeight(b) + Weight(q[n + 1]) > Weight(c)
       \/ /\ Sleep(getters, Key(c), c) /\ UNCHANGED pc /\ n = Len(q)
          /\ b = <<>> \/ TotalWeight(b) < Weight(c)
  <2>1. CASE BatchEnds(c)
    BY <2>1, <1>2, <1>6
  <2>2. CASE ~BatchEnds(c)
    BY <2>2, <1>2, <1>6
  <2> QED  BY <2>1, <2>2
<1>11. n = 0 => q = <<>> \/ (Return(c, "done") /\ held'[c] = held[c])
  BY <1>2, <1>7, <1>8, <1>9
<1> QED  BY <1>1, <1>3, <1>4, <1>5, <1>6, <1>7, <1>10, <1>11 DEF q, n, b

LEMMA InvGetBatch ==
  ASSUME Inv, NEW c \in Calls, GetBatch(c)
  PROVE  Inv'
<1> DEFINE q == queue[Key(c)]
           n == BatchSize(c)
           b == Batch(c, n)
<1>1. /\ Running(c, {"get_batch"}) /\ request' = request
      /\ request[c].op = "get_batch"
      /\ n \in 0..Len(q) /\ TakeItems(c, Key(c), n) /\ held'[c] = b
      /\ \/ Return(c, "done") /\ UNCHANGED getters
         \/ /\ Sleep(getters, Key(c), c) /\ UNCHANGED pc
            /\ b = <<>> \/ TotalWeight(b) < Weight(c)
      /\ n = 0 => q = <<>> \/ (Return(c, "done") /\ held'[c] = held[c])
      /\ held[c] = <<>> \/ TotalWeight(held[c]) < Weight(c)
  BY BatchStep
<1>2. Running(c, {"get", "get_nowait", "get_batch"})
  BY <1>1 DEF Running
<1>3. n = 0 => q = <<>> \/ BrokeOff(Key(c))'
  <2> SUFFICES ASSUME Return(c, "done"), held'[c] = held[c] PROVE BrokeOff(Key(c))'
    BY <1>1
  <2>1. pc'[c] = "done"
    <3>1. pc \in [Calls -> PC]
      BY InvParts DEF TypeOK
    <3> QED  BY <3>1 DEF Return
  <2>2. TotalWeight(held[c])' = TotalWeight(held[c]) /\ Weight(c)' = Weight(c)
    BY <1>1 DEF TotalWeight, Weight
  <2>3. held'[c] = <<>> \/ TotalWeight(held[c])' < Weight(c)'
    BY <2>2, <1>1
  <2>4. request'[c].op = "get_batch"
    BY <1>1
  <2> QED  BY <2>1, <2>3, <2>4 DEF BrokeOff
<1>4. \/ Return(c, "done") /\ UNCHANGED getters
      \/ /\ request[c].op = "get_batch"
         /\ Sleep(getters, Key(c), c) /\ UNCHANGED pc
         /\ held'[c] = <<>> \/ TotalWeight(held'[c]) < Weight(c)
  BY <1>1
<1>5. PICK m \in 0..Len(q) : m = n
  BY <1>1
<1> HIDE DEF n, b
<1>6. TakeItems(c, Key(c), m) /\ (m = 0 => q = <<>> \/ BrokeOff(Key(c))')
  BY <1>1, <1>3, <1>5 DEF TakeItems, WakeUp
<1> QED  BY <1>1, <1>2, <1>4, <1>6, GetWithItems

LEMMA InvStutter == Inv /\ UNCHANGED vars => Inv'
<1> SUFFICES ASSUME Inv, UNCHANGED vars PROVE Inv'
  OBVIOUS
<1>1. /\ request' = request /\ pc' = pc /\ held' = held /\ queue' = queue
      /\ getters' = getters /\ putters' = putters /\ ready' = ready
  BY DEF vars
<1>2. TypeOK' /\ Hands'
  BY <1>1 DEF Inv, TypeOK, Hands, TotalWeight, Weight
<1>3. ASSUME NEW k \in Keys PROVE RoomOK(k)' /\ ItemsOK(k)'
  BY <1>1 DEF Inv, RoomOK, ItemsOK, BrokeOff, TotalWeight, Weight, Key
<1> QED  BY <1>1, <1>2, <1>3 DEF Inv

(* The invariant holds in every reachable state.                            *)
THEOREM InvThm == Spec => []Inv
<1>1. Inv /\ [Next]_vars => Inv'
  <2> SUFFICES ASSUME Inv, [Next]_vars PROVE Inv'
    OBVIOUS
  <2>1. CASE EventLoop
    BY <2>1, InvPut, InvGet, InvGetBatch DEF EventLoop
  <2>2. CASE \E c \in Calls, r \in Requests : Call(c, r)
    BY <2>2, InvCall
  <2>3. CASE UNCHANGED vars
    BY <2>3, InvStutter
  <2> QED  BY <2>1, <2>2, <2>3 DEF Next
<1> QED  BY <1>1, InvInit, PTL DEF Spec

-----------------------------------------------------------------------------
(* What the invariant is for.                                               *)

(* Every item that was put is in exactly one place: the invariant Places,   *)
(* counted.                                                                 *)
THEOREM NothingLostOrDoubledThm == Spec => []NothingLostOrDoubled
<1>1. Inv => NothingLostOrDoubled
  <2> SUFFICES ASSUME Inv PROVE NothingLostOrDoubled
    OBVIOUS
  <2>1. TypeOK /\ Places(request, held, queue)
    BY InvParts
  <2>2. queue \in Lists /\ held \in [Calls -> Seq(Calls)]
        /\ \A i : IsItem(request, i) => request[i].key \in Keys
    BY <2>1, ListTypes
  <2> SUFFICES ASSUME NEW i \in Calls, request[i] # None /\ request[i].op \in Puts
               PROVE  Cardinality({p \in Calls \X (1..Cardinality(Calls)) :
                                     p[2] \in DOMAIN held[p[1]] /\ held[p[1]][p[2]] = i})
                        + Cardinality({n \in DOMAIN queue[Key(i)] : queue[Key(i)][n] = i}) = 1
    BY <2>1 DEF NothingLostOrDoubled
  <2>3. IsItem(request, i)
    BY DEF IsItem
  <2>4. Cardinality(InHands(held, i)) + Cardinality(InQueue(queue, request[i].key, i)) = 1
    BY ONLY <2>1, <2>2, <2>3, PlacesCounted
  <2> QED  BY <2>4 DEF InHands, InQueue, Key
<1> QED  BY <1>1, InvThm, PTL

(* When nothing is about to run, no put sleeps beside room, and no get      *)
(* beside items: the invariants RoomOK and ItemsOK with nobody due.         *)
THEOREM NobodySleepsInVainThm == Spec => []NobodySleepsInVain
<1>1. Inv => NobodySleepsInVain
  <2> SUFFICES ASSUME Inv, ready = <<>>, NEW k \in Keys
               PROVE  /\ putters[k] # <<>> => Full(k)
                      /\ queue[k] # <<>> /\ ~BrokeOff(k) =>
                           \A n \in DOMAIN getters[k] : request[getters[k][n]].op # "get"
    BY DEF NobodySleepsInVain
  <2>1. TypeOK /\ RoomOK(k) /\ ItemsOK(k)
    BY InvParts
  <2>2. queue[k] \in Seq(Calls) /\ Len(queue[k]) \in Nat /\ getters[k] \in Seq(Calls)
    BY <2>1, ListTypes
  <2>3. Due(PutsOf(request, k), ready) = 0 /\ Due(GetsOf(request, k), ready) = 0
    BY DueIsNat DEF PutsOf, GetsOf
  <2>4. putters[k] # <<>> => Full(k)
    <3>1. putters[k] # <<>> => MaxSize > 0 /\ MaxSize - Len(queue[k]) <= 0
      BY <2>1, <2>3 DEF RoomOK
    <3>2. MaxSize - Len(queue[k]) <= 0 => Len(queue[k]) >= MaxSize
      BY ONLY <2>2, MaxSizeAssumption
    <3> QED  BY <3>1, <3>2 DEF Full
  <2>5. ASSUME queue[k] # <<>>, ~BrokeOff(k), NEW n \in DOMAIN getters[k],
               request[getters[k][n]].op = "get"
        PROVE  FALSE
    <3>1. Has(getters[k], getters[k][n])
      BY DEF Has
    <3>2. Len(queue[k]) <= 0
      BY <2>1, <2>3, <2>5, <3>1 DEF ItemsOK
    <3> QED  BY <2>2, <2>5, <3>2
  <2> QED  BY <2>4, <2>5
<1> QED  BY <1>1, InvThm, PTL

(* Which call a step of the event loop makes return.                        *)
LEMMA OnlyItself ==
  ASSUME Inv, NEW d \in Calls, Put(d) \/ Get(d) \/ GetBatch(d), NEW c \in Calls, c # d
  PROVE  pc'[c] = pc[c]
<1>1. pc \in [Calls -> PC]
  BY InvParts DEF TypeOK
<1>2. pc' = pc \/ \E how : pc' = [pc EXCEPT ![d] = how]
  BY DEF Put, PutItem, Get, GetBatch, Return
<1> QED  BY <1>1, <1>2

(* get_batch never exceeds its target and stops short of it only before an  *)
(* item that would.                                                         *)
THEOREM BatchContractThm == Spec => BatchContract
<1> DEFINE Kept(c) ==
             pc[c] = "running" /\ pc'[c] = "done" /\ request[c].op = "get_batch" =>
               LET k == Key(c)
                   total == TotalWeight(held[c]')
               IN /\ total <= Weight(c)
                  /\ \/ total = Weight(c)
                     \/ queue'[k] # <<>> /\ total + Weight(Head(queue'[k])) > Weight(c)
<1>1. ASSUME Inv, Next, NEW c \in Calls PROVE Kept(c)
  <2> SUFFICES ASSUME pc[c] = "running", pc'[c] = "done", request[c].op = "get_batch"
               PROVE  LET k == Key(c)
                          total == TotalWeight(held'[c])
                      IN /\ total <= Weight(c)
                         /\ \/ total = Weight(c)
                            \/ queue'[k] # <<>> /\ total + Weight(Head(queue'[k])) > Weight(c)
    OBVIOUS
  <2>1. ~ \E d \in Calls, r \in Requests : Call(d, r)
    <3> SUFFICES ASSUME NEW d \in Calls, NEW r \in Requests, Call(d, r) PROVE FALSE
      OBVIOUS
    <3>1. pc \in [Calls -> PC]
      BY <1>1, InvParts DEF TypeOK
    <3>2. pc'[c] = "running" \/ pc'[c] = pc[c]
      BY <3>1 DEF Call
    <3> QED  BY <3>2
  <2>2. Put(c) \/ Get(c) \/ GetBatch(c)
    <3>1. PICK d \in Calls : Put(d) \/ Get(d) \/ GetBatch(d)
      BY <1>1, <2>1 DEF Next, EventLoop
    <3>2. d = c
      BY <1>1, <3>1, OnlyItself
    <3> QED  BY <3>1, <3>2
  <2>3. GetBatch(c)
    BY <2>2 DEF Put, Get, Running, Puts
  <2> DEFINE q == queue[Key(c)]
             b == Batch(c, BatchSize(c))
  <2>4. PICK n \in 0..Len(q) : n = BatchSize(c)
    BY <1>1, <2>3, BatchStep
  <2>5. /\ held'[c] = b /\ TotalWeight(b) <= Weight(c)
        /\ q \in Seq(Calls) /\ Key(c) \in Keys /\ TakeItems(c, Key(c), BatchSize(c))
        /\ pc \in [Calls -> PC]
        /\ \/ TotalWeight(b) = Weight(c)
           \/ n < Len(q) /\ TotalWeight(b) + Weight(q[n + 1]) > Weight(c)
           \/ UNCHANGED pc
    <3>1. pc \in [Calls -> PC]
      BY <1>1, InvParts DEF TypeOK
    <3> QED  BY <1>1, <2>3, <2>4, <3>1, BatchStep
  <2>6. queue'[Key(c)] = After(q, n)
    <3>1. queue \in Lists
      BY <1>1, InvParts, ListTypes
    <3> QED  BY <2>4, <2>5, <3>1 DEF TakeItems, Lists
  <2>7. n < Len(q) => queue'[Key(c)] # <<>> /\ Head(queue'[Key(c)]) = q[n + 1]
    <3> SUFFICES ASSUME n < Len(q) PROVE After(q, n) # <<>> /\ Head(After(q, n)) = q[n + 1]
      BY <2>6
    <3>1. n \in Nat /\ Len(q) \in Nat
      BY <2>4, <2>5
    <3>2. /\ After(q, n) \in Seq(Calls) /\ Len(After(q, n)) = Len(q) - n
          /\ \A i \in 1..(Len(q) - n) : After(q, n)[i] = q[n + i]
      BY <2>5, <3>1, FirstAndAfter
    <3>3. 1 \in 1..(Len(q) - n) /\ Len(q) - n # 0
      BY ONLY <3>1, n < Len(q)
    <3> QED  BY <3>2, <3>3
  <2> HIDE DEF q, b
  <2> QED  BY <2>5, <2>7
<1>2. Inv /\ [Next]_vars => [\A c \in Calls : Kept(c)]_vars
  BY <1>1
<1>3. [][\A c \in Calls : Kept(c)]_vars => BatchContract
  BY DEF BatchContract
<1> HIDE DEF Kept
<1> QED  BY <1>2, <1>3, InvThm, PTL DEF Spec

(* The event loop, its futures and its wake-ups implement the monitor: a    *)
(* wake-up takes no effect of its own, every put, get and batch takes       *)
(* effect in the step that runs it.                                         *)
THEOREM QueueImplemented == Spec => ImplementsBoundedQueue
<1>1. Init => Monitor!Init
  BY DEF Init, Monitor!Init
<1>2. ASSUME Inv, NEW c \in Calls, Put(c) PROVE Monitor!Put(c) \/ Monitor!Refuse(c) \/ UNCHANGED Monitor!vars
  <2>1. /\ Running(c, Puts) /\ PutItem(c, c) /\ request' = request
        /\ pc[c] = "running" /\ request[c].op \in Puts /\ Key(c) \in Keys
    BY <1>2, Runs DEF Put
  <2>2. /\ queue \in Lists /\ queue[Key(c)] \in Seq(Calls) /\ Len(queue[Key(c)]) \in Nat
        /\ held \in [Calls -> Seq(Calls)] /\ held[c] = <<c>>
        /\ (MaxSize > 0 => Len(queue[Key(c)]) <= MaxSize)
    <3>1. TypeOK /\ Hands
      BY <1>2, InvParts
    <3> QED  BY <3>1, <2>1, ListTypes DEF Hands, TypeOK
  <2>3. Full(Key(c)) <=> Monitor!Full(Key(c))
    <3>1. MaxSize > 0 => (Len(queue[Key(c)]) >= MaxSize <=> Len(queue[Key(c)]) = MaxSize)
      BY ONLY <2>2, MaxSizeAssumption
    <3> QED  BY <3>1 DEF Full, Monitor!Full
  <2>4. Monitor!Key(c) = Key(c)
    BY DEF Key, Monitor!Key
  <2>5. CASE ~Full(Key(c))
    <3>1. /\ queue' = [queue EXCEPT ![Key(c)] = Append(@, c)]
          /\ held' = [held EXCEPT ![c] = <<>>] /\ Return(c, "done")
      BY <2>1, <2>5 DEF PutItem
    <3>2. queue[Key(c)] \o held[c] = Append(queue[Key(c)], c)
      BY <2>2
    <3>3. queue' = [queue EXCEPT ![Key(c)] = @ \o held[c]]
      BY <3>1, <3>2
    <3>4. Monitor!Asks(c, "put") \/ Monitor!Asks(c, "put_nowait")
      BY <2>1 DEF Monitor!Asks, Puts
    <3>5. ~Monitor!Full(Monitor!Key(c))
      BY <2>3, <2>4, <2>5
    <3>6. Monitor!Return(c, "done")
      BY <2>1, <3>1 DEF Return, Monitor!Return
    <3> QED  BY <2>4, <3>1, <3>3, <3>4, <3>5, <3>6 DEF Monitor!Put
  <2>6. CASE Full(Key(c))
    <3>1. /\ IF request[c].op = "put" THEN UNCHANGED pc ELSE Return(c, "QueueFull")
          /\ held' = [held EXCEPT ![c] = <<c>>] /\ queue' = queue
      BY <2>1, <2>6 DEF PutItem
    <3>2. held' = held
      BY <2>2, <3>1
    <3>3. CASE request[c].op = "put"
      BY <2>1, <3>1, <3>2, <3>3 DEF Monitor!vars
    <3>4. CASE request[c].op # "put"
      <4>1. Monitor!Asks(c, "put_nowait")
        BY <2>1, <3>4 DEF Monitor!Asks, Puts
      <4>2. Monitor!Full(Monitor!Key(c))
        BY <2>3, <2>4, <2>6
      <4>3. Monitor!Return(c, "QueueFull")
        BY <2>1, <3>1, <3>4 DEF Return, Monitor!Return
      <4> QED  BY <3>1, <3>2, <4>1, <4>2, <4>3 DEF Monitor!Refuse
    <3> QED  BY <3>3, <3>4
  <2> QED  BY <2>5, <2>6
<1>3. ASSUME Inv, NEW c \in Calls, Get(c) PROVE Monitor!Get(c) \/ Monitor!Refuse(c) \/ UNCHANGED Monitor!vars
  <2>1. /\ Running(c, {"get", "get_nowait"}) /\ request' = request
        /\ pc[c] = "running" /\ request[c].op \in {"get", "get_nowait"} /\ Key(c) \in Keys
    BY <1>3, Runs DEF Get
  <2>2. /\ queue \in Lists /\ queue[Key(c)] \in Seq(Calls) /\ Len(queue[Key(c)]) \in Nat
        /\ held \in [Calls -> Seq(Calls)] /\ held[c] = <<>>
    <3>1. TypeOK /\ Hands
      BY <1>3, InvParts
    <3> QED  BY <3>1, <2>1, ListTypes DEF Hands
  <2>3. Monitor!Key(c) = Key(c)
    BY DEF Key, Monitor!Key
  <2>4. CASE queue[Key(c)] # <<>>
    <3> DEFINE q == queue[Key(c)]
    <3>1. /\ held' = [held EXCEPT ![c] = @ \o FirstOf(q, 1)]
          /\ queue' = [queue EXCEPT ![Key(c)] = After(@, 1)]
          /\ Return(c, "done")
      BY <1>3, <2>4 DEF Get, TakeItems
    <3>2. FirstOf(q, 1) = <<Head(q)>> /\ After(q, 1) = Tail(q)
      <4>1. q \in Seq(Calls) /\ q # <<>> /\ Len(q) \in Nat
        BY <2>2, <2>4
      <4> HIDE DEF q
      <4>2. FirstOf(q, 1) = SubSeq(q, 1, 1)
        BY <4>1 DEF FirstOf
      <4> QED  BY <4>1, <4>2 DEF After
    <3>3. <<>> \o <<Head(q)>> = <<Head(q)>>
      BY <2>2, <2>4
    <3>4. held' = [held EXCEPT ![c] = <<Head(queue[Key(c)])>>]
      BY <2>2, <3>1, <3>2, <3>3
    <3>5. queue' = [queue EXCEPT ![Key(c)] = Tail(@)]
      BY <3>1, <3>2
    <3>6. Monitor!Asks(c, "get") \/ Monitor!Asks(c, "get_nowait")
      BY <2>1 DEF Monitor!Asks
    <3>7. Monitor!Return(c, "done")
      BY <2>1, <3>1 DEF Return, Monitor!Return
    <3> QED  BY <2>3, <2>4, <3>4, <3>5, <3>6, <3>7 DEF Monitor!Get
  <2>5. CASE queue[Key(c)] = <<>>
    <3>1. /\ IF request[c].op = "get" THEN UNCHANGED pc ELSE Return(c, "QueueEmpty")
          /\ UNCHANGED <<held, queue>>
      BY <1>3, <2>5 DEF Get
    <3>2. CASE request[c].op = "get"
      BY <2>1, <3>1, <3>2 DEF Monitor!vars
    <3>3. CASE request[c].op # "get"
      <4>1. Monitor!Asks(c, "get_nowait")
        BY <2>1, <3>3 DEF Monitor!Asks
      <4>2. Monitor!Return(c, "QueueEmpty")
        BY <2>1, <3>1, <3>3 DEF Return, Monitor!Return
      <4> QED  BY <2>3, <2>5, <3>1, <4>1, <4>2 DEF Monitor!Refuse
    <3> QED  BY <3>2, <3>3
  <2> QED  BY <2>4, <2>5
<1>4. ASSUME Inv, NEW c \in Calls, GetBatch(c) PROVE Monitor!Collect(c)
  <2> DEFINE q == queue[Key(c)]
             b == Batch(c, BatchSize(c))
  <2>1. PICK n \in 0..Len(q) : n = BatchSize(c)
    BY <1>4, BatchStep
  <2>2. /\ request' = request /\ request[c].op = "get_batch" /\ pc[c] = "running"
        /\ q \in Seq(Calls) /\ Len(q) \in Nat
        /\ held'[c] = b /\ TotalWeight(b) <= Weight(c)
        /\ held' = [held EXCEPT ![c] = @ \o FirstOf(q, n)]
        /\ queue' = [queue EXCEPT ![Key(c)] = After(@, n)]
        /\ Return(c, "done") \/ UNCHANGED pc
    <3>1. /\ request' = request /\ request[c].op = "get_batch" /\ pc[c] = "running"
          /\ q \in Seq(Calls) /\ held'[c] = b /\ TotalWeight(b) <= Weight(c)
          /\ TakeItems(c, Key(c), BatchSize(c)) /\ (Return(c, "done") \/ UNCHANGED pc)
      BY <1>4, BatchStep
    <3> HIDE DEF b
    <3>2. /\ held' = [held EXCEPT ![c] = @ \o FirstOf(q, n)]
          /\ queue' = [queue EXCEPT ![Key(c)] = After(@, n)]
      BY <3>1, <2>1 DEF TakeItems
    <3> QED  BY <3>1, <3>2
  <2>3. FirstOf(q, n) = SubSeq(q, 1, n) /\ After(q, n) = SubSeq(q, n + 1, Len(q))
    <3>1. (IF n < Len(q) THEN n ELSE Len(q)) = n
      BY ONLY <2>1, <2>2
    <3> QED  BY <3>1 DEF FirstOf, After
  <2>4. held' = [held EXCEPT ![c] = @ \o SubSeq(queue[Key(c)], 1, n)]
    BY <2>2, <2>3
  <2>5. queue' = [queue EXCEPT ![Key(c)] = SubSeq(@, n + 1, Len(@))]
    BY <2>2, <2>3
  <2>6. Monitor!Asks(c, "get_batch") /\ Monitor!Key(c) = Key(c)
    BY <2>2 DEF Monitor!Asks, Monitor!Key, Key
  <2>7. Monitor!TotalWeight(held'[c]) <= Monitor!Weight(c)
    <3> HIDE DEF b
    <3>1. Monitor!TotalWeight(b) = TotalWeight(b)
      BY DEF Monitor!TotalWeight, Monitor!SumOf, Monitor!Weight, TotalWeight, SumOf, Weight
    <3> QED  BY <2>2, <3>1 DEF Monitor!Weight, Weight
  <2>8. Monitor!Return(c, "done") \/ UNCHANGED <<pc, request>>
    BY <2>2 DEF Return, Monitor!Return
  <2> HIDE DEF b
  <2> QED  BY <2>1, <2>4, <2>5, <2>6, <2>7, <2>8 DEF Monitor!Collect
<1>5. ASSUME NEW c \in Calls, NEW r \in Requests, Call(c, r) PROVE Monitor!Call(c, r)
  BY <1>5 DEF Call, Monitor!Call, Puts
<1>6. Inv /\ [Next]_vars => [Monitor!Next]_Monitor!vars
  <2> SUFFICES ASSUME Inv, [Next]_vars PROVE Monitor!Next \/ UNCHANGED Monitor!vars
    OBVIOUS
  <2>1. ASSUME NEW c \in Calls, Put(c) \/ Get(c) \/ GetBatch(c)
        PROVE  Monitor!Next \/ UNCHANGED Monitor!vars
    BY <2>1, <1>2, <1>3, <1>4 DEF Monitor!Next
  <2>2. CASE \E c \in Calls, r \in Requests : Call(c, r)
    BY <2>2, <1>5 DEF Monitor!Next
  <2>3. CASE UNCHANGED vars
    BY <2>3 DEF vars, Monitor!vars
  <2> QED  BY <2>1, <2>2, <2>3 DEF Next, EventLoop
<1> QED  BY <1>1, <1>6, InvThm, PTL DEF Spec, ImplementsBoundedQueue, Monitor!Spec

-----------------------------------------------------------------------------
(* The workers around the queues: Channel.                                  *)

PutCall(c) == c \in Calls /\ Begun(c) /\ request[c].op \in Puts
GetCall(c) == c \in Calls /\ Begun(c) /\ request[c].op \notin Puts

Offer(w, r, sync) == [worker |-> w, request |-> r, sync |-> sync]

(* Worker w awaits its gets.                                                *)
Waits(w) == \E o \in Offers : o.worker = w /\ o.request.op \notin Puts /\ o.sync

(* What a worker began it was to begin, and the numbers are given in order. *)
CallsOK ==
  \A c \in Calls :
    /\ Begun(c) =>
         /\ caller[c] \in Workers
         /\ \E sync \in BOOLEAN : Offer(caller[c], request[c], sync) \in Offers
         /\ \A b \in Calls : b < c => Begun(b)
    /\ pc[c] # "idle" => Begun(c)
    /\ pc[c] = "idle" => held[c] = <<>>
    /\ pc[c] = "QueueFull" => request[c].op = "put_nowait" /\ held[c] = <<c>>
    /\ pc[c] = "QueueEmpty" => request[c].op = "get_nowait"
    /\ PutCall(c) => held[c] \in {<<>>, <<c>>}

Increasing(s) == \A i, j \in DOMAIN s : i < j => s[i] < s[j]

(* The operations of a worker under one key run one by one, in order.       *)
OpsOK ==
  /\ \A w \in Workers, k \in Keys :
       /\ Increasing(opQueue[w][k])
       /\ \A c : Has(opQueue[w][k], c) =>
            /\ c \in Calls /\ Begun(c) /\ pc[c] = "idle"
            /\ caller[c] = w /\ request[c].key = k
  /\ \A c \in Calls :
       /\ Begun(c) /\ pc[c] = "idle" => Has(opQueue[caller[c]][request[c].key], c)
       /\ pc[c] = "running" => executing[caller[c]][request[c].key] = c
  /\ \A b, c \in Calls :
       /\ Begun(b) /\ Begun(c) /\ caller[b] = caller[c]
       /\ request[b].key = request[c].key /\ b < c /\ pc[c] # "idle"
       => Returned(b)

(* The item is still on the worker's side or on its way.                    *)
Unreceived(c) == PutCall(c) /\ ~Returned(c) /\ held[c] = <<>>

SendsOK ==
  /\ \A w \in Workers :
       /\ Increasing(toChannel[w]) /\ Increasing(unsent[w])
       /\ \A x, y : Has(toChannel[w], x) /\ Has(unsent[w], y) => x < y
       /\ \A c : Has(toChannel[w], c) \/ Has(unsent[w], c) => Unreceived(c) /\ caller[c] = w
  /\ \A c \in Calls :
       Unreceived(c) => Has(toChannel[caller[c]], c) \/ Has(unsent[caller[c]], c)

(* What a worker waits for.                                                 *)
BlockedOK ==
  /\ \A w \in Workers :
       blocked[w] # None =>
         /\ Begun(blocked[w]) /\ caller[blocked[w]] = w
         /\ ~Waits(w) => PutCall(blocked[w])
  /\ \A c \in Calls :
       /\ PutCall(c) /\ ~Returned(c) /\ Offer(caller[c], request[c], FALSE) \notin Offers =>
            blocked[caller[c]] = c
       /\ GetCall(c) /\ Waits(caller[c]) /\ got[c] = None => blocked[caller[c]] = c

(* The recvs a worker has posted are those of its gets.                     *)
RecvsOK ==
  \A w \in Workers :
    /\ \A c : Has(recvs[w], c) => GetCall(c) /\ caller[c] = w /\ (Waits(w) => got[c] = None)
    /\ Waits(w) => Len(recvs[w]) <= 1

AnswersCall(a, c) == a.query = c \/ (a.query = None /\ pc[c] = "QueueEmpty")

(* Each answer under way is for a get that has no data yet if its worker    *)
(* waits, and a get that returned has its answer or one is under way.       *)
AnswersOK ==
  /\ \A w \in Workers :
       /\ \A n \in DOMAIN toWorker[w] :
            \E c \in Calls :
              /\ GetCall(c) /\ caller[c] = w /\ Returned(c)
              /\ AnswersCall(toWorker[w][n], c)
              /\ toWorker[w][n].items = held[c]
              /\ Waits(w) => got[c] = None
       /\ Waits(w) => Len(toWorker[w]) <= 1
  /\ \A c \in Calls :
       /\ got[c] # None => GetCall(c) /\ Returned(c) /\ got[c] = held[c]
       /\ GetCall(c) /\ Returned(c) /\ got[c] = None =>
            \E n \in DOMAIN toWorker[caller[c]] : AnswersCall(toWorker[caller[c]][n], c)

(* The items in the queues and in the hands of gets are those of the puts   *)
(* that are done.                                                           *)
Stored(i) ==
  (\E k \in Keys : Has(queue[k], i)) \/ \E c \in Calls : GetCall(c) /\ Has(held[c], i)

ItemsStored ==
  /\ \A i : Stored(i) => PutCall(i) /\ pc[i] = "done"
  /\ \A i \in Calls : PutCall(i) /\ pc[i] = "done" => Stored(i)

ChannelInv ==
  /\ ChannelTypeOK
  /\ Loop(request, pc, ready, getters, putters)
  /\ CallsOK /\ OpsOK /\ SendsOK /\ BlockedOK /\ RecvsOK /\ AnswersOK /\ ItemsStored


(* Sequences in the order of the calls.                                     *)
LEMMA IncreasingTail ==
  ASSUME NEW s \in Seq(Calls), s # <<>>, Increasing(s)
  PROVE  /\ Tail(s) \in Seq(Calls) /\ Increasing(Tail(s)) /\ NoRepeat(s)
         /\ Head(s) \in Calls /\ Has(s, Head(s))
         /\ \A x : Has(s, x) => x \in Calls /\ (x = Head(s) \/ Head(s) < x)
         /\ \A x : Has(Tail(s), x) <=> Has(s, x) /\ x # Head(s)
<1>1. /\ Tail(s) \in Seq(Calls) /\ DOMAIN Tail(s) = 1..(Len(s) - 1)
      /\ \A i \in DOMAIN Tail(s) : i + 1 \in DOMAIN s /\ Tail(s)[i] = s[i + 1]
      /\ 1 \in DOMAIN s /\ Head(s) = s[1] /\ Head(s) \in Calls
  BY TailOfSeq
<1>2. DOMAIN s = 1..Len(s) /\ Len(s) \in Nat /\ \A i \in DOMAIN s : s[i] \in Calls /\ s[i] \in Nat
  <2>1. DOMAIN s = 1..Len(s) /\ Len(s) \in Nat /\ \A i \in DOMAIN s : s[i] \in Calls
    OBVIOUS
  <2>2. \A x \in Calls : x \in Nat
    BY CallsAssumption
  <2> QED  BY <2>1, <2>2
<1>3. NoRepeat(s)
  BY <1>2 DEF Increasing, NoRepeat
<1>4. Has(s, Head(s)) /\ \A x : Has(Tail(s), x) <=> Has(s, x) /\ x # Head(s)
  BY <1>3, NoRepeatTail
<1>5. \A x : Has(s, x) => x \in Calls /\ (x = Head(s) \/ Head(s) < x)
  <2>1. \A i \in DOMAIN s : i = 1 \/ 1 < i
    BY <1>2
  <2> QED  BY <2>1, <1>1, <1>2 DEF Has, Increasing
<1>6. Increasing(Tail(s))
  <2> DEFINE t == Tail(s)
  <2> SUFFICES ASSUME NEW i \in DOMAIN t, NEW j \in DOMAIN t, i < j
               PROVE  t[i] < t[j]
    BY DEF Increasing
  <2> HIDE DEF t
  <2>1. i \in Nat /\ j \in Nat /\ i + 1 < j + 1
    BY <1>1 DEF t
  <2> QED  BY <2>1, <1>1 DEF Increasing, t
<1> QED  BY <1>1, <1>3, <1>4, <1>5, <1>6

LEMMA IncreasingAppend ==
  ASSUME NEW s \in Seq(Calls), Increasing(s), NEW c \in Calls, \A x : Has(s, x) => x < c
  PROVE  /\ Append(s, c) \in Seq(Calls) /\ Increasing(Append(s, c))
         /\ \A x : Has(Append(s, c), x) <=> Has(s, x) \/ x = c
<1> DEFINE t == Append(s, c)
<1>1. /\ DOMAIN t = 1..(Len(s) + 1) /\ DOMAIN s = 1..Len(s) /\ Len(s) \in Nat
      /\ \A i \in DOMAIN s : t[i] = s[i]
      /\ t[Len(s) + 1] = c /\ t \in Seq(Calls)
  BY AppendToSeq
<1>2. \A x : Has(t, x) <=> Has(s, x) \/ x = c
  BY HasAppend
<1> HIDE DEF t
<1>3. \A i \in DOMAIN s : s[i] < c
  BY DEF Has
<1>4. ASSUME NEW i \in DOMAIN t, NEW j \in DOMAIN t, i < j PROVE t[i] < t[j]
  <2>1. i \in DOMAIN s
    BY <1>1, <1>4
  <2>2. CASE j \in DOMAIN s
    BY <1>1, <1>4, <2>1, <2>2 DEF Increasing
  <2>3. CASE j = Len(s) + 1
    BY <1>1, <1>3, <2>1, <2>3
  <2> QED  BY <1>1, <2>2, <2>3
<1>5. Increasing(t)
  BY <1>4 DEF Increasing
<1> QED  BY <1>1, <1>2, <1>5 DEF t

LEMMA EmptyHas == \A x : ~Has(<<>>, x)
  BY DEF Has

LEMMA EmptyIncreasing == Increasing(<<>>)
  BY DEF Increasing

-----------------------------------------------------------------------------
(* What is known of a call that has begun.                                  *)

LEMMA BegunFacts ==
  ASSUME ChannelTypeOK, CallsOK, NEW c \in Calls, Begun(c)
  PROVE  /\ caller[c] \in Workers /\ request[c] \in Requests
         /\ request[c].op \in Ops /\ request[c].key \in Keys
         /\ PutCall(c) <=> ~GetCall(c)
<1>1. request[c] \in Requests
  BY DEF ChannelTypeOK, TypeOK, Begun
<1>2. caller[c] \in Workers
  BY DEF CallsOK
<1>3. request[c].op \in Ops /\ request[c].key \in Keys
  BY <1>1, RequestsAssumption
<1> QED  BY <1>1, <1>2, <1>3 DEF PutCall, GetCall

(* What the gets a worker may begin have in common.                         *)
LEMMA GetsAgree ==
  ASSUME Disciplined, NEW o \in Offers, o.request.op \notin Puts
  PROVE  o.sync <=> Waits(o.worker)
  BY DEF Disciplined, Waits, Puts


-----------------------------------------------------------------------------
(* What a step does not touch.                                              *)

SameCalls == UNCHANGED <<request, caller>>
SameReturns == \A c \in Calls : Returned(c)' <=> Returned(c)
SameOutcomes ==
  \A c \in Calls : \A how \in {"done", "QueueFull", "QueueEmpty"} :
    pc'[c] = how <=> pc[c] = how

LEMMA CallsFrame ==
  ASSUME CallsOK, SameCalls, UNCHANGED <<pc, held>>
  PROVE  CallsOK'
  BY DEF CallsOK, SameCalls, Begun, PutCall

LEMMA OpsFrame ==
  ASSUME OpsOK, SameCalls, UNCHANGED <<pc, opQueue, executing>>
  PROVE  OpsOK'
  BY DEF OpsOK, SameCalls, Begun, Returned

LEMMA SendsFrame ==
  ASSUME SendsOK, SameCalls, SameReturns, UNCHANGED <<held, toChannel, unsent>>
  PROVE  SendsOK'
<1>1. \A c : Unreceived(c)' <=> Unreceived(c)
  BY DEF SameCalls, SameReturns, Unreceived, PutCall, Begun
<1> QED  BY <1>1 DEF SendsOK, SameCalls

LEMMA BlockedFrame ==
  ASSUME BlockedOK, SameCalls, SameReturns, UNCHANGED <<blocked, got>>
  PROVE  BlockedOK'
<1>1. /\ \A c : PutCall(c)' <=> PutCall(c)
      /\ \A c : GetCall(c)' <=> GetCall(c)
      /\ \A c : Begun(c)' <=> Begun(c)
  BY DEF SameCalls, PutCall, GetCall, Begun
<1> QED  BY <1>1 DEF BlockedOK, SameCalls, SameReturns

LEMMA RecvsFrame ==
  ASSUME RecvsOK, SameCalls, UNCHANGED <<recvs, got>>
  PROVE  RecvsOK'
<1>1. \A c : GetCall(c)' <=> GetCall(c)
  BY DEF SameCalls, GetCall, Begun
<1> QED  BY <1>1 DEF RecvsOK, SameCalls

LEMMA AnswersFrame ==
  ASSUME AnswersOK, SameCalls, SameReturns, SameOutcomes, UNCHANGED <<held, toWorker, got>>
  PROVE  AnswersOK'
<1>1. \A c : GetCall(c)' <=> GetCall(c)
  BY DEF SameCalls, GetCall, Begun
<1>2. \A a : \A c \in Calls : AnswersCall(a, c)' <=> AnswersCall(a, c)
  BY DEF SameOutcomes, AnswersCall
<1> QED  BY <1>1, <1>2 DEF AnswersOK, SameCalls, SameReturns

LEMMA StoredFrame ==
  ASSUME ItemsStored, SameCalls, SameOutcomes, UNCHANGED <<held, queue>>
  PROVE  ItemsStored'
<1>1. /\ \A c : PutCall(c)' <=> PutCall(c)
      /\ \A c : GetCall(c)' <=> GetCall(c)
  BY DEF SameCalls, PutCall, GetCall, Begun
<1>2. \A i : Stored(i)' <=> Stored(i)
  BY <1>1 DEF Stored
<1> QED  BY <1>1, <1>2 DEF ItemsStored, SameOutcomes, PutCall

LEMMA SameIfSamePC ==
  ASSUME pc' = pc
  PROVE  SameReturns /\ SameOutcomes
  BY DEF SameReturns, SameOutcomes, Returned

LEMMA ChannelParts ==
  ChannelInv <=> /\ ChannelTypeOK /\ Loop(request, pc, ready, getters, putters)
                 /\ CallsOK /\ OpsOK /\ SendsOK /\ BlockedOK /\ RecvsOK
                 /\ AnswersOK /\ ItemsStored
  BY DEF ChannelInv

(* A step that does not touch the queues, nor begin a call.                 *)
LEMMA WorkerFrame ==
  ASSUME ChannelInv, SameCalls, UNCHANGED <<pc, held, queue, getters, putters, ready>>
  PROVE  /\ TypeOK' /\ Loop(request, pc, ready, getters, putters)'
         /\ CallsOK' /\ ItemsStored'
         /\ UNCHANGED <<opQueue, executing>> => OpsOK'
         /\ UNCHANGED <<toChannel, unsent>> => SendsOK'
         /\ UNCHANGED <<blocked, got>> => BlockedOK'
         /\ UNCHANGED <<recvs, got>> => RecvsOK'
         /\ UNCHANGED <<toWorker, got>> => AnswersOK'
<1>1. /\ ChannelTypeOK /\ Loop(request, pc, ready, getters, putters)
      /\ CallsOK /\ OpsOK /\ SendsOK /\ BlockedOK /\ RecvsOK /\ AnswersOK /\ ItemsStored
  BY ChannelParts
<1>2. SameReturns /\ SameOutcomes
  BY SameIfSamePC
<1>3. TypeOK' /\ Loop(request, pc, ready, getters, putters)'
  BY <1>1 DEF ChannelTypeOK, TypeOK, SameCalls
<1>4. CallsOK' /\ ItemsStored'
  BY <1>1, <1>2, CallsFrame, StoredFrame
<1>5. UNCHANGED <<opQueue, executing>> => OpsOK'
  BY <1>1, OpsFrame
<1>6. UNCHANGED <<toChannel, unsent>> => SendsOK'
  BY <1>1, <1>2, SendsFrame
<1>7. UNCHANGED <<blocked, got>> => BlockedOK'
  BY <1>1, <1>2, BlockedFrame
<1>8. UNCHANGED <<recvs, got>> => RecvsOK'
  BY <1>1, RecvsFrame
<1>9. UNCHANGED <<toWorker, got>> => AnswersOK'
  BY <1>1, <1>2, AnswersFrame
<1> QED  BY <1>3, <1>4, <1>5, <1>6, <1>7, <1>8, <1>9

-----------------------------------------------------------------------------
(* The steps of a worker.                                                   *)

LEMMA ChannelSend ==
  ASSUME ChannelInv, NEW w \in Workers, Send(w)
  PROVE  ChannelInv'
<1>1. /\ ChannelTypeOK /\ Loop(request, pc, ready, getters, putters)
      /\ CallsOK /\ OpsOK /\ SendsOK /\ BlockedOK /\ RecvsOK /\ AnswersOK /\ ItemsStored
  BY ChannelParts
<1> DEFINE c == Head(unsent[w])
<1>2. /\ unsent[w] # <<>>
      /\ toChannel' = [toChannel EXCEPT ![w] = Append(@, c)]
      /\ unsent' = [unsent EXCEPT ![w] = Tail(@)]
      /\ UNCHANGED <<request, pc, held, queue, getters, putters, ready>>
      /\ UNCHANGED <<caller, blocked, opQueue, executing, toWorker, recvs, got>>
  BY DEF Send, vars
<1>4. /\ TypeOK' /\ Loop(request, pc, ready, getters, putters)'
      /\ CallsOK' /\ OpsOK' /\ BlockedOK' /\ RecvsOK' /\ AnswersOK' /\ ItemsStored'
  BY <1>2, WorkerFrame DEF SameCalls
<1>5. toChannel[w] \in Seq(Calls) /\ unsent[w] \in Seq(Calls)
  BY <1>1 DEF ChannelTypeOK
<1>6. /\ Increasing(toChannel[w]) /\ Increasing(unsent[w])
      /\ \A x, y : Has(toChannel[w], x) /\ Has(unsent[w], y) => x < y
  BY <1>1 DEF SendsOK
<1>7. /\ Tail(unsent[w]) \in Seq(Calls) /\ Increasing(Tail(unsent[w]))
      /\ c \in Calls /\ Has(unsent[w], c)
      /\ \A x : Has(unsent[w], x) => x \in Calls /\ (x = c \/ c < x)
      /\ \A x : Has(Tail(unsent[w]), x) <=> Has(unsent[w], x) /\ x # c
  BY <1>2, <1>5, <1>6, IncreasingTail
<1>8. /\ Append(toChannel[w], c) \in Seq(Calls) /\ Increasing(Append(toChannel[w], c))
      /\ \A x : Has(Append(toChannel[w], c), x) <=> Has(toChannel[w], x) \/ x = c
  BY <1>5, <1>6, <1>7, IncreasingAppend
<1> HIDE DEF c
<1>9. /\ toChannel' \in [Workers -> Seq(Calls)] /\ unsent' \in [Workers -> Seq(Calls)]
      /\ toChannel'[w] = Append(toChannel[w], c) /\ unsent'[w] = Tail(unsent[w])
      /\ \A v \in Workers \ {w} : toChannel'[v] = toChannel[v] /\ unsent'[v] = unsent[v]
  BY <1>1, <1>2, <1>7, <1>8 DEF ChannelTypeOK
<1>10. ChannelTypeOK'
  BY <1>1, <1>2, <1>4, <1>9 DEF ChannelTypeOK
<1>11. /\ \A v \in Workers : /\ Increasing(toChannel'[v]) /\ Increasing(unsent'[v])
                             /\ \A x, y : Has(toChannel'[v], x) /\ Has(unsent'[v], y) => x < y
       /\ \A v \in Workers : \A x : Has(toChannel'[v], x) \/ Has(unsent'[v], x)
                                     <=> Has(toChannel[v], x) \/ Has(unsent[v], x)
  <2>1. /\ Increasing(toChannel'[w]) /\ Increasing(unsent'[w])
        /\ \A x, y : Has(toChannel'[w], x) /\ Has(unsent'[w], y) => x < y
        /\ \A x : Has(toChannel'[w], x) \/ Has(unsent'[w], x)
                    <=> Has(toChannel[w], x) \/ Has(unsent[w], x)
    BY <1>6, <1>7, <1>8, <1>9
  <2> QED  BY <1>1, <1>9, <2>1 DEF SendsOK
<1>12. \A x : Unreceived(x)' <=> Unreceived(x)
  BY <1>2 DEF Unreceived, PutCall, Begun, Returned
<1>13. SendsOK'
  <2>1. \A x \in Calls : Unreceived(x) => caller[x] \in Workers
    BY <1>1 DEF Unreceived, PutCall, CallsOK
  <2>2. caller' = caller
    BY <1>2
  <2>3. \A x \in Calls : Unreceived(x)' => Has(toChannel'[caller[x]], x) \/ Has(unsent'[caller[x]], x)
    BY <1>1, <1>11, <1>12, <2>1 DEF SendsOK
  <2>4. \A v \in Workers : \A x : Has(toChannel'[v], x) \/ Has(unsent'[v], x)
          => Unreceived(x)' /\ caller[x] = v
    BY <1>1, <1>11, <1>12 DEF SendsOK
  <2> QED  BY <1>11, <2>2, <2>3, <2>4 DEF SendsOK
<1> QED  BY <1>1, <1>4, <1>10, <1>13, ChannelParts DEF ChannelInv


LEMMA ChannelReply ==
  ASSUME ChannelInv, NEW w \in Workers, NEW k \in Keys, Reply(w, k)
  PROVE  ChannelInv'
<1>1. ChannelTypeOK /\ OpsOK /\ CallsOK
  BY ChannelParts
<1>2. /\ executing[w][k] # None /\ Returned(executing[w][k])
      /\ executing' = [executing EXCEPT ![w][k] = None]
      /\ UNCHANGED <<request, pc, held, queue, getters, putters, ready>>
      /\ UNCHANGED <<caller, blocked, opQueue, unsent, toChannel, toWorker, recvs, got>>
  BY DEF Reply, vars
<1>3. /\ TypeOK' /\ Loop(request, pc, ready, getters, putters)'
      /\ CallsOK' /\ SendsOK' /\ BlockedOK' /\ RecvsOK' /\ AnswersOK' /\ ItemsStored'
  BY <1>2, WorkerFrame DEF SameCalls
<1>4. /\ executing' \in [Workers -> [Keys -> Calls \cup {None}]]
      /\ \A v \in Workers, j \in Keys : v # w \/ j # k => executing'[v][j] = executing[v][j]
  BY <1>1, <1>2 DEF ChannelTypeOK
<1>5. ChannelTypeOK'
  BY <1>1, <1>2, <1>3, <1>4 DEF ChannelTypeOK
<1>6. ASSUME NEW c \in Calls, pc[c] = "running"
      PROVE  executing'[caller[c]][request[c].key] = c
  <2>1. Begun(c) /\ ~Returned(c)
    BY <1>1, <1>6 DEF CallsOK, Returned
  <2>2. caller[c] \in Workers /\ request[c].key \in Keys
    BY <1>1, <2>1, BegunFacts
  <2>3. executing[caller[c]][request[c].key] = c
    BY <1>1, <1>6 DEF OpsOK
  <2> QED  BY <1>2, <1>4, <2>1, <2>2, <2>3
<1>7. OpsOK'
  BY <1>1, <1>2, <1>6 DEF OpsOK, Begun, Returned
<1> QED  BY <1>3, <1>5, <1>7 DEF ChannelInv

LEMMA ChannelEnd ==
  ASSUME ChannelInv, NEW w \in Workers, End(w)
  PROVE  ChannelInv'
<1>1. ChannelTypeOK /\ CallsOK /\ BlockedOK
  BY ChannelParts
<1> DEFINE c == blocked[w]
<1>2. /\ c # None
      /\ request[c].op # "get_nowait" => Replied(c)
      /\ ~IsPut(c) => got[c] # None
      /\ blocked' = [blocked EXCEPT ![w] = None]
      /\ UNCHANGED <<request, pc, held, queue, getters, putters, ready>>
      /\ UNCHANGED <<caller, opQueue, executing, unsent, toChannel, toWorker, recvs, got>>
  BY DEF End, vars
<1>3. /\ TypeOK' /\ Loop(request, pc, ready, getters, putters)'
      /\ CallsOK' /\ OpsOK' /\ SendsOK' /\ RecvsOK' /\ AnswersOK' /\ ItemsStored'
  BY <1>2, WorkerFrame DEF SameCalls
<1>4. /\ blocked' \in [Workers -> Calls \cup {None}] /\ blocked'[w] = None
      /\ \A v \in Workers : v # w => blocked'[v] = blocked[v]
      /\ c \in Calls
  BY <1>1, <1>2 DEF ChannelTypeOK
<1>5. ChannelTypeOK'
  BY <1>1, <1>2, <1>3, <1>4 DEF ChannelTypeOK
<1>6. /\ PutCall(c) => Returned(c)
      /\ GetCall(c) => got[c] # None
  BY <1>2 DEF PutCall, GetCall, IsPut, Replied, Puts
<1> HIDE DEF c
<1>7. ASSUME NEW x \in Calls,
             \/ PutCall(x) /\ ~Returned(x) /\ Offer(caller[x], request[x], FALSE) \notin Offers
             \/ GetCall(x) /\ Waits(caller[x]) /\ got[x] = None
      PROVE  blocked'[caller[x]] = x
  <2>1. blocked[caller[x]] = x /\ x # c
    BY <1>1, <1>6, <1>7 DEF BlockedOK
  <2>2. caller[x] \in Workers
    BY <1>1, <1>7, BegunFacts DEF PutCall, GetCall
  <2> QED  BY <2>1, <2>2, <1>4 DEF c
<1>8. BlockedOK'
  <2>1. \A x : /\ PutCall(x)' <=> PutCall(x)
               /\ GetCall(x)' <=> GetCall(x)
               /\ Begun(x)' <=> Begun(x)
               /\ Returned(x)' <=> Returned(x)
    BY <1>2 DEF PutCall, GetCall, Begun, Returned
  <2>2. \A v \in Workers :
          blocked'[v] # None =>
            Begun(blocked'[v]) /\ caller[blocked'[v]] = v /\ (~Waits(v) => PutCall(blocked'[v]))
    BY <1>1, <1>4 DEF BlockedOK
  <2> QED  BY <1>2, <1>7, <2>1, <2>2 DEF BlockedOK
<1> QED  BY <1>3, <1>5, <1>8 DEF ChannelInv

LEMMA ChannelExecute ==
  ASSUME ChannelInv, NEW w \in Workers, NEW k \in Keys, Execute(w, k)
  PROVE  ChannelInv'
<1>1. /\ ChannelTypeOK /\ Loop(request, pc, ready, getters, putters)
      /\ CallsOK /\ OpsOK /\ SendsOK /\ BlockedOK /\ RecvsOK /\ AnswersOK /\ ItemsStored
  BY ChannelParts
<1> DEFINE s == opQueue[w][k]
           c == Head(opQueue[w][k])
<1>2. /\ executing[w][k] = None /\ s # <<>>
      /\ executing' = [executing EXCEPT ![w][k] = c]
      /\ pc' = [pc EXCEPT ![c] = "running"]
      /\ ready' = Append(ready, c)
      /\ opQueue' = [opQueue EXCEPT ![w][k] = Tail(@)]
      /\ UNCHANGED <<request, held, queue, getters, putters, caller, blocked,
                     unsent, toChannel, toWorker, recvs, got>>
  BY DEF Execute
<1>3. s \in Seq(Calls) /\ Increasing(s)
  BY <1>1 DEF ChannelTypeOK, OpsOK
<1>4. /\ Tail(s) \in Seq(Calls) /\ Increasing(Tail(s))
      /\ c \in Calls /\ Has(s, c)
      /\ \A x : Has(s, x) => x \in Calls /\ (x = c \/ c < x)
      /\ \A x : Has(Tail(s), x) <=> Has(s, x) /\ x # c
  BY <1>2, <1>3, IncreasingTail
<1>5. Begun(c) /\ pc[c] = "idle" /\ caller[c] = w /\ request[c].key = k
  BY <1>1, <1>4 DEF OpsOK
<1> HIDE DEF c
<1>6. /\ opQueue' \in [Workers -> [Keys -> Seq(Calls)]]
      /\ opQueue'[w][k] = Tail(s)
      /\ \A v \in Workers, j \in Keys : v # w \/ j # k => opQueue'[v][j] = opQueue[v][j]
      /\ executing' \in [Workers -> [Keys -> Calls \cup {None}]]
      /\ executing'[w][k] = c
      /\ \A v \in Workers, j \in Keys : v # w \/ j # k => executing'[v][j] = executing[v][j]
  BY <1>1, <1>2, <1>4 DEF ChannelTypeOK
<1>7. /\ pc \in [Calls -> PC] /\ pc' \in [Calls -> PC] /\ pc'[c] = "running"
      /\ \A x \in Calls : x # c => pc'[x] = pc[x]
  BY <1>1, <1>2, <1>4 DEF ChannelTypeOK, TypeOK, PC
<1>8. ready' \in Seq(Calls) /\ Loop(request', pc', ready', getters', putters')
  <2> DEFINE S == Requests \cup {None}
  <2>1. /\ ready \in Seq(Calls) /\ getters \in Lists /\ putters \in Lists
        /\ request \in [Calls -> S] /\ request[c] \in S
    BY <1>1, <1>4 DEF ChannelTypeOK, TypeOK, Lists
  <2>2. [request EXCEPT ![c] = request[c]] = request
    BY <2>1
  <2> HIDE DEF S
  <2>3. /\ Append(ready, c) \in Seq(Calls)
        /\ Loop([request EXCEPT ![c] = request[c]], [pc EXCEPT ![c] = "running"],
                Append(ready, c), getters, putters)
    BY <1>1, <1>4, <1>5, <1>7, <2>1, LoopCalls
  <2> QED  BY <1>2, <2>2, <2>3
<1>9. ChannelTypeOK'
  BY <1>1, <1>2, <1>6, <1>7, <1>8 DEF ChannelTypeOK, TypeOK
<1>10. SameCalls /\ SameReturns /\ SameOutcomes
  <2>1. SameReturns
    BY <1>5, <1>7 DEF SameReturns, Returned
  <2>2. SameOutcomes
    BY <1>5, <1>7 DEF SameOutcomes
  <2> QED  BY <2>1, <2>2, <1>2 DEF SameCalls
<1>11. SendsOK' /\ BlockedOK' /\ RecvsOK' /\ AnswersOK' /\ ItemsStored'
  BY <1>1, <1>2, <1>10, SendsFrame, BlockedFrame, RecvsFrame, AnswersFrame, StoredFrame
<1>12. CallsOK'
  BY <1>1, <1>2, <1>5, <1>7 DEF CallsOK, Begun, PutCall
<1>13. \A x \in Calls : Begun(x) => caller[x] \in Workers /\ request[x].key \in Keys
  BY <1>1, BegunFacts
<1>14. \A v \in Workers, j \in Keys :
         /\ Increasing(opQueue'[v][j])
         /\ \A x : Has(opQueue'[v][j], x) =>
              /\ x \in Calls /\ Begun(x) /\ pc'[x] = "idle"
              /\ caller[x] = v /\ request[x].key = j
  <2> SUFFICES ASSUME NEW v \in Workers, NEW j \in Keys
               PROVE  /\ Increasing(opQueue'[v][j])
                      /\ \A x : Has(opQueue'[v][j], x) =>
                           /\ x \in Calls /\ Begun(x) /\ pc'[x] = "idle"
                           /\ caller[x] = v /\ request[x].key = j
    OBVIOUS
  <2>1. CASE v = w /\ j = k
    BY <2>1, <1>1, <1>4, <1>6, <1>7 DEF OpsOK
  <2>2. CASE v # w \/ j # k
    BY <2>2, <1>1, <1>5, <1>6, <1>7 DEF OpsOK
  <2> QED  BY <2>1, <2>2
<1>15. ASSUME NEW x \in Calls, Begun(x), pc'[x] = "idle"
       PROVE  Has(opQueue'[caller[x]][request[x].key], x)
  <2>1. x # c /\ Has(opQueue[caller[x]][request[x].key], x)
    BY <1>1, <1>7, <1>15 DEF OpsOK
  <2> QED  BY <2>1, <1>4, <1>6, <1>13, <1>15
<1>16. ASSUME NEW x \in Calls, pc'[x] = "running"
       PROVE  executing'[caller[x]][request[x].key] = x
  <2>1. CASE x = c
    BY <2>1, <1>5, <1>6
  <2>2. CASE x # c
    <3>1. executing[caller[x]][request[x].key] = x /\ Begun(x)
      BY <2>2, <1>1, <1>7, <1>16 DEF OpsOK, CallsOK
    <3>2. x # None
      BY <1>16, OffersAssumption
    <3> QED  BY <3>1, <3>2, <1>2, <1>6, <1>13
  <2> QED  BY <2>1, <2>2
<1>17. ASSUME NEW a \in Calls, NEW b \in Calls, Begun(a), Begun(b), caller[a] = caller[b],
              request[a].key = request[b].key, a < b, pc'[b] # "idle"
       PROVE  Returned(a)
  <2>1. CASE b # c
    BY <2>1, <1>1, <1>7, <1>17 DEF OpsOK
  <2>2. CASE b = c
    <3>1. ~Has(s, a)
      BY <2>2, <1>4, <1>17, CallsAssumption
    <3>2. pc[a] # "idle"
      BY <3>1, <2>2, <1>1, <1>5, <1>17 DEF OpsOK
    <3>3. pc[a] # "running"
      <4>1. executing[w][k] # a
        BY <1>2, OffersAssumption
      <4> QED  BY <4>1, <2>2, <1>1, <1>5, <1>17 DEF OpsOK
    <3> QED  BY <3>2, <3>3, <1>7 DEF Returned
  <2> QED  BY <2>1, <2>2
<1>18. OpsOK'
  <2>1. request' = request /\ caller' = caller /\ \A x \in Calls : Returned(x)' <=> Returned(x)
    BY <1>2, <1>10 DEF SameReturns
  <2> QED  BY <2>1, <1>14, <1>15, <1>16, <1>17 DEF OpsOK, Begun
<1> QED  BY <1>8, <1>9, <1>11, <1>12, <1>18 DEF ChannelInv


LEMMA LoopBegins ==
  ASSUME NEW R, NEW R2, NEW P, NEW rd, NEW G, NEW W, Loop(R, P, rd, G, W),
         NEW c, P[c] # "running", \A x \in Calls : x = c \/ R2[x] = R[x],
         G \in Lists, W \in Lists
  PROVE  Loop(R2, P, rd, G, W)
<1>1. ASSUME NEW s \in Seq(Calls), NEW k, NEW ops, Sleepers(R, P, rd, s, k, ops)
      PROVE  Sleepers(R2, P, rd, s, k, ops)
  <2>1. \A x : Has(s, x) => x \in Calls /\ x # c
    BY <1>1, HasIn DEF Sleepers
  <2> QED  BY <1>1, <2>1 DEF Sleepers
<1>2. \A k \in Keys : G[k] \in Seq(Calls) /\ W[k] \in Seq(Calls)
  BY DEF Lists
<1> QED  BY <1>1, <1>2 DEF Loop

(* A call begins: its number is greater than those given before, and it is  *)
(* nowhere yet.                                                             *)
LEMMA ChannelBegin ==
  ASSUME ChannelInv, Disciplined,
         NEW c \in Calls, NEW w \in Workers, NEW r \in Requests, NEW sync \in BOOLEAN,
         Offer(w, r, sync) \in Offers, Begin(c, w, r, sync)
  PROVE  ChannelInv'
<1>1. /\ ChannelTypeOK /\ Loop(request, pc, ready, getters, putters)
      /\ CallsOK /\ OpsOK /\ SendsOK /\ BlockedOK /\ RecvsOK /\ AnswersOK /\ ItemsStored
  BY ChannelParts
<1>2. /\ blocked[w] = None
      /\ request[c] = None /\ \A b \in Calls : b < c => request[b] # None
      /\ request' = [request EXCEPT ![c] = r]
      /\ caller' = [caller EXCEPT ![c] = w]
      /\ blocked' = [blocked EXCEPT ![w] = IF sync THEN c ELSE None]
      /\ opQueue' = [opQueue EXCEPT ![w][r.key] = Append(@, c)]
      /\ IF r.op \in Puts
         THEN unsent' = [unsent EXCEPT ![w] = Append(@, c)] /\ UNCHANGED recvs
         ELSE recvs' = [recvs EXCEPT ![w] = Append(@, c)] /\ UNCHANGED unsent
      /\ UNCHANGED <<pc, held, queue, getters, putters, ready, executing,
                     toChannel, toWorker, got>>
  BY DEF Begin, Puts
<1>3. None \notin Calls /\ r # None /\ r.key \in Keys /\ r.op \in Ops
  BY NoneAssumption, RequestsAssumption, OffersAssumption
<1>4. ~Begun(c) /\ ~PutCall(c) /\ ~GetCall(c) /\ pc[c] = "idle" /\ held[c] = <<>> /\ got[c] = None
  BY <1>1, <1>2 DEF Begun, PutCall, GetCall, CallsOK, AnswersOK
<1>5. \A x \in Calls : Begun(x) => x < c
  <2> SUFFICES ASSUME NEW x \in Calls, Begun(x) PROVE x < c
    OBVIOUS
  <2>1. x # c /\ ~(c < x)
    BY <1>1, <1>4 DEF CallsOK
  <2>2. x \in Nat /\ c \in Nat
    BY CallsAssumption
  <2> QED  BY <2>1, <2>2
<1>6. /\ request' \in [Calls -> Requests \cup {None}] /\ caller' \in [Calls -> Workers \cup {None}]
      /\ request'[c] = r /\ caller'[c] = w
      /\ \A x \in Calls : x # c => request'[x] = request[x] /\ caller'[x] = caller[x]
  BY <1>1, <1>2 DEF ChannelTypeOK, TypeOK
<1>7. \A x \in Calls : x # c =>
        /\ Begun(x)' <=> Begun(x)
        /\ PutCall(x)' <=> PutCall(x)
        /\ GetCall(x)' <=> GetCall(x)
  BY <1>6 DEF Begun, PutCall, GetCall
<1>8. Begun(c)' /\ (PutCall(c)' <=> r.op \in Puts) /\ (GetCall(c)' <=> r.op \notin Puts)
  BY <1>3, <1>6 DEF Begun, PutCall, GetCall
<1>9. \A x : Returned(x)' <=> Returned(x)
  BY <1>2 DEF Returned
<1>10. Loop(request', pc', ready', getters', putters')
  <2>1. getters \in Lists /\ putters \in Lists
    BY <1>1 DEF ChannelTypeOK, TypeOK, Lists
  <2>2. pc[c] # "running"
    BY <1>4
  <2>3. Loop(request', pc, ready, getters, putters)
    BY <1>1, <1>6, <2>1, <2>2, LoopBegins
  <2> QED  BY <1>2, <2>3
<1>11. CallsOK'
  <2> SUFFICES ASSUME NEW x \in Calls
               PROVE  /\ Begun(x)' =>
                           /\ caller'[x] \in Workers
                           /\ \E s \in BOOLEAN : Offer(caller'[x], request'[x], s) \in Offers
                           /\ \A b \in Calls : b < x => Begun(b)'
                      /\ pc[x] # "idle" => Begun(x)'
                      /\ pc[x] = "idle" => held[x] = <<>>
                      /\ pc[x] = "QueueFull" => request'[x].op = "put_nowait" /\ held[x] = <<x>>
                      /\ pc[x] = "QueueEmpty" => request'[x].op = "get_nowait"
                      /\ PutCall(x)' => held[x] \in {<<>>, <<x>>}
    BY <1>2 DEF CallsOK
  <2>1. CASE x = c
    <3>1. \A b \in Calls : b < c => Begun(b)'
      <4>1. \A b \in Calls : b < c => b # c
        BY CallsAssumption
      <4> QED  BY <4>1, <1>2, <1>7 DEF Begun
    <3> QED  BY <2>1, <3>1, <1>4, <1>6
  <2>2. CASE x # c
    <3>1. Begun(x)' => \A b \in Calls : b < x => Begun(b)'
      BY <2>2, <1>1, <1>7, <1>8 DEF CallsOK
    <3> QED  BY <2>2, <3>1, <1>1, <1>6, <1>7 DEF CallsOK
  <2> QED  BY <2>1, <2>2
<1> DEFINE s == opQueue[w][r.key]
<1>12. s \in Seq(Calls) /\ Increasing(s) /\ \A x : Has(s, x) => x < c
  <2>1. s \in Seq(Calls)
    BY <1>1, <1>3 DEF ChannelTypeOK
  <2>2. Increasing(s) /\ \A x : Has(s, x) => x \in Calls /\ Begun(x)
    BY <1>1, <1>3 DEF OpsOK
  <2> HIDE DEF s
  <2> QED  BY <1>5, <2>1, <2>2
<1>13. /\ Append(s, c) \in Seq(Calls) /\ Increasing(Append(s, c))
       /\ \A x : Has(Append(s, c), x) <=> Has(s, x) \/ x = c
  BY <1>12, IncreasingAppend
<1>14. /\ opQueue' \in [Workers -> [Keys -> Seq(Calls)]]
       /\ opQueue'[w][r.key] = Append(s, c)
       /\ \A v \in Workers, j \in Keys : v # w \/ j # r.key => opQueue'[v][j] = opQueue[v][j]
  BY <1>1, <1>2, <1>3, <1>13 DEF ChannelTypeOK
<1> HIDE DEF s
<1>15. \A x \in Calls : Begun(x) => caller[x] \in Workers /\ request[x].key \in Keys
  BY <1>1, BegunFacts
<1>16. OpsOK'
  <2>1. \A v \in Workers, j \in Keys :
          /\ Increasing(opQueue'[v][j])
          /\ \A x : Has(opQueue'[v][j], x) =>
               /\ x \in Calls /\ Begun(x)' /\ pc[x] = "idle"
               /\ caller'[x] = v /\ request'[x].key = j
    <3> SUFFICES ASSUME NEW v \in Workers, NEW j \in Keys
                 PROVE  /\ Increasing(opQueue'[v][j])
                        /\ \A x : Has(opQueue'[v][j], x) =>
                             /\ x \in Calls /\ Begun(x)' /\ pc[x] = "idle"
                             /\ caller'[x] = v /\ request'[x].key = j
      OBVIOUS
    <3>1. \A x : Has(opQueue[v][j], x) =>
            /\ x \in Calls /\ x # c /\ Begun(x)' /\ pc[x] = "idle"
            /\ caller'[x] = v /\ request'[x].key = j
      BY <1>1, <1>4, <1>6, <1>7 DEF OpsOK
    <3>2. CASE v = w /\ j = r.key
      BY <3>1, <3>2, <1>4, <1>6, <1>8, <1>13, <1>14 DEF s
    <3>3. CASE v # w \/ j # r.key
      BY <3>1, <3>3, <1>1, <1>14 DEF OpsOK
    <3> QED  BY <3>2, <3>3
  <2>2. ASSUME NEW x \in Calls, Begun(x)', pc[x] = "idle"
        PROVE  Has(opQueue'[caller'[x]][request'[x].key], x)
    <3>1. CASE x = c
      BY <3>1, <1>6, <1>13, <1>14
    <3>2. CASE x # c
      <4>1. Begun(x) /\ Has(opQueue[caller[x]][request[x].key], x)
        BY <3>2, <2>2, <1>1, <1>7 DEF OpsOK
      <4>2. caller[x] \in Workers /\ request[x].key \in Keys
        BY <4>1, <1>15
      <4>3. caller'[x] = caller[x] /\ request'[x] = request[x]
        BY <3>2, <1>6
      <4>4. CASE caller[x] = w /\ request[x].key = r.key
        <5>1. Has(s, x)
          BY <4>1, <4>4 DEF s
        <5> QED  BY <5>1, <4>3, <4>4, <1>13, <1>14
      <4>5. CASE caller[x] # w \/ request[x].key # r.key
        BY <4>1, <4>2, <4>3, <4>5, <1>14
      <4> QED  BY <4>4, <4>5
    <3> QED  BY <3>1, <3>2
  <2>3. ASSUME NEW x \in Calls, pc[x] = "running"
        PROVE  executing[caller'[x]][request'[x].key] = x
    BY <2>3, <1>1, <1>4, <1>6 DEF OpsOK
  <2>4. ASSUME NEW a \in Calls, NEW b \in Calls, Begun(a)', Begun(b)', caller'[a] = caller'[b],
               request'[a].key = request'[b].key, a < b, pc[b] # "idle"
        PROVE  Returned(a)
    <3>1. b # c /\ Begun(b)
      BY <2>4, <1>4, <1>7
    <3>2. a # c
      <4>1. b < c
        BY <3>1, <1>5
      <4> QED  BY <4>1, <2>4, CallsAssumption
    <3> QED  BY <3>1, <3>2, <2>4, <1>1, <1>6, <1>7 DEF OpsOK
  <2> QED  BY <1>2, <1>9, <2>1, <2>2, <2>3, <2>4 DEF OpsOK
<1>17. \A x : Unreceived(x)' <=> Unreceived(x) \/ (x = c /\ r.op \in Puts)
  <2>1. ~Returned(c) /\ ~Unreceived(c)
    BY <1>4 DEF Returned, Unreceived
  <2>2. \A x : x \notin Calls => ~PutCall(x)' /\ ~PutCall(x)
    BY DEF PutCall
  <2> QED  BY <2>1, <2>2, <1>2, <1>4, <1>7, <1>8, <1>9 DEF Unreceived
<1>18. /\ unsent' \in [Workers -> Seq(Calls)]
       /\ \A v \in Workers : /\ Increasing(unsent'[v])
                             /\ \A x : Has(unsent'[v], x) <=>
                                         Has(unsent[v], x) \/ (v = w /\ x = c /\ r.op \in Puts)
  <2>1. unsent[w] \in Seq(Calls) /\ Increasing(unsent[w]) /\ \A x : Has(unsent[w], x) => x < c
    BY <1>1, <1>5 DEF ChannelTypeOK, SendsOK, Unreceived, PutCall
  <2>2. /\ Append(unsent[w], c) \in Seq(Calls) /\ Increasing(Append(unsent[w], c))
        /\ \A x : Has(Append(unsent[w], c), x) <=> Has(unsent[w], x) \/ x = c
    BY <2>1, IncreasingAppend
  <2>3. CASE r.op \in Puts
    <3>1. /\ unsent' \in [Workers -> Seq(Calls)] /\ unsent'[w] = Append(unsent[w], c)
          /\ \A v \in Workers : v # w => unsent'[v] = unsent[v]
      BY <2>2, <2>3, <1>1, <1>2 DEF ChannelTypeOK
    <3> QED  BY <3>1, <2>2, <2>3, <1>1 DEF SendsOK
  <2>4. CASE r.op \notin Puts
    BY <2>4, <1>1, <1>2 DEF ChannelTypeOK, SendsOK
  <2> QED  BY <2>3, <2>4
<1>19. SendsOK'
  <2>1. ASSUME NEW v \in Workers
        PROVE  /\ Increasing(toChannel[v]) /\ Increasing(unsent'[v])
               /\ \A x, y : Has(toChannel[v], x) /\ Has(unsent'[v], y) => x < y
               /\ \A x : Has(toChannel[v], x) \/ Has(unsent'[v], x) =>
                           Unreceived(x)' /\ caller'[x] = v
    <3>1. \A x : Has(toChannel[v], x) => x \in Calls /\ Begun(x)
      BY <1>1 DEF SendsOK, Unreceived, PutCall
    <3>2. \A x, y : Has(toChannel[v], x) /\ Has(unsent'[v], y) => x < y
      BY <3>1, <1>1, <1>5, <1>18 DEF SendsOK
    <3>3. \A x : Has(toChannel[v], x) \/ Has(unsent[v], x) => x \in Calls /\ x # c
      BY <1>1, <1>4 DEF SendsOK, Unreceived, PutCall
    <3>4. \A x : Has(toChannel[v], x) \/ Has(unsent[v], x) => Unreceived(x)' /\ caller'[x] = v
      BY <3>3, <1>1, <1>6, <1>17 DEF SendsOK
    <3> QED  BY <3>2, <3>4, <1>1, <1>6, <1>17, <1>18 DEF SendsOK
  <2>2. ASSUME NEW x \in Calls, Unreceived(x)'
        PROVE  Has(toChannel[caller'[x]], x) \/ Has(unsent'[caller'[x]], x)
    <3>1. CASE x = c
      BY <3>1, <2>2, <1>4, <1>6, <1>17, <1>18 DEF Unreceived
    <3>2. CASE x # c
      <4>1. Unreceived(x) /\ caller[x] \in Workers
        BY <2>2, <3>2, <1>15, <1>17 DEF Unreceived, PutCall
      <4> QED  BY <4>1, <3>2, <1>1, <1>6, <1>18 DEF SendsOK
    <3> QED  BY <3>1, <3>2
  <2> QED  BY <1>2, <2>1, <2>2 DEF SendsOK

<1>20. /\ blocked' \in [Workers -> Calls \cup {None}]
       /\ blocked'[w] = IF sync THEN c ELSE None
       /\ \A v \in Workers : v # w => blocked'[v] = blocked[v]
  BY <1>1, <1>2 DEF ChannelTypeOK
<1>21. r.op \notin Puts => (sync <=> Waits(w))
  <2>1. /\ Offer(w, r, sync).worker = w /\ Offer(w, r, sync).request = r
        /\ Offer(w, r, sync).sync = sync
    BY DEF Offer
  <2> QED  BY <2>1, GetsAgree
<1>22. BlockedOK'
  <2>1. ASSUME NEW v \in Workers, NEW b, blocked'[v] = b, b # None
        PROVE  /\ b \in Calls /\ request'[b] # None /\ caller'[b] = v
               /\ ~Waits(v) => request'[b].op \in Puts
    <3>1. CASE v = w
      BY <3>1, <2>1, <1>3, <1>6, <1>20, <1>21
    <3>2. CASE v # w
      <4>1. /\ blocked[v] = b /\ b \in Calls /\ Begun(b)
            /\ caller[b] = v /\ (~Waits(v) => PutCall(b))
        BY <2>1, <3>2, <1>1, <1>20 DEF ChannelTypeOK, BlockedOK
      <4>2. b # c
        BY <4>1, <1>4
      <4> QED  BY <4>1, <4>2, <1>6 DEF Begun, PutCall
    <3> QED  BY <3>1, <3>2
  <2>2. ASSUME NEW x \in Calls,
               \/ PutCall(x)' /\ ~Returned(x) /\ Offer(caller'[x], request'[x], FALSE) \notin Offers
               \/ GetCall(x)' /\ Waits(caller'[x]) /\ got[x] = None
        PROVE  blocked'[caller'[x]] = x
    <3>1. CASE x = c
      <4>1. sync
        BY <3>1, <2>2, <1>6, <1>8, <1>21
      <4> QED  BY <4>1, <3>1, <1>6, <1>20
    <3>2. CASE x # c
      <4>1. blocked[caller[x]] = x /\ caller[x] \in Workers
        BY <3>2, <2>2, <1>1, <1>6, <1>7, <1>15 DEF BlockedOK, PutCall, GetCall
      <4>2. caller[x] # w
        BY <4>1, <1>2, <1>3
      <4> QED  BY <4>1, <4>2, <3>2, <1>6, <1>20
    <3> QED  BY <3>1, <3>2
  <2>3. \A v \in Workers :
          blocked'[v] # None =>
            /\ Begun(blocked[v])' /\ caller'[blocked'[v]] = v
            /\ ~Waits(v) => PutCall(blocked[v])'
    BY <2>1 DEF Begun, PutCall
  <2> QED  BY <1>2, <1>9, <2>2, <2>3 DEF BlockedOK
<1>23. /\ recvs' \in [Workers -> Seq(Calls)]
       /\ \A v \in Workers : \A x : Has(recvs'[v], x) =>
                                    Has(recvs[v], x) \/ (v = w /\ x = c /\ r.op \notin Puts)
       /\ \A v \in Workers : Waits(v) => Len(recvs'[v]) <= 1
  <2>1. recvs[w] \in Seq(Calls)
    BY <1>1 DEF ChannelTypeOK
  <2>2. /\ Append(recvs[w], c) \in Seq(Calls)
        /\ \A x : Has(Append(recvs[w], c), x) <=> Has(recvs[w], x) \/ x = c
    BY <2>1, HasAppend
  <2>3. Waits(w) => Len(Append(recvs[w], c)) <= 1
    <3> SUFFICES ASSUME Waits(w) PROVE Len(Append(recvs[w], c)) <= 1
      OBVIOUS
    <3>1. \A x : ~Has(recvs[w], x)
      <4> SUFFICES ASSUME NEW x, Has(recvs[w], x) PROVE FALSE
        OBVIOUS
      <4>1. x \in Calls /\ GetCall(x) /\ caller[x] = w /\ got[x] = None
        BY <1>1 DEF RecvsOK, GetCall
      <4> QED  BY <4>1, <1>1, <1>2, <1>3 DEF BlockedOK
    <3>2. recvs[w] = <<>>
      <4>1. recvs[w] # <<>> => Has(recvs[w], Head(recvs[w]))
        <5>1. recvs[w] # <<>> => 1 \in DOMAIN recvs[w] /\ Head(recvs[w]) = recvs[w][1]
          BY <2>1
        <5> QED  BY <5>1 DEF Has
      <4> QED  BY <3>1, <4>1
    <3> QED  BY <3>2
  <2>4. CASE r.op \notin Puts
    <3>1. /\ recvs' \in [Workers -> Seq(Calls)] /\ recvs'[w] = Append(recvs[w], c)
          /\ \A v \in Workers : v # w => recvs'[v] = recvs[v]
      BY <2>2, <2>4, <1>1, <1>2 DEF ChannelTypeOK
    <3> QED  BY <3>1, <2>2, <2>3, <2>4, <1>1 DEF RecvsOK
  <2>5. CASE r.op \in Puts
    BY <2>5, <1>1, <1>2 DEF ChannelTypeOK, RecvsOK
  <2> QED  BY <2>4, <2>5
<1>24. RecvsOK'
  <2>1. ASSUME NEW v \in Workers, NEW x, Has(recvs'[v], x)
        PROVE  GetCall(x)' /\ caller'[x] = v /\ (Waits(v) => got[x] = None)
    <3>1. CASE Has(recvs[v], x)
      <4>1. GetCall(x) /\ caller[x] = v /\ (Waits(v) => got[x] = None) /\ x \in Calls /\ x # c
        BY <3>1, <1>1, <1>4 DEF RecvsOK, GetCall
      <4> QED  BY <4>1, <1>6, <1>7
    <3>2. CASE v = w /\ x = c /\ r.op \notin Puts
      BY <3>2, <1>4, <1>6, <1>8
    <3> QED  BY <3>1, <3>2, <2>1, <1>23
  <2> QED  BY <2>1, <1>2, <1>23 DEF RecvsOK
<1>25. AnswersOK'
  <2>1. \A a, x : AnswersCall(a, x)' <=> AnswersCall(a, x)
    BY <1>2 DEF AnswersCall
  <2>2. \A x : GetCall(x) => x \in Calls /\ x # c /\ GetCall(x)' /\ caller'[x] = caller[x]
    BY <1>4, <1>6, <1>7 DEF GetCall
  <2>3. ASSUME NEW v \in Workers, NEW n \in DOMAIN toWorker[v]
        PROVE  \E x \in Calls :
                 /\ GetCall(x)' /\ caller'[x] = v /\ Returned(x)
                 /\ AnswersCall(toWorker[v][n], x)
                 /\ toWorker[v][n].items = held[x]
                 /\ Waits(v) => got[x] = None
    <3>1. PICK x \in Calls :
                 /\ GetCall(x) /\ caller[x] = v /\ Returned(x)
                 /\ AnswersCall(toWorker[v][n], x)
                 /\ toWorker[v][n].items = held[x]
                 /\ Waits(v) => got[x] = None
      BY <1>1 DEF AnswersOK
    <3> QED  BY <3>1, <2>2
  <2>4. ASSUME NEW x \in Calls
        PROVE  /\ got[x] # None => GetCall(x)' /\ Returned(x) /\ got[x] = held[x]
               /\ GetCall(x)' /\ Returned(x) /\ got[x] = None =>
                    \E n \in DOMAIN toWorker[caller'[x]] : AnswersCall(toWorker[caller'[x]][n], x)
    <3>1. CASE x = c
      BY <3>1, <1>4 DEF Returned
    <3>2. CASE x # c
      BY <3>2, <2>2, <1>1, <1>6, <1>7 DEF AnswersOK
    <3> QED  BY <3>1, <3>2
  <2>5. \A v \in Workers : Waits(v) => Len(toWorker[v]) <= 1
    BY <1>1 DEF AnswersOK
  <2> QED  BY <1>2, <1>9, <2>1, <2>3, <2>4, <2>5 DEF AnswersOK
<1>26. ItemsStored'
  <2>1. \A i : Stored(i)' <=> Stored(i)
    <3>1. \A x \in Calls : \A i : GetCall(x)' /\ Has(held[x], i) <=> GetCall(x) /\ Has(held[x], i)
      BY <1>4, <1>7, EmptyHas
    <3> QED  BY <3>1, <1>2 DEF Stored
  <2>2. \A i : i = c \/ (PutCall(i)' <=> PutCall(i))
    BY <1>7 DEF PutCall
  <2>3. \A i : Stored(i) => i # c
    BY <1>1, <1>4 DEF ItemsStored
  <2> QED  BY <1>1, <1>2, <1>4, <2>1, <2>2, <2>3 DEF ItemsStored
<1>27. ChannelTypeOK'
  BY <1>1, <1>2, <1>6, <1>14, <1>18, <1>20, <1>23 DEF ChannelTypeOK, TypeOK
<1> QED  BY <1>10, <1>11, <1>16, <1>19, <1>22, <1>24, <1>25, <1>26, <1>27 DEF ChannelInv


(* A worker that does not await its gets is given no answer of a get_nowait *)
(* that found nothing.                                                      *)
LEMMA AnswersBearQuery ==
  ASSUME ChannelTypeOK, CallsOK, NEW c \in Calls, GetCall(c), ~Waits(caller[c]),
         NEW a, AnswersCall(a, c)
  PROVE  a.query = c
<1>1. PICK sync \in BOOLEAN : Offer(caller[c], request[c], sync) \in Offers
  BY DEF CallsOK, GetCall
<1>2. /\ Offer(caller[c], request[c], sync).worker = caller[c]
      /\ Offer(caller[c], request[c], sync).request = request[c]
      /\ Offer(caller[c], request[c], sync).sync = sync
  BY DEF Offer
<1>3. ~sync
  BY <1>1, <1>2 DEF Waits, GetCall
<1>4. request[c].op # "get_nowait"
  BY <1>1, <1>2, <1>3, OffersAssumption
<1>5. pc[c] # "QueueEmpty"
  BY <1>4 DEF CallsOK, GetCall
<1> QED  BY <1>5 DEF AnswersCall

(* The answer reaches the get it is for.                                    *)
LEMMA Delivered ==
  ASSUME ChannelInv, NEW w \in Workers, Deliver(w)
  PROVE  \E c \in Calls :
           /\ GetCall(c) /\ caller[c] = w /\ Returned(c)
           /\ AnswersCall(toWorker[w][1], c)
           /\ got' = [got EXCEPT ![c] = held[c]]
           /\ Waits(w) => blocked[w] = c
<1>1. ChannelTypeOK /\ CallsOK /\ BlockedOK /\ RecvsOK /\ AnswersOK
  BY ChannelParts
<1> DEFINE poster == Head(recvs[w])
           answer == Head(toWorker[w])
           to == IF poster = blocked[w] THEN poster ELSE answer.query
<1>2. /\ recvs[w] # <<>> /\ toWorker[w] # <<>>
      /\ got' = IF to = None THEN got ELSE [got EXCEPT ![to] = answer.items]
  BY DEF Deliver
<1>3. None \notin Calls
  BY OffersAssumption
<1>4. 1 \in DOMAIN toWorker[w] /\ answer = toWorker[w][1]
  <2>1. toWorker[w] \in Seq([query : Calls \cup {None}, items : Seq(Calls)])
    BY <1>1 DEF ChannelTypeOK
  <2> QED  BY <2>1, <1>2
<1>5. Has(recvs[w], poster)
  <2>1. recvs[w] \in Seq(Calls)
    BY <1>1 DEF ChannelTypeOK
  <2>2. 1 \in DOMAIN recvs[w] /\ poster = recvs[w][1]
    BY <2>1, <1>2
  <2> QED  BY <2>2 DEF Has
<1> HIDE DEF poster, answer
<1>6. PICK c \in Calls :
        /\ GetCall(c) /\ caller[c] = w /\ Returned(c)
        /\ AnswersCall(toWorker[w][1], c)
        /\ toWorker[w][1].items = held[c]
        /\ Waits(w) => got[c] = None
  BY <1>1, <1>4 DEF AnswersOK
<1>7. poster \in Calls /\ GetCall(poster) /\ caller[poster] = w /\ (Waits(w) => got[poster] = None)
  BY <1>1, <1>5 DEF RecvsOK, GetCall
<1>8. CASE Waits(w)
  <2>1. blocked[w] = c /\ blocked[w] = poster
    BY <1>1, <1>6, <1>7, <1>8 DEF BlockedOK
  <2>2. to = c /\ to # None
    BY <2>1, <1>3
  <2> HIDE DEF to
  <2> QED  BY <2>1, <2>2, <1>2, <1>4, <1>6
<1>9. CASE ~Waits(w)
  <2>1. poster # blocked[w]
    BY <1>1, <1>3, <1>7, <1>9 DEF BlockedOK, PutCall, GetCall
  <2>2. answer.query = c
    BY <1>1, <1>4, <1>6, <1>9, AnswersBearQuery
  <2>3. to = c /\ to # None
    BY <2>1, <2>2, <1>3
  <2> HIDE DEF to
  <2> QED  BY <2>3, <1>2, <1>4, <1>6, <1>9
<1> QED  BY <1>8, <1>9

LEMMA ChannelDeliver ==
  ASSUME ChannelInv, NEW w \in Workers, Deliver(w)
  PROVE  ChannelInv'
<1>1. ChannelTypeOK /\ CallsOK /\ BlockedOK /\ RecvsOK /\ AnswersOK
  BY ChannelParts
<1>2. /\ recvs[w] # <<>> /\ toWorker[w] # <<>>
      /\ recvs' = [recvs EXCEPT ![w] = Tail(@)]
      /\ toWorker' = [toWorker EXCEPT ![w] = Tail(@)]
      /\ UNCHANGED <<request, pc, held, queue, getters, putters, ready>>
      /\ UNCHANGED <<caller, blocked, opQueue, executing, unsent, toChannel>>
  BY DEF Deliver, vars
<1>3. PICK c \in Calls :
        /\ GetCall(c) /\ caller[c] = w /\ Returned(c)
        /\ AnswersCall(toWorker[w][1], c)
        /\ got' = [got EXCEPT ![c] = held[c]]
        /\ Waits(w) => blocked[w] = c
  BY Delivered
<1>4. /\ TypeOK' /\ Loop(request, pc, ready, getters, putters)'
      /\ CallsOK' /\ OpsOK' /\ SendsOK' /\ ItemsStored'
  BY <1>2, WorkerFrame DEF SameCalls
<1>5. /\ got' \in [Calls -> Seq(Calls) \cup {None}] /\ got'[c] = held[c] /\ got'[c] # None
      /\ \A x \in Calls : x # c => got'[x] = got[x]
  <2>1. got \in [Calls -> Seq(Calls) \cup {None}] /\ held[c] \in Seq(Calls)
    BY <1>1 DEF ChannelTypeOK, TypeOK
  <2>2. None \notin Seq(Calls)
    BY OffersAssumption
  <2> QED  BY <2>1, <2>2, <1>3
<1>6. /\ recvs[w] \in Seq(Calls) /\ Tail(recvs[w]) \in Seq(Calls)
      /\ Len(Tail(recvs[w])) = Len(recvs[w]) - 1
      /\ \A x : Has(Tail(recvs[w]), x) => Has(recvs[w], x)
  <2>1. recvs[w] \in Seq(Calls)
    BY <1>1 DEF ChannelTypeOK
  <2> QED  BY <2>1, <1>2, TailOfSeq DEF Has
<1> DEFINE M == [query : Calls \cup {None}, items : Seq(Calls)]
           s == toWorker[w]
<1>7. /\ s \in Seq(M) /\ Tail(s) \in Seq(M) /\ Len(Tail(s)) = Len(s) - 1 /\ Len(s) \in Nat
      /\ DOMAIN Tail(s) = 1..(Len(s) - 1) /\ DOMAIN s = 1..Len(s)
      /\ \A i \in DOMAIN Tail(s) : i + 1 \in DOMAIN s /\ Tail(s)[i] = s[i + 1]
  <2>1. s \in Seq(M)
    BY <1>1 DEF ChannelTypeOK
  <2> HIDE DEF M, s
  <2>2. s # <<>>
    BY <1>2 DEF s
  <2> QED  BY <2>1, <2>2, TailOfSeq
<1>8. /\ recvs' \in [Workers -> Seq(Calls)] /\ recvs'[w] = Tail(recvs[w])
      /\ \A v \in Workers : v # w => recvs'[v] = recvs[v]
  BY <1>1, <1>2, <1>6 DEF ChannelTypeOK
<1>9. /\ toWorker' \in [Workers -> Seq(M)] /\ toWorker'[w] = Tail(s)
      /\ \A v \in Workers : v # w => toWorker'[v] = toWorker[v]
  BY <1>1, <1>2, <1>7 DEF ChannelTypeOK
<1>10. ChannelTypeOK'
  BY <1>1, <1>2, <1>4, <1>5, <1>8, <1>9 DEF ChannelTypeOK
<1> HIDE DEF M, s
<1>11. /\ \A x : GetCall(x)' <=> GetCall(x)
       /\ \A x : PutCall(x)' <=> PutCall(x)
       /\ \A x : Begun(x)' <=> Begun(x)
       /\ \A x : Returned(x)' <=> Returned(x)
       /\ \A a, x : AnswersCall(a, x)' <=> AnswersCall(a, x)
       /\ \A x : GetCall(x) => x \in Calls /\ caller[x] \in Workers
  <2>1. \A x : GetCall(x) => x \in Calls /\ caller[x] \in Workers
    BY <1>1 DEF GetCall, CallsOK
  <2> QED  BY <2>1, <1>2 DEF GetCall, PutCall, Begun, Returned, AnswersCall
<1>12. BlockedOK'
  <2>1. \A x \in Calls : got'[x] = None => got[x] = None
    BY <1>5
  <2> QED  BY <2>1, <1>1, <1>2, <1>11 DEF BlockedOK
<1>13. RecvsOK'
  <2>1. ASSUME NEW v \in Workers, NEW x, Has(recvs'[v], x)
        PROVE  GetCall(x) /\ caller[x] = v /\ (Waits(v) => got'[x] = None)
    <3>1. Has(recvs[v], x)
      BY <2>1, <1>6, <1>8
    <3>2. GetCall(x) /\ caller[x] = v /\ (Waits(v) => got[x] = None) /\ x \in Calls
      BY <3>1, <1>1 DEF RecvsOK, GetCall
    <3>3. CASE v = w
      <4>1. ~Waits(w)
        <5> SUFFICES ASSUME Waits(w) PROVE FALSE
          OBVIOUS
        <5>1. Len(recvs[w]) <= 1 /\ Len(recvs[w]) \in Nat
          BY <1>1, <1>6 DEF RecvsOK
        <5>2. DOMAIN Tail(recvs[w]) = 1..0
          BY <5>1, <1>2, <1>6, TailOfSeq
        <5>3. ~Has(Tail(recvs[w]), x)
          BY <5>2 DEF Has
        <5> QED  BY <5>3, <3>3, <2>1, <1>8
      <4> QED  BY <4>1, <3>2, <3>3
    <3>4. CASE v # w
      BY <3>2, <3>4, <1>3, <1>5
    <3> QED  BY <3>3, <3>4
  <2>2. \A v \in Workers : Waits(v) => Len(recvs'[v]) <= 1
    <3>1. Waits(w) => Len(Tail(recvs[w])) <= 1
      BY <1>1, <1>6 DEF RecvsOK
    <3> QED  BY <3>1, <1>1, <1>8 DEF RecvsOK
  <2> QED  BY <1>2, <1>11, <2>1, <2>2 DEF RecvsOK
<1>14. Waits(w) => Len(s) <= 1
  BY <1>1 DEF AnswersOK, s
<1>15. ASSUME NEW v \in Workers, NEW n \in DOMAIN toWorker'[v]
       PROVE  \E x \in Calls :
                /\ GetCall(x) /\ caller[x] = v /\ Returned(x)
                /\ AnswersCall(toWorker'[v][n], x)
                /\ toWorker'[v][n].items = held[x]
                /\ Waits(v) => got'[x] = None
  <2>1. CASE v = w
    <3>1. n \in DOMAIN Tail(s) /\ toWorker'[v][n] = s[n + 1] /\ n + 1 \in DOMAIN s /\ n \in Nat
      BY <2>1, <1>7, <1>9, <1>15
    <3>2. ~Waits(w)
      BY <3>1, <1>7, <1>14
    <3>3. PICK x \in Calls :
                /\ GetCall(x) /\ caller[x] = v /\ Returned(x)
                /\ AnswersCall(s[n + 1], x)
                /\ s[n + 1].items = held[x]
      BY <3>1, <2>1, <1>1 DEF AnswersOK, s
    <3> QED  BY <3>1, <3>2, <3>3, <2>1
  <2>2. CASE v # w
    <3>1. toWorker'[v] = toWorker[v]
      BY <2>2, <1>9
    <3>2. PICK x \in Calls :
                /\ GetCall(x) /\ caller[x] = v /\ Returned(x)
                /\ AnswersCall(toWorker[v][n], x)
                /\ toWorker[v][n].items = held[x]
                /\ Waits(v) => got[x] = None
      BY <3>1, <1>1, <1>15 DEF AnswersOK
    <3>3. x # c
      BY <3>2, <2>2, <1>3
    <3> QED  BY <3>1, <3>2, <3>3, <1>5
  <2> QED  BY <2>1, <2>2
<1>16. ASSUME NEW x \in Calls, GetCall(x), Returned(x), got'[x] = None
       PROVE  \E n \in DOMAIN toWorker'[caller[x]] : AnswersCall(toWorker'[caller[x]][n], x)
  <2>1. x # c /\ got[x] = None
    BY <1>5, <1>16
  <2>2. PICK n \in DOMAIN toWorker[caller[x]] : AnswersCall(toWorker[caller[x]][n], x)
    BY <2>1, <1>1, <1>16 DEF AnswersOK
  <2>3. CASE caller[x] # w
    BY <2>2, <2>3, <1>9, <1>11, <1>16
  <2>4. CASE caller[x] = w
    <3>1. ~Waits(w)
      BY <2>1, <2>4, <1>1, <1>3, <1>16 DEF BlockedOK
    <3>2. s[n].query = x /\ s[1].query = c /\ n \in DOMAIN s
      BY <3>1, <2>2, <2>4, <1>1, <1>3, <1>16, AnswersBearQuery DEF s
    <3>3. n # 1
      BY <3>2, <2>1
    <3>4. n - 1 \in DOMAIN Tail(s) /\ Tail(s)[n - 1] = s[n]
      BY <3>2, <3>3, <1>7
    <3>5. AnswersCall(Tail(s)[n - 1], x)
      BY <3>4, <2>2, <2>4 DEF s
    <3> QED  BY <3>4, <3>5, <2>4, <1>9
  <2> QED  BY <2>3, <2>4
<1>17. AnswersOK'
  <2>1. \A v \in Workers : Waits(v) => Len(toWorker'[v]) <= 1
    <3>1. Waits(w) => Len(Tail(s)) <= 1
      BY <1>7, <1>14
    <3> QED  BY <3>1, <1>1, <1>9 DEF AnswersOK
  <2>2. \A x \in Calls : got'[x] # None => GetCall(x) /\ Returned(x) /\ got'[x] = held[x]
    BY <1>1, <1>3, <1>5 DEF AnswersOK
  <2> QED  BY <1>2, <1>11, <1>15, <1>16, <2>1, <2>2 DEF AnswersOK
<1> QED  BY <1>4, <1>10, <1>12, <1>13, <1>17 DEF ChannelInv


-----------------------------------------------------------------------------
(* The steps of the actor.  Those of ChannelQueue are the same here, but    *)
(* the item of a put is in its hands only once it has been received.        *)

LEMMA ActorRuns ==
  ASSUME ChannelInv, NEW c \in Calls, NEW ops, Running(c, ops)
  PROVE  /\ ready # <<>> /\ c = Head(ready) /\ pc[c] = "running"
         /\ Begun(c) /\ request[c].op \in ops /\ ~Returned(c)
         /\ caller[c] \in Workers /\ Key(c) \in Keys
         /\ \A Q : (\A x \in Calls \ {c} : Q[x] = pc[x]) => Ran(pc, ready, Q)
<1>1. ChannelTypeOK /\ Loop(request, pc, ready, getters, putters) /\ CallsOK
  BY ChannelParts
<1>2. ready # <<>> /\ c = Head(ready) /\ request[c].op \in ops
  BY DEF Running
<1>3. ready \in Seq(Calls) /\ NoRepeat(ready) /\ \A x : Has(ready, x) => pc[x] = "running"
  BY <1>1 DEF ChannelTypeOK, TypeOK, Loop
<1>4. pc[c] = "running"
  BY <1>2, <1>3, NoRepeatTail
<1>5. Begun(c)
  BY <1>1, <1>4 DEF CallsOK
<1>6. caller[c] \in Workers /\ request[c].key \in Keys
  BY <1>1, <1>5, BegunFacts
<1> QED  BY <1>2, <1>4, <1>5, <1>6 DEF Ran, Key, Returned

LEMMA QueueTypes ==
  ASSUME ChannelTypeOK
  PROVE  /\ queue \in Lists /\ getters \in Lists /\ putters \in Lists
         /\ held \in [Calls -> Seq(Calls)] /\ ready \in Seq(Calls) /\ pc \in [Calls -> PC]
         /\ \A k \in Keys : queue[k] \in Seq(Calls) /\ Len(queue[k]) \in Nat
  BY DEF ChannelTypeOK, TypeOK, Lists

(* The item that has come first is the caller's: of two puts of a worker    *)
(* that await their items, both under one key, only the first one runs.     *)
LEMMA ItemIsOwn ==
  ASSUME ChannelInv, Disciplined, NEW c \in Calls, Running(c, Puts),
         held[c] = <<>>, toChannel[caller[c]] # <<>>
  PROVE  Head(toChannel[caller[c]]) = c
<1>1. ChannelTypeOK /\ CallsOK /\ OpsOK /\ SendsOK /\ BlockedOK
  BY ChannelParts
<1>2. /\ pc[c] = "running" /\ Begun(c) /\ request[c].op \in Puts /\ ~Returned(c)
      /\ caller[c] \in Workers
  BY ActorRuns
<1> DEFINE w == caller[c]
           m == Head(toChannel[w])
<1>3. toChannel[w] \in Seq(Calls) /\ Increasing(toChannel[w])
  BY <1>1, <1>2 DEF ChannelTypeOK, SendsOK
<1>4. /\ m \in Calls /\ Has(toChannel[w], m)
      /\ \A x : Has(toChannel[w], x) => x \in Calls /\ (x = m \/ m < x)
  BY <1>3, IncreasingTail
<1>5. Unreceived(m) /\ caller[m] = w
  BY <1>1, <1>2, <1>4 DEF SendsOK
<1>6. Unreceived(c)
  BY <1>2 DEF Unreceived, PutCall
<1>7. m = c \/ m < c
  BY <1>1, <1>2, <1>4, <1>6 DEF SendsOK
<1> HIDE DEF m, w
<1>8. ASSUME m < c PROVE FALSE
  <2>1. /\ PutCall(m) /\ ~Returned(m) /\ Begun(m) /\ request[m].op \in Puts
        /\ PutCall(c)
    BY <1>5, <1>6 DEF Unreceived, PutCall
  <2>2. PICK s \in BOOLEAN : Offer(caller[m], request[m], s) \in Offers
    BY <1>1, <1>4, <2>1 DEF CallsOK
  <2>3. PICK t \in BOOLEAN : Offer(caller[c], request[c], t) \in Offers
    BY <1>1, <1>2 DEF CallsOK
  <2>4. \A x, y, z : /\ Offer(x, y, z).worker = x /\ Offer(x, y, z).request = y
                     /\ Offer(x, y, z).sync = z
    BY DEF Offer
  <2>5. \A o, p \in Offers :
          o.worker = p.worker /\ o.request.op \in Puts /\ p.request.op \in Puts =>
            (o.sync /\ p.sync) \/ o.request.key = p.request.key
    BY DEF Disciplined, Puts
  <2>6. CASE request[m].key = request[c].key
    BY <2>1, <2>6, <1>1, <1>2, <1>4, <1>5, <1>8 DEF OpsOK, w
  <2>7. CASE request[m].key # request[c].key
    <3>1. \A a, b \in BOOLEAN :
            /\ Offer(caller[m], request[m], a) \in Offers
            /\ Offer(caller[c], request[c], b) \in Offers
            => a /\ b
      <4> SUFFICES ASSUME NEW a \in BOOLEAN, NEW b \in BOOLEAN,
                          Offer(caller[m], request[m], a) \in Offers,
                          Offer(caller[c], request[c], b) \in Offers
                   PROVE  a /\ b
        OBVIOUS
      <4> DEFINE o == Offer(caller[m], request[m], a)
                 p == Offer(caller[c], request[c], b)
      <4>1. /\ o.worker = p.worker /\ o.request = request[m] /\ p.request = request[c]
            /\ o.sync = a /\ p.sync = b
        BY <2>4, <1>5 DEF w
      <4>2. o \in Offers /\ p \in Offers
        OBVIOUS
      <4> HIDE DEF o, p
      <4> QED  BY <4>1, <4>2, <2>1, <2>5, <2>7, <1>2
    <3>2. /\ Offer(caller[m], request[m], FALSE) \notin Offers
          /\ Offer(caller[c], request[c], FALSE) \notin Offers
      BY <2>2, <2>3, <3>1
    <3>3. blocked[w] = m /\ blocked[w] = c
      BY <3>2, <2>1, <1>1, <1>2, <1>4, <1>5 DEF BlockedOK, w
    <3> QED  BY <3>3, <1>4, <1>8, CallsAssumption
  <2> QED  BY <2>6, <2>7
<1> QED  BY <1>7, <1>8 DEF m, w

LEMMA ActorPutIs ==
  ASSUME ChannelInv, Disciplined, NEW c \in Calls, ActorPut(c)
  PROVE  /\ Running(c, Puts) /\ PutItem(c, c)
         /\ \/ /\ held[c] = <<>> /\ toChannel[caller[c]] # <<>>
               /\ Head(toChannel[caller[c]]) = c
               /\ toChannel' = [toChannel EXCEPT ![caller[c]] = Tail(@)]
            \/ held[c] # <<>> /\ UNCHANGED toChannel
         /\ UNCHANGED <<request, caller, blocked, opQueue, executing, unsent,
                        toWorker, recvs, got>>
<1>1. Running(c, Puts)
  BY DEF ActorPut
<1>3. UNCHANGED <<request, caller, blocked, opQueue, executing, unsent, toWorker, recvs, got>>
  BY DEF ActorPut
<1>4. \/ /\ held[c] = <<>> /\ toChannel[caller[c]] # <<>>
         /\ PutItem(c, Head(toChannel[caller[c]]))
         /\ toChannel' = [toChannel EXCEPT ![caller[c]] = Tail(@)]
      \/ /\ held[c] # <<>>
         /\ PutItem(c, Head(held[c]))
         /\ UNCHANGED toChannel
  BY DEF ActorPut, Source
<1>5. held[c] # <<>> => Head(held[c]) = c
  <2>1. held[c] \in {<<>>, <<c>>}
    BY <1>1, ActorRuns, ChannelParts DEF CallsOK, PutCall
  <2> QED  BY <2>1
<1>6. held[c] = <<>> /\ toChannel[caller[c]] # <<>> => Head(toChannel[caller[c]]) = c
  BY <1>1, ItemIsOwn
<1> QED  BY <1>1, <1>3, <1>4, <1>5, <1>6


(* What a put leaves behind: its item in the queue, or the put asleep or    *)
(* refused with its item.                                                   *)
LEMMA PutOutcome ==
  ASSUME ChannelInv, NEW c \in Calls, Running(c, Puts), PutItem(c, c), UNCHANGED request
  PROVE  /\ TypeOK' /\ Loop(request, pc, ready, getters, putters)'
         /\ \A x \in Calls : x # c => pc'[x] = pc[x] /\ held'[x] = held[x]
         /\ \/ /\ pc'[c] = "done" /\ held'[c] = <<>>
               /\ queue'[Key(c)] = Append(queue[Key(c)], c)
               /\ \A k \in Keys : k # Key(c) => queue'[k] = queue[k]
            \/ /\ pc'[c] = "running" \/ (pc'[c] = "QueueFull" /\ request[c].op = "put_nowait")
               /\ held'[c] = <<c>> /\ queue' = queue
<1> DEFINE k == Key(c)
<1>1. ChannelTypeOK /\ Loop(request, pc, ready, getters, putters)
  BY ChannelParts
<1>2. /\ queue \in Lists /\ getters \in Lists /\ putters \in Lists
      /\ held \in [Calls -> Seq(Calls)] /\ ready \in Seq(Calls) /\ pc \in [Calls -> PC]
      /\ \A j \in Keys : queue[j] \in Seq(Calls) /\ Len(queue[j]) \in Nat
  BY <1>1, QueueTypes
<1>3. /\ ready # <<>> /\ c = Head(ready) /\ pc[c] = "running"
      /\ request[c].op \in Puts /\ k \in Keys
      /\ \A Q : (\A x \in Calls \ {c} : Q[x] = pc[x]) => Ran(pc, ready, Q)
  BY ActorRuns
<1>4. TypeOK
  BY <1>1 DEF ChannelTypeOK
<1>5. CASE /\ ~Full(k)
           /\ queue' = [queue EXCEPT ![k] = Append(@, c)]
           /\ held' = [held EXCEPT ![c] = <<>>]
           /\ WakeUp(getters, k, 1) /\ Return(c, "done") /\ UNCHANGED putters
  <2>1. pc' = [pc EXCEPT ![c] = "done"]
    BY <1>5 DEF Return
  <2>2. /\ getters' = [getters EXCEPT ![k] = After(@, 1)]
        /\ ready' = Tail(ready) \o FirstOf(getters[k], 1)
    BY <1>5 DEF WakeUp
  <2>3. Ran(pc, ready, pc')
    BY <1>2, <1>3, <2>1
  <2>4. /\ ready' \in Seq(Calls) /\ getters' \in Lists
        /\ Loop(request, pc', ready', getters', putters)
    BY <1>1, <1>2, <1>3, <2>2, <2>3, LoopWakesGets
  <2>5. /\ Append(queue[k], c) \in Seq(Calls) /\ Len(Append(queue[k], c)) = Len(queue[k]) + 1
    BY <1>2, <1>3
  <2>6. /\ queue'[k] = Append(queue[k], c) /\ queue' \in Lists
        /\ \A j \in Keys : j # k => queue'[j] = queue[j]
    BY <1>2, <1>3, <1>5, <2>5 DEF Lists
  <2>7. /\ held' \in [Calls -> Seq(Calls)] /\ held'[c] = <<>>
        /\ pc' \in [Calls -> PC] /\ pc'[c] = "done"
        /\ \A x \in Calls : x # c => pc'[x] = pc[x] /\ held'[x] = held[x]
    BY <1>2, <1>5, <2>1 DEF PC
  <2>8. MaxSize > 0 => \A j \in Keys : Len(queue'[j]) <= MaxSize
    <3> SUFFICES ASSUME MaxSize > 0, NEW j \in Keys PROVE Len(queue'[j]) <= MaxSize
      OBVIOUS
    <3>1. CASE j = k
      <4>1. ~(Len(queue[k]) >= MaxSize)
        BY <1>5 DEF Full
      <4>2. Len(queue'[j]) = Len(queue[k]) + 1 /\ Len(queue[k]) \in Nat
        BY <3>1, <1>2, <1>3, <2>5, <2>6
      <4> HIDE DEF k
      <4> QED  BY <4>1, <4>2, MaxSizeAssumption
    <3>2. CASE j # k
      BY <3>2, <1>4, <2>6 DEF TypeOK
    <3> QED  BY <3>1, <3>2
  <2> HIDE DEF k
  <2>9. TypeOK'
    BY <1>2, <1>4, <1>5, <2>4, <2>6, <2>7, <2>8 DEF TypeOK, Lists
  <2> QED  BY <1>5, <2>4, <2>6, <2>7, <2>9 DEF k
<1>6. CASE /\ Full(k)
           /\ IF request[c].op = "put"
              THEN Sleep(putters, k, c) /\ UNCHANGED pc
              ELSE Return(c, "QueueFull") /\ UNCHANGED putters
           /\ held' = [held EXCEPT ![c] = <<c>>]
           /\ ready' = Tail(ready)
           /\ UNCHANGED <<queue, getters>>
  <2>1. /\ held' \in [Calls -> Seq(Calls)] /\ held'[c] = <<c>>
        /\ \A x \in Calls : x # c => held'[x] = held[x]
    BY <1>2, <1>6
  <2>2. CASE request[c].op = "put"
    <3>1. putters' = [putters EXCEPT ![k] = Append(@, c)] /\ pc' = pc
      BY <2>2, <1>6 DEF Sleep
    <3>2. Ran(pc, ready, pc)
      BY <1>3
    <3>3. /\ Tail(ready) \in Seq(Calls) /\ Loop(request, pc, Tail(ready), getters, putters)
          /\ Nowhere(c, Tail(ready), getters, putters)
      BY <1>1, <1>2, <1>3, <3>2, LoopRuns
    <3>4. /\ [putters EXCEPT ![k] = Append(@, c)] \in Lists
          /\ Loop(request, pc, Tail(ready), getters, [putters EXCEPT ![k] = Append(@, c)])
      <4>1. request[c].key = k
        BY DEF Key
      <4> QED  BY <4>1, <1>2, <1>3, <2>2, <3>3, LoopSleepsPut
    <3>5. TypeOK'
      BY <1>2, <1>4, <1>6, <2>1, <3>1, <3>3, <3>4 DEF TypeOK, Lists
    <3> QED  BY <1>3, <1>6, <2>1, <3>1, <3>4, <3>5
  <2>3. CASE request[c].op # "put"
    <3>1. putters' = putters /\ pc' = [pc EXCEPT ![c] = "QueueFull"]
      BY <2>3, <1>6 DEF Return
    <3>2. Ran(pc, ready, pc')
      BY <1>2, <1>3, <3>1
    <3>3. Tail(ready) \in Seq(Calls) /\ Loop(request, pc', Tail(ready), getters, putters)
      BY <1>1, <1>2, <1>3, <3>2, LoopRuns
    <3>4. /\ pc' \in [Calls -> PC] /\ pc'[c] = "QueueFull"
          /\ \A x \in Calls : x # c => pc'[x] = pc[x]
      BY <1>2, <3>1 DEF PC
    <3>5. TypeOK'
      BY <1>2, <1>4, <1>6, <2>1, <3>1, <3>3, <3>4 DEF TypeOK, Lists
    <3>6. request[c].op = "put_nowait"
      BY <2>3, <1>3 DEF Puts
    <3> QED  BY <1>6, <2>1, <3>1, <3>3, <3>4, <3>5, <3>6
  <2> QED  BY <2>2, <2>3
<1> QED  BY <1>5, <1>6 DEF PutItem

(* The step of a call of the actor: nothing changes for the others, whose   *)
(* operations wait for their own calls.                                     *)
LEMMA OpsAdvance ==
  ASSUME ChannelTypeOK, OpsOK, SameCalls, UNCHANGED <<opQueue, executing>>,
         NEW c \in Calls, pc[c] = "running", pc'[c] \in PC, pc'[c] # "idle",
         \A x \in Calls : x # c => pc'[x] = pc[x]
  PROVE  /\ OpsOK'
         /\ \A x \in Calls : Returned(x) => Returned(x)'
         /\ \A x \in Calls : x # c => (Returned(x)' <=> Returned(x))
<1>1. /\ \A x \in Calls : Returned(x) => Returned(x)'
      /\ \A x \in Calls : x # c => (Returned(x)' <=> Returned(x))
  BY DEF Returned
<1>2. \A x \in Calls : /\ pc'[x] = "idle" <=> pc[x] = "idle"
                       /\ pc'[x] = "running" => pc[x] = "running"
                       /\ Begun(x)' <=> Begun(x)
  BY DEF SameCalls, Begun
<1>3. OpsOK'
  BY <1>1, <1>2 DEF OpsOK, SameCalls
<1> QED  BY <1>1, <1>3

LEMMA ChannelActorPut ==
  ASSUME ChannelInv, Disciplined, NEW c \in Calls, ActorPut(c)
  PROVE  ChannelInv'
<1>1. /\ ChannelTypeOK /\ Loop(request, pc, ready, getters, putters)
      /\ CallsOK /\ OpsOK /\ SendsOK /\ BlockedOK /\ RecvsOK /\ AnswersOK /\ ItemsStored
  BY ChannelParts
<1>2. /\ Running(c, Puts) /\ PutItem(c, c)
      /\ \/ /\ held[c] = <<>> /\ toChannel[caller[c]] # <<>>
            /\ Head(toChannel[caller[c]]) = c
            /\ toChannel' = [toChannel EXCEPT ![caller[c]] = Tail(@)]
         \/ held[c] # <<>> /\ UNCHANGED toChannel
      /\ UNCHANGED <<request, caller, blocked, opQueue, executing, unsent,
                     toWorker, recvs, got>>
  BY ActorPutIs
<1>3. /\ pc[c] = "running" /\ Begun(c) /\ request[c].op \in Puts /\ ~Returned(c)
      /\ caller[c] \in Workers /\ Key(c) \in Keys
  BY <1>2, ActorRuns
<1>4. /\ TypeOK' /\ Loop(request, pc, ready, getters, putters)'
      /\ \A x \in Calls : x # c => pc'[x] = pc[x] /\ held'[x] = held[x]
      /\ \/ /\ pc'[c] = "done" /\ held'[c] = <<>>
            /\ queue'[Key(c)] = Append(queue[Key(c)], c)
            /\ \A k \in Keys : k # Key(c) => queue'[k] = queue[k]
         \/ /\ pc'[c] = "running" \/ (pc'[c] = "QueueFull" /\ request[c].op = "put_nowait")
            /\ held'[c] = <<c>> /\ queue' = queue
  BY <1>2, PutOutcome
<1>5. SameCalls /\ request' = request /\ caller' = caller
  BY <1>2 DEF SameCalls
<1>6. /\ PutCall(c) /\ ~GetCall(c)
      /\ \A x : GetCall(x)' <=> GetCall(x)
      /\ \A x : PutCall(x)' <=> PutCall(x)
      /\ \A x : Begun(x)' <=> Begun(x)
      /\ \A x : GetCall(x) => x \in Calls /\ x # c
  BY <1>3, <1>5 DEF PutCall, GetCall, Begun
<1>7. pc'[c] \in PC /\ pc'[c] \in {"done", "running", "QueueFull"}
  BY <1>4 DEF PC
<1>8. /\ OpsOK'
      /\ \A x \in Calls : Returned(x) => Returned(x)'
      /\ \A x \in Calls : x # c => (Returned(x)' <=> Returned(x))
  <2>1. pc'[c] # "idle"
    BY <1>7
  <2> QED  BY <2>1, <1>1, <1>2, <1>3, <1>4, <1>5, <1>7, OpsAdvance
<1>9. CallsOK'
  <2> SUFFICES ASSUME NEW x \in Calls
               PROVE  /\ Begun(x) =>
                           /\ caller[x] \in Workers
                           /\ \E s \in BOOLEAN : Offer(caller[x], request[x], s) \in Offers
                           /\ \A b \in Calls : b < x => Begun(b)
                      /\ pc'[x] # "idle" => Begun(x)
                      /\ pc'[x] = "idle" => held'[x] = <<>>
                      /\ pc'[x] = "QueueFull" => request[x].op = "put_nowait" /\ held'[x] = <<x>>
                      /\ pc'[x] = "QueueEmpty" => request[x].op = "get_nowait"
                      /\ PutCall(x) => held'[x] \in {<<>>, <<x>>}
    BY <1>5, <1>6 DEF CallsOK
  <2>1. Begun(x) =>
          /\ caller[x] \in Workers
          /\ \E s \in BOOLEAN : Offer(caller[x], request[x], s) \in Offers
          /\ \A b \in Calls : b < x => Begun(b)
    BY <1>1 DEF CallsOK
  <2>2. CASE x = c
    <3>1. held'[c] \in {<<>>, <<c>>} /\ pc'[c] # "idle" /\ pc'[c] # "QueueEmpty"
      BY <1>4
    <3>2. pc'[c] = "QueueFull" => request[c].op = "put_nowait" /\ held'[c] = <<c>>
      BY <1>4
    <3> QED  BY <2>1, <2>2, <3>1, <3>2, <1>3
  <2>3. CASE x # c
    BY <2>1, <2>3, <1>1, <1>4 DEF CallsOK
  <2> QED  BY <2>2, <2>3
<1>10. \A x : Unreceived(x)' <=> Unreceived(x) /\ x # c
  <2>1. ~Unreceived(c)'
    <3>1. pc'[c] = "done" \/ held'[c] = <<c>>
      BY <1>4
    <3> QED  BY <3>1 DEF Unreceived, Returned
  <2>2. \A x \in Calls : x # c => (Unreceived(x)' <=> Unreceived(x))
    BY <1>4, <1>6, <1>8 DEF Unreceived
  <2> QED  BY <2>1, <2>2, <1>6 DEF Unreceived, PutCall
<1> DEFINE w == caller[c]
<1>11. /\ toChannel' \in [Workers -> Seq(Calls)]
       /\ \A v \in Workers : Increasing(toChannel'[v])
       /\ \A v \in Workers : \A x :
            Has(toChannel'[v], x) <=> Has(toChannel[v], x) /\ x # c
  <2>1. toChannel \in [Workers -> Seq(Calls)]
    BY <1>1 DEF ChannelTypeOK
  <2>2. \A v \in Workers : v # w => ~Has(toChannel[v], c)
    BY <1>1 DEF SendsOK
  <2>3. CASE /\ held[c] = <<>> /\ toChannel[w] # <<>>
             /\ Head(toChannel[w]) = c
             /\ toChannel' = [toChannel EXCEPT ![w] = Tail(@)]
    <3>1. toChannel[w] \in Seq(Calls) /\ Increasing(toChannel[w])
      BY <1>1, <1>3, <2>1 DEF SendsOK
    <3>2. /\ Tail(toChannel[w]) \in Seq(Calls) /\ Increasing(Tail(toChannel[w]))
          /\ \A x : Has(Tail(toChannel[w]), x) <=> Has(toChannel[w], x) /\ x # c
      BY <2>3, <3>1, IncreasingTail
    <3>3. /\ toChannel' \in [Workers -> Seq(Calls)] /\ toChannel'[w] = Tail(toChannel[w])
          /\ \A v \in Workers : v # w => toChannel'[v] = toChannel[v]
      BY <1>3, <2>1, <2>3, <3>2
    <3> QED  BY <2>2, <3>2, <3>3, <1>1 DEF SendsOK
  <2>4. CASE held[c] # <<>> /\ UNCHANGED toChannel
    <3>1. ~Has(toChannel[w], c)
      BY <2>4, <1>1, <1>3 DEF SendsOK, Unreceived
    <3> QED  BY <2>1, <2>2, <2>4, <3>1, <1>1 DEF SendsOK
  <2> QED  BY <2>3, <2>4, <1>2
<1>12. \A v \in Workers : ~Has(unsent[v], c)
(* The item has been received, at the latest now: it is not the worker's.   *)
  <2>1. \A v \in Workers : Has(unsent[v], c) => v = w /\ held[c] = <<>>
    BY <1>1 DEF SendsOK, Unreceived
  <2>2. Has(unsent[w], c) /\ held[c] = <<>> => FALSE
    <3> SUFFICES ASSUME Has(unsent[w], c), held[c] = <<>> PROVE FALSE
      OBVIOUS
    <3>1. toChannel[w] # <<>> /\ Head(toChannel[w]) = c
      BY <1>2
    <3>2. toChannel[w] \in Seq(Calls) /\ Increasing(toChannel[w])
      BY <1>1, <1>3 DEF ChannelTypeOK, SendsOK
    <3>3. Has(toChannel[w], c)
      BY <3>1, <3>2, IncreasingTail
    <3>4. c < c
      BY <3>3, <1>1, <1>3 DEF SendsOK
    <3> QED  BY <3>4, CallsAssumption
  <2> QED  BY <2>1, <2>2
<1> HIDE DEF w
<1>13. SendsOK'
  <2>1. ASSUME NEW v \in Workers
        PROVE  /\ Increasing(toChannel'[v]) /\ Increasing(unsent[v])
               /\ \A x, y : Has(toChannel'[v], x) /\ Has(unsent[v], y) => x < y
               /\ \A x : Has(toChannel'[v], x) \/ Has(unsent[v], x) =>
                           Unreceived(x)' /\ caller[x] = v
    <3>1. \A x : Has(unsent[v], x) => x # c
      BY <1>12
    <3> QED  BY <3>1, <1>1, <1>10, <1>11 DEF SendsOK
  <2>2. ASSUME NEW x \in Calls, Unreceived(x)'
        PROVE  Has(toChannel'[caller[x]], x) \/ Has(unsent[caller[x]], x)
    <3>1. Unreceived(x) /\ x # c
      BY <2>2, <1>10
    <3>2. caller[x] \in Workers
      BY <3>1, <1>1 DEF Unreceived, PutCall, CallsOK
    <3> QED  BY <3>1, <3>2, <1>1, <1>11 DEF SendsOK
  <2> QED  BY <1>2, <1>5, <2>1, <2>2 DEF SendsOK
<1>14. BlockedOK'
  BY <1>1, <1>2, <1>5, <1>6, <1>8 DEF BlockedOK
<1>15. RecvsOK'
  BY <1>1, <1>2, <1>5, RecvsFrame
<1>16. AnswersOK'
  <2>1. \A x : GetCall(x) => /\ held'[x] = held[x]
                             /\ Returned(x)' <=> Returned(x)
                             /\ \A a : AnswersCall(a, x)' <=> AnswersCall(a, x)
    BY <1>4, <1>6, <1>8 DEF AnswersCall
  <2>2. ASSUME NEW v \in Workers, NEW n \in DOMAIN toWorker[v]
        PROVE  \E x \in Calls :
                 /\ GetCall(x) /\ caller[x] = v /\ Returned(x)'
                 /\ AnswersCall(toWorker[v][n], x)'
                 /\ toWorker[v][n].items = held'[x]
                 /\ Waits(v) => got[x] = None
    <3>1. PICK x \in Calls :
                 /\ GetCall(x) /\ caller[x] = v /\ Returned(x)
                 /\ AnswersCall(toWorker[v][n], x)
                 /\ toWorker[v][n].items = held[x]
                 /\ Waits(v) => got[x] = None
      BY <1>1 DEF AnswersOK
    <3>2. /\ held'[x] = held[x] /\ Returned(x)' /\ AnswersCall(toWorker[v][n], x)'
      BY <2>1, <3>1, <1>2 DEF AnswersCall
    <3> QED  BY <3>1, <3>2
  <2>3. ASSUME NEW x \in Calls
        PROVE  /\ got[x] # None => GetCall(x) /\ Returned(x)' /\ got[x] = held'[x]
               /\ GetCall(x) /\ Returned(x)' /\ got[x] = None =>
                    \E n \in DOMAIN toWorker[caller[x]] : AnswersCall(toWorker[caller[x]][n], x)'
    <3>1. got[x] # None => GetCall(x) /\ Returned(x)' /\ got[x] = held'[x]
      BY <2>1, <1>1 DEF AnswersOK
    <3>2. ASSUME GetCall(x), Returned(x)', got[x] = None
          PROVE  \E n \in DOMAIN toWorker[caller[x]] : AnswersCall(toWorker[caller[x]][n], x)'
      <4>1. PICK n \in DOMAIN toWorker[caller[x]] : AnswersCall(toWorker[caller[x]][n], x)
        BY <2>1, <3>2, <1>1 DEF AnswersOK
      <4>2. AnswersCall(toWorker[caller[x]][n], x)'
        BY <4>1, <3>2, <1>2, <1>4, <1>6 DEF AnswersCall
      <4> QED  BY <4>2
    <3> QED  BY <3>1, <3>2
  <2>4. \A v \in Workers : Waits(v) => Len(toWorker[v]) <= 1
    BY <1>1 DEF AnswersOK
  <2> QED  BY <1>2, <1>6, <2>2, <2>3, <2>4 DEF AnswersOK
<1>17. \A i : Stored(i)' <=> Stored(i) \/ (i = c /\ pc'[c] = "done")
  <2>1. \A i : (\E x \in Calls : GetCall(x)' /\ Has(held'[x], i))
                 <=> \E x \in Calls : GetCall(x) /\ Has(held[x], i)
    BY <1>4, <1>6
  <2>2. \A i : (\E k \in Keys : Has(queue'[k], i))
                 <=> (\E k \in Keys : Has(queue[k], i)) \/ (i = c /\ pc'[c] = "done")
    <3>1. CASE /\ pc'[c] = "done" /\ queue'[Key(c)] = Append(queue[Key(c)], c)
               /\ \A k \in Keys : k # Key(c) => queue'[k] = queue[k]
      <4>1. queue[Key(c)] \in Seq(Calls)
        BY <1>1, <1>3, QueueTypes
      <4>2. \A i : Has(Append(queue[Key(c)], c), i) <=> Has(queue[Key(c)], i) \/ i = c
        BY <4>1, HasAppend
      <4> QED  BY <3>1, <4>2, <1>3
    <3>2. CASE pc'[c] # "done" /\ queue' = queue
      BY <3>2
    <3> QED  BY <3>1, <3>2, <1>4
  <2> QED  BY <2>1, <2>2 DEF Stored
<1>18. ItemsStored'
  <2>1. \A i : Stored(i)' => PutCall(i) /\ pc'[i] = "done"
    <3> SUFFICES ASSUME NEW i, Stored(i)' PROVE PutCall(i) /\ pc'[i] = "done"
      OBVIOUS
    <3>1. CASE i = c /\ pc'[c] = "done"
      BY <3>1, <1>6
    <3>2. CASE Stored(i)
      <4>1. PutCall(i) /\ pc[i] = "done"
        BY <3>2, <1>1 DEF ItemsStored
      <4>2. i \in Calls /\ i # c
        BY <4>1, <1>3 DEF PutCall
      <4> QED  BY <4>1, <4>2, <1>4
    <3> QED  BY <3>1, <3>2, <1>17
  <2>2. \A i \in Calls : PutCall(i) /\ pc'[i] = "done" => Stored(i)'
    BY <1>1, <1>4, <1>17 DEF ItemsStored
  <2> QED  BY <1>6, <2>1, <2>2 DEF ItemsStored
<1>19. ChannelTypeOK'
  BY <1>1, <1>2, <1>4, <1>11 DEF ChannelTypeOK
<1> QED  BY <1>4, <1>8, <1>9, <1>13, <1>14, <1>15, <1>16, <1>18, <1>19 DEF ChannelInv


(* What a get or a batch leaves behind: it has taken the first items, and   *)
(* has returned or sleeps.                                                  *)
LEMMA TakesItems ==
  ASSUME ChannelInv, NEW c \in Calls, NEW ops, Running(c, ops), NEW n \in Nat,
         TakeItems(c, Key(c), n), UNCHANGED request,
         \/ Return(c, "done") /\ UNCHANGED getters
         \/ Sleep(getters, Key(c), c) /\ UNCHANGED pc /\ request[c].op = "get_batch"
  PROVE  /\ TypeOK' /\ Loop(request, pc, ready, getters, putters)'
         /\ \A x \in Calls : x # c => pc'[x] = pc[x] /\ held'[x] = held[x]
         /\ pc'[c] \in {"running", "done"}
         /\ held'[c] = held[c] \o FirstOf(queue[Key(c)], n)
         /\ queue'[Key(c)] = After(queue[Key(c)], n)
         /\ \A k \in Keys : k # Key(c) => queue'[k] = queue[k]
<1> DEFINE k == Key(c)
<1>1. ChannelTypeOK /\ Loop(request, pc, ready, getters, putters)
  BY ChannelParts
<1>2. /\ queue \in Lists /\ getters \in Lists /\ putters \in Lists
      /\ held \in [Calls -> Seq(Calls)] /\ ready \in Seq(Calls) /\ pc \in [Calls -> PC]
      /\ \A j \in Keys : queue[j] \in Seq(Calls) /\ Len(queue[j]) \in Nat
  BY <1>1, QueueTypes
<1>3. /\ ready # <<>> /\ c = Head(ready) /\ pc[c] = "running" /\ k \in Keys
      /\ \A Q : (\A x \in Calls \ {c} : Q[x] = pc[x]) => Ran(pc, ready, Q)
  BY ActorRuns
<1>4. TypeOK /\ request[c].key = k
  BY <1>1 DEF ChannelTypeOK, Key
<1>5. /\ held' = [held EXCEPT ![c] = @ \o FirstOf(queue[k], n)]
      /\ queue' = [queue EXCEPT ![k] = After(@, n)]
      /\ putters' = [putters EXCEPT ![k] = After(@, n)]
      /\ ready' = Tail(ready) \o FirstOf(putters[k], n)
  BY DEF TakeItems, WakeUp
<1>6. /\ FirstOf(queue[k], n) \in Seq(Calls) /\ After(queue[k], n) \in Seq(Calls)
      /\ Len(After(queue[k], n)) <= Len(queue[k])
  <2>1. queue[k] \in Seq(Calls)
    BY <1>2, <1>3
  <2> DEFINE m == IF n < Len(queue[k]) THEN n ELSE Len(queue[k])
  <2>2. /\ FirstOf(queue[k], n) \in Seq(Calls) /\ After(queue[k], n) \in Seq(Calls)
        /\ m \in 0..Len(queue[k]) /\ Len(After(queue[k], n)) = Len(queue[k]) - m
    BY <2>1, FirstAndAfter
  <2> HIDE DEF m
  <2>3. Len(queue[k]) \in Nat
    BY <2>1
  <2>4. Len(queue[k]) - m <= Len(queue[k])
    BY ONLY <2>2, <2>3
  <2> QED  BY <2>2, <2>4
<1>7. held[c] \o FirstOf(queue[k], n) \in Seq(Calls)
  <2>1. held[c] \in Seq(Calls)
    BY <1>2
  <2> QED  BY <2>1, <1>6, ConcatSeq
<1>8. /\ held' \in [Calls -> Seq(Calls)] /\ held'[c] = held[c] \o FirstOf(queue[k], n)
      /\ \A x \in Calls : x # c => held'[x] = held[x]
      /\ queue' \in Lists /\ queue'[k] = After(queue[k], n)
      /\ \A j \in Keys : j # k => queue'[j] = queue[j]
  BY <1>2, <1>3, <1>5, <1>6, <1>7 DEF Lists
<1>9. MaxSize > 0 => \A j \in Keys : Len(queue'[j]) <= MaxSize
  <2> SUFFICES ASSUME MaxSize > 0, NEW j \in Keys PROVE Len(queue'[j]) <= MaxSize
    OBVIOUS
  <2>1. Len(queue[j]) <= MaxSize /\ Len(queue[j]) \in Nat
    BY <1>2, <1>4 DEF TypeOK
  <2>2. CASE j = k
    <3>1. Len(queue'[j]) \in Nat /\ Len(queue'[j]) <= Len(queue[j])
      BY <2>2, <1>6, <1>8
    <3> QED  BY <2>1, <3>1, MaxSizeAssumption
  <2>3. CASE j # k
    BY <2>1, <2>3, <1>8
  <2> QED  BY <2>2, <2>3
<1> HIDE DEF k
<1>10. CASE Return(c, "done") /\ UNCHANGED getters
  <2>1. /\ pc' \in [Calls -> PC] /\ pc'[c] = "done"
        /\ \A x \in Calls : x # c => pc'[x] = pc[x]
    BY <1>2, <1>10 DEF Return, PC
  <2>2. Ran(pc, ready, pc')
    BY <1>3, <2>1
  <2>3. /\ ready' \in Seq(Calls) /\ putters' \in Lists
        /\ Loop(request, pc', ready', getters, putters')
    BY <1>1, <1>2, <1>3, <1>5, <2>2, LoopWakesPuts
  <2>4. TypeOK'
    BY <1>4, <1>2, <1>8, <1>9, <1>10, <2>1, <2>3 DEF TypeOK, Lists
  <2> QED  BY <1>8, <1>10, <2>1, <2>3, <2>4 DEF k
<1>11. CASE Sleep(getters, Key(c), c) /\ UNCHANGED pc /\ request[c].op = "get_batch"
  <2>1. Ran(pc, ready, pc)
    BY <1>3
  <2> DEFINE rd2 == Tail(ready) \o FirstOf(putters[k], n)
             W2 == [putters EXCEPT ![k] = After(@, n)]
  <2>2. /\ rd2 \in Seq(Calls) /\ W2 \in Lists /\ Loop(request, pc, rd2, getters, W2)
        /\ Nowhere(c, rd2, getters, W2)
    BY <1>1, <1>2, <1>3, <2>1, LoopWakesPuts
  <2>3. rd2 = ready' /\ W2 = putters'
    BY <1>5
  <2> HIDE DEF rd2, W2
  <2>4. /\ [getters EXCEPT ![k] = Append(@, c)] \in Lists
        /\ Loop(request, pc, rd2, [getters EXCEPT ![k] = Append(@, c)], W2)
    BY <1>2, <1>3, <1>4, <1>11, <2>2, LoopSleepsGet DEF Gets
  <2>5. getters' = [getters EXCEPT ![k] = Append(@, c)]
    BY <1>11 DEF Sleep, k
  <2>6. TypeOK'
    BY <1>4, <1>2, <1>8, <1>9, <1>11, <2>2, <2>3, <2>4, <2>5 DEF TypeOK, Lists
  <2> QED  BY <1>3, <1>8, <1>11, <2>3, <2>4, <2>5, <2>6 DEF k
<1> QED  BY <1>10, <1>11

LEMMA TakesNothing ==
  ASSUME ChannelInv, NEW c \in Calls, Running(c, {"get", "get_nowait"}),
         ready' = Tail(ready), UNCHANGED <<request, held, queue, putters>>,
         \/ Return(c, "QueueEmpty") /\ UNCHANGED getters
         \/ Sleep(getters, Key(c), c) /\ UNCHANGED pc /\ request[c].op = "get"
  PROVE  /\ TypeOK' /\ Loop(request, pc, ready, getters, putters)'
         /\ \A x \in Calls : x # c => pc'[x] = pc[x]
         /\ pc'[c] \in {"running", "QueueEmpty"}
<1> DEFINE k == Key(c)
<1>1. ChannelTypeOK /\ Loop(request, pc, ready, getters, putters)
  BY ChannelParts
<1>2. /\ getters \in Lists /\ putters \in Lists /\ ready \in Seq(Calls) /\ pc \in [Calls -> PC]
  BY <1>1, QueueTypes
<1>3. /\ ready # <<>> /\ c = Head(ready) /\ pc[c] = "running" /\ k \in Keys
      /\ \A Q : (\A x \in Calls \ {c} : Q[x] = pc[x]) => Ran(pc, ready, Q)
  BY ActorRuns
<1>4. TypeOK /\ request[c].key = k
  BY <1>1 DEF ChannelTypeOK, Key
<1> HIDE DEF k
<1>5. CASE Return(c, "QueueEmpty") /\ UNCHANGED getters
  <2>1. /\ pc' \in [Calls -> PC] /\ pc'[c] = "QueueEmpty"
        /\ \A x \in Calls : x # c => pc'[x] = pc[x]
    BY <1>2, <1>5 DEF Return, PC
  <2>2. Ran(pc, ready, pc')
    BY <1>3, <2>1
  <2>3. Tail(ready) \in Seq(Calls) /\ Loop(request, pc', Tail(ready), getters, putters)
    BY <1>1, <1>2, <1>3, <2>2, LoopRuns
  <2>4. TypeOK'
    BY <1>2, <1>4, <1>5, <2>1, <2>3 DEF TypeOK, Lists
  <2> QED  BY <1>5, <2>1, <2>3, <2>4
<1>6. CASE Sleep(getters, Key(c), c) /\ UNCHANGED pc /\ request[c].op = "get"
  <2>1. Ran(pc, ready, pc)
    BY <1>3
  <2>2. /\ Tail(ready) \in Seq(Calls) /\ Loop(request, pc, Tail(ready), getters, putters)
        /\ Nowhere(c, Tail(ready), getters, putters)
    BY <1>1, <1>2, <1>3, <2>1, LoopRuns
  <2>3. /\ [getters EXCEPT ![k] = Append(@, c)] \in Lists
        /\ Loop(request, pc, Tail(ready), [getters EXCEPT ![k] = Append(@, c)], putters)
    BY <1>2, <1>3, <1>4, <1>6, <2>2, LoopSleepsGet DEF Gets
  <2>4. getters' = [getters EXCEPT ![k] = Append(@, c)]
    BY <1>6 DEF Sleep, k
  <2>5. TypeOK'
    BY <1>2, <1>4, <1>6, <2>2, <2>3, <2>4 DEF TypeOK, Lists
  <2> QED  BY <1>3, <1>6, <2>3, <2>4, <2>5
<1> QED  BY <1>5, <1>6

GetOps == {"get", "get_nowait", "get_batch"}

LEMMA GetOutcome ==
  ASSUME ChannelInv, NEW c \in Calls, Get(c) \/ GetBatch(c)
  PROVE  /\ Running(c, GetOps) /\ request' = request
         /\ TypeOK' /\ Loop(request, pc, ready, getters, putters)'
         /\ \A x \in Calls : x # c => pc'[x] = pc[x] /\ held'[x] = held[x]
         /\ pc'[c] \in {"running", "done", "QueueEmpty"}
         /\ pc'[c] = "QueueEmpty" => request[c].op = "get_nowait"
         /\ \E n \in Nat : /\ held'[c] = held[c] \o FirstOf(queue[Key(c)], n)
                           /\ queue'[Key(c)] = After(queue[Key(c)], n)
         /\ \A k \in Keys : k # Key(c) => queue'[k] = queue[k]
<1>1. CASE Get(c)
  <2>2. Running(c, {"get", "get_nowait"}) /\ request' = request
    BY <1>1 DEF Get
  <2>3. Running(c, GetOps)
    BY <2>2 DEF Running, GetOps
  <2>4. CASE TakeItems(c, Key(c), 1) /\ Return(c, "done") /\ UNCHANGED getters
    <3>1. /\ TypeOK' /\ Loop(request, pc, ready, getters, putters)'
          /\ \A x \in Calls : x # c => pc'[x] = pc[x] /\ held'[x] = held[x]
          /\ pc'[c] \in {"running", "done"}
          /\ held'[c] = held[c] \o FirstOf(queue[Key(c)], 1)
          /\ queue'[Key(c)] = After(queue[Key(c)], 1)
          /\ \A k \in Keys : k # Key(c) => queue'[k] = queue[k]
      BY <2>2, <2>4, TakesItems
    <3> QED  BY <2>2, <2>3, <3>1
  <2>5. CASE /\ ready' = Tail(ready) /\ UNCHANGED <<held, queue, putters>>
             /\ IF request[c].op = "get"
                THEN Sleep(getters, Key(c), c) /\ UNCHANGED pc
                ELSE Return(c, "QueueEmpty") /\ UNCHANGED getters
    <3>1. /\ TypeOK' /\ Loop(request, pc, ready, getters, putters)'
          /\ \A x \in Calls : x # c => pc'[x] = pc[x]
          /\ pc'[c] \in {"running", "QueueEmpty"}
      BY <2>2, <2>5, TakesNothing
    <3>2. /\ held[c] \in Seq(Calls) /\ queue[Key(c)] \in Seq(Calls)
          /\ pc[c] = "running"
      BY <2>2, ActorRuns, ChannelParts, QueueTypes
    <3>3. /\ held[c] \o FirstOf(queue[Key(c)], 0) = held[c]
          /\ After(queue[Key(c)], 0) = queue[Key(c)]
      BY <3>2, FirstOfNone
    <3>4. pc'[c] = "QueueEmpty" => request[c].op = "get_nowait"
      BY <2>2, <2>5, <3>2 DEF Running
    <3>5. \E n \in Nat : /\ held'[c] = held[c] \o FirstOf(queue[Key(c)], n)
                         /\ queue'[Key(c)] = After(queue[Key(c)], n)
      <4>1. held'[c] = held[c] \o FirstOf(queue[Key(c)], 0) /\ queue'[Key(c)] = After(queue[Key(c)], 0)
        BY <2>5, <3>3
      <4> QED  BY <4>1
    <3> QED  BY <2>2, <2>3, <2>5, <3>1, <3>4, <3>5
  <2> QED  BY <1>1, <2>4, <2>5 DEF Get
<1>2. CASE GetBatch(c)
  <2> DEFINE n == BatchSize(c)
  <2>1. /\ Running(c, {"get_batch"}) /\ request' = request
        /\ TakeItems(c, Key(c), n)
        /\ \/ Return(c, "done") /\ UNCHANGED getters
           \/ Sleep(getters, Key(c), c) /\ UNCHANGED pc
    BY <1>2 DEF GetBatch
  <2>2. queue[Key(c)] \in Seq(Calls)
    BY <2>1, ActorRuns, ChannelParts, QueueTypes
  <2>3. n \in Nat
    <3> HIDE DEF n
    <3>1. n \in 0..Len(queue[Key(c)])
      BY <2>2, BatchSizeIs DEF n
    <3>2. \A i \in 0..Len(queue[Key(c)]) : i \in Nat
      BY <2>2
    <3> QED  BY <3>1, <3>2
  <2> HIDE DEF n
  <2>4. PICK m \in Nat : m = n
    BY <2>3
  <2>5. request[c].op = "get_batch" /\ Running(c, GetOps)
    BY <2>1 DEF Running, GetOps
  <2>6. /\ TypeOK' /\ Loop(request, pc, ready, getters, putters)'
        /\ \A x \in Calls : x # c => pc'[x] = pc[x] /\ held'[x] = held[x]
        /\ pc'[c] \in {"running", "done"}
        /\ held'[c] = held[c] \o FirstOf(queue[Key(c)], m)
        /\ queue'[Key(c)] = After(queue[Key(c)], m)
        /\ \A k \in Keys : k # Key(c) => queue'[k] = queue[k]
    <3>1. Running(c, {"get_batch"}) /\ TakeItems(c, Key(c), m) /\ UNCHANGED request
      BY <2>1, <2>4 DEF TakeItems, WakeUp
    <3>2. CASE Return(c, "done") /\ UNCHANGED getters
      BY <3>1, <3>2, TakesItems
    <3>3. CASE Sleep(getters, Key(c), c) /\ UNCHANGED pc
      <4>1. request[c].op = "get_batch"
        BY <2>5
      <4> QED  BY <3>1, <3>3, <4>1, TakesItems
    <3> QED  BY <2>1, <3>2, <3>3
  <2>7. request' = request
    BY <2>1
  <2>8. pc'[c] # "QueueEmpty"
    BY <2>6
  <2> QED  BY <2>5, <2>6, <2>7, <2>8
<1> QED  BY <1>1, <1>2


LEMMA ChannelActorGet ==
  ASSUME ChannelInv, NEW c \in Calls, ActorGet(c)
  PROVE  ChannelInv'
<1>1. /\ ChannelTypeOK /\ Loop(request, pc, ready, getters, putters)
      /\ CallsOK /\ OpsOK /\ SendsOK /\ BlockedOK /\ RecvsOK /\ AnswersOK /\ ItemsStored
  BY ChannelParts
<1>2. /\ Get(c) \/ GetBatch(c)
      /\ toWorker' = IF pc'[c] = "running" THEN toWorker
                     ELSE [toWorker EXCEPT ![caller[c]] = Append(@, Answer(c))]
      /\ UNCHANGED <<caller, blocked, opQueue, executing, unsent, toChannel, recvs, got>>
  BY DEF ActorGet
<1>3. /\ Running(c, GetOps) /\ request' = request
      /\ TypeOK' /\ Loop(request, pc, ready, getters, putters)'
      /\ \A x \in Calls : x # c => pc'[x] = pc[x] /\ held'[x] = held[x]
      /\ pc'[c] \in {"running", "done", "QueueEmpty"}
      /\ pc'[c] = "QueueEmpty" => request[c].op = "get_nowait"
  BY <1>2, GetOutcome
<1>4. /\ pc[c] = "running" /\ Begun(c) /\ request[c].op \in GetOps /\ ~Returned(c)
      /\ caller[c] \in Workers /\ Key(c) \in Keys
  BY <1>3, ActorRuns
<1>5. SameCalls /\ request' = request /\ caller' = caller
  BY <1>2, <1>3 DEF SameCalls
<1>6. /\ GetCall(c) /\ ~PutCall(c)
      /\ \A x : GetCall(x)' <=> GetCall(x)
      /\ \A x : PutCall(x)' <=> PutCall(x)
      /\ \A x : Begun(x)' <=> Begun(x)
      /\ \A x : PutCall(x) => x \in Calls /\ x # c
  BY <1>4, <1>5 DEF PutCall, GetCall, Begun, Puts, GetOps
<1>7. pc'[c] \in PC /\ pc'[c] # "idle" /\ pc'[c] # "QueueFull"
  BY <1>3 DEF PC
<1>8. /\ OpsOK'
      /\ \A x \in Calls : Returned(x) => Returned(x)'
      /\ \A x \in Calls : x # c => (Returned(x)' <=> Returned(x))
  BY <1>1, <1>2, <1>3, <1>4, <1>5, <1>7, OpsAdvance
<1>9. CallsOK'
  <2> SUFFICES ASSUME NEW x \in Calls
               PROVE  /\ Begun(x) =>
                           /\ caller[x] \in Workers
                           /\ \E s \in BOOLEAN : Offer(caller[x], request[x], s) \in Offers
                           /\ \A b \in Calls : b < x => Begun(b)
                      /\ pc'[x] # "idle" => Begun(x)
                      /\ pc'[x] = "idle" => held'[x] = <<>>
                      /\ pc'[x] = "QueueFull" => request[x].op = "put_nowait" /\ held'[x] = <<x>>
                      /\ pc'[x] = "QueueEmpty" => request[x].op = "get_nowait"
                      /\ PutCall(x) => held'[x] \in {<<>>, <<x>>}
    BY <1>5, <1>6 DEF CallsOK
  <2>1. Begun(x) =>
          /\ caller[x] \in Workers
          /\ \E s \in BOOLEAN : Offer(caller[x], request[x], s) \in Offers
          /\ \A b \in Calls : b < x => Begun(b)
    BY <1>1 DEF CallsOK
  <2>2. CASE x = c
    BY <2>1, <2>2, <1>3, <1>4, <1>6, <1>7
  <2>3. CASE x # c
    BY <2>1, <2>3, <1>1, <1>3 DEF CallsOK
  <2> QED  BY <2>2, <2>3
<1>10. SendsOK'
  <2>1. \A x : Unreceived(x)' <=> Unreceived(x)
    BY <1>3, <1>6, <1>8 DEF Unreceived
  <2> QED  BY <2>1, <1>1, <1>2 DEF SendsOK
<1>11. BlockedOK'
  BY <1>1, <1>2, <1>5, <1>6, <1>8 DEF BlockedOK
<1>12. RecvsOK'
  BY <1>1, <1>2, <1>5, RecvsFrame
<1> DEFINE w == caller[c]
           M == [query : Calls \cup {None}, items : Seq(Calls)]
           Ans(b, x) == b.query = x \/ (b.query = None /\ pc'[x] = "QueueEmpty")
           q == IF pc'[c] = "QueueEmpty" THEN None ELSE c
<1>13. PICK a \in M : a = Answer(c) /\ a.items = held'[c] /\ Ans(a, c)
  <2>1. held'[c] \in Seq(Calls) /\ q \in Calls \cup {None}
    BY <1>3 DEF TypeOK
  <2> DEFINE ans == [query |-> q, items |-> held'[c]]
  <2>2. ans \in M /\ ans = Answer(c)
    BY <2>1 DEF Answer
  <2>3. ans.query = q /\ ans.items = held'[c]
    OBVIOUS
  <2> HIDE DEF ans
  <2>4. Ans(ans, c)
    BY <2>3
  <2> QED  BY <2>2, <2>3, <2>4
<1>14. /\ toWorker \in [Workers -> Seq(M)] /\ toWorker[w] \in Seq(M)
       /\ DOMAIN toWorker[w] = 1..Len(toWorker[w]) /\ Len(toWorker[w]) \in Nat
       /\ w \in Workers
  <2>1. toWorker \in [Workers -> Seq(M)] /\ w \in Workers
    BY <1>1, <1>4 DEF ChannelTypeOK
  <2> HIDE DEF M, w
  <2> QED  BY <2>1
<1> HIDE DEF M, w
<1>15. /\ Append(toWorker[w], a) \in Seq(M)
       /\ DOMAIN Append(toWorker[w], a) = 1..(Len(toWorker[w]) + 1)
       /\ \A i \in DOMAIN toWorker[w] : Append(toWorker[w], a)[i] = toWorker[w][i]
       /\ Append(toWorker[w], a)[Len(toWorker[w]) + 1] = a
       /\ Len(Append(toWorker[w], a)) = Len(toWorker[w]) + 1
  BY <1>14, AppendToSeq
(* What was under way stays, and the answer of a get that returns is added. *)
<1>16. /\ toWorker' \in [Workers -> Seq(M)]
       /\ pc'[c] = "running" => toWorker' = toWorker
       /\ pc'[c] # "running" => toWorker'[w] = Append(toWorker[w], a)
       /\ \A v \in Workers : v # w => toWorker'[v] = toWorker[v]
  BY <1>2, <1>13, <1>14, <1>15 DEF w
<1> DEFINE t == Append(toWorker[w], a)
<1> HIDE DEF t
<1>16a. /\ DOMAIN t = 1..(Len(toWorker[w]) + 1) /\ t[Len(toWorker[w]) + 1] = a
        /\ \A i \in DOMAIN toWorker[w] : i \in DOMAIN t /\ t[i] = toWorker[w][i]
        /\ \A i \in DOMAIN t : i \in DOMAIN toWorker[w] \/ i = Len(toWorker[w]) + 1
        /\ Len(toWorker[w]) + 1 \in DOMAIN t
        /\ pc'[c] # "running" => toWorker'[w] = t
  BY <1>14, <1>15, <1>16 DEF t
<1>17. \A v \in Workers : \A n \in DOMAIN toWorker'[v] :
         \/ n \in DOMAIN toWorker[v] /\ toWorker'[v][n] = toWorker[v][n]
         \/ v = w /\ pc'[c] # "running" /\ toWorker'[v][n] = a
  BY <1>16, <1>16a
<1>18. \A v \in Workers : \A n \in DOMAIN toWorker[v] :
         n \in DOMAIN toWorker'[v] /\ toWorker'[v][n] = toWorker[v][n]
  BY <1>16, <1>16a
<1>19. got[c] = None
  BY <1>1, <1>4 DEF AnswersOK
(* A worker that awaits this get has no other answer on its way.            *)
<1>20. Waits(w) => toWorker[w] = <<>>
  <2> SUFFICES ASSUME Waits(w), toWorker[w] # <<>> PROVE FALSE
    OBVIOUS
  <2>1. 1 \in DOMAIN toWorker[w]
    BY <1>14
  <2>2. PICK x \in Calls : GetCall(x) /\ caller[x] = w /\ Returned(x) /\ got[x] = None
    BY <2>1, <1>1, <1>14 DEF AnswersOK
  <2>3. blocked[w] = x /\ blocked[w] = c
    BY <2>2, <1>1, <1>6, <1>19 DEF BlockedOK, w
  <2> QED  BY <2>2, <2>3, <1>4
<1>21. \A v \in Workers : Waits(v) => Len(toWorker'[v]) <= 1
  <2> SUFFICES ASSUME NEW v \in Workers, Waits(v) PROVE Len(toWorker'[v]) <= 1
    OBVIOUS
  <2>1. CASE v # w \/ pc'[c] = "running"
    BY <2>1, <1>1, <1>16 DEF AnswersOK
  <2>2. CASE v = w /\ pc'[c] # "running"
    <3>1. Len(toWorker[w]) = 0
      BY <2>2, <1>20
    <3> QED  BY <3>1, <2>2, <1>15, <1>16
  <2> QED  BY <2>1, <2>2
<1>22. ASSUME NEW v \in Workers, NEW n \in DOMAIN toWorker'[v]
       PROVE  \E x \in Calls :
                /\ GetCall(x) /\ caller[x] = v /\ Returned(x)'
                /\ Ans(toWorker'[v][n], x)
                /\ toWorker'[v][n].items = held'[x]
                /\ Waits(v) => got[x] = None
  <2>1. CASE n \in DOMAIN toWorker[v] /\ toWorker'[v][n] = toWorker[v][n]
    <3>1. PICK x \in Calls :
                 /\ GetCall(x) /\ caller[x] = v /\ Returned(x)
                 /\ AnswersCall(toWorker[v][n], x)
                 /\ toWorker[v][n].items = held[x]
                 /\ Waits(v) => got[x] = None
      BY <2>1, <1>1 DEF AnswersOK
    <3>2. x # c
      BY <3>1, <1>4
    <3>3. Ans(toWorker'[v][n], x)
      BY <2>1, <3>1, <3>2, <1>3 DEF AnswersCall
    <3> QED  BY <2>1, <3>1, <3>2, <3>3, <1>3, <1>8
  <2>2. CASE v = w /\ pc'[c] # "running" /\ toWorker'[v][n] = a
    <3>1. Returned(c)'
      BY <2>2, <1>7 DEF Returned
    <3> QED  BY <2>2, <3>1, <1>6, <1>13, <1>19 DEF w
  <2> QED  BY <2>1, <2>2, <1>17
<1>23. ASSUME NEW x \in Calls, GetCall(x), Returned(x)', got[x] = None
       PROVE  \E n \in DOMAIN toWorker'[caller[x]] : Ans(toWorker'[caller[x]][n], x)
  <2>1. CASE x = c
    <3>1. pc'[c] # "running"
      BY <2>1, <1>23 DEF Returned
    <3>2. \E n \in DOMAIN toWorker'[w] : toWorker'[w][n] = a
      BY <3>1, <1>16a
    <3> QED  BY <2>1, <3>2, <1>13 DEF w
  <2>2. CASE x # c
    <3>1. PICK n \in DOMAIN toWorker[caller[x]] : AnswersCall(toWorker[caller[x]][n], x)
      BY <2>2, <1>1, <1>8, <1>23 DEF AnswersOK
    <3>2. caller[x] \in Workers
      BY <1>1, <1>23 DEF GetCall, CallsOK
    <3>3. n \in DOMAIN toWorker'[caller[x]] /\ toWorker'[caller[x]][n] = toWorker[caller[x]][n]
      BY <3>1, <3>2, <1>18
    <3>4. Ans(toWorker'[caller[x]][n], x)
      BY <2>2, <3>1, <3>3, <1>3, <1>5 DEF AnswersCall
    <3> QED  BY <3>3, <3>4
  <2> QED  BY <2>1, <2>2
<1>24. AnswersOK'
  <2>1. \A x \in Calls : got[x] # None => GetCall(x) /\ Returned(x)' /\ got[x] = held'[x]
    BY <1>1, <1>3, <1>8, <1>19 DEF AnswersOK
  <2> QED  BY <2>1, <1>2, <1>5, <1>6, <1>21, <1>22, <1>23 DEF AnswersOK, AnswersCall
(* The items go from the queue to the hands of the get.                     *)
<1>25. \A i : Stored(i)' <=> Stored(i)
  <2>1. PICK n \in Nat : /\ held'[c] = held[c] \o FirstOf(queue[Key(c)], n)
                         /\ queue'[Key(c)] = After(queue[Key(c)], n)
    BY <1>2, GetOutcome
  <2>2. \A k \in Keys : k # Key(c) => queue'[k] = queue[k]
    BY <1>2, GetOutcome
  <2>3. queue[Key(c)] \in Seq(Calls) /\ held[c] \in Seq(Calls)
    BY <1>1, <1>4, QueueTypes
  <2>4. FirstOf(queue[Key(c)], n) \in Seq(Calls)
    BY <2>3, FirstAndAfter
  <2>5. \A i : Has(queue[Key(c)], i) <=>
                 Has(FirstOf(queue[Key(c)], n), i) \/ Has(After(queue[Key(c)], n), i)
    BY <2>3, Parted
  <2>6. \A i : Has(held'[c], i) <=> Has(held[c], i) \/ Has(FirstOf(queue[Key(c)], n), i)
    BY <2>1, <2>3, <2>4, HasConcat
  <2>7. \A i : Has(queue[Key(c)], i) \/ Has(held[c], i) <=>
                 Has(queue'[Key(c)], i) \/ Has(held'[c], i)
    BY <2>1, <2>5, <2>6
  <2>8. \A i : Stored(i) <=> \/ Has(queue[Key(c)], i) \/ Has(held[c], i)
                             \/ \E k \in Keys : k # Key(c) /\ Has(queue[k], i)
                             \/ \E x \in Calls : x # c /\ GetCall(x) /\ Has(held[x], i)
    BY <1>4, <1>6 DEF Stored
  <2>9. \A i : Stored(i)' <=> \/ Has(queue'[Key(c)], i) \/ Has(held'[c], i)
                              \/ \E k \in Keys : k # Key(c) /\ Has(queue'[k], i)
                              \/ \E x \in Calls : x # c /\ GetCall(x) /\ Has(held'[x], i)
    BY <1>4, <1>6 DEF Stored
  <2>10. \A i : /\ (\E k \in Keys : k # Key(c) /\ Has(queue'[k], i))
                     <=> \E k \in Keys : k # Key(c) /\ Has(queue[k], i)
                /\ (\E x \in Calls : x # c /\ GetCall(x) /\ Has(held'[x], i))
                     <=> \E x \in Calls : x # c /\ GetCall(x) /\ Has(held[x], i)
    BY <2>2, <1>3
  <2> QED  BY <2>7, <2>8, <2>9, <2>10
<1>26. ItemsStored'
  BY <1>1, <1>3, <1>6, <1>25 DEF ItemsStored
<1>27. ChannelTypeOK'
  BY <1>1, <1>2, <1>3, <1>16 DEF ChannelTypeOK, M
<1> QED  BY <1>3, <1>8, <1>9, <1>10, <1>11, <1>12, <1>24, <1>26, <1>27 DEF ChannelInv


-----------------------------------------------------------------------------
(* Channel's invariant is inductive.                                        *)

LEMMA ChannelInvInit == ChannelInit => ChannelInv
<1> SUFFICES ASSUME ChannelInit PROVE ChannelInv
  OBVIOUS
<1>1. /\ Init
      /\ caller = [c \in Calls |-> None]
      /\ blocked = [w \in Workers |-> None]
      /\ opQueue = [w \in Workers |-> [k \in Keys |-> <<>>]]
      /\ executing = [w \in Workers |-> [k \in Keys |-> None]]
      /\ unsent = [w \in Workers |-> <<>>]
      /\ toChannel = [w \in Workers |-> <<>>]
      /\ toWorker = [w \in Workers |-> <<>>]
      /\ recvs = [w \in Workers |-> <<>>]
      /\ got = [c \in Calls |-> None]
  BY DEF ChannelInit, Init
<1>2. TypeOK /\ Loop(request, pc, ready, getters, putters)
  BY <1>1, InvInit, InvParts
<1>3. /\ \A c \in Calls : /\ request[c] = None /\ pc[c] = "idle" /\ held[c] = <<>>
                          /\ got[c] = None /\ ~Begun(c) /\ ~Returned(c)
      /\ \A c : ~PutCall(c) /\ ~GetCall(c)
  BY <1>1 DEF Init, Begun, Returned, PutCall, GetCall
<1>4. ChannelTypeOK
  BY <1>1, <1>2 DEF ChannelTypeOK
<1>5. CallsOK
  BY <1>3 DEF CallsOK
<1>6. OpsOK
  BY <1>1, <1>3, EmptyHas, EmptyIncreasing DEF OpsOK
<1>7. SendsOK
  BY <1>1, <1>3, EmptyHas, EmptyIncreasing DEF SendsOK, Unreceived
<1>8. BlockedOK
  BY <1>1, <1>3 DEF BlockedOK
<1>9. RecvsOK
  BY <1>1, <1>3, EmptyHas DEF RecvsOK
<1>10. AnswersOK
  BY <1>1, <1>3 DEF AnswersOK
<1>11. ItemsStored
  BY <1>1, <1>3, EmptyHas DEF ItemsStored, Stored, Init
<1> QED  BY <1>2, <1>4, <1>5, <1>6, <1>7, <1>8, <1>9, <1>10, <1>11 DEF ChannelInv

LEMMA ChannelStutter ==
  ASSUME ChannelInv, UNCHANGED channelVars
  PROVE  ChannelInv'
<1>1. /\ UNCHANGED <<request, pc, held, queue, getters, putters, ready>>
      /\ UNCHANGED <<caller, blocked, opQueue, executing, unsent, toChannel, toWorker, recvs, got>>
  BY DEF channelVars, vars, workerVars
<1>2. /\ TypeOK' /\ Loop(request, pc, ready, getters, putters)'
      /\ CallsOK' /\ OpsOK' /\ SendsOK' /\ BlockedOK' /\ RecvsOK' /\ AnswersOK' /\ ItemsStored'
  BY <1>1, WorkerFrame DEF SameCalls
<1>3. ChannelTypeOK'
  BY <1>1, <1>2, ChannelParts DEF ChannelTypeOK
<1> QED  BY <1>2, <1>3 DEF ChannelInv

LEMMA ChannelInvNext ==
  ASSUME ChannelInv, Disciplined, ChannelNext
  PROVE  ChannelInv'
<1>1. CASE ActorLoop
  BY <1>1, ChannelActorPut, ChannelActorGet DEF ActorLoop
<1>2. CASE \E c \in Calls, o \in Offers : Begin(c, o.worker, o.request, o.sync)
  <2>1. PICK c \in Calls, o \in Offers : Begin(c, o.worker, o.request, o.sync)
    BY <1>2
  <2>2. /\ o.worker \in Workers /\ o.request \in Requests /\ o.sync \in BOOLEAN
        /\ Offer(o.worker, o.request, o.sync) = o
    BY OffersAssumption DEF Offer
  <2> QED  BY <2>1, <2>2, ChannelBegin
<1>3. CASE \E w \in Workers : End(w) \/ Communication(w)
  <2>1. PICK w \in Workers : End(w) \/ Communication(w)
    BY <1>3
  <2>2. CASE End(w)
    BY <2>2, ChannelEnd
  <2>3. CASE Communication(w)
    <3>2. CASE Send(w)
      BY <3>2, ChannelSend
    <3>3. CASE Deliver(w)
      BY <3>3, ChannelDeliver
    <3>4. CASE \E k \in Keys : Execute(w, k) \/ Reply(w, k)
      BY <3>4, ChannelExecute, ChannelReply
    <3> QED  BY <2>3, <3>2, <3>3, <3>4 DEF Communication
  <2> QED  BY <2>1, <2>2, <2>3
<1> QED  BY <1>1, <1>2, <1>3 DEF ChannelNext

(* Whatever workers of these habits begin, with any number of workers, of   *)
(* calls and of keys, the invariant holds in every reachable state.         *)
THEOREM ChannelInvariance ==
  ASSUME Disciplined
  PROVE  ChannelSpec => []ChannelInv
<1>1. ChannelInv /\ [ChannelNext]_channelVars => ChannelInv'
  BY ChannelInvNext, ChannelStutter
<1> QED  BY <1>1, ChannelInvInit, PTL DEF ChannelSpec

-----------------------------------------------------------------------------
(* What it is for.                                                          *)

(* Each call handles its own items: AsyncChannelCommWork hands every answer *)
(* to the get it is for, and no item is received by another put.            *)
THEOREM EachCallItsOwnThm ==
  ASSUME Disciplined
  PROVE  ChannelSpec => []EachCallItsOwn
<1>1. ChannelInv => EachCallItsOwn
  <2> SUFFICES ASSUME ChannelInv PROVE EachCallItsOwn
    OBVIOUS
  <2>1. ChannelTypeOK /\ CallsOK /\ AnswersOK
    BY ChannelParts
  <2>3. \A c \in Calls : got[c] # None => Returned(c) /\ got[c] = held[c]
    BY <2>1 DEF AnswersOK
  <2>4. \A c \in Calls : pc[c] = "QueueFull" => held[c] = <<c>>
    BY <2>1 DEF CallsOK
  <2> QED  BY <2>1, <2>3, <2>4 DEF EachCallItsOwn
<1> QED  BY <1>1, ChannelInvariance, PTL

(* No answer is spent on another operation: a get that has returned has its *)
(* data, or its answer is still on the way.                                 *)
THEOREM NoAnswerAstrayThm ==
  ASSUME Disciplined
  PROVE  ChannelSpec => []NoAnswerAstray
<1>1. ChannelInv => NoAnswerAstray
  <2> SUFFICES ASSUME ChannelInv, NEW c \in Calls, Begun(c), ~IsPut(c), Returned(c),
                      toWorker[caller[c]] = <<>>, got[c] = None
               PROVE  FALSE
    BY DEF NoAnswerAstray
  <2>1. AnswersOK
    BY ChannelParts
  <2>2. GetCall(c)
    BY DEF GetCall, IsPut, Puts
  <2>3. PICK n \in DOMAIN toWorker[caller[c]] : AnswersCall(toWorker[caller[c]][n], c)
    BY <2>1, <2>2 DEF AnswersOK
  <2> QED  BY <2>3
<1> QED  BY <1>1, ChannelInvariance, PTL

(* The puts of one worker under one key are accepted in the order in which  *)
(* it began them: the later one runs when the earlier one has returned, and *)
(* a plain put returns with its item in the queue.                          *)
THEOREM PutsInOrderThm ==
  ASSUME Disciplined
  PROVE  ChannelSpec => []PutsInOrder
<1>1. ChannelInv => PutsInOrder
  <2> SUFFICES ASSUME ChannelInv, NEW b \in Calls, NEW c \in Calls,
                      b < c, Begun(b), Begun(c), caller[b] = caller[c],
                      request[b].op = "put", request[c].op = "put",
                      request[b].key = request[c].key, Accepted(c)
               PROVE  Accepted(b)
    BY DEF PutsInOrder
  <2>1. ChannelTypeOK /\ CallsOK /\ OpsOK /\ ItemsStored
    BY ChannelParts
  <2>2. \A i : Accepted(i) <=> Stored(i)
    <3>1. \A x \in Calls : Begun(x) /\ ~IsPut(x) <=> GetCall(x)
      BY DEF GetCall, IsPut, Puts
    <3> QED  BY <3>1 DEF Accepted, Stored, Has
  <2>3. pc[c] = "done"
    BY <2>1, <2>2 DEF ItemsStored
  <2>4. Returned(b)
    BY <2>1, <2>3 DEF OpsOK
  <2>5. pc[b] = "done"
    <3>1. pc[b] \in PC /\ pc[b] # "idle" /\ pc[b] # "running"
      BY <2>1, <2>4 DEF ChannelTypeOK, TypeOK, Returned
    <3>2. pc[b] # "QueueFull" /\ pc[b] # "QueueEmpty"
      BY <2>1 DEF CallsOK
    <3> QED  BY <3>1, <3>2 DEF PC
  <2>6. PutCall(b)
    BY DEF PutCall, Puts
  <2> QED  BY <2>1, <2>2, <2>5, <2>6 DEF ItemsStored
<1> QED  BY <1>1, ChannelInvariance, PTL
=============================================================================
